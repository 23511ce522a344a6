------------------------- MODULE CassandraSinkCluster -------------------------
(***************************************************************************)
(* CassandraSinkCluster (shotover/src/transforms/cassandra/sink_cluster):  *)
(* the transform of one client connection, its connections to the nodes,   *)
(* and the topology task that all transforms of the chain share.           *)
(*                                                                         *)
(* A call of send_message goes through the phases of x.pc: begin (node     *)
(* list, rewriting), flush (BatchMode::Isolated), route (one request at a  *)
(* time, "use" while a USE statement flushes the nodes), receive, await    *)
(* (complete_handshake without a node list) and end.  A connection holds the requests at the    *)
(* node (q), the responses that arrived (inq) and what CassandraConnection *)
(* and SinkConnection keep: the stream ids that are pending, their count,  *)
(* and a stored error; `gone` is a ghost, the requests that were lost with *)
(* it when it broke and were not reported yet.                             *)
(*                                                                         *)
(* External: the nodes, which answer, break connections, go up and down,   *)
(* leave, and send events about it.                                        *)
(***************************************************************************)
EXTENDS CassandraTokenRing, CassandraRewrite, TLC

CONSTANTS
    Nodes, NoNode,
    RackOf,             \* the rack of each node
    TokensAt,           \* the tokens of each node
    local_rack,         \* the rack of the local shotover node
    contact_points,
    Keyspace,           \* the keyspace of the prepared statement
    KeyToken,           \* the token of an EXECUTE's key
    Batches,            \* the batches of request kinds a client may send
    StreamIds,          \* the stream ids the client uses
    MayStop,            \* bound: the nodes that may stop
    MaxMessages,        \* bound: requests, those shotover adds included
    MaxFaults           \* bound: broken connections and nodes that stop or leave

VARIABLES
    x,          \* the transform
    conns,      \* its connections: the control connection and one per node
    task,       \* the topology task
    watch,      \* nodes_tx and keyspaces_tx: the node list and its version
    handshake,  \* task_handshake: the contents of a channel of size 1
    members, up,    \* the nodes of the cluster and those that run
    waiting,    \* the client's requests that have no response yet
    lost,       \* ghost: the client's requests that get no response any more
    stray,      \* a response reached the client that no request of its waited for
    faults

vars == <<x, conns, task, watch, handshake, members, up, waiting, lost, stray, faults>>
taskVars == <<task, watch>>
envVars == <<members, up, faults>>

Control == "control"
Slots == Nodes \cup {Control}
Closed == [node |-> NoNode, st |-> "closed", err |-> FALSE, q |-> <<>>, inq |-> <<>>,
           pend |-> {}, count |-> 0, ids |-> <<>>, gone |-> {}]
NewConnection(node) == [Closed EXCEPT !.node = node, !.st = "up"]

\* CassandraSinkClusterBuilder::build.  nodes is NodePool::nodes: a function
\* from the listed nodes to is_up.
NewTransform ==
    [pc |-> "idle", version |-> FALSE, handshake_complete |-> FALSE, address |-> NoNode,
     nodes |-> <<>>, seen |-> 0, keyspaces |-> FALSE, to_rewrite |-> <<>>, destinations |-> <<>>,
     prepared |-> FALSE, requests |-> <<>>, isolated |-> FALSE, flush |-> <<>>,
     responses |-> {}, nextId |-> 1]

Init ==
    /\ x = NewTransform
    /\ conns = [c \in Slots |-> Closed]
    /\ task = [pc |-> "idle", address |-> NoNode, nodes |-> <<>>, events |-> <<>>]
    /\ watch = [nodes |-> <<>>, version |-> 0, keyspaces |-> FALSE]
    /\ handshake = NoNode
    /\ members = Nodes /\ up = Nodes
    /\ waiting = {} /\ lost = {} /\ stray = FALSE
    /\ faults = 0

-----------------------------------------------------------------------------
(* CassandraConnection over SinkConnection. *)

Requested(rs) == SelectSeq(rs, LAMBDA r : r.rid # NoId)

\* pending_into_errors: one error per pending stream id, without request_id.
PendingIntoErrors(k) == {Response(NoId, sid, "error", k.node) : sid \in k.pend}

\* process_responses and the count of SinkConnection: what is received is no
\* longer pending; the end of the connection is remembered.
Received(k) ==
    LET answers == Requested(k.inq)
    IN [k EXCEPT !.inq = <<>>, !.pend = @ \ {answers[i].sid : i \in DOMAIN answers},
                 !.count = @ - Len(answers), !.err = @ \/ k.st = "broken"]

TryRecv(k) ==
    IF k.err \/ (k.inq = <<>> /\ k.st = "broken")
    THEN [k |-> [k EXCEPT !.err = TRUE, !.gone = {}], got |-> PendingIntoErrors(k), ok |-> FALSE]
    ELSE [k |-> Received(k), got |-> ToSet(k.inq), ok |-> TRUE]

\* recv_all_pending, and when it can return.
CanRecvAll(k) == k.err \/ k.st = "broken" \/ k.count <= Len(Requested(k.inq))
RecvAllPending(k) ==
    IF k.count = 0 \/ k.err THEN TryRecv(k)
    ELSE LET r == Received(k)
         IN [k |-> IF r.count = 0 THEN r ELSE [r EXCEPT !.gone = {}], ok |-> r.count = 0,
             got |-> ToSet(k.inq) \cup (IF r.count = 0 THEN {} ELSE PendingIntoErrors(r))]

\* send, on a connection whose end was not noticed: the request is pending,
\* and gone if the connection is.  The encoder tells the decoder which request
\* a stream id stands for.
SendTo(k, request) ==
    [k EXCEPT !.pend = @ \cup {request.sid}, !.count = @ + 1,
              !.q = IF k.st = "up" THEN Append(@, request) ELSE @,
              !.gone = IF k.st = "up" THEN @ ELSE @ \cup {request.id},
              !.ids = IF k.st = "up" THEN (request.sid :> request.id) @@ @ ELSE @]

-----------------------------------------------------------------------------
(* NodePool.  A step of the transform works on a state s: the transform,    *)
(* its connections, the requests lost with one, and how the call ended if   *)
(* it did: "" or "failed" (it returns an error) or "panic".                 *)

State == [x |-> x, conns |-> conns, lost |-> lost, end |-> ""]

\* Make the outcome s of a step the state, with y the transform.  After an
\* error the client's connection is closed.
Becomes(s, y) ==
    /\ x' = IF s.end = "" THEN y ELSE [NewTransform EXCEPT !.pc = s.end]
    /\ conns' = IF s.end = "" THEN s.conns ELSE [c \in Slots |-> Closed]
    /\ lost' = IF s.end = "" THEN s.lost ELSE {}
    /\ waiting' = IF s.end = "" THEN waiting ELSE {}
    /\ UNCHANGED stray

Listed(s) == DOMAIN s.x.nodes
UpNodes(s) == {n \in Listed(s) : s.x.nodes[n]}
InRack(s) == {n \in UpNodes(s) : RackOf[n] = local_rack}

\* The requests of the client that wait for connection k.
Outstanding(k) ==
    {w \in waiting : \/ \E i \in DOMAIN k.q : k.q[i].id = w.id
                     \/ \E i \in DOMAIN k.inq : k.inq[i].rid = w.id
                     \/ k.st = "broken" /\ w.sid \in k.pend}

ReportIssue(s, failed) ==
    [s EXCEPT !.x.nodes = [n \in DOMAIN @ |-> @[n] /\ n \notin failed],
              !.conns = [c \in Slots |-> IF c \in failed THEN Closed ELSE @[c]]]

\* get_connection.
Accessible(s, n) == s.conns[n].st # "closed" \/ n \in up
GetConnection(s, n) ==
    IF s.conns[n].st # "closed" THEN s ELSE [s EXCEPT !.conns[n] = NewConnection(n)]

\* get_accessible_node over the candidates in any order: the ones that were
\* tried in vain are reported.  NoNode if all were.
GetAccessibleNode(s, candidates) ==
    LET good == {n \in candidates : Accessible(s, n)}
        bad == candidates \ good
    IN IF good = {} THEN {[s |-> ReportIssue(s, bad), node |-> NoNode]}
       ELSE {[s |-> GetConnection(ReportIssue(s, tried), n), node |-> n] :
                tried \in SUBSET bad, n \in good}

\* set_control_connection with a connection of get_random_owned_connection:
\* the control connection it replaces is dropped with what is pending on it.
SetControlConnection(r) ==
    IF r.node = NoNode THEN [r.s EXCEPT !.end = "failed"]
    ELSE [r.s EXCEPT !.conns[Control] = r.s.conns[r.node], !.conns[r.node] = Closed,
                     !.x.address = r.node, !.lost = @ \cup Outstanding(r.s.conns[Control])]

RandomControl(s) == {SetControlConnection(r) : r \in GetAccessibleNode(s, InRack(s))}

\* update_nodes: the new list, with the connections of nodes that are in it
\* and up; the others are dropped with what is pending on them.
UpdateNodes(s) ==
    LET kept == {Control} \cup {n \in DOMAIN watch.nodes : watch.nodes[n]}
    IN [s EXCEPT !.x.seen = watch.version, !.x.nodes = watch.nodes,
                 !.conns = [c \in Slots |-> IF c \in kept THEN @[c] ELSE Closed],
                 !.lost = @ \cup UNION {Outstanding(s.conns[c]) : c \in Slots \ kept}]

-----------------------------------------------------------------------------
(* send_message. *)

Dummy(request) == request.kind = "dummy"
Open(s) == {c \in Slots : s.conns[c].st # "closed"}

\* The client gives each request of a batch a stream id it is not using.
Numbered(kinds) ==
    LET free == SetToSortSeq(StreamIds \ {w.sid : w \in waiting}, <)
    IN [i \in DOMAIN kinds |-> [id |-> x.nextId + i - 1, sid |-> free[i], kind |-> kinds[i]]]

\* A client first sends STARTUP, and waits until the server is ready.
FollowsProtocol(kinds) ==
    \A i \in DOMAIN kinds : \/ kinds[i] = "dummy"
                            \/ x.handshake_complete = (kinds[i] # "startup")
                               /\ (kinds[i] = "startup" => waiting = {})

\* The client sends a batch, or the chain runs without requests.  Until the
\* protocol version is known from a request there is nothing to do.
Begin(kinds) ==
    LET requests == Numbered(kinds)
        y == [x EXCEPT !.requests = requests, !.nextId = @ + Len(requests),
                       !.version = @ \/ \E r \in ToSet(requests) : ~Dummy(r), !.pc = "begin"]
    IN /\ x.pc = "idle"
       /\ FollowsProtocol(kinds)
       /\ kinds # <<>> => x.nextId + Len(kinds) <= MaxMessages + 1
       /\ Len(kinds) + Cardinality(waiting) <= Cardinality(StreamIds)
       /\ waiting' = waiting \cup {[id |-> r.id, sid |-> r.sid] : r \in ToSet(requests)}
       /\ x' = IF y.version THEN y
               ELSE [y EXCEPT !.pc = "end", !.requests = <<>>,
                              !.responses = {Response(r.id, r.sid, "dummy", NoNode)
                                               : r \in ToSet(requests)}]
       /\ UNCHANGED <<conns, taskVars, handshake, envVars, lost, stray>>

\* A changed node list is taken over, and the control connection moves if its
\* node is not up any more; so are the keyspaces.
NodesObserved ==
    LET s == UpdateNodes(State)
        t(r) == [r EXCEPT !.x.keyspaces = watch.keyspaces]
    IN IF watch.version = x.seen THEN {t(State)}
       ELSE IF x.address = NoNode \/ x.address \in UpNodes(s) THEN {t(s)}
       ELSE {t(r) : r \in RandomControl(s)}

\* The nodes the copies of a PREPARE go to.
Destinations(s, tables) ==
    LET order == SetToSeq(UpNodes(s))
        prepares == {t \in ToSet(tables) : t.ty = "prepare" /\ order # <<>>}
    IN [id \in UNION {ToSet(t.ids) : t \in prepares} |->
          LET t == CHOOSE t \in prepares : id \in ToSet(t.ids)
          IN order[CHOOSE k \in DOMAIN t.ids : t.ids[k] = id]]

\* rewrite_requests: the extra requests, and connections to all nodes a
\* PREPARE goes to.
BatchRewritten(s) ==
    LET r == RewriteRequests(s.x.requests, s.x.nextId, UpNodes(s))
        destinations == Destinations(s, r.tables) @@ s.x.destinations
        targets == IF \E t \in ToSet(r.tables) : t.ty = "prepare"
                   THEN {destinations[id] : id \in DOMAIN destinations} \cap Listed(s) ELSE {}
        opened == FoldSet(LAMBDA n, acc : GetConnection(acc, n), s, targets)
    IN [opened EXCEPT !.end = IF \A n \in targets : Accessible(s, n) THEN @ ELSE "failed",
                      !.x.requests = r.messages, !.x.nextId = r.nextId,
                      !.x.to_rewrite = @ \o r.tables, !.x.destinations = destinations,
                      !.x.isolated = r.tables # <<>>]

\* Variant: batches with extra requests are pipelined like the others.
PreparePipelined ==
    /\ x.pc = "begin"
    /\ \E r \in NodesObserved :
         LET s == BatchRewritten(r) IN Becomes(s, [s.x EXCEPT !.pc = "flush", !.isolated = FALSE])
    /\ UNCHANGED <<taskVars, handshake, envVars>>

\* send_message up to the flush of all connections an isolated batch begins
\* with.
Prepare ==
    /\ x.pc = "begin"
    /\ \E r \in NodesObserved :
         LET s == BatchRewritten(r)
         IN Becomes(s, [s.x EXCEPT !.flush = IF s.x.isolated THEN SetToSeq(Open(s)) ELSE <<>>,
                                   !.pc = "flush"])
    /\ UNCHANGED <<taskVars, handshake, envVars>>

\* The requests of the client that get no response because a connection failed
\* with the requests `gone`, leaving it with the stream ids pend: a query of
\* shotover's own was among them, whose error names no request, and the entry
\* of to_rewrite that needs its answer keeps the others for good.
Swallowed(s, gone, pend) ==
    {w \in waiting : /\ w.sid \notin pend
                     /\ \E t \in ToSet(s.x.to_rewrite) :
                          w.id \in ToSet(t.ids) /\ ToSet(t.ids) \cap gone # {}}

\* What a connection received joins the responses; a node whose connection
\* failed is reported.
Take(s, c, r) ==
    LET t == [s EXCEPT !.conns[c] = r.k, !.x.responses = @ \cup r.got,
                       !.lost = @ \cup IF r.ok THEN {} ELSE Swallowed(s, s.conns[c].gone, r.k.pend)]
    IN IF r.ok \/ c = Control THEN t ELSE ReportIssue(t, {c})

\* recv_all_pending of one connection after another, before and after an
\* isolated batch is sent.
FlushOne ==
    /\ x.pc \in {"flush", "receive"}
    /\ x.flush # <<>>
    /\ LET c == Head(x.flush)
           s == Take(State, c, RecvAllPending(conns[c]))
       IN /\ CanRecvAll(conns[c])
          /\ Becomes(s, [s.x EXCEPT !.flush = Tail(@)])
    /\ UNCHANGED <<taskVars, handshake, envVars>>

\* The initial control connection: to a node of the rack if one is known to
\* be up, else to a contact point.
InitialControl ==
    IF conns[Control].st # "closed" THEN {State}
    ELSE IF InRack(State) # {} THEN RandomControl(State)
    ELSE IF contact_points \cap up = {} THEN {[State EXCEPT !.end = "failed"]}
    ELSE {[State EXCEPT !.conns[Control] = NewConnection(n), !.x.address = n]
             : n \in contact_points \cap up}

ConnectControl ==
    /\ x.pc = "flush"
    /\ x.flush = <<>>
    /\ \E s \in InitialControl : Becomes(s, [s.x EXCEPT !.pc = "route"])
    /\ UNCHANGED <<taskVars, handshake, envVars>>

-----------------------------------------------------------------------------
(* route_requests. *)

\* connection.send(..)?
SendOn(s, c, request) ==
    IF s.conns[c].err THEN [s EXCEPT !.end = "failed"]
    ELSE [s EXCEPT !.conns[c] = SendTo(@, request)]

\* send_error_in_response_to_message and _to_metadata.
Refuse(s, request) ==
    [s EXCEPT !.x.responses = @ \cup {Response(NoId, request.sid, "error", NoNode)}]

SendOrRefuse(r, request) ==
    IF r.node = NoNode THEN Refuse(r.s, request) ELSE SendOn(r.s, r.node, request)

\* Variant: the queries shotover adds go to any node.
ToControlClientOnly(request) ==
    \/ Listed(State) = {} \/ ~x.handshake_complete
    \/ request.kind \in {"ddl", "local", "peers", "use"}

\* DDL statements, queries of system tables and USE go to the control
\* connection, and everything does before the handshake is complete.
ToControl(request) ==
    \/ Listed(State) = {} \/ ~x.handshake_complete
    \/ request.kind \in {"ddl", "local", "peers", "internal", "use"}

\* A PREPARE without a destination hits unreachable!().
RoutePrepare(request) ==
    LET s == [State EXCEPT !.x.destinations = [i \in DOMAIN @ \ {request.id} |-> @[i]]]
        n == x.destinations[request.id]
    IN IF request.id \notin DOMAIN x.destinations THEN [s EXCEPT !.end = "panic"]
       ELSE IF n \notin Listed(s) THEN [s EXCEPT !.end = "failed"]
       ELSE IF Accessible(s, n) THEN SendOn(GetConnection(s, n), n, request)
       ELSE Refuse(s, request)

\* get_replica_node_in_dc and get_replica_connection_in_dc: replicas that are
\* up, first the ones in the rack.
Replicas(s) ==
    LET list == {[host |-> n, rack |-> RackOf[n], tokens |-> TokensAt[n]] : n \in Listed(s)}
    IN ReplicaNodes(NewRing(list), list, KeyToken, Keyspace) \cap UpNodes(s)

ReplicaConnection(s) ==
    LET near == Replicas(s) \cap InRack(s)
    IN UNION {IF r.node # NoNode THEN {r} ELSE GetAccessibleNode(r.s, Replicas(s) \ near)
                : r \in GetAccessibleNode(s, near)}

RouteExecute(request) ==
    IF ~x.prepared THEN {Refuse(State, request)}
    ELSE {SendOrRefuse(r, request) : r \in IF x.keyspaces THEN ReplicaConnection(State)
                                           ELSE GetAccessibleNode(State, InRack(State))}

Routed(request) ==
    IF Dummy(request)
    THEN {[State EXCEPT !.x.responses =
                 @ \cup {Response(request.id, request.sid, "dummy", NoNode)}]}
    ELSE IF ToControl(request) THEN {SendOn(State, Control, request)}
    ELSE CASE request.kind = "prepare" -> {RoutePrepare(request)}
           [] request.kind = "execute" -> RouteExecute(request)
           [] OTHER -> {SendOrRefuse(r, request) : r \in GetAccessibleNode(State, InRack(State))}

\* The next request can be routed: after a USE once all nodes are closed.
Routing == x.pc = "route" \/ (x.pc = "use" /\ Open(State) \subseteq {Control})

RouteOne ==
    LET request == Head(x.requests)
        use == request.kind = "use" /\ x.handshake_complete /\ Listed(State) # {}
    IN /\ Routing
       /\ x.requests # <<>>
       /\ \E s \in Routed(request) :
            Becomes(s, [s.x EXCEPT !.requests = Tail(@), !.pc = IF use THEN "use" ELSE "route"])
       /\ UNCHANGED <<taskVars, handshake, envVars>>

\* Variant: the connections are closed without waiting for the responses.
UseClosesOneAtOnce ==
    /\ x.pc = "use"
    /\ \E n \in Open(State) \ {Control} :
         Becomes([State EXCEPT !.conns[n] = Closed], x)
    /\ UNCHANGED <<taskVars, handshake, envVars>>

\* After a USE statement the connections of all nodes are closed, each once
\* the responses that are pending on it are in.
UseClosesOne ==
    /\ x.pc = "use"
    /\ \E n \in Open(State) \ {Control} :
         LET r == RecvAllPending(conns[n])
         IN /\ CanRecvAll(conns[n])
            /\ Becomes([State EXCEPT !.conns[n] = Closed, !.end = IF r.ok THEN "" ELSE "failed"],
                       [x EXCEPT !.responses = @ \cup r.got])
    /\ UNCHANGED <<taskVars, handshake, envVars>>

\* All requests are sent: receive from all connections, waiting or not.
RouteEnds ==
    LET s == FoldSet(LAMBDA c, acc : Take(acc, c, TryRecv(acc.conns[c])), State, Open(State))
    IN /\ Routing
       /\ x.requests = <<>>
       /\ IF x.isolated
          THEN Becomes(State, [x EXCEPT !.pc = "receive", !.flush = SetToSeq(Open(State))])
          ELSE Becomes(s, [s.x EXCEPT !.pc = "receive"])
       /\ UNCHANGED <<taskVars, handshake, envVars>>

\* complete_handshake, once the server is ready.  The task gets the handshake
\* unless it has one to take; without a node list the call waits for one.
Completes == ~x.handshake_complete /\ \E r \in x.responses : r.kind = "ready"

CompleteHandshake ==
    /\ x.pc = "receive" /\ x.flush = <<>>
    /\ Completes
    /\ handshake' = IF handshake = NoNode THEN x.address ELSE handshake
    /\ x' = [x EXCEPT !.handshake_complete = TRUE,
                      !.pc = IF Listed(State) = {} THEN "await" ELSE "end"]
    /\ UNCHANGED <<conns, taskVars, envVars, waiting, lost, stray>>

\* The list is there; the control connection moves into the rack.
AwaitNodes ==
    /\ x.pc = "await"
    /\ watch.version # x.seen
    /\ \E s \in RandomControl(UpdateNodes(State)) : Becomes(s, [s.x EXCEPT !.pc = "end"])
    /\ UNCHANGED <<taskVars, handshake, envVars>>

Ending == x.pc = "end" \/ (x.pc = "receive" /\ x.flush = <<>> /\ ~Completes)

\* rewrite_responses; events about nodes are removed, the rest is returned.
\* The client takes a response for that of its request with the stream id.
End ==
    LET r == RewriteResponses(x.to_rewrite, x.responses)
        shown == {m \in r.responses : m.kind # "event"}
        sids == {m.sid : m \in shown}
    IN /\ Ending
       /\ x' = [x EXCEPT !.pc = "idle", !.isolated = FALSE, !.to_rewrite = r.tables, !.responses = {},
                         !.prepared = @ \/ \E m \in r.responses : m.kind = "prepared"]
       /\ waiting' = {w \in waiting : w.sid \notin sids}
       /\ stray' = (\/ stray \/ Cardinality(shown) # Cardinality(sids)
                    \/ \E sid \in sids : \A w \in waiting : w.sid # sid)
       /\ UNCHANGED <<conns, taskVars, handshake, envVars, lost>>

-----------------------------------------------------------------------------
(* The topology task (topology.rs). *)

Publish(nodes) == watch' = [watch EXCEPT !.nodes = nodes, !.version = @ + 1]
TaskFails == task' = [pc |-> "idle", address |-> NoNode, nodes |-> <<>>, events |-> <<>>]

\* create_topology_task takes a handshake and connects to its node.
TaskStarts ==
    /\ task.pc = "idle"
    /\ handshake # NoNode
    /\ handshake' = NoNode
    /\ IF handshake \in up THEN task' = [task EXCEPT !.pc = "fetch", !.address = handshake]
       ELSE TaskFails
    /\ UNCHANGED <<x, conns, watch, envVars, waiting, lost, stray>>

\* fetch_current_nodes: all nodes are taken to be up.
TaskFetches ==
    LET nodes == [n \in members |-> TRUE]
    IN /\ task.pc = "fetch"
       /\ task' = [task EXCEPT !.pc = "register", !.nodes = nodes]
       /\ Publish(nodes)
       /\ UNCHANGED <<x, conns, handshake, envVars, waiting, lost, stray>>

\* The keyspaces are read and events asked for.
TaskRegisters ==
    /\ task.pc = "register"
    /\ task' = [task EXCEPT !.pc = "listen"]
    /\ watch' = [watch EXCEPT !.keyspaces = TRUE]
    /\ UNCHANGED <<x, conns, handshake, envVars, waiting, lost, stray>>

\* The loop over events.  On NewNode the nodes are queried, and the events
\* that come in before the answers are thrown away.
TaskHandlesEvent ==
    LET event == Head(task.events)
        rest == Tail(task.events)
        old == task.nodes
        nodes == CASE event.change = "new" ->
                        [n \in members |-> n \in DOMAIN old => old[n]]
                   [] event.change = "removed" ->
                        [n \in DOMAIN old \ {event.node} |-> old[n]]
                   [] OTHER ->
                        [n \in DOMAIN old |-> IF n = event.node THEN event.change = "up" ELSE old[n]]
    IN /\ task.pc = "listen"
       /\ task.events # <<>>
       /\ \E kept \in IF event.change = "new" THEN {SubSeq(rest, 1, k) : k \in 0..Len(rest)}
                      ELSE {rest} :
            task' = [task EXCEPT !.nodes = nodes, !.events = kept]
       /\ Publish(nodes)
       /\ UNCHANGED <<x, conns, handshake, envVars, waiting, lost, stray>>

\* Another client completes its handshake while the task has none.
OtherHandshake ==
    /\ task.pc = "idle"
    /\ handshake = NoNode
    /\ handshake' \in up
    /\ UNCHANGED <<x, conns, taskVars, envVars, waiting, lost, stray>>

-----------------------------------------------------------------------------
(* The cluster. *)

AnswerKind(request) ==
    CASE request.kind = "startup" -> {"ready"}
      [] request.kind = "prepare" -> {"prepared", "error"}
      [] OTHER -> {"rows"}

\* A node answers a request, not necessarily the oldest; the decoder gives the
\* answer the request id its stream id stands for.
NodeAnswers(c) ==
    LET k == conns[c]
    IN /\ k.st = "up"
       /\ \E i \in DOMAIN k.q : \E kind \in AnswerKind(k.q[i]) :
            LET sid == k.q[i].sid
                rid == IF sid \in DOMAIN k.ids THEN k.ids[sid] ELSE NoId
            IN conns' = [conns EXCEPT ![c].q = RemoveAt(@, i),
                                      ![c].inq = Append(@, Response(rid, sid, kind, k.node)),
                                      ![c].ids = [j \in DOMAIN @ \ {sid} |-> @[j]]]
       /\ UNCHANGED <<x, taskVars, handshake, envVars, waiting, lost, stray>>

Broken(k) == [k EXCEPT !.st = "broken", !.q = <<>>, !.ids = <<>>,
                       !.gone = @ \cup {k.q[i].id : i \in DOMAIN k.q}]

ConnectionBreaks(c) ==
    /\ faults < MaxFaults
    /\ conns[c].st = "up"
    /\ conns' = [conns EXCEPT ![c] = Broken(@)]
    /\ faults' = faults + 1
    /\ UNCHANGED <<x, taskVars, handshake, members, up, waiting, lost, stray>>

\* The task's node tells it about others; when it stops itself, the task fails.
Announce(n, change) ==
    IF change \in {"down", "removed"} /\ task.address = n THEN TaskFails
    ELSE task' = IF task.pc = "listen"
                 THEN [task EXCEPT !.events = Append(@, [node |-> n, change |-> change])]
                 ELSE task

\* A node stops, for a while or for good.
NodeStops(n, change) ==
    /\ faults < MaxFaults
    /\ n \in up
    /\ up' = up \ {n}
    /\ members' = IF change = "removed" THEN members \ {n} ELSE members
    /\ conns' = [c \in Slots |-> IF conns[c].node = n THEN Broken(conns[c]) ELSE conns[c]]
    /\ faults' = faults + 1
    /\ Announce(n, change)
    /\ UNCHANGED <<x, watch, handshake, waiting, lost, stray>>

NodeStarts(n) ==
    /\ n \in Nodes \ up
    /\ up' = up \cup {n}
    /\ members' = members \cup {n}
    /\ Announce(n, IF n \in members THEN "up" ELSE "new")
    /\ UNCHANGED <<x, conns, watch, handshake, waiting, lost, stray, faults>>

\* After an error the client is gone.
Gone == x.pc \in {"failed", "panic"} /\ UNCHANGED vars

Next ==
    \/ \E kinds \in Batches : Begin(kinds)
    \/ Prepare \/ FlushOne \/ ConnectControl \/ RouteOne \/ UseClosesOne \/ RouteEnds
    \/ CompleteHandshake \/ AwaitNodes \/ End
    \/ TaskStarts \/ TaskFetches \/ TaskRegisters \/ TaskHandlesEvent \/ OtherHandshake
    \/ \E c \in Slots : NodeAnswers(c) \/ ConnectionBreaks(c)
    \/ \E n \in MayStop : \E change \in {"down", "removed"} : NodeStops(n, change)
    \/ \E n \in Nodes : NodeStarts(n)
    \/ Gone

Spec == Init /\ [][Next]_vars

-----------------------------------------------------------------------------
(* Properties. *)

\* No two requests that share a connection have the same stream id, although
\* shotover makes up stream ids for the queries it adds and sends copies of a
\* PREPARE under the client's: BatchMode::Isolated keeps them apart.  The
\* decoder would give both responses to one request.
OneRequestPerStream ==
    \A c \in Slots :
        LET k == conns[c]
            sids == [i \in DOMAIN k.q |-> k.q[i].sid] \o [i \in DOMAIN k.inq |-> k.inq[i].sid]
        IN Cardinality(ToSet(sids)) = Len(sids)

\* While the client waits for a response, one is still on its way.  Its request
\* is yet to be sent, or on a connection whose failure will be reported under
\* its stream id, or among the errors of this call; or it is at a node or
\* answered, and if an entry of to_rewrite stands for it so are all the other
\* requests of the entry, or their failure is not reported yet.  Only replacing
\* a connection (update_nodes, set_control_connection) and a failure of one of
\* shotover's own queries (Swallowed) lose requests.
AccountedFor ==
    LET sent == UNION {ToSet(conns[c].q) : c \in Slots}
        answers == x.responses \cup UNION {ToSet(conns[c].inq) : c \in Slots}
        pending == {r.id : r \in ToSet(x.requests) \cup sent} \cup {r.rid : r \in answers}
                   \cup UNION {conns[c].gone : c \in Slots}
        entries(w) == {t \in ToSet(x.to_rewrite) : w.id \in ToSet(t.ids)}
    IN \A w \in waiting :
         \/ w \in lost
         \/ \E c \in Slots : conns[c].st = "broken" /\ w.sid \in conns[c].pend
         \/ \E r \in x.responses : r.rid = NoId /\ r.sid = w.sid
         \/ IF entries(w) = {} THEN w.id \in pending
            ELSE \E t \in entries(w) : ToSet(t.ids) \subseteq pending \cup {r.rid : r \in t.got}

\* The answers that are combined into one view of system.local or system.peers
\* come from one node, whatever happens to the control connection: otherwise a
\* node would be missing from the view (the comment in route_requests).
OneViewOfTheCluster ==
    \A i \in DOMAIN x.to_rewrite :
        LET table == x.to_rewrite[i]
            answers == {r \in x.responses \cup table.got : r.rid \in ToSet(table.ids)}
        IN table.ty # "prepare" => \A r1, r2 \in answers : r1.node = r2.node

\* What nodes answered and a call returns is what the client waits for: each
\* such response has the stream id of a request without response, no two have
\* the same, and it answers that very request; or, after a PREPARE, a copy of it
\* that was sent to another node.  The answers to the requests that shotover
\* added are combined or kept, in whatever calls they arrive.  (Of the errors
\* shotover makes for a broken connection, NoStrayResponse speaks.)
ExtraResponsesCombined ==
    LET answers == {r \in RewriteResponses(x.to_rewrite, x.responses).responses : r.rid # NoId}
        copies(w) == UNION {ToSet(t.ids) : t \in {t \in ToSet(x.to_rewrite) :
                               t.ty = "prepare" /\ t.ids[1] = w.id}}
    IN Ending =>
         \A r \in answers :
           /\ \E w \in waiting :
                w.sid = r.sid /\ (r.rid = w.id \/ (r.kind = "prepared" /\ r.rid \in copies(w)))
           /\ \A other \in answers : other.sid = r.sid => other = r

\* "Transforms must ensure that each request that passes through the transform
\* has a corresponding response returned for it" (transforms/mod.rs).
EveryRequestAnswered == lost = {}

\* "A response/request pair can be identified by calling `request_id()` on a
\* response" (transforms/mod.rs): the answer to a PREPARE has the client's id.
AnswersKeepTheirRequest ==
    Ending => \A r \in RewriteResponses(x.to_rewrite, x.responses).responses :
                r.rid # NoId => \E w \in waiting : w.id = r.rid

\* What transforms/mod.rs asks of a transform: each response of a call is that
\* of one request of the client.
NoStrayResponse == ~stray

\* unreachable!() of get_destination_for_prepare: every PREPARE has a node.
PrepareHasDestination == x.pc # "panic"

\* "topology task failed, retrying": while a call waits for a node list, the
\* task is working on one.
AwaitedListIsComing ==
    x.pc = "await" => watch.version # x.seen \/ task.pc # "idle" \/ handshake # NoNode
=============================================================================
