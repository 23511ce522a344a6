-------------------------- MODULE ValkeySinkCluster --------------------------
(***************************************************************************)
(* ValkeySinkCluster (shotover/src/transforms/valkey/sink_cluster.rs):     *)
(* client connections that share a pool of connections to a Valkey         *)
(* cluster and, as long as nobody authenticates, a topology.               *)
(*                                                                         *)
(* Each client has its own transform, whose state is a record of cl.  A    *)
(* call of transform goes through the phases of pc: init and fetch/connect *)
(* (build_connections), dispatch (one message at a time) and collect (the  *)
(* FuturesOrdered loop).  A future of the call is futs[id]: how many       *)
(* answers it still needs, how many of them are errors that are already    *)
(* there, and what the fold has made of the others.                        *)
(*                                                                         *)
(* External: the cluster itself, that moves slots, redirects, requires     *)
(* authentication, loses nodes and breaks connections.                     *)
(***************************************************************************)
EXTENDS ValkeyRouting, ClusterConnectionPool

CONSTANTS
    Clients,            \* client connections, one transform each
    Batches,            \* the batches of commands a client may send
    TokenOf,            \* the token of an AUTH command's password
    Slots,              \* the slots of the cluster, 0 .. SLOT_SIZE - 1
    Setups,             \* pairs: a cluster, and what direct_destination is (or NoNode)
    first_contact_points,
    MaxCalls,           \* bound: calls of transform, over all clients
    MaxFaults           \* bound: faults and slot moves

VARIABLES
    cl,                 \* the transform of each client
    shared_topology,    \* Arc<RwLock<Topology>>
    cluster,            \* the slots of the cluster: owner, migrating, replicas, auth
    direct_destination,
    faults, calls

vars == <<cl, shared_topology, cluster, direct_destination, faults, calls, poolVars>>

NoConnection == 0
EmptyTopology == [slots |-> EmptySlots, channels |-> [h \in {} |-> <<>>]]

\* ValkeySinkClusterBuilder::build and ValkeySinkCluster::new.
NewTransform ==
    [pc |-> "idle", has_run_init |-> FALSE, topology |-> EmptyTopology, token |-> NoToken,
     rebuild_connections |-> TRUE, direct_connection |-> NoConnection,
     why |-> "", want |-> NoToken, slots |-> EmptySlots, todo |-> <<>>,
     channels |-> [h \in {} |-> <<>>], errors |-> FALSE,
     batch |-> <<>>, next |-> 1, popped |-> 0, futs |-> <<>>, order |-> <<>>, out |-> <<>>,
     redirected |-> FALSE]

Init ==
    /\ PoolInit
    /\ cl = [c \in Clients |-> NewTransform]
    /\ shared_topology = EmptyTopology
    /\ \E setup \in Setups : cluster = setup[1] /\ direct_destination = setup[2]
    /\ faults = 0
    /\ calls = 0

-----------------------------------------------------------------------------
(* build_connections, asked for by the first call ("init"), by a topology   *)
(* that went stale ("rebuild") or by an AUTH command ("auth").              *)

StartBuild(x, why, token) ==
    [x EXCEPT !.pc = "fetch", !.why = why, !.want = token]

AfterInit(x) ==
    IF x.rebuild_connections THEN StartBuild(x, "rebuild", x.token)
    ELSE [x EXCEPT !.pc = "dispatch"]

\* One more future in the FuturesOrdered; the next message is up.
Push(x, fut) ==
    [x EXCEPT !.futs = Append(@, fut), !.order = Append(@, Len(x.futs) + 1),
              !.next = @ + 1,
              !.pc = IF x.next = Len(x.batch) THEN "collect" ELSE "dispatch"]

\* short_circuit and send_error_response: a future that is ready.
Ready(frame) == [left |-> 0, now |-> 0, acc |-> <<frame>>, join |-> "First"]

\* What the caller of build_connections does with its result.
EndBuild(x, ok) ==
    CASE x.why = "init" -> AfterInit([x EXCEPT !.has_run_init = TRUE])
      [] x.why = "rebuild" -> [x EXCEPT !.pc = "dispatch"]
      [] x.why = "auth" -> Push(x, Ready(IF ok THEN Value(x.next) ELSE Error))

Receive(c) ==
    /\ cl[c].pc = "idle"
    /\ calls < MaxCalls
    /\ \E b \in Batches :
         LET x == [cl[c] EXCEPT !.batch = b, !.next = 1, !.popped = 0, !.futs = <<>>,
                                !.order = <<>>, !.out = <<>>, !.pc = "init"]
         IN cl' = [cl EXCEPT ![c] = IF x.has_run_init THEN AfterInit(x) ELSE x]
    /\ calls' = calls + 1
    /\ UNCHANGED <<shared_topology, cluster, direct_destination, faults, poolVars>>

ReadShared(c) ==
    /\ cl[c].pc = "init"
    /\ LET x == [cl[c] EXCEPT !.topology = shared_topology]
       IN cl' = [cl EXCEPT ![c] =
                   IF DOMAIN x.topology.channels = {} THEN StartBuild(x, "init", x.token)
                   ELSE AfterInit([x EXCEPT !.has_run_init = TRUE])]
    /\ UNCHANGED <<shared_topology, cluster, direct_destination, faults, calls, poolVars>>

\* CLUSTER SLOTS, as a node answers it (external).
ClusterSlots ==
    LET owner == cluster.owner
        starts == {s \in Slots : owner[s] # NoNode
                                 /\ (s - 1 \notin Slots \/ owner[s - 1] # owner[s])}
        end(s) == Max({e \in Slots : \A t \in s..e : owner[t] = owner[s]})
        seq == SetToSortSeq(starts, <)
    IN [i \in DOMAIN seq |->
          [start |-> seq[i], end |-> end(seq[i]), master |-> owner[seq[i]],
           replicas |-> cluster.replicas[owner[seq[i]]]]]

latest_contact_points(x) ==
    IF x.topology.slots.nodes = {} THEN first_contact_points ELSE x.topology.slots.nodes

\* fetch_slot_map and get_topology_from_node, over unpooled connections.
FetchSlotMap(c) ==
    LET x == cl[c]
        parsed == ParseSlots(ClusterSlots)
        refused == \/ cluster.auth # {} /\ x.want \notin cluster.auth
                   \/ cluster.auth = {} /\ x.want # NoToken
        noauth == refused /\ x.want = NoToken
    IN /\ x.pc = "fetch"
       /\ \/ /\ latest_contact_points(x) \cap reach # {}
             /\ cl' = [cl EXCEPT ![c] =
                   IF ~refused /\ parsed.ok
                   THEN [x EXCEPT !.pc = "connect", !.slots = parsed.slots, !.errors = FALSE,
                                  !.channels = [h \in {} |-> <<>>],
                                  !.todo = Values(parsed.slots.masters)
                                           \o Values(parsed.slots.replicas)]
                   ELSE EndBuild(IF noauth
                                 THEN [x EXCEPT !.rebuild_connections = FALSE] ELSE x, FALSE)]
          \/ /\ latest_contact_points(x) \cap reach = {}
             /\ cl' = [cl EXCEPT ![c] = EndBuild(x, FALSE)]
       /\ UNCHANGED <<shared_topology, cluster, direct_destination, faults, calls, poolVars>>

\* The loop of build_connections_inner: one node.
ConnectNode(c) ==
    LET x == cl[c]
    IN /\ x.pc = "connect"
       /\ x.todo # <<>>
       /\ \E g \in GetConnections(conns, lanes, Head(x.todo), x.want) :
            /\ g.partial => faults < MaxFaults
            /\ faults' = faults + (IF g.partial THEN 1 ELSE 0)
            /\ conns' = g.conns
            /\ lanes' = g.lanes
            /\ cl' = [cl EXCEPT ![c] =
                 CASE g.st = "panic" -> [x EXCEPT !.pc = "panic"]
                   [] g.st = "err" -> [x EXCEPT !.todo = Tail(@), !.errors = TRUE]
                   [] g.st = "ok" ->
                        [x EXCEPT !.todo = Tail(@),
                                  !.channels = Insert(@, Head(x.todo), g.got)]]
       /\ UNCHANGED <<shared_topology, cluster, direct_destination, calls, reach>>

\* Variant: the topology of an authenticated client is shared as well.
BuildConnectionsSharesAll(c) ==
    LET x == cl[c]
        topology == [slots |-> x.slots, channels |-> x.channels]
    IN /\ x.pc = "connect"
       /\ x.todo = <<>>
       /\ shared_topology' = topology
       /\ cl' = [cl EXCEPT ![c] =
               EndBuild([x EXCEPT !.topology = topology, !.token = x.want,
                                  !.rebuild_connections = FALSE, !.redirected = FALSE], TRUE)]
       /\ UNCHANGED <<cluster, direct_destination, faults, calls, poolVars>>

\* The end of build_connections.
BuildConnections(c) ==
    LET x == cl[c]
        topology == [slots |-> x.slots, channels |-> x.channels]
        ok == DOMAIN x.channels # {} \/ ~x.errors
    IN /\ x.pc = "connect"
       /\ x.todo = <<>>
       /\ shared_topology' = IF ok /\ x.want = NoToken THEN topology ELSE shared_topology
       /\ cl' = [cl EXCEPT ![c] =
               IF ok THEN EndBuild([x EXCEPT !.topology = topology, !.token = x.want,
                                             !.rebuild_connections = FALSE,
                                             !.redirected = FALSE], TRUE)
               ELSE EndBuild(x, FALSE)]
       /\ UNCHANGED <<cluster, direct_destination, faults, calls, poolVars>>

-----------------------------------------------------------------------------
(* Sending.  A sending state is what choose_and_send reads and changes: the *)
(* connections, the lanes, the client's channels and its future.            *)

Sending(x, fut) ==
    [conns |-> conns, lanes |-> lanes, channels |-> x.topology.channels,
     rebuild |-> x.rebuild_connections, fut |-> fut, partial |-> FALSE, panic |-> FALSE]

Fails(s) == [s EXCEPT !.rebuild = TRUE, !.fut.now = @ + 1]

\* channel.send: accepted as long as the writer has not dropped its end,
\* which it may be doing right now.
SendOn(s, host, conn, request) ==
    {[s EXCEPT !.conns[conn].q = Append(@, request)]}
        \cup (IF s.conns[conn].st = "up" THEN {}
              ELSE {[Fails(s) EXCEPT !.channels = [h \in DOMAIN @ \ {host} |-> @[h]]]})

\* choose_and_send.
ChooseAndSend(x, s, host, request) ==
    LET present == IF host \in DOMAIN s.channels THEN ToSet(s.channels[host]) ELSE {}
        open == {id \in present : ~IsClosed(s.conns, id)}
        connect ==
            UNION {CASE g.st = "ok" ->
                          SendOn([s EXCEPT !.conns = g.conns, !.lanes = g.lanes,
                                           !.partial = @ \/ g.partial,
                                           !.channels = Insert(@, host, g.got)],
                                 host, g.got[1], request)
                     [] g.st = "err" ->
                          {Fails([s EXCEPT !.lanes = g.lanes, !.partial = @ \/ g.partial])}
                     [] g.st = "panic" ->
                          {[s EXCEPT !.panic = TRUE, !.lanes = g.lanes, !.conns = g.conns,
                                     !.partial = TRUE]}
                   : g \in GetConnections(s.conns, s.lanes, host, x.token)}
    IN UNION {SendOn(s, host, id, request) : id \in open}
         \cup (IF present = {} \/ open # present THEN connect \cup {Fails(s)} ELSE {})

\* A message goes to each of the hosts in turn.
SendToAll(x, s, hosts, request) ==
    FoldLeft(LAMBDA states, host :
                 UNION {IF t.panic THEN {t} ELSE ChooseAndSend(x, t, host, request)
                        : t \in states},
             {s}, hosts)

\* Commit one outcome of a send to the client's record y and the pool.
Sent(c, s, y) ==
    /\ s.partial => faults < MaxFaults
    /\ faults' = faults + (IF s.partial THEN 1 ELSE 0)
    /\ conns' = s.conns
    /\ lanes' = s.lanes
    /\ cl' = [cl EXCEPT ![c] =
                IF s.panic THEN [y EXCEPT !.pc = "panic"]
                ELSE [y EXCEPT !.topology.channels = s.channels,
                               !.rebuild_connections = s.rebuild]]

Answers(n, join) == [left |-> n, now |-> 0, acc |-> <<>>, join |-> join]

-----------------------------------------------------------------------------
(* dispatch_message: one message of the batch. *)

Routing(x) == ForCommand(x.batch[x.next])
Request(c, x) == [c |-> c, id |-> Len(x.futs) + 1, req |-> x.next]

\* The hosts a message is sent to when shotover hides the cluster: a set of
\* alternatives, each a sequence of hosts.
Hosts(x, route) ==
    CASE route.to = "Slot" -> {<<MasterOf(x.topology.slots, route.slot)>>}
      [] route.to = "AllNodes" -> {SetToSeq(x.topology.slots.nodes)}
      [] route.to = "AllMasters" -> {Values(x.topology.slots.masters)}
      [] route.to = "Random" ->
           IF DOMAIN x.topology.slots.masters = {} THEN {<<NoNode>>}
           ELSE {<<m>> : m \in ToSet(Values(x.topology.slots.masters))}

Dispatching(c) == cl[c].pc = "dispatch"

\* send_message_to_slot, send_message_to_channels and RoutingInfo::Random.
DispatchToNodes(c) ==
    LET x == cl[c]
        route == Routing(x)
    IN /\ Dispatching(c)
       /\ route.to \in (IF direct_destination = NoNode
                        THEN {"Slot", "AllNodes", "AllMasters", "Random"} ELSE {"Slot"})
       /\ \E hosts \in Hosts(x, route) :
            IF hosts = <<>> \/ (route.to = "Slot" /\ hosts[1] = NoNode)
            THEN /\ cl' = [cl EXCEPT ![c] = Push(x, Ready(Error))]
                 /\ UNCHANGED <<faults, conns, lanes>>
            ELSE \E s \in SendToAll(x, Sending(x, Answers(Len(hosts), route.join)),
                                    hosts, Request(c, x)) :
                    Sent(c, s, Push(x, s.fut))
       /\ UNCHANGED <<shared_topology, cluster, direct_destination, calls, reach>>

\* Unsupported, ShortCircuitNil and ShortCircuitOk, answered by shotover.
DispatchShortCircuit(c) ==
    LET x == cl[c]
        route == Routing(x)
    IN /\ Dispatching(c)
       /\ direct_destination = NoNode
       /\ route.to \in {"Unsupported", "ShortCircuitNil", "ShortCircuitOk"}
       /\ cl' = [cl EXCEPT ![c] =
                   Push(x, Ready(IF route.to = "Unsupported" THEN Error ELSE Value(x.next)))]
       /\ UNCHANGED <<shared_topology, cluster, direct_destination, faults, calls, poolVars>>

\* dispatch_message_handling: everything but keys goes to the direct
\* connection, which is opened once and kept, whatever becomes of it.
DispatchDirect(c) ==
    LET x == cl[c]
        send(s, y, conn) ==
            \/ /\ s.conns[conn].st # "up"
               /\ Sent(c, s, Push(y, Ready(Error)))
            \/ /\ ~IsClosed(s.conns, conn)
               /\ Sent(c, [s EXCEPT !.conns[conn].q = Append(@, Request(c, x))],
                       Push(y, Answers(1, "First")))
        s0 == Sending(x, Answers(1, "First"))
    IN /\ Dispatching(c)
       /\ direct_destination # NoNode
       /\ Routing(x).to \notin {"Slot", "Auth"}
       /\ \/ /\ x.direct_connection # NoConnection
             /\ send(s0, x, x.direct_connection)
          \/ /\ x.direct_connection = NoConnection
             /\ \E g \in GetConnections(conns, lanes, direct_destination, x.token) :
                  LET s == [s0 EXCEPT !.conns = g.conns, !.lanes = g.lanes, !.partial = g.partial,
                                      !.panic = (g.st = "panic")]
                  IN IF g.st = "ok"
                     THEN send(s, [x EXCEPT !.direct_connection = g.got[1]], g.got[1])
                     ELSE Sent(c, s, Push(x, Ready(Error)))
       /\ UNCHANGED <<shared_topology, cluster, direct_destination, calls, reach>>

\* on_auth.
DispatchAuth(c) ==
    LET x == cl[c]
        command == x.batch[x.next]
    IN /\ Dispatching(c)
       /\ Routing(x).to = "Auth"
       /\ cl' = [cl EXCEPT ![c] =
                   IF Len(command) \in {2, 3} /\ \A i \in 2..Len(command) : command[i] # NotBulk
                   THEN StartBuild(x, "auth", TokenOf[command[Len(command)]])
                   ELSE Push(x, Ready(Error))]
       /\ UNCHANGED <<shared_topology, cluster, direct_destination, faults, calls, poolVars>>

-----------------------------------------------------------------------------
(* Answers. *)

\* The answer to each of these requests is frame: the fold of every future
\* that is still awaited takes it.
Deliver(requests, frame) ==
    [c \in Clients |->
       FoldLeft(LAMBDA x, r :
                    IF r.c # c \/ r.id \notin DOMAIN x.futs THEN x
                    ELSE [x EXCEPT !.futs[r.id].left = @ - 1,
                                   !.futs[r.id].acc = Fold(x.futs[r.id].join, @, frame)],
                cl[c], requests)]

\* What a node answers to a request (external).
NodeResponses(node, token, command, req) ==
    LET route == ForCommand(command)
        owner == cluster.owner[route.slot]
    IN IF cluster.auth # {} /\ token = NoToken THEN {Error}
       ELSE IF route.to = "Slot" THEN
            IF owner = NoNode THEN {Error}
            ELSE IF owner # node THEN {Frame("moved", route.slot, owner)}
            ELSE {Value(req)} \cup (IF cluster.migrating[route.slot] = NoNode THEN {}
                                    ELSE {Frame("ask", route.slot, cluster.migrating[route.slot])})
       ELSE IF route.join = "First" THEN {Value(req)} ELSE {Integer(1)}

NodeAnswers(id) ==
    /\ PairResponse(id)
    /\ LET r == Head(conns[id].q)
       IN \E frame \in NodeResponses(conns[id].node, conns[id].token, cl[r.c].batch[r.req], r.req) :
            cl' = Deliver(<<r>>, frame)
    /\ UNCHANGED <<shared_topology, cluster, direct_destination, faults, calls>>

\* A connection breaks, or its node closes it.
ConnectionBreaks(id) ==
    /\ faults < MaxFaults
    /\ faults' = faults + 1
    /\ ReaderExits(id)
    /\ cl' = Deliver(Dropped(id), Lost)
    /\ UNCHANGED <<shared_topology, cluster, direct_destination, calls>>

\* Variant: the requests that reached a writer whose reader is gone are kept.
ConnectionClosesSilently(id) ==
    /\ WriterExits(id)
    /\ UNCHANGED <<cl, shared_topology, cluster, direct_destination, faults, calls>>

ConnectionCloses(id) ==
    /\ WriterExits(id)
    /\ cl' = Deliver(Dropped(id), Lost)
    /\ UNCHANGED <<shared_topology, cluster, direct_destination, faults, calls>>

\* The fold takes an error choose_and_send made itself.
FoldOwnError(c) ==
    /\ \E id \in DOMAIN cl[c].futs :
         /\ cl[c].futs[id].now > 0
         /\ cl' = [cl EXCEPT ![c].futs[id] =
                     [@ EXCEPT !.left = @ - 1, !.now = @ - 1,
                               !.acc = Fold(cl[c].futs[id].join, @, Error)]]
    /\ UNCHANGED <<shared_topology, cluster, direct_destination, faults, calls, poolVars>>

-----------------------------------------------------------------------------
(* The loop over the responses. *)

FirstReady(c) ==
    /\ cl[c].pc = "collect"
    /\ cl[c].order # <<>>
    /\ cl[c].futs[Head(cl[c].order)].left = 0

Response(c) == cl[c].futs[Head(cl[c].order)].acc[1]
IsRedirection(frame) == frame.t \in {"moved", "ask"}

\* requests.pop().unwrap() with no request left.
CollectPanics(c) ==
    /\ FirstReady(c)
    /\ cl[c].popped = Len(cl[c].batch)
    /\ cl' = [cl EXCEPT ![c].pc = "panic", ![c].futs = <<>>, ![c].order = <<>>]
    /\ UNCHANGED <<shared_topology, cluster, direct_destination, faults, calls, poolVars>>

\* Variant: responses are put at the front of the buffer.
CollectResponseReversed(c) ==
    /\ FirstReady(c)
    /\ cl[c].popped < Len(cl[c].batch)
    /\ ~IsRedirection(Response(c))
    /\ cl' = [cl EXCEPT ![c].popped = @ + 1, ![c].order = Tail(@),
                        ![c].out = <<Response(c)>> \o @]
    /\ UNCHANGED <<shared_topology, cluster, direct_destination, faults, calls, poolVars>>

CollectResponse(c) ==
    /\ FirstReady(c)
    /\ cl[c].popped < Len(cl[c].batch)
    /\ ~IsRedirection(Response(c))
    /\ cl' = [cl EXCEPT ![c].popped = @ + 1, ![c].order = Tail(@),
                        ![c].out = Append(@, Response(c))]
    /\ UNCHANGED <<shared_topology, cluster, direct_destination, faults, calls, poolVars>>

\* A MOVED or an ASK: the request that was popped is sent to the server it
\* names, and its response is awaited first.
CollectRedirection(c) ==
    LET x == cl[c]
        frame == Response(c)
        moved == frame.t = "moved"
        id == Len(x.futs) + 1
        y == IF moved
             THEN [x EXCEPT !.topology.slots.masters = Insert(@, frame.n, frame.server),
                            !.rebuild_connections = TRUE, !.redirected = TRUE]
             ELSE x
    IN /\ FirstReady(c)
       /\ x.popped < Len(x.batch)
       /\ IsRedirection(frame)
       /\ \E s \in ChooseAndSend(y, Sending(y, Answers(1, "First")), frame.server,
                                 [c |-> c, id |-> id, req |-> x.popped + 1]) :
            Sent(c, s, [y EXCEPT !.popped = @ + 1, !.order = <<id>> \o Tail(@),
                                 !.futs = Append(@, s.fut)])
       /\ UNCHANGED <<shared_topology, cluster, direct_destination, calls, reach>>

Return(c) ==
    /\ cl[c].pc = "collect"
    /\ cl[c].order = <<>>
    /\ cl' = [cl EXCEPT ![c].pc = "idle", ![c].futs = <<>>]
    /\ UNCHANGED <<shared_topology, cluster, direct_destination, faults, calls, poolVars>>

-----------------------------------------------------------------------------
(* The cluster (external). *)

Fault == faults < MaxFaults /\ faults' = faults + 1

SlotMigrates(s) ==
    /\ Fault
    /\ \E n \in Nodes \ {cluster.owner[s]} :
         /\ cluster.owner[s] # NoNode
         /\ cluster.migrating[s] = NoNode
         /\ cluster' = [cluster EXCEPT !.migrating[s] = n]
    /\ UNCHANGED <<cl, shared_topology, direct_destination, calls, poolVars>>

SlotMoves(s) ==
    /\ cluster.migrating[s] # NoNode
    /\ cluster' = [cluster EXCEPT !.owner[s] = cluster.migrating[s], !.migrating[s] = NoNode]
    /\ UNCHANGED <<cl, shared_topology, direct_destination, faults, calls, poolVars>>

NodeFails(n) ==
    /\ Fault
    /\ NodeGoesDown(n)
    /\ UNCHANGED <<cl, shared_topology, cluster, direct_destination, calls>>

NodeReturns(n) ==
    /\ NodeComesUp(n)
    /\ UNCHANGED <<cl, shared_topology, cluster, direct_destination, faults, calls>>

Step(c) ==
    \/ ReadShared(c) \/ FetchSlotMap(c) \/ ConnectNode(c) \/ BuildConnections(c)
    \/ DispatchToNodes(c) \/ DispatchShortCircuit(c) \/ DispatchDirect(c) \/ DispatchAuth(c)
    \/ FoldOwnError(c)
    \/ CollectPanics(c) \/ CollectResponse(c) \/ CollectRedirection(c) \/ Return(c)

\* Every call has ended.  Calls and faults are bounded and no other step
\* repeats, so a call that could hang is a deadlock.
Quiet ==
    /\ \A c \in Clients : cl[c].pc \in {"idle", "panic"}
    /\ UNCHANGED vars

Next ==
    \/ \E c \in Clients : Receive(c) \/ Step(c)
    \/ \E id \in DOMAIN conns :
         NodeAnswers(id) \/ ConnectionBreaks(id) \/ ConnectionCloses(id)
    \/ \E s \in Slots : SlotMigrates(s) \/ SlotMoves(s)
    \/ \E n \in Nodes : NodeFails(n) \/ NodeReturns(n)
    \/ Quiet

Spec == Init /\ [][Next]_vars

-----------------------------------------------------------------------------
(* What must hold. *)

\* transform returns one response per request, and the i-th one answers the
\* i-th request or is an error: also when connections break, the pool is
\* shared with other clients and requests are fanned out.
AnsweredInOrder ==
    \A c \in Clients :
        cl[c].pc = "idle" =>
            /\ Len(cl[c].out) = Len(cl[c].batch)
            /\ \A i \in DOMAIN cl[c].out :
                 LET f == cl[c].out[i]
                 IN f.t = "error" \/ (f.t = "value" /\ f.n = i)
                    \/ (f.t = "integer" /\ ForCommand(cl[c].batch[i]).join # "First")

ChannelsAreOwn(channels, token) ==
    \A h \in DOMAIN channels : \A i \in DOMAIN channels[h] :
        LET conn == conns[channels[h][i]] IN conn.token = token /\ conn.node = h

\* A client's channels are connections that authenticated with the client's
\* own token and lead to the node they are kept for, and a topology that is
\* shared holds no authenticated connection.
LanesAreSeparate ==
    /\ ChannelsAreOwn(shared_topology.channels, NoToken)
    /\ \A c \in Clients : ChannelsAreOwn(cl[c].topology.channels, cl[c].token)

\* Unless slots were moved since or a MOVED has patched it, the interval map
\* sends every slot that has an owner to that owner.
SlotMapExact ==
    \A c \in Clients :
        LET x == cl[c]
        IN x.pc = "connect" /\ faults = 0
             => \A s \in Slots : cluster.owner[s] # NoNode
                                   => MasterOf(x.slots, s) = cluster.owner[s]

\* Every answer a call still waits for is an error of its own or has its
\* return channel in a connection that will resolve or drop it: together
\* with the absence of deadlock, no call waits for ever.
AwaitedIsPending ==
    \A c \in Clients : \A id \in DOMAIN cl[c].futs :
        LET fut == cl[c].futs[id]
            held(k) == Len(SelectSeq(conns[k].q, LAMBDA r : r.c = c /\ r.id = id))
        IN fut.left = fut.now + FoldLeft(LAMBDA sum, k : sum + held(k), 0,
                                         [k \in 1..Len(conns) |-> k])

\* "transform" promises a response per request; a redirection must not make
\* it panic.
RedirectionsAreFollowed ==
    \A c \in Clients : cl[c].pc # "panic"

=============================================================================
