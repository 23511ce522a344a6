---------------------------- MODULE KafkaMetadata ---------------------------
(***************************************************************************)
(* What the KafkaSinkCluster transforms of one shotover node know of the   *)
(* cluster, and how they use and repair it                                 *)
(* (shotover/src/transforms/kafka/sink_cluster/mod.rs).  Every client      *)
(* connection has its own transform; nodes_shared, topic_by_name,          *)
(* topic_by_id, the coordinators and the controller are shared by all of   *)
(* them, on several threads.  Brokers learn late what changed in the       *)
(* cluster, so the answers that fill these caches may be stale.            *)
(*                                                                         *)
(* There is one partition, one group and one transactional id.  A client   *)
(* has one request at a time, which it repeats after an error.  Module     *)
(* KafkaSinkCluster has the connections, pipelining and ordering that are  *)
(* left out here.                                                          *)
(***************************************************************************)
EXTENDS KafkaRouting

CONSTANTS
    Clients,
    Brokers,        \* the broker ids
    Rack(_),        \* the rack of a broker
    Self,           \* the local shotover node, one of Shotovers
    Shotovers,      \* all shotover nodes, sorted by id
    Ops,            \* the requests that clients make
    Initially,      \* the possible sets of brokers of the cluster at first
    MaxMoves,       \* bound on changes of the cluster
    MaxCalls,       \* bound on the requests of a client after the first
    MaxFails        \* bound on the errors counted in a row

ASSUME MetadataAssumption ==
    /\ Brokers \subseteq Nat
    /\ Initially \subseteq SUBSET Brokers \ {{}} /\ Initially # {}
    /\ Self \in Range(Shotovers) /\ Self.up
    /\ MaxMoves \in Nat /\ MaxCalls \in Nat /\ MaxFails \in Nat

VARIABLES
    \* the cluster: what is the case, and what each broker believes.
    truth, view, alive, moves,
    \* shared by the transforms
    nodes,          \* nodes_shared: [id, rack] sorted by id
    up,             \* KafkaNode::state, shared by all clones of a node
    controller,     \* controller_broker, NoBroker for None
    group, txn,     \* the coordinators, NoBroker for a missing entry
    byName, byId,   \* topic_by_name, topic_by_id
    \* of each client's transform
    local,          \* KafkaSinkCluster::nodes
    call            \* what it is doing; `fetched` is a ghost: the leader that
                    \* the metadata fetched by this call named

cluster == <<truth, view, alive, moves>>
shared == <<nodes, up, controller, group, txn, byName, byId>>
vars == <<cluster, shared, local, call>>

\* Requests on topics, by topic_by_name or topic_by_id, for the coordinator of
\* a group or of a transaction, and for the controller.
NamedTopicOps == {"Produce", "FetchByName", "ListOffsets", "OffsetForLeaderEpoch",
                  "DescribeProducers", "DeleteRecords"}
TopicOps == NamedTopicOps \cup {"FetchById"}
GroupOps == {"Heartbeat", "SyncGroup", "JoinGroup", "LeaveGroup", "OffsetFetch", "DeleteGroups",
             "TxnOffsetCommit", "OffsetCommit", "OffsetDelete", "DescribeGroups",
             "ConsumerGroupDescribe"}
TxnOps == {"InitProducerId", "EndTxn", "AddOffsetsToTxn", "AddPartitionsToTxn",
           "DescribeTransactions"}
ControllerOps == {"CreateTopics", "ElectLeaders"}

\* The requests among them whose responses process_response does not look at
\* for an error that says that the wrong broker was asked.
Unexamined == {"DescribeProducers", "DeleteRecords", "OffsetCommit", "OffsetDelete",
               "DescribeGroups", "ConsumerGroupDescribe", "DescribeTransactions",
               "ElectLeaders"}

Idle == [pc |-> "idle", op |-> "none", dest |-> NoBroker, ask |-> {},
         add |-> <<>>, resp |-> <<>>, fetched |-> NoBroker, fails |-> 0, done |-> 0]

Init ==
    /\ alive \in Initially
    /\ \E b \in alive :
          truth = [members |-> alive, leader |-> [leader |-> b, epoch |-> 0],
                   group |-> b, txn |-> b, controller |-> b]
    /\ view = [x \in Brokers |-> truth] /\ moves = 0
    /\ nodes = <<>> /\ up = [b \in Brokers |-> TRUE]
    /\ controller = NoBroker /\ group = NoBroker /\ txn = NoBroker
    /\ byName = NoTopic /\ byId = NoTopic
    /\ local = [c \in Clients |-> <<>>]
    /\ call = [c \in Clients |-> Idle]

\* The nodes of client c with their current state.
Listed(c) == [i \in DOMAIN local[c] |->
                 [id |-> local[c][i].id, rack |-> local[c][i].rack,
                  up |-> up[local[c][i].id]]]

Goes(c, pc) == call' = [call EXCEPT ![c].pc = pc]

-----------------------------------------------------------------------------
(* transform and route_requests, up to the routing itself *)

\* The chain runs on a request.  transform starts with update_local_nodes.
Start(c, op) ==
    /\ call[c].pc = "idle" /\ call[c].done <= MaxCalls
    /\ call[c].fails > 0 => op = call[c].op      \* a failed request is retried
    /\ local' = [local EXCEPT ![c] = nodes]
    /\ call' = [call EXCEPT ![c].pc = "collect", ![c].op = op]
    /\ UNCHANGED <<cluster, shared>>

\* store_topic_names, store_topic_ids, store_group and store_transaction
\* over the request: what is missing or outdated.
Collect(c) ==
    /\ call[c].pc = "collect"
    /\ LET op == call[c].op
           ask == {x \in {"group", "txn", "name", "id"} :
               \/ /\ x = "group" /\ op \in GroupOps \ {"OffsetCommit"}
                  /\ CoordinatorOutdated(Listed(c), group)
               \/ /\ x = "txn" /\ op \in TxnOps
                  /\ CoordinatorOutdated(Listed(c), txn)
               \/ /\ x = "name" /\ op \in NamedTopicOps
                  /\ TopicOutdated(Listed(c), byName)
               \/ /\ x = "id" /\ op = "FetchById"
                  /\ TopicOutdated(Listed(c), byId)}
       IN call' = [call EXCEPT ![c].ask = ask,
             ![c].pc = IF ask \cap {"group", "txn"} # {} THEN "coordinator"
                       ELSE "metadata"]
    /\ UNCHANGED <<cluster, shared, local>>

\* The broker that the control connection leads to; all brokers are contact
\* points.
ControlBroker(b) == b \in alive

\* find_coordinator: some broker answers with what it believes.  The node it
\* names is added without a rack.
FindCoordinator(c, b) ==
    /\ call[c].pc = "coordinator" /\ ControlBroker(b)
    /\ LET isGroup == "group" \in call[c].ask
           node == IF isGroup THEN view[b].group ELSE view[b].txn
       IN /\ group' = IF isGroup THEN node ELSE group
          /\ txn' = IF isGroup THEN txn ELSE node
          /\ call' = [call EXCEPT ![c].pc = "add",
                                  ![c].ask = @ \ {"group", "txn"},
                                  ![c].add = <<[id |-> node, rack |-> NoRack]>>]
    /\ UNCHANGED <<cluster, nodes, up, controller, byName, byId, local>>

\* find_coordinator: CoordinatorNotAvailable.  The request is still routed.
CoordinatorNotAvailable(c) ==
    /\ call[c].pc = "coordinator" /\ truth # view[Min(alive)]
    /\ call' = [call EXCEPT ![c].pc = "metadata",
                            ![c].ask = @ \ {"group", "txn"}]
    /\ UNCHANGED <<cluster, shared, local>>

\* What a broker puts into a metadata response.  Version 4 has neither
\* topic ids nor leader epochs.
MetadataFrom(b, version, topic) ==
    [brokers |-> [i \in 1..Cardinality(view[b].members) |->
                     LET id == SetToSortSeq(view[b].members, <)[i]
                     IN [id |-> id, rack |-> Rack(id)]],
     controller |-> view[b].controller, version |-> version, topic |-> topic,
     partition |-> IF version = 4
                   THEN [view[b].leader EXCEPT !.epoch = -1]
                   ELSE view[b].leader]

\* The metadata is asked for when a topic, the controller or all nodes are
\* missing; get_metadata_of_topics uses version 12 only for topic ids.
FetchMetadata(c, b) ==
    /\ call[c].pc = "metadata" /\ ControlBroker(b)
    /\ call[c].ask # {} \/ controller = NoBroker \/ local[c] = <<>>
    /\ LET resp == MetadataFrom(b, IF "id" \in call[c].ask THEN 12 ELSE 4,
                                call[c].ask # {})
       IN call' = [call EXCEPT ![c].pc = "add", ![c].add = resp.brokers,
                               ![c].resp = <<resp>>,
                               ![c].fetched = IF resp.topic
                                   THEN resp.partition.leader ELSE NoBroker]
    /\ UNCHANGED <<cluster, shared, local>>

MetadataKnown(c) ==
    /\ call[c].pc = "metadata"
    /\ call[c].ask = {} /\ controller # NoBroker /\ local[c] # <<>>
    /\ Goes(c, "route")
    /\ UNCHANGED <<cluster, shared, local>>

-----------------------------------------------------------------------------
(* add_node_if_new and process_metadata_response *)

AfterAdd(c) ==
    IF Len(call[c].add) > 1 THEN "add"
    ELSE IF call[c].resp # <<>> THEN "store" ELSE "metadata"

\* add_node_if_new: the check with read access, for the next node.
AddCheck(c) ==
    /\ call[c].pc = "add"
    /\ IF Head(call[c].add).id \in Ids(nodes)
       THEN /\ local' = [local EXCEPT ![c] = nodes]
            /\ call' = [call EXCEPT ![c].pc = AfterAdd(c), ![c].add = Tail(@)]
       ELSE Goes(c, "write") /\ UNCHANGED local
    /\ UNCHANGED <<cluster, shared>>

\* Variant: the node is pushed without a second look.
AddWriteUnchecked(c) ==
    /\ call[c].pc = "write"
    /\ nodes' = SortedById(Append(nodes, Head(call[c].add)))
    /\ local' = [local EXCEPT ![c] = nodes']
    /\ call' = [call EXCEPT ![c].pc = AfterAdd(c), ![c].add = Tail(@)]
    /\ UNCHANGED <<cluster, up, controller, group, txn, byName, byId>>

\* add_node_if_new: the second check with write access, push and sort.
AddWrite(c) ==
    /\ call[c].pc = "write"
    /\ nodes' = AddNode(nodes, Head(call[c].add))
    /\ local' = [local EXCEPT ![c] = nodes']
    /\ call' = [call EXCEPT ![c].pc = AfterAdd(c), ![c].add = Tail(@)]
    /\ UNCHANGED <<cluster, up, controller, group, txn, byName, byId>>

SetController(id) == IF id = NoBroker THEN controller ELSE id

\* process_metadata_response after the nodes: the controller, and the
\* partition compared with the one in topic_by_name.
StoreMetadata(c) ==
    /\ call[c].pc = "store"
    /\ LET resp == call[c].resp[1]
       IN /\ controller' = SetController(resp.controller)
          /\ call' = [call EXCEPT
                 ![c].pc = IF resp.topic THEN "insert" ELSE "route",
                 ![c].resp = IF resp.topic
                     THEN <<[resp EXCEPT !.partition =
                                 NewestPartition(byName, resp.partition)]>>
                     ELSE <<>>]
    /\ UNCHANGED <<cluster, nodes, up, group, txn, byName, byId, local>>

\* ... and inserted, another client's answer may have come in between.
InsertTopic(c) ==
    /\ call[c].pc = "insert"
    /\ LET resp == call[c].resp[1]
       IN /\ byName' = resp.partition
          /\ byId' = IF resp.version = 4 THEN byId ELSE resp.partition
    /\ call' = [call EXCEPT ![c].pc = "route", ![c].resp = <<>>]
    /\ UNCHANGED <<cluster, nodes, up, controller, group, txn, local>>

-----------------------------------------------------------------------------
(* Routing, the broker's answer, process_response *)

\* The broker that the cache names for the request; NoBroker for a random
\* one.  Fetch looks for the id first, its requests name only one of the two.
Cached(c) ==
    LET op == call[c].op
    IN CASE op = "FetchById" -> byId.leader
         [] op \in NamedTopicOps -> byName.leader
         [] op \in GroupOps -> group
         [] op \in TxnOps -> txn
         [] op \in ControllerOps ->
               IF controller \in Ids(Listed(c)) /\ up[controller]
               THEN controller ELSE NoBroker
         [] OTHER -> NoBroker

\* The request is routed and sent.  get_or_open_connection unwraps the
\* search for its destination.  A request that meets a random broker on
\* purpose is one broker's business, whichever it is.
Route(c) ==
    /\ call[c].pc = "route"
    /\ \E d \in IF Cached(c) # NoBroker THEN {Cached(c)}
                ELSE RandomBroker(Listed(c), Self.rack) :
          call' = [call EXCEPT ![c].dest = d,
              ![c].pc = IF d \in Ids(local[c]) THEN "sent" ELSE "panic"]
    /\ UNCHANGED <<cluster, shared, local>>

\* Every broker knows the state of the cluster, and no other client is busy.
Calm(c) ==
    /\ \A b \in alive : view[b] = truth
    /\ \A d \in Clients \ {c} : call[d].pc \in {"idle", "panic"}

\* The request was refused.  The call is over and the client repeats it.
\* `fails` counts the errors in a row for which nobody else is to blame.
Again(c) ==
    [call[c] EXCEPT !.pc = "idle", !.dest = NoBroker, !.resp = <<>>,
                    !.fetched = NoBroker,
                    !.fails = IF Calm(c) THEN Min({@ + 1, MaxFails}) ELSE 1]

Over(c) == [call[c] EXCEPT !.pc = "idle", !.dest = NoBroker, !.resp = <<>>,
                           !.fetched = NoBroker, !.op = "none", !.fails = 0, !.done = @ + 1]

\* No connection to the destination: send_requests marks the node down, the
\* client connection is closed and the client opens another.
NotReached(c) ==
    /\ call[c].pc = "sent" /\ call[c].dest \notin alive
    /\ up' = [up EXCEPT ![call[c].dest] = FALSE]
    /\ local' = [local EXCEPT ![c] = <<>>]
    /\ call' = [call EXCEPT ![c] = Again(c)]
    /\ UNCHANGED <<cluster, nodes, controller, group, txn, byName, byId>>

\* Is b the broker to ask, as b itself sees it and in truth?
Serves(b, op) ==
    /\ CASE op \in TopicOps -> truth.leader.leader = b /\ view[b].leader = truth.leader
         [] op \in GroupOps -> truth.group = b /\ view[b].group = b
         [] op \in TxnOps -> truth.txn = b /\ view[b].txn = b
         [] op \in ControllerOps -> truth.controller = b
         [] OTHER -> TRUE

\* The request succeeds.
Served(c) ==
    /\ call[c].pc = "sent" /\ call[c].dest \in alive
    /\ call[c].op \notin {"Metadata", "FindGroup", "DescribeCluster"}
    /\ Serves(call[c].dest, call[c].op)
    /\ call' = [call EXCEPT ![c] = Over(c)]
    /\ UNCHANGED <<cluster, shared, local>>

\* Produce: the broker names the leader it knows of, and the stored one is
\* replaced if its epoch is older; otherwise the topic is cleared.
AfterNotLeaderProduce(b) ==
    LET hint == view[b].leader
    IN IF hint.leader = b THEN NoTopic
       ELSE IF byName # NoTopic /\ hint.epoch > byName.epoch
       THEN hint ELSE byName

\* Variant: only the responses to transactional requests are examined.
ExaminedInTransactions(op) == op \in TxnOps \ Unexamined

\* process_response looks for the error that says that the wrong broker was asked.
Examined(op) == op \notin Unexamined

\* NOT_LEADER_OR_FOLLOWER.  Fetch, ListOffsets and OffsetForLeaderEpoch clear
\* the topic under the name or the id that the response has.
NotLeader(c) ==
    /\ call[c].pc = "sent" /\ call[c].dest \in alive
    /\ LET op == call[c].op
       IN /\ op \in TopicOps /\ ~Serves(call[c].dest, op)
          /\ byName' = CASE op = "FetchById" \/ ~Examined(op) -> byName
                         [] op = "Produce" -> AfterNotLeaderProduce(call[c].dest)
                         [] OTHER -> NoTopic
          /\ byId' = IF op = "FetchById" /\ Examined(op) THEN NoTopic ELSE byId
    /\ call' = [call EXCEPT ![c] = Again(c)]
    /\ UNCHANGED <<cluster, nodes, up, controller, group, txn, local>>

\* NOT_COORDINATOR
NotCoordinator(c) ==
    /\ call[c].pc = "sent" /\ call[c].dest \in alive
    /\ LET op == call[c].op
       IN /\ op \in GroupOps \cup TxnOps /\ ~Serves(call[c].dest, op)
          /\ group' = IF op \in GroupOps /\ Examined(op) THEN NoBroker ELSE group
          /\ txn' = IF op \in TxnOps /\ Examined(op) THEN NoBroker ELSE txn
    /\ call' = [call EXCEPT ![c] = Again(c)]
    /\ UNCHANGED <<cluster, nodes, up, controller, byName, byId, local>>

\* NOT_CONTROLLER
NotController(c) ==
    /\ call[c].pc = "sent" /\ call[c].dest \in alive
    /\ LET op == call[c].op
       IN /\ op \in ControllerOps /\ ~Serves(call[c].dest, op)
          /\ controller' = IF Examined(op) THEN NoBroker ELSE controller
    /\ call' = [call EXCEPT ![c] = Again(c)]
    /\ UNCHANGED <<cluster, nodes, up, group, txn, byName, byId, local>>

-----------------------------------------------------------------------------
(* Responses that describe the cluster, asked for by the client *)

\* Metadata (version 12) or DescribeCluster: the nodes are added first.
Described(c) ==
    /\ call[c].pc = "sent" /\ call[c].dest \in alive
    /\ call[c].op \in {"Metadata", "DescribeCluster"}
    /\ LET resp == MetadataFrom(call[c].dest, 12, call[c].op = "Metadata")
       IN call' = [call EXCEPT ![c].pc = "learn", ![c].add = resp.brokers,
                               ![c].resp = <<resp>>]
    /\ UNCHANGED <<cluster, shared, local>>

\* The rest of process_metadata_response (or process_describe_cluster_response)
\* for a response asked for by the client, and its rewriting, which needs
\* nothing that the client could miss.
Learn(c) ==
    /\ call[c].pc = "learn"
    /\ LET resp == call[c].resp[1]
       IN /\ nodes' = FoldLeft(AddNode, nodes, resp.brokers)
          /\ local' = [local EXCEPT ![c] = nodes']
          /\ controller' = SetController(resp.controller)
          /\ IF resp.topic
             THEN LET p == NewestPartition(byName, resp.partition)
                  IN byName' = p /\ byId' = p
             ELSE UNCHANGED <<byName, byId>>
    /\ call' = [call EXCEPT ![c] = [Over(c) EXCEPT !.add = <<>>]]
    /\ UNCHANGED <<cluster, up, group, txn>>

\* process_find_coordinator_response stores the coordinator without adding its
\* node; rewrite_find_coordinator_response unwraps the search for it.
Found(c) ==
    /\ call[c].pc = "sent" /\ call[c].dest \in alive
    /\ call[c].op = "FindGroup"
    /\ LET b == view[call[c].dest].group
       IN /\ group' = b
          /\ IF CanRewriteCoordinator(Listed(c), b)
             THEN call' = [call EXCEPT ![c] = Over(c)]
             ELSE Goes(c, "panic")
    /\ UNCHANGED <<cluster, nodes, up, controller, txn, byName, byId, local>>

-----------------------------------------------------------------------------
(* The cluster (external) *)

Moved == moves < MaxMoves /\ moves' = moves + 1

\* Errors counted so far were the cluster's fault.
Excused == call' = [c \in Clients |-> [call[c] EXCEPT !.fails =
                        IF @ > 0 THEN 1 ELSE 0]]

\* A broker takes over the partition, the coordinators or the controller.
TakesOver(b) ==
    /\ Moved /\ b \in truth.members
    /\ \/ /\ truth.leader.leader # b
          /\ truth' = [truth EXCEPT !.leader =
                          [leader |-> b, epoch |-> truth.leader.epoch + 1]]
       \/ /\ truth.group # b
          /\ truth' = [truth EXCEPT !.group = b, !.txn = b]
       \/ /\ truth.controller # b
          /\ truth' = [truth EXCEPT !.controller = b]
    /\ Excused
    /\ UNCHANGED <<view, alive, shared, local>>

Joins(b) ==
    /\ Moved /\ b \in Brokers \ truth.members
    /\ truth' = [truth EXCEPT !.members = @ \cup {b}]
    /\ alive' = alive \cup {b}
    /\ view' = [view EXCEPT ![b] = truth']
    /\ Excused
    /\ UNCHANGED <<shared, local>>

\* A broker stops; another one takes over all that it did.
Stops(b) ==
    /\ Moved /\ b \in alive /\ alive # {b}
    /\ alive' = alive \ {b}
    /\ \E x \in alive' :
          LET To(y) == IF y = b THEN x ELSE y
          IN truth' = [members |-> truth.members \ {b},
                       leader |-> IF truth.leader.leader = b
                                  THEN [leader |-> x, epoch |-> truth.leader.epoch + 1]
                                  ELSE truth.leader,
                       group |-> To(truth.group), txn |-> To(truth.txn),
                       controller |-> To(truth.controller)]
    /\ Excused
    /\ UNCHANGED <<view, shared, local>>

CatchesUp(b) ==
    /\ b \in alive /\ view[b] # truth
    /\ view' = [view EXCEPT ![b] = truth]
    /\ Excused
    /\ UNCHANGED <<truth, alive, moves, shared, local>>

-----------------------------------------------------------------------------

Step(c) ==
    \/ \E op \in Ops : Start(c, op)
    \/ Collect(c) \/ CoordinatorNotAvailable(c) \/ MetadataKnown(c)
    \/ \E b \in Brokers : FindCoordinator(c, b) \/ FetchMetadata(c, b)
    \/ AddCheck(c) \/ AddWrite(c) \/ StoreMetadata(c) \/ InsertTopic(c)
    \/ Route(c) \/ NotReached(c) \/ Served(c)
    \/ NotLeader(c) \/ NotCoordinator(c) \/ NotController(c)
    \/ Described(c) \/ Learn(c) \/ Found(c)

Finished ==
    /\ \A c \in Clients : \/ call[c].pc = "panic"
                          \/ call[c].pc = "idle" /\ call[c].done > MaxCalls
    /\ UNCHANGED vars

Next ==
    \/ \E c \in Clients : Step(c)
    \/ \E b \in Brokers : TakesOver(b) \/ Joins(b) \/ Stops(b) \/ CatchesUp(b)
    \/ Finished

Spec == Init /\ [][Next]_vars

-----------------------------------------------------------------------------
(* Properties *)

\* Several transforms find the same brokers at the same time, check
\* nodes_shared with read access and then add to it: no broker is listed
\* twice, and the list stays sorted, which splitting a broadcast over the
\* shotover nodes relies on.
NodesSortedAndUnique ==
    \A i, j \in DOMAIN nodes : i < j => nodes[i].id < nodes[j].id

\* Once the cluster has settled and every broker knows it, a request that was
\* sent to the wrong broker repairs the caches: it is refused at most
\* MaxFails - 1 times in a row, without the client asking for metadata, and
\* whatever requests of Ops other clients make.  This is so for the requests whose
\* responses process_response examines; one of the others can be sent to the
\* wrong broker for as long as no examined one meets the same entry.
RoutesHeal == \A c \in Clients : call[c].op \notin Unexamined => call[c].fails < MaxFails

\* handle_group_coordinator_routing_error: "This method must be called for
\* every response to a request that was routed via
\* `route_to_group_coordinator`" (and likewise for the transactions): a
\* request for a coordinator is not refused again and again.
CoordinatorErrorsHandled ==
    \A c \in Clients : call[c].op \in GroupOps \cup TxnOps => call[c].fails < MaxFails

\* A destination is always one of the transform's own nodes;
\* get_or_open_connection unwraps the search for it, as does
\* rewrite_find_coordinator_response for the coordinator.
DestinationKnown == \A c \in Clients : call[c].pc # "panic"

\* store_topic_names: when the leader's node is down and the partition has
\* moved, "refetching the metadata will allow us to find the new destination":
\* a request whose own refetch named a leader that is up is not sent to a node
\* that is down.
RefetchFindsLeader ==
    \A c \in Clients :
        /\ call[c].pc = "sent" /\ call[c].op \in NamedTopicOps
        /\ call[c].fetched # NoBroker /\ up[call[c].fetched]
        => up[call[c].dest]

=============================================================================
