---------------------------- MODULE KafkaRouting ----------------------------
(***************************************************************************)
(* The pure part of KafkaSinkCluster                                       *)
(* (shotover/src/transforms/kafka/sink_cluster/mod.rs): which brokers a    *)
(* request is sent to, how it is split over them, how their responses are  *)
(* combined into one, and how the responses that describe the cluster are  *)
(* rewritten so that the client sees shotover nodes in place of brokers.   *)
(*                                                                         *)
(* A broker or a shotover node is a record [id, rack, up]; lists of them   *)
(* are sorted by id, as the code keeps them.  Topics and groups are model  *)
(* values; a partition is its index, counted from 0.                       *)
(***************************************************************************)
EXTENDS Integers, Sequences, FiniteSets, SequencesExt, FiniteSetsExt

NoBroker == -1          \* BrokerId(-1)
NoRack == "no rack"     \* KafkaNode::rack of None

Ids(nodes) == {nodes[i].id : i \in DOMAIN nodes}

NodeOf(nodes, id) == CHOOSE n \in Range(nodes) : n.id = id

SortedById(nodes) == SortSeq(nodes, LAMBDA a, b : a.id < b.id)

-----------------------------------------------------------------------------
(* Destinations *)

\* random_broker_id_in_any_rack: the ids it may pick.
RandomBrokerInAnyRack(nodes) ==
    LET up == SelectSeq(nodes, LAMBDA n : n.up)
    IN Ids(IF up # <<>> THEN up ELSE nodes)

\* random_broker_id: brokers of the local rack that are up come first.
RandomBroker(nodes, rack) ==
    LET near == SelectSeq(nodes, LAMBDA n : n.rack = rack /\ n.up)
    IN IF near # <<>> THEN Ids(near) ELSE RandomBrokerInAnyRack(nodes)

\* The requests that are split over several brokers: by the leaders of the
\* partitions they name, by the coordinators of their groups or
\* transactions, or for every broker.
SplitByPartition == {"Produce", "Fetch", "ListOffsets", "OffsetForLeaderEpoch",
                     "DeleteRecords", "DescribeProducers"}
SplitByGroup == {"DeleteGroups", "OffsetFetch", "DescribeGroups",
                 "ConsumerGroupDescribe"}
SplitByTransaction == {"DescribeTransactions", "AddPartitionsToTxn"}
Broadcast == {"ListGroups", "ListTransactions", "DescribeLogDirs"}

\* The leader of a partition; -1 if the metadata does not list it.
Destination(meta, p) ==
    IF p + 1 \in DOMAIN meta THEN {meta[p + 1]} ELSE {NoBroker}

\* split_produce_request_by_destination and the others that name partitions.
\* meta[t] is <<leaders>> for a known topic and <<>> for one that is not,
\* which goes to -1 as a whole.
SplitTopics(meta, topics) ==
    LET Dests(t) == IF meta[t] = <<>> THEN {NoBroker}
                    ELSE UNION {Destination(meta[t][1], p) : p \in Range(t.partitions)}
        Part(t, d) == IF meta[t] = <<>> THEN t
                      ELSE [t EXCEPT !.partitions =
                               SelectSeq(@, LAMBDA p : d \in Destination(meta[t][1], p))]
    IN [d \in UNION {Dests(topics[i]) : i \in DOMAIN topics} |->
           LET ts == SelectSeq(topics, LAMBDA t : d \in Dests(t))
           IN [i \in DOMAIN ts |-> Part(ts[i], d)]]

Known(map, key) == IF key \in DOMAIN map THEN <<map[key]>> ELSE <<>>

\* topic_by_name.get, for everything but Fetch ...
MetaByName(by_name, t) == Known(by_name, t.topic)

\* ... which looks for the topic id first.
MetaByIdOrName(by_id, by_name, t) ==
    IF t.id \in DOMAIN by_id THEN Known(by_id, t.id) ELSE Known(by_name, t.topic)

SplitFetch(by_id, by_name, topics) ==
    SplitTopics([t \in Range(topics) |-> MetaByIdOrName(by_id, by_name, t)], topics)

SplitByLeader(by_name, topics) ==
    SplitTopics([t \in Range(topics) |-> MetaByName(by_name, t)], topics)

\* split_*_request_by_destination of the requests that name groups or
\* transactions.
SplitByCoordinator(coordinators, keys) ==
    LET Dest(k) == IF k \in DOMAIN coordinators THEN coordinators[k]
                   ELSE NoBroker
    IN [d \in {Dest(keys[i]) : i \in DOMAIN keys} |->
           SelectSeq(keys, LAMBDA k : Dest(k) = d)]

\* Variant: numbers the brokers of the cluster before it picks its rack.
SplitToAllBrokersByClusterIndex(self, shotovers, nodes) ==
    LET near == SelectSeq(shotovers, LAMBDA s : s.up /\ s.rack = self.rack)
        mine == CHOOSE i \in DOMAIN near : near[i].id = self.id
    IN {nodes[i].id : i \in {j \in DOMAIN nodes :
            /\ nodes[j].up /\ nodes[j].rack \in {self.rack, NoRack}
            /\ (j - 1) % Len(near) = mine - 1}}

\* split_request_by_routing_to_all_brokers: the brokers that the shotover
\* node `self` takes its share of the rack to be.
SplitToAllBrokers(self, shotovers, nodes) ==
    LET near == SelectSeq(shotovers, LAMBDA s : s.up /\ s.rack = self.rack)
        mine == CHOOSE i \in DOMAIN near : near[i].id = self.id
        brokers == SelectSeq(nodes, LAMBDA n :
                        n.up /\ n.rack \in {self.rack, NoRack})
    IN {brokers[i].id : i \in {j \in DOMAIN brokers :
            (j - 1) % Len(near) = mine - 1}}

\* split_and_route_request and route_fetch_request: the possible sequences of
\* sub requests, one per destination in the order of a HashMap, each with
\* its share of the request; a random broker is asked in place of -1.
RouteSplit(routing, nodes, rack) ==
    IF DOMAIN routing = {}
    THEN {<<[dest |-> b, items |-> <<>>]>> : b \in RandomBroker(nodes, rack)}
    ELSE {[i \in DOMAIN order |->
              [dest |-> IF order[i] = NoBroker THEN r ELSE order[i],
               items |-> routing[order[i]]]] :
             order \in SetToSeqs(DOMAIN routing),
             r \in RandomBroker(nodes, rack)}

-----------------------------------------------------------------------------
(* Combining responses *)

\* How combine_responses treats a response: topics are merged, kept in a list
\* or in a map by name, or everything is listed.
TopicLists == {"Fetch", "ListOffsets", "OffsetForLeaderEpoch"}
TopicMaps == {"Produce", "DeleteRecords"} \cup {"DescribeProducers"}
GroupLists == {"DeleteGroups", "OffsetFetch", "ListGroups"}
TransactionLists == {"DescribeTransactions", "ListTransactions"}
OtherLists == {"DescribeGroups", "ConsumerGroupDescribe", "AddPartitionsToTxn"}

\* Variant: a topic that the base response already has is left as it is.
CombineTopicsKeepsBase(responses) ==
    FoldLeft(LAMBDA base, next :
               base \o SelectSeq(next, LAMBDA t :
                   \A i \in DOMAIN base : base[i].topic # t.topic),
             Head(responses), Tail(responses))

\* Partitions of a topic that the base has are added to that topic.
CombineTopics(responses) ==
    LET Merge(base, t) ==
            IF \E i \in DOMAIN base : base[i].topic = t.topic
            THEN [i \in DOMAIN base |->
                     IF base[i].topic = t.topic
                     THEN [base[i] EXCEPT !.partitions = @ \o t.partitions]
                     ELSE base[i]]
            ELSE Append(base, t)
    IN FoldLeft(LAMBDA base, next : FoldLeft(Merge, base, next),
                Head(responses), Tail(responses))

CombineItems(responses) == FlattenSeq(responses)

\* combine_describe_log_dirs: each directory is marked with its broker.
CombineLogDirs(dests, responses) ==
    FlattenSeq([i \in DOMAIN responses |->
        [j \in DOMAIN responses[i] |-> <<dests[i], responses[i][j]>>]])

\* recv_responses and combine_responses: a single response is returned as it is.
CombineResponses(kind, dests, responses) ==
    CASE Len(responses) = 1 -> responses[1]
      [] kind \in TopicLists \cup TopicMaps -> CombineTopics(responses)
      [] kind = "DescribeLogDirs" -> CombineLogDirs(dests, responses)
      [] kind \in GroupLists \cup TransactionLists \cup OtherLists ->
            CombineItems(responses)

-----------------------------------------------------------------------------
(* Rewriting the responses that describe the cluster *)

UpShotovers(shotovers) == SelectSeq(shotovers, LAMBDA s : s.up)

\* partition_shotover_nodes_by_rack and the choice that its users make: the
\* nodes in the rack if there are any, otherwise the others.
ByRack(up, rack) ==
    LET near == SelectSeq(up, LAMBDA s : rack \in {s.rack, NoRack})
        far == SelectSeq(up, LAMBDA s : rack \notin {s.rack, NoRack})
    IN IF near # <<>> THEN near ELSE far

\* select_shotover_node_by_hash
SelectByHash(ns, hash) == ns[(hash % Len(ns)) + 1].id

\* Variant: a broker that is not listed keeps its id.
RewriteBrokerKeepsUnknown(up, nodes, id, hash) ==
    IF id \in Ids(nodes) THEN SelectByHash(ByRack(up, NodeOf(nodes, id).rack), hash)
    ELSE id

\* One broker id of a metadata response becomes the id of a shotover node.
RewriteBroker(up, nodes, id, hash) ==
    IF id \in Ids(nodes) THEN SelectByHash(ByRack(up, NodeOf(nodes, id).rack), hash)
    ELSE NoBroker

\* The replicas (and the in-sync replicas) of a partition: all of the nodes in
\* the racks of those brokers that are listed.
RewriteReplicas(up, nodes, ids) ==
    UNION {Ids(ByRack(up, NodeOf(nodes, id).rack)) : id \in ids \cap Ids(nodes)}

\* rewrite_controller_id
RewriteController(up, nodes, id) == RewriteBroker(up, nodes, id, 0)

\* rewrite_metadata_response, of the response [brokers, controller,
\* partitions]; hash[p] is the hash of a partition.
RewriteMetadata(shotovers, nodes, response, hash) ==
    LET up == UpShotovers(shotovers)
    IN [brokers |-> Ids(up),
        controller |-> RewriteController(up, nodes, response.controller),
        partitions |-> [p \in DOMAIN response.partitions |->
            [leader |-> RewriteBroker(up, nodes,
                            response.partitions[p].leader, hash[p]),
             replicas |-> RewriteReplicas(up, nodes,
                              response.partitions[p].replicas),
             isr |-> RewriteReplicas(up, nodes, response.partitions[p].isr)]]]

\* rewrite_describe_cluster_response
RewriteDescribeCluster(shotovers, nodes, response) ==
    LET up == UpShotovers(shotovers)
    IN [brokers |-> Ids(up),
        controller |-> RewriteController(up, nodes, response.controller)]

\* rewrite_find_coordinator_response of a response without an error.  The
\* coordinator has to be listed: find(..).unwrap().
CanRewriteCoordinator(nodes, id) == id \in Ids(nodes)

RewriteCoordinator(shotovers, nodes, id, hash) ==
    SelectByHash(ByRack(UpShotovers(shotovers), NodeOf(nodes, id).rack), hash)

-----------------------------------------------------------------------------
(* The cached metadata *)

NoTopic == [leader |-> NoBroker, epoch |-> -2]  \* not in topic_by_name

\* process_metadata_response: what is stored for a partition, given what was
\* stored before.  The leader of the newer epoch is kept; the epoch is the
\* one of the response in both cases.
NewestPartition(old, new) ==
    IF old # NoTopic /\ old.epoch > new.epoch
    THEN [new EXCEPT !.leader = old.leader] ELSE new

\* store_topic_names and store_topic_ids: is the topic to be asked for?
TopicOutdated(nodes, topic) ==
    \/ topic = NoTopic
    \/ topic.leader \in Ids(nodes) /\ ~NodeOf(nodes, topic.leader).up

\* store_group and store_transaction: is the coordinator to be asked for?
CoordinatorOutdated(nodes, broker) ==
    \/ broker \notin Ids(nodes)
    \/ ~NodeOf(nodes, broker).up

\* add_node_if_new, with exclusive access: push and sort.
AddNode(nodes, node) ==
    IF node.id \in Ids(nodes) THEN nodes ELSE SortedById(Append(nodes, node))

=============================================================================
