---------------------------- MODULE MCAlgorithms ----------------------------
(***************************************************************************)
(* The pure algorithms of the cluster sinks over bounded inputs: splitting *)
(* and combining Kafka requests, broadcasts, the rewriting of what Kafka   *)
(* and Cassandra say about their nodes, the Cassandra token ring, and the  *)
(* Valkey cache of Cassandra rows.                                         *)
(* A state is one input; there is nothing to do but look at it.            *)
(***************************************************************************)
EXTENDS KafkaRouting, CassandraTokenRing, CassandraRewrite, ValkeyCache

VARIABLE input

Brokers(racks, ups) ==
    [i \in DOMAIN racks |-> [id |-> i, rack |-> racks[i], up |-> i \in ups]]

\* Requests that name partitions, groups or transactions.  Topic "c" is never
\* known; partition 2 is never listed.
Leaders == {[t \in known |-> <<l, 3 - l>>] : known \in SUBSET {"a", "b"}, l \in {1, 2, NoBroker}}
Partitions == {<<>>, <<0>>, <<1>>, <<0, 1>>, <<0, 2>>, <<1, 0>>}
Topics(ps) == [i \in DOMAIN ps |->
                 [topic |-> <<"a", "b", "c">>[i], id |-> <<1, 2, 3>>[i], partitions |-> ps[i]]]
SplitInputs ==
    {[about |-> "split", kind |-> k, leaders |-> l, topics |-> Topics(ps), keys |-> <<>>] :
        k \in SplitByPartition, l \in Leaders,
        ps \in [1..2 -> Partitions] \cup {<<<<0, 1>>, <<0>>, <<0, 1>>>>, <<>>}}
    \cup {[about |-> "split", kind |-> k, leaders |-> l, topics |-> <<>>, keys |-> keys] :
             k \in SplitByGroup \cup SplitByTransaction,
             l \in UNION {[known -> {1, 2, 3}] : known \in SUBSET {"a", "b"}},
             keys \in {<<>>, <<"a">>, <<"b", "a">>, <<"c", "a", "b">>}}

\* Shotover nodes over two racks; brokers may have none.
Racks == {"r1", "r2"}
ClusterInputs ==
    {[about |-> "cluster", shotovers |-> Brokers(s, su), brokers |-> Brokers(b, bu)] :
        s \in UNION {[1..n -> Racks] : n \in 1..3}, su \in SUBSET (1..3),
        b \in [1..3 -> Racks \cup {NoRack}], bu \in {{1, 2, 3}, {1, 3}}}

\* Cassandra nodes with one or two tokens over three racks.
Node(host, rack, tokens, schema) ==
    [host |-> host, rack |-> rack, dc |-> "dc", tokens |-> tokens,
     schema |-> schema, release |-> host]
RingInputs ==
    {[about |-> "ring", token |-> t, factor |-> f, strategy |-> s,
      nodes |-> {Node(1, r[1], {3, 9}, "v1"), Node(2, r[2], {5}, "v1"), Node(3, r[3], {7}, v)}] :
        t \in {1, 3, 4, 6, 8, 9, 10}, f \in 1..3, r \in [1..3 -> 1..3], v \in {"v1", "v2"},
        s \in {"SimpleStrategy", "NetworkTopologyStrategy"}}

\* Statements on a table of rows [z, x, v], cached by its partition key z, or by z and x, and
\* then always with both.
Relation(obj, oper, value) == [obj |-> obj, oper |-> oper, value |-> value, bound |-> value]
Statement(type, table, where) ==
    [type |-> type, table |-> table, columns |-> "*", where |-> where, filtering |-> FALSE]
OfRow(z, x) == <<Relation("z", "=", z), Relation("x", "=", x)>>
Insert(z, v) == Statement("insert", "t", OfRow(z, 1) \o <<Relation("v", "=", v)>>)
Update(table, x, v) == [Statement("update", table, OfRow(1, x)) EXCEPT !.columns = v]
Query(st) == [op |-> "query", sts |-> <<st>>]
Writes(v) ==
    {Query(Insert(z, v)) : z \in {1, 2}} \cup {Query(Update(t, x, v)) : x \in {1, 2}, t \in {"t", "u"}}
    \cup {Query(Statement("drop", "t", <<>>)), [op |-> "batch", sts |-> <<Insert(1, v), Update("t", 2, v)>>]}
Selects(range_key) ==
    {Query(Statement("select", "t", OfRow(z, 1))) : z \in {1, 2}}
    \cup (IF range_key # <<>> THEN {}
          ELSE {Query(Statement("select", "t", <<Relation("z", "=", 1)>> \o w)) :
                  w \in {<<>>, <<Relation("x", ">", 1)>>, <<Relation("x", ">", 0)>>,
                         <<Relation("x", ">", 0), Relation("x", "<", 2)>>}}
               \cup {Query(Statement("select", "u", OfRow(1, 1))), Query(Statement("select", "t", <<>>))})
CacheInputs(k) ==
    [about : {"cache"}, range_key : {k}, first : (Selects(k) \cup Writes(11)) \X (Selects(k) \cup Writes(12)),
     then : Selects(k), version : {4, 5}]

MCHash == [s \in {<<>>} |-> 0]

Init == \/ input \in SplitInputs \cup ClusterInputs \cup RingInputs
        \/ \E k \in {<<>>, <<"x">>} : input \in CacheInputs(k)
Next == UNCHANGED input
Spec == Init /\ [][Next]_input

-----------------------------------------------------------------------------

\* What a response to a part of a request lists: what was asked for.
Asked(topics) ==
    FlattenSeq([i \in DOMAIN topics |->
        [j \in DOMAIN topics[i].partitions |-> <<topics[i].topic, topics[i].partitions[j]>>]])
SameItems(s, t) ==
    \A x \in Range(s) \cup Range(t) :
        Len(SelectSeq(s, LAMBDA y : y = x)) = Len(SelectSeq(t, LAMBDA y : y = x))

Split == CASE input.kind = "Fetch" ->
                SplitFetch([i \in {1} \cap {n \in {1} : "a" \in DOMAIN input.leaders} |->
                              input.leaders["a"]], input.leaders, input.topics)
           [] input.kind \in SplitByPartition -> SplitByLeader(input.leaders, input.topics)
           [] OTHER -> SplitByCoordinator(input.leaders, input.keys)

\* A request split over the leaders or coordinators of what it names, answered
\* part by part and combined again, is answered for everything it named,
\* exactly once; and what has a known leader or coordinator is asked of that
\* one only.
SplitThenCombine ==
    input.about = "split" =>
        \A parts \in RouteSplit(Split, Brokers(<<"r1", "r1", "r2">>, {1, 2, 3}), "r1") :
            LET dests == [i \in DOMAIN parts |-> parts[i].dest]
                whole == CombineResponses(input.kind, dests,
                             [i \in DOMAIN parts |-> parts[i].items])
            IN IF input.kind \in SplitByPartition
               THEN /\ SameItems(Asked(whole), Asked(input.topics))
                    /\ \A i \in DOMAIN parts : \A q \in Range(Asked(parts[i].items)) :
                         LET d == IF q[1] \in DOMAIN input.leaders
                                  THEN Destination(input.leaders[q[1]], q[2])
                                  ELSE {NoBroker}
                         IN NoBroker \in d \/ dests[i] \in d
               ELSE /\ SameItems(whole, input.keys)
                    /\ \A i \in DOMAIN parts : \A k \in Range(parts[i].items) :
                         k \in DOMAIN input.leaders => dests[i] = input.leaders[k]

UpIn(nodes, rack) == {n \in Range(nodes) : n.up /\ n.rack = rack}
Up(nodes) == {n \in Range(nodes) : n.up}

\* Every broker that is up is asked by one shotover node, and every shotover node asks some.
ReachedOnce(shotovers, brokers) ==
    LET share(s) == SplitToAllBrokers(s, shotovers, brokers)
    IN /\ \A b \in Up(brokers) : Cardinality({s \in Up(shotovers) : b.id \in share(s)}) = 1
       /\ \A s \in Up(shotovers) : share(s) \subseteq {b.id : b \in Up(brokers)} /\ share(s) # {}

\* split_request_by_routing_to_all_brokers, for a client that sends the request to all shotover
\* nodes: it reaches each broker exactly once where the nodes have the same view of who is up,
\* every broker's rack has a node, no rack has more nodes than brokers to ask (otherwise a node
\* without a share asks one at random), and, as a broker without a rack is counted in every
\* rack, there is such a broker only while the nodes that are up are all in one rack.
BroadcastExactlyOnce ==
    LET brokers == input.brokers
        shotovers == input.shotovers
        used == {s.rack : s \in Up(shotovers)}
    IN (/\ input.about = "cluster"
        /\ \A b \in Up(brokers) : IF b.rack = NoRack THEN Cardinality(used) = 1 ELSE b.rack \in used
        /\ \A r \in used :
             Cardinality(UpIn(shotovers, r)) <= Cardinality(UpIn(brokers, r) \cup UpIn(brokers, NoRack)))
       => ReachedOnce(shotovers, brokers)

\* rewrite_metadata_response, rewrite_describe_cluster_response and
\* rewrite_find_coordinator_response: a client is never told of anything but a
\* shotover node that is up, in the broker's own rack when there is one;
\* brokers that are not known become -1.
ClientSeesOnlyShotover ==
    LET up == UpShotovers(input.shotovers)
        partition(b) == [leader |-> b, replicas |-> {b, 1, 9}, isr |-> {b}]
        told == RewriteMetadata(input.shotovers, input.brokers,
                    [controller |-> 2, partitions |-> [b \in {1, 2, 3, 9} |-> partition(b)]],
                    [b \in {1, 2, 3, 9} |-> b + 1])
        own(b, id) == \/ id = NoBroker /\ b \notin Ids(input.brokers)
                      \/ /\ id \in Ids(up) /\ b \in Ids(input.brokers)
                         /\ LET rack == NodeOf(input.brokers, b).rack
                            IN UpIn(up, rack) # {} => NodeOf(up, id).rack = rack
    IN input.about = "cluster" /\ up # <<>> =>
        /\ told.brokers = Ids(up) /\ own(2, told.controller)
        /\ RewriteDescribeCluster(input.shotovers, input.brokers, [controller |-> 2])
             = [brokers |-> told.brokers, controller |-> told.controller]
        /\ \A b \in DOMAIN told.partitions :
             /\ own(b, told.partitions[b].leader)
             /\ told.partitions[b].replicas \subseteq told.brokers
             /\ told.partitions[b].isr \subseteq told.partitions[b].replicas
             /\ b # 9 => own(b, RewriteCoordinator(input.shotovers, input.brokers, b, b))

\* TokenRing: the nodes an EXECUTE is routed to are the ones whose tokens come
\* first clockwise from the key's token; with NetworkTopologyStrategy the
\* first one of each rack.
ReplicasAreNearest ==
    LET ring == {[host |-> n.host, rack |-> n.rack, dist |-> (t - input.token + 100) % 100] :
                    t \in UNION {m.tokens : m \in input.nodes}, n \in input.nodes}
        owned == {x \in ring : \E n \in input.nodes :
                      n.host = x.host /\ \E t \in n.tokens : (t - input.token + 100) % 100 = x.dist}
        first == IF input.strategy = "SimpleStrategy" THEN owned
                 ELSE {x \in owned : \A y \in owned : y.rack = x.rack => x.dist <= y.dist}
        near == {x \in first : Cardinality({y \in first : y.dist < x.dist}) < input.factor}
    IN input.about = "ring" =>
          ReplicaNodes(NewRing(input.nodes), input.nodes, input.token,
                       [strategy |-> input.strategy, factor |-> input.factor])
             = {x.host : x \in near}

\* rewrite_table_local and rewrite_table_peers: with one shotover node in each
\* rack, a client that asks for both tables is told of every token of the data
\* center exactly once, by the shotover node of the rack that has it.
TokensReportedOnce ==
    input.about = "ring" =>
        LET racks == {n.rack : n \in input.nodes}
            shotover(r) == [host |-> 10 + r, rack |-> r, dc |-> "dc"]
        IN \A n \in input.nodes :
             LET rows == {LocalRow(shotover(n.rack), n, input.nodes \ {n})}
                         \cup {PeersRow(shotover(r), input.nodes) : r \in racks \ {n.rack}}
             IN \A m \in input.nodes : \A t \in m.tokens :
                  /\ Cardinality({row \in rows : t \in row.tokens}) = 1
                  /\ \E row \in rows : t \in row.tokens /\ row.rack = m.rack
                                       /\ row.release <= m.release
                                       /\ row.schema \in {m.schema, Fresh}

Holds(row, r) == CASE r.oper = "=" -> row[r.obj] = r.bound
                   [] r.oper = ">" -> row[r.obj] > r.bound
                   [] r.oper = "<" -> row[r.obj] < r.bound
Rows(db, st) == {row \in db : row.table = st.table /\ \A i \in DOMAIN st.where : Holds(row, st.where[i])}
AfterStatement(db, st) ==
    LET z == st.where[1].bound
        x == st.where[2].bound
        v == IF st.type = "insert" THEN st.where[3].bound ELSE st.columns
        same == {row \in db : row.table = st.table /\ row.z = z /\ row.x = x}
    IN CASE st.type = "select" -> db
         [] st.type = "drop" -> {row \in db : row.table # st.table}
         [] st.type = "delete" -> db \ same
         [] OTHER -> (db \ same) \cup {[table |-> st.table, z |-> z, x |-> x, v |-> v]}
MCExecute(db, request) ==
    [db |-> FoldLeft(AfterStatement, db, request.sts),
     rows |-> IF request.sts[1].type = "select" THEN Rows(db, request.sts[1]) ELSE {}]
InitialRows == {[table |-> t, z |-> 1, x |-> x, v |-> x] : t \in {"t", "u"}, x \in {1, 2}}

\* The possible states of the connection after each batch of requests.
Histories(batches, range_key, env) ==
    LET schemas == [t \in {"t"} |-> [partition_key |-> <<"z">>, range_key |-> range_key]]
        ran[n \in 0..Len(batches)] ==
          IF n = 0 THEN {[cache |-> <<>>, db |-> InitialRows, late |-> <<>>, responses |-> <<>>]}
          ELSE UNION {Transform(schemas, s, batches[n], env) : s \in ran[n - 1]}
    IN ran

\* A SELECT that is alone in its batch is answered with what the database holds then.
ReadsFresh(batches, ran) ==
    \A n \in {m \in DOMAIN batches : Len(batches[m]) = 1 /\ batches[m][1].sts[1].type = "select"} :
      \A s \in ran[n] : \A r \in Range(s.responses) :
        r.id = batches[n][1].id =>
          r.kind = "rows" /\ r.rows = Rows(s.db, batches[n][1].sts[1]) /\ r.version = batches[n][1].version

\* The requests of an input, one after the other.
CacheRequests ==
    LET Numbered(r, id, version) == [id |-> id, op |-> r.op, sts |-> r.sts, version |-> version]
    IN <<<<Numbered(input.first[1], 1, 4)>>, <<Numbered(input.first[2], 2, 4)>>,
         <<Numbered(input.then, 3, input.version)>>>>

\* What CachedReadsFresh supposes of the surroundings.
Expected == [sink |-> "single", lookups |-> TRUE, writes |-> FALSE, errors |-> {"insert", "update"}]


-----------------------------------------------------------------------------
(* What is said of the cache and the broadcasts, outside of the conditions  *)
(* under which it holds.                                                    *)

FreshOf(batches, env) ==
    input.about = "cache" => ReadsFresh(batches, Histories(batches, input.range_key, env))

\* "When combined with a client that is routing this request to all shotover nodes, the request
\* will reach each kafka broker exactly once." (kafka/sink_cluster/mod.rs:1718), where every
\* rack has a shotover node and enough brokers.
BroadcastReachesOnce ==
    (/\ input.about = "cluster"
     /\ \A r \in Racks : Cardinality(UpIn(input.shotovers, r)) = 1 /\ UpIn(input.brokers, r) # {})
    => ReachedOnce(input.shotovers, input.brokers)

\* "The modified/deleted rows should be removed from the cache" (cache.rs:47), above a
\* CassandraSinkCluster, whose response comes in a later run than its request.
RemovedBehindCluster == FreshOf(CacheRequests, [Expected EXCEPT !.sink = "cluster"])

\* The same, when Valkey does not take the DEL.
RemovedInSpiteOfErrors == FreshOf(CacheRequests, [Expected EXCEPT !.writes = TRUE])

\* The same, of a DELETE and of a prepared UPDATE.
RemovedByEveryWrite ==
    \A w \in {Query(Statement("delete", "t", OfRow(1, 1))), [op |-> "execute", sts |-> <<Update("t", 1, 13)>>]} :
      FreshOf([CacheRequests EXCEPT ![2][1].op = w.op, ![2][1].sts = w.sts], Expected)

\* "The contents of field in the hash is: the raw bytes of a cassandra response from a SELECT"
\* (cache.rs:26), for two requests in one batch, that the database answers in any order.
CachedUnderItsSelect ==
    FreshOf(LET b == CacheRequests IN <<b[1] \o b[2], b[3]>>, [Expected EXCEPT !.errors = {}])

\* "The name of the hash is constructed from: the FROM component and partition + range keys"
\* (cache.rs:24), for a SELECT with a bind marker.
HashNamesItsKeys ==
    LET marked(z) == Statement("select", "t", [OfRow(z, 1) EXCEPT ![1].value = "?", ![2].value = "?"])
    IN FreshOf([CacheRequests EXCEPT ![1][1].op = "query", ![1][1].sts = <<marked(1)>>,
                                     ![2][1].op = "query", ![2][1].sts = <<marked(2)>>], Expected)
=============================================================================
