-------------------------- MODULE CassandraTokenRing --------------------------
(***************************************************************************)
(* Token-aware routing of CassandraSinkCluster: the token ring             *)
(* (sink_cluster/token_ring.rs), the routing key of an EXECUTE             *)
(* (routing_key.rs) and what is read about nodes and keyspaces             *)
(* (topology.rs).  A node of the list is [host, rack, dc, tokens].         *)
(***************************************************************************)
EXTENDS Integers, Sequences, FiniteSets, SequencesExt, FiniteSetsExt

CONSTANT Hash       \* the Murmur3 token of a sequence of key parts

\* Variant: the ring is searched from its beginning.
RingRangeFromStart(ring, token) == [i \in DOMAIN ring |-> ring[i].host]

\* TokenRing::new: every token of every node, in increasing order.
NewRing(nodes) ==
    SetToSortSeq(UNION {{[token |-> t, host |-> n.host] : t \in n.tokens} : n \in nodes},
                 LAMBDA a, b : a.token < b.token)

\* ring_range: the members from the first token that is not smaller, around
\* the ring once.
RingRange(ring, token) ==
    LET smaller == Cardinality({i \in DOMAIN ring : ring[i].token < token})
    IN [i \in DOMAIN ring |-> ring[1 + ((smaller + i - 1) % Len(ring))].host]

\* iter_replica_nodes.
ReplicaNodes(ring, nodes, token, keyspace) ==
    LET walk == RingRange(ring, token)
        rack(host) == (CHOOSE n \in nodes : n.host = host).rack
        fresh(i) == \/ keyspace.strategy # "NetworkTopologyStrategy"
                    \/ \A j \in 1..(i - 1) : rack(walk[j]) # rack(walk[i])
        kept == SetToSortSeq({i \in DOMAIN walk : fresh(i)}, <)
    IN {walk[kept[k]] : k \in 1..Min({Len(kept), keyspace.factor})}

\* serialize_routing_key_with_indexes: the token of the values at the primary
\* key's indexes; NoKey when there is none to route by.
NoKey == -1
Unset == "unset"

RoutingKey(values, indexes) ==
    LET missing == {k \in DOMAIN indexes : indexes[k] \notin DOMAIN values}
    IN CASE indexes = <<>> \/ missing # {} -> NoKey
         [] Len(indexes) = 1 /\ values[indexes[1]] = Unset -> NoKey
         [] OTHER -> Hash[SelectSeq([k \in DOMAIN indexes |-> values[indexes[k]]],
                                    LAMBDA v : v # Unset)]

\* build_keyspace: replication is [class, factor], where factor gives the
\* count of each data center (of "" for SimpleStrategy); <<>> is an error.
BuildKeyspace(replication, data_center) ==
    CASE replication.class = "SimpleStrategy" ->
           IF "" \in DOMAIN replication.factor
           THEN <<[strategy |-> "SimpleStrategy", factor |-> replication.factor[""]]>>
           ELSE <<>>
      [] replication.class = "NetworkTopologyStrategy" ->
           <<[strategy |-> "NetworkTopologyStrategy",
              factor |-> IF data_center \in DOMAIN replication.factor
                         THEN replication.factor[data_center] ELSE 0]>>
      [] OTHER -> <<[strategy |-> replication.class, factor |-> 1]>>

\* system_local::into_nodes and system_peers::into_nodes keep the rows of the
\* configured data center.
IntoNodes(rows, data_center) == {row \in rows : row.dc = data_center}
=============================================================================
