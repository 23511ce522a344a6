----------------------- MODULE MCCassandraSinkCluster -----------------------
(***************************************************************************)
(* CassandraSinkCluster on two nodes, one of them in the rack of the       *)
(* local shotover node.  The client's stream ids are the first ones        *)
(* shotover picks for its own queries.                                     *)
(***************************************************************************)
EXTENDS CassandraSinkCluster

CONSTANTS n1, n2, none

MCRackOf == [n \in {n1, n2} |-> IF n = n2 THEN "r2" ELSE "r1"]
MCTokensAt == (n1 :> {1, 4}) @@ (n2 :> {2})
MCKeyspace == [strategy |-> "NetworkTopologyStrategy", factor |-> 2]
MCBatches == {<<>>, <<"startup">>, <<"local">>, <<"ddl">>, <<"peers">>, <<"prepare">>,
              <<"dummy">>, <<"execute">>, <<"select", "use">>}
MCStreamIds == 358..359
MCHash == [k \in {<<"k">>} |-> 1]
=============================================================================
