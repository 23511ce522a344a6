-------------------------- MODULE MCKafkaMetadata ---------------------------
(* Two client connections through the shotover node s1 of a cluster of two *)
(* brokers in two racks, the second of which joins later.                  *)
EXTENDS KafkaMetadata

ClientSymmetry == Permutations(Clients)

MCRack(b) == IF b = 1 THEN "r1" ELSE "r2"
MCSelf == [id |-> 1, rack |-> "r1", up |-> TRUE]
MCShotovers == <<MCSelf, [id |-> 2, rack |-> "r2", up |-> TRUE]>>
=============================================================================
