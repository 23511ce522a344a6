------------------------ MODULE ClusterConnectionPool ------------------------
(***************************************************************************)
(* ConnectionPool (shotover/src/transforms/util/cluster_connection_pool.rs):*)
(* lanes of connections to the nodes of a cluster, one lane per token,     *)
(* shared by every client connection of a sink.                            *)
(*                                                                         *)
(* A connection is a writer and a reader task.  Requests wait in q with    *)
(* their return channel and are answered first in, first out.  When the    *)
(* stream ends the reader exits, which drops every return channel it was   *)
(* holding; the writer exits a moment later ("half" until then), and only  *)
(* that closes the connection for its users.                               *)
(***************************************************************************)
EXTENDS Integers, Sequences, FiniteSets, SequencesExt, FiniteSetsExt

CONSTANTS
    Nodes,              \* the nodes of the cluster
    Tokens,             \* the credentials clients may present
    NoToken,            \* a client that has not authenticated
    connection_count    \* connections per node

ASSUME PoolAssumption ==
    /\ connection_count \in Nat \ {0}
    /\ NoToken \notin Tokens

VARIABLES
    conns,      \* every connection ever made: node, token, state, requests
    lanes,      \* the pool: the connections of each token and node
    reach       \* the nodes that accept connections

poolVars == <<conns, lanes, reach>>

Lanes == {NoToken} \cup Tokens

PoolInit ==
    /\ conns = <<>>
    /\ lanes = [t \in Lanes |-> [n \in Nodes |-> <<>>]]
    /\ reach = Nodes

IsClosed(cs, id) == cs[id].st = "closed"

\* get_connections: its possible outcomes for a pool of connections cs and
\* lanes ls.  Attempts may fail one by one; if all fail the caller gets an
\* error, and if only some do the slice of connection_count panics.
GetConnections(cs, ls, address, token) ==
    IF address \notin Nodes THEN
        {[st |-> "err", conns |-> cs, lanes |-> ls, partial |-> FALSE, got |-> <<>>]}
    ELSE
    LET open == SelectSeq(ls[token][address], LAMBDA id : ~IsClosed(cs, id))
        shortfall == Max({0, connection_count - Len(open)})
        made == [node |-> address, token |-> token, st |-> "up", q |-> <<>>]
        after(k) == open \o [i \in 1..k |-> Len(cs) + i]
        possible == IF address \in reach THEN 0..shortfall ELSE {0}
    IN {[st |-> IF shortfall > 0 /\ k = 0 THEN "err"
                ELSE IF Len(after(k)) < connection_count THEN "panic"
                ELSE "ok",
         conns |-> cs \o [i \in 1..k |-> made],
         lanes |-> [ls EXCEPT ![token][address] = after(k)],
         partial |-> address \in reach /\ k < shortfall,
         got |-> SubSeq(after(k), 1, Min({connection_count, Len(after(k))}))] : k \in possible}

\* The requests of a connection whose return channels are dropped when its
\* reader exits (up) or its writer does (half).
Dropped(id) == conns[id].q

\* rx_process ends: the stream is closed or cannot be decoded.
ReaderExits(id) ==
    /\ conns[id].st = "up"
    /\ conns' = [conns EXCEPT ![id].st = "half", ![id].q = <<>>]
    /\ UNCHANGED <<lanes, reach>>

\* The closed_rx branch of the writer task.
WriterExits(id) ==
    /\ conns[id].st = "half"
    /\ conns' = [conns EXCEPT ![id].st = "closed", ![id].q = <<>>]
    /\ UNCHANGED <<lanes, reach>>

\* The next response is paired with the oldest return channel.
PairResponse(id) ==
    /\ conns[id].st = "up"
    /\ conns[id].q # <<>>
    /\ conns' = [conns EXCEPT ![id].q = Tail(@)]
    /\ UNCHANGED <<lanes, reach>>

NodeGoesDown(n) == n \in reach /\ reach' = reach \ {n} /\ UNCHANGED <<conns, lanes>>
NodeComesUp(n) == n \notin reach /\ reach' = reach \cup {n} /\ UNCHANGED <<conns, lanes>>

=============================================================================
