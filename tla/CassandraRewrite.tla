--------------------------- MODULE CassandraRewrite ---------------------------
(***************************************************************************)
(* MessageRewriter of CassandraSinkCluster (sink_cluster/rewrite.rs):      *)
(* clients that ask for system.local and system.peers are shown the        *)
(* shotover nodes instead of the Cassandra nodes, and a PREPARE goes to    *)
(* every node.  Each such request becomes several, and their responses     *)
(* become one again.                                                       *)
(*                                                                         *)
(* A request is [id, sid, kind], a response [rid, sid, kind, node] with    *)
(* rid the id of its request or NoId, and node who answered.  An entry of  *)
(* to_rewrite is [ty, ids, got]: the requests it stands for and the        *)
(* responses it has collected.                                             *)
(***************************************************************************)
EXTENDS Integers, Sequences, FiniteSets, SequencesExt, FiniteSetsExt

NoId == 0

Response(rid, sid, kind, node) == [rid |-> rid, sid |-> sid, kind |-> kind, node |-> node]

\* get_rewrite_table.
NeedsRewrite(request) == request.kind \in {"local", "peers", "prepare"}

\* get_unused_stream_id: the first id, from an unusual number on, that no
\* message of this batch uses.
FirstStreamId == 358
UnusedStreamId(messages) ==
    Min((FirstStreamId..(FirstStreamId + Len(messages))) \ {messages[i].sid : i \in DOMAIN messages})

\* create_query; id is the id the new message gets.
CreateQuery(messages, id) == [id |-> id, sid |-> UnusedStreamId(messages), kind |-> "internal"]

\* The extra requests of one entry: one query for system.local, two for
\* system.peers, and a clone (with the client's stream id) for every further
\* node that is up for a PREPARE.
WithQueries(messages, nextId, n) ==
    FoldLeft(LAMBDA acc, i : Append(acc, CreateQuery(acc, nextId + i - 1)),
             messages, [i \in 1..n |-> i])

ExtraMessages(messages, request, nextId, upNodes) ==
    CASE request.kind = "local" -> WithQueries(messages, nextId, 1)
      [] request.kind = "peers" -> WithQueries(messages, nextId, 2)
      [] request.kind = "prepare" ->
           messages \o [i \in 1..Max({0, Cardinality(upNodes) - 1}) |->
                          [request EXCEPT !.id = nextId + i - 1]]

\* The loop of rewrite_requests over the requests that need it: the new
\* batch, and the entries of to_rewrite.
RewriteRequests(requests, nextId, upNodes) ==
    FoldLeft(LAMBDA acc, request :
               IF ~NeedsRewrite(request) THEN acc
               ELSE LET more == ExtraMessages(acc.messages, request, acc.nextId, upNodes)
                        added == SubSeq(more, Len(acc.messages) + 1, Len(more))
                    IN [messages |-> more, nextId |-> acc.nextId + Len(added),
                        tables |-> Append(acc.tables,
                           [ty |-> request.kind, got |-> {},
                            ids |-> <<request.id>> \o [i \in DOMAIN added |-> added[i].id]])],
             [messages |-> requests, nextId |-> nextId, tables |-> <<>>], requests)

\* Variant: responses are collected by stream id of the first one only.
CollectFirstOnly(table, responses) ==
    LET mine == {r \in responses : r.rid = table.ids[1]}
    IN [table |-> [table EXCEPT !.got = @ \cup mine], rest |-> responses \ mine]

\* rewrite_response: take what answers the entry out of the responses.
Collect(table, responses) ==
    LET mine == {r \in responses : r.rid \in ToSet(table.ids)}
    IN [table |-> [table EXCEPT !.got = @ \cup mine], rest |-> responses \ mine]

Complete(table) == {r.rid : r \in table.got} = ToSet(table.ids)

\* The response the client gets: of a PREPARE the first that succeeded, with
\* the request_id of the copy it answers, or else the first; an error if an
\* internal query failed.
Combined(table) ==
    LET of(i) == CHOOSE r \in table.got : r.rid = table.ids[i]
        prepared == {i \in DOMAIN table.ids : of(i).kind = "prepared"}
        failed == {i \in DOMAIN table.ids : i > 1 /\ of(i).kind = "error"}
    IN IF table.ty = "prepare" THEN of(IF prepared # {} THEN Min(prepared) ELSE 1)
       ELSE [of(1) EXCEPT !.kind = IF failed # {} THEN "error" ELSE @]

\* rewrite_responses.
RewriteResponses(tables, responses) ==
    FoldLeft(LAMBDA acc, table :
               LET c == Collect(table, acc.responses)
               IN IF Complete(c.table)
                  THEN [acc EXCEPT !.responses = c.rest \cup {Combined(c.table)}]
                  ELSE [tables |-> Append(acc.tables, c.table), responses |-> c.rest],
             [tables |-> <<>>, responses |-> responses], tables)

-----------------------------------------------------------------------------
(* The tables.  A row is [host, rack, dc, tokens, schema, release]; a       *)
(* shotover node is [host, rack, dc].                                       *)

Fresh == "fresh"        \* Uuid::new_v4

\* The schema version nodes agree on, or a new one.
SchemaOf(nodes) ==
    IF \E v \in {n.schema : n \in nodes} : \A n \in nodes : n.schema = v
    THEN (CHOOSE n \in nodes : TRUE).schema ELSE Fresh

ReleaseOf(nodes) == IF nodes = {} THEN 0 ELSE Min({n.release : n \in nodes})
TokensOf(nodes) == UNION {n.tokens : n \in nodes}
InRackOf(nodes, shotover) == {n \in nodes : n.dc = shotover.dc /\ n.rack = shotover.rack}

\* Variant: the rows of system.peers are made from the peers alone.
PeersRowAnyRack(shotover_peer, nodes) ==
    [host |-> shotover_peer.host, rack |-> shotover_peer.rack, dc |-> shotover_peer.dc,
     tokens |-> TokensOf({n \in nodes : n.dc = shotover_peer.dc}),
     schema |-> SchemaOf(nodes), release |-> ReleaseOf(nodes)]

\* rewrite_table_peers: one row per other shotover node, that speaks for all
\* nodes of its rack.
PeersRow(shotover_peer, nodes) ==
    LET rack == InRackOf(nodes, shotover_peer)
    IN [host |-> shotover_peer.host, rack |-> shotover_peer.rack, dc |-> shotover_peer.dc,
        tokens |-> TokensOf(rack), schema |-> SchemaOf(rack), release |-> ReleaseOf(rack)]

\* rewrite_table_local: the row of the node that answered, extended by its
\* peers in the rack of the local shotover node.
LocalRow(shotover, row, peers) ==
    LET rack == InRackOf(peers, shotover)
    IN [row EXCEPT !.host = shotover.host,
                   !.tokens = @ \cup TokensOf(rack),
                   !.schema = IF \E p \in rack : p.schema # row.schema THEN Fresh ELSE @,
                   !.release = Min({@} \cup {p.release : p \in rack})]
=============================================================================
