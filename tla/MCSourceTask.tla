---------------------------- MODULE MCSourceTask ----------------------------
(* The source task with three permits and four clients. *)
EXTENDS SourceTask

CONSTANTS c1, c2, c3, c4

MCClients == {c1, c2, c3, c4}

(* 0 ms (one chunk), 500 ms (two chunks and a rest). *)
MCDurations == {0, 5}
=============================================================================
