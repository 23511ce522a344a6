---------------------------- MODULE RequestStream ----------------------------
(***************************************************************************)
(* What every layer of the proxy promises to the one above it: requests    *)
(* are issued, and each of them is answered at most once, only after it    *)
(* was issued, and, for an in order protocol, in the order of issue (the   *)
(* request/response invariants of shotover/src/transforms/mod.rs).         *)
(* A request is its number, a response the number of its request.          *)
(***************************************************************************)
EXTENDS Integers, Sequences

VARIABLES
    in_order,   \* is the protocol in order? (all but Cassandra are)
    issued,     \* how many requests were issued
    answered    \* the responses, in the order they were given

streamVars == <<in_order, issued, answered>>

Init == in_order \in BOOLEAN /\ issued = 0 /\ answered = <<>>

Issue ==
    /\ issued' \in Nat /\ issued' > issued
    /\ UNCHANGED <<in_order, answered>>

\* Some of the issued requests that have no answer yet are answered.
Answer ==
    /\ Len(answered) < Len(answered') /\ answered = SubSeq(answered', 1, Len(answered))
    /\ \A i \in Len(answered) + 1..Len(answered') :
          /\ answered'[i] \in 1..issued
          /\ \A j \in 1..i - 1 : answered'[j] # answered'[i]
          /\ in_order => answered'[i] = i
    /\ UNCHANGED <<in_order, issued>>

Next == Issue \/ Answer

Spec == Init /\ [][Next]_streamVars
=============================================================================
