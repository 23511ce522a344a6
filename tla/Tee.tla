--------------------------------- MODULE Tee ---------------------------------
(***************************************************************************)
(* The pairing of responses inside Tee (shotover/src/transforms/tee.rs):   *)
(* every request goes to two chains, and the response of one of them (the  *)
(* result source) is returned once both have answered.  The state of       *)
(* IncomingResponses is a pair of sequences: what came from the tee's      *)
(* chain and from the regular chain and still waits for its other half.    *)
(* For out of order protocols the code keeps maps by request id; here they *)
(* are searched by request id in the same sequences.                       *)
(***************************************************************************)
EXTENDS Transforms

Behaviours == {"ignore", "log", "fail", "subchain"}

\* What is remembered while responses are paired: the waiting ones, the result, the pairs
\* that were compared, and the requests of the pairs that differ.
Waiting(tee, chain) ==
  [tee |-> tee, chain |-> chain, out |-> <<>>, pairs |-> {}, mismatched |-> <<>>, panics |-> FALSE]

\* The response of the result source, after the comparison with the other one: on_mismatch of
\* FailOnMismatch unwraps the error response.
Paired(s, fromTee, fromChain, keep, behaviour, protocol) ==
  LET kept == IF keep = "tee" THEN fromTee ELSE fromChain
      differ == ~SameMessage(fromTee, fromChain)
  IN [s EXCEPT
        !.out = Append(@, IF differ /\ behaviour = "fail"
                          THEN ResponseToErrorResponse(kept, "mismatch") ELSE kept),
        !.pairs = @ \cup {<<fromTee.id, fromChain.id>>},
        !.mismatched = IF differ THEN Append(@, kept.request_id) ELSE @,
        !.panics = @ \/ (differ /\ behaviour = "fail" /\ ~HasErrorResponse(kept, protocol))]

\* One turn of the loop for in order protocols.
PairFront(s, keep, behaviour, protocol) ==
  IF s.tee = <<>> \/ s.chain = <<>> THEN s
  ELSE CASE Head(s.tee).request_id = NoId ->
              [s EXCEPT !.out = Append(@, Head(s.tee)), !.tee = Tail(@)]
         [] Head(s.tee).request_id # NoId /\ Head(s.chain).request_id = NoId ->
              [s EXCEPT !.out = Append(@, Head(s.chain)), !.chain = Tail(@)]
         [] OTHER ->
              Paired([s EXCEPT !.tee = Tail(@), !.chain = Tail(@)],
                     Head(s.tee), Head(s.chain), keep, behaviour, protocol)

\* After the loop one more response without a request is taken from either side.
TakeLingering(s) ==
  LET lingers(queue) == queue # <<>> /\ queue[1].request_id = NoId
      t == IF lingers(s.tee) THEN [s EXCEPT !.out = Append(@, Head(s.tee)), !.tee = Tail(@)] ELSE s
  IN IF lingers(t.chain) THEN [t EXCEPT !.out = Append(@, Head(t.chain)), !.chain = Tail(@)] ELSE t

\* Variant: the queues are compared only when both have a new response in this run.
PairInOrderNewOnly(tee, chain, newTee, newChain, keep, behaviour, protocol) ==
  LET s == Waiting(newTee, newChain)
  IN TakeLingering(FoldLeft(LAMBDA acc, i : PairFront(acc, keep, behaviour, protocol), s,
                            [i \in 1..(Len(s.tee) + Len(s.chain)) |-> i]))

\* IncomingResponses::new_responses for in order protocols.
PairInOrder(tee, chain, newTee, newChain, keep, behaviour, protocol) ==
  LET s == Waiting(tee \o newTee, chain \o newChain)
  IN TakeLingering(FoldLeft(LAMBDA acc, i : PairFront(acc, keep, behaviour, protocol), s,
                            [i \in 1..(Len(s.tee) + Len(s.chain)) |-> i]))

\* The index of the response to a request among those that wait.
IndexOf(waiting, request_id) ==
  CHOOSE i \in DOMAIN waiting : waiting[i].request_id = request_id

\* One response of an out of order protocol: returned with its other half, stored when that
\* has not come, and without a request returned only when it is from the result source.
PairOne(s, response, from, keep, behaviour, protocol) ==
  LET other == IF from = "tee" THEN s.chain ELSE s.tee
      known == \E i \in DOMAIN other : other[i].request_id = response.request_id
      at == IndexOf(other, response.request_id)
  IN CASE response.request_id = NoId ->
            IF from = keep THEN [s EXCEPT !.out = Append(@, response)] ELSE s
       [] response.request_id # NoId /\ known ->
            IF from = "tee"
            THEN Paired([s EXCEPT !.chain = RemoveAt(@, at)], response, other[at], keep, behaviour, protocol)
            ELSE Paired([s EXCEPT !.tee = RemoveAt(@, at)], other[at], response, keep, behaviour, protocol)
       [] OTHER -> IF from = "tee" THEN [s EXCEPT !.tee = Append(@, response)]
                   ELSE [s EXCEPT !.chain = Append(@, response)]

\* IncomingResponses::new_responses for out of order protocols.
PairOutOfOrder(tee, chain, newTee, newChain, keep, behaviour, protocol) ==
  LET afterTee == FoldLeft(LAMBDA s, r : PairOne(s, r, "tee", keep, behaviour, protocol),
                           Waiting(tee, chain), newTee)
  IN FoldLeft(LAMBDA s, r : PairOne(s, r, "chain", keep, behaviour, protocol), afterTee, newChain)
=============================================================================
