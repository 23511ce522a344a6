------------------------ MODULE DummyResponseInserter ------------------------
(***************************************************************************)
(* The bookkeeping a SinkConnection does for requests that the destination *)
(* never answers (a Kafka Produce with acks = 0, or a request replaced by  *)
(* a dummy): DummyResponseInserter in shotover/src/connection.rs.          *)
(*                                                                         *)
(* A request is its id, a positive number.  A response is the id of the    *)
(* request it answers, or Unrequested when its request_id is None.  Indexes *)
(* count from 0 as they do in the code.  `start_at` is left out: the       *)
(* operators work on the responses from that index on, the only ones the   *)
(* code looks at.                                                          *)
(***************************************************************************)
EXTENDS Integers, Sequences, SequencesExt

Unrequested == 0

NewInserter == [dummy_requests |-> <<>>, pending_requests_count |-> 0]

\* Records every request of the batch whose response is a dummy.
ProcessRequests(ins, requests, isDummy) ==
  LET at      == SelectSeq([i \in DOMAIN requests |-> i],
                           LAMBDA i : requests[i] \in isDummy)
      dummies == [k \in DOMAIN at |->
                    [request_id    |-> requests[at[k]],
                     request_index |-> ins.pending_requests_count + at[k] - 1]]
  IN  [dummy_requests         |-> ins.dummy_requests \o dummies,
       pending_requests_count |-> ins.pending_requests_count + Len(requests)]

\* Variant: unrequested responses do not move the dummies.
ShiftNothing(dummies, i) == dummies

\* The fix-up for one unrequested response at index i of the batch.
ShiftForUnrequested(dummies, i) ==
  [k \in DOMAIN dummies |->
     IF i <= dummies[k].request_index + (k - 1)
     THEN [dummies[k] EXCEPT !.request_index = @ + 1]
     ELSE dummies[k]]

\* The loop over the batch: every unrequested response shifts the indexes.
ShiftForBatch(dummies, responses) ==
  LET at == SelectSeq([i \in DOMAIN responses |-> i],
                      LAMBDA i : responses[i] = Unrequested)
  IN  FoldLeft(LAMBDA ds, i : ShiftForUnrequested(ds, i - 1), dummies, at)

\* One turn of retain_mut: insert the dummy response, or keep the request.
InsertOrRetain(acc, dummy) ==
  IF dummy.request_index <= Len(acc.responses)
  THEN [acc EXCEPT !.responses =
           InsertAt(@, dummy.request_index + 1, dummy.request_id)]
  ELSE [acc EXCEPT !.kept = Append(@, dummy)]

\* process_responses: the new inserter and the batch with the dummies in it.
ProcessResponses(ins, responses) ==
  LET unrequested == Len(SelectSeq(responses, LAMBDA r : r = Unrequested))
      inserted    == FoldLeft(InsertOrRetain,
                              [responses |-> responses, kept |-> <<>>],
                              ShiftForBatch(ins.dummy_requests, responses))
      len         == Len(inserted.responses)
  IN  [inserter  |->
         [dummy_requests |->
            [k \in DOMAIN inserted.kept |->
               [inserted.kept[k] EXCEPT !.request_index = @ - len]],
          pending_requests_count |->
            ins.pending_requests_count + unrequested - len],
       responses |-> inserted.responses]
=============================================================================
