------------------------------ MODULE Transforms ------------------------------
(***************************************************************************)
(* What the transforms below shotover/src/transforms do to the requests on *)
(* their way down and to the responses on their way up, as operators on    *)
(* sequences of messages: QueryTypeFilter, RequestThrottling, QueryCounter *)
(* and DebugForceParse / DebugForceEncode above; NullSink, Loopback,       *)
(* DebugReturner and ParallelMap at the end of a chain; and what a         *)
(* database answers.                                                       *)
(***************************************************************************)
EXTENDS Message, FiniteSets, SequencesExt

Ids(messages) == {messages[i].id : i \in DOMAIN messages}

\* Variant: the response is stored and the request goes on.
RefuseLetsPass(requests, refused) == requests

\* The refused requests of a batch are replaced by dummies, in place.
Refuse(requests, refused) ==
  [i \in DOMAIN requests |->
    IF requests[i].id \in refused THEN ReplaceWithDummy(requests[i]) ELSE requests[i]]

\* QueryTypeFilter::transform, what is refused: a list of denied (or of not allowed) types.
FilteredOut(requests, denied, protocol) ==
  {requests[i].id : i \in {j \in DOMAIN requests : QueryType(requests[j], protocol) \in denied}}

\* How it ends early, if it does, on the first request whose query type panics or whose
\* refusal has no error response.
FilterStop(requests, denied, protocol) ==
  LET type(i) == QueryType(requests[i], protocol)
      stops == {i \in DOMAIN requests :
                  \/ type(i) = "panic"
                  \/ type(i) \in denied /\ ~HasErrorResponse(requests[i], protocol)}
  IN CASE stops = {} -> ""
       [] stops # {} /\ type(Min(stops)) = "panic" -> "panicked"
       [] OTHER -> "failed"

\* RequestThrottling::transform fails when it wants to refuse what has no metadata.
ThrottleStop(requests, throttled, protocol) ==
  IF \E i \in DOMAIN requests : requests[i].id \in throttled /\ ~HasMetadata(requests[i], protocol)
  THEN "failed" ELSE ""

\* QueryCounter::transform: a dummy does not count as a message.
Counted(requests) == {requests[i].id : i \in {j \in DOMAIN requests : ~IsDummy(requests[j])}}

\* DebugForceParse::transform: parse, and encode again when asked to.
ForceParse(messages, encode) ==
  [i \in DOMAIN messages |->
    IF encode THEN InvalidateCache(EnsureParsed(messages[i])) ELSE EnsureParsed(messages[i])]

\* Variant: the stored responses are handed out by position instead of by request id.
RestoreFirst(responses, stored) ==
  [i \in DOMAIN responses |-> IF i <= Len(stored) THEN stored[i] ELSE responses[i]]

\* Both refusing transforms: the response to a refused request, found by its request id, is
\* replaced by the one stored for it.
Restore(responses, stored) ==
  [i \in DOMAIN responses |->
    LET mine == SelectSeq(stored, LAMBDA m : m.id = responses[i].request_id)
    IN IF responses[i].request_id # NoId /\ mine # <<>> THEN mine[1] ELSE responses[i]]

\* What stays stored.
StillStored(responses, stored) ==
  SelectSeq(stored, LAMBDA m : \A i \in DOMAIN responses : responses[i].request_id # m.id)

----------------------------------------------------------------------------
\* What a database answers, and what a SinkConnection answers for a dummy.
Answer(request, content) ==
  SetRequestId(IF IsDummy(request) THEN FromFrame(Dummy, request.id)
               ELSE FromBytes(Wire(content), request.id),
               request.id)

Answers(requests, content) == [i \in DOMAIN requests |-> Answer(requests[i], content)]

\* A message the database sends on its own, for no request.
Event == FromBytes(Wire("event"), NoId)

\* A sink: the requests sent and not answered, the responses that have arrived, whether it has
\* learned the protocol version from a request, and whether its connection is dead.  For the
\* properties: the ids the database was sent, and those of the runs that failed.
FreshSink ==
  [owed |-> <<>>, arrived |-> <<>>, version |-> FALSE, broken |-> FALSE, reached |-> <<>>,
   dropped |-> {}]

Outcome(sink, out) == [ok |-> TRUE, sink |-> sink, out |-> out]
Failure(sink, requests) ==
  [ok |-> FALSE, sink |-> [sink EXCEPT !.dropped = @ \cup Ids(requests)], out |-> <<>>]

\* The requests are sent, except the dummies, and everything that has arrived is taken.
SendOn(sink, requests) ==
  LET real == SelectSeq(requests, LAMBDA m : ~IsDummy(m))
  IN [sink EXCEPT !.arrived = <<>>, !.reached = @ \o [i \in DOMAIN real |-> real[i].id]]

\* Every order of a sequence.
Shuffles(seq) ==
  {[i \in DOMAIN seq |-> seq[p[i]]] : p \in {q \in [DOMAIN seq -> DOMAIN seq] : IsInjective(q)}}

\* ValkeySinkSingle::transform waits for as many responses to requests as it sent; it parses
\* every response, to count the errors.
ValkeySinkSingle(sink, requests, content) ==
  Outcome(SendOn(sink, requests), ForceParse(sink.arrived \o Answers(requests, content), FALSE))

\* KafkaSinkSingle::transform: Shotover's port replaces the brokers' in the responses that
\* name brokers, which are parsed for it.
KafkaSinkSingle(sink, requests, content) ==
  LET Rewritten(m) == IF ParsedFrame(m) = "brokers" THEN Modify(m, "shotover") ELSE EnsureParsed(m)
      all == sink.arrived \o Answers(requests, content)
  IN Outcome(SendOn(sink, requests), [i \in DOMAIN all |-> Rewritten(all[i])])

\* CassandraSinkSingle::send_message learns the version from the first request it sees, which a
\* dummy does not tell; before that a run without requests does nothing.  It waits for as many
\* responses to requests as it sent, in whatever order the database gives them.
CassandraSinkSingle(sink, requests, content) ==
  CASE ~sink.version /\ requests = <<>> -> {Outcome(sink, <<>>)}
    [] ~sink.version /\ requests # <<>> /\ ~HasMetadata(requests[1], "cassandra") ->
         {Failure(sink, requests)}
    [] OTHER -> {Outcome([SendOn(sink, requests) EXCEPT !.version = TRUE], sink.arrived \o answers) :
                   answers \in Shuffles(Answers(requests, content))}

\* OpenSearchSinkSingle::transform sends one request after the other and awaits each answer.
OpenSearchSinkSingle(sink, requests, content) ==
  Outcome(SendOn(sink, requests), Answers(requests, content))

\* NullSink::transform fails on what has no error response.
NullSink(sink, requests, protocol) ==
  IF \E i \in DOMAIN requests : ~HasErrorResponse(requests[i], protocol)
  THEN Failure(sink, requests)
  ELSE Outcome(SendOn(sink, requests),
               [i \in DOMAIN requests |-> RequestToErrorResponse(requests[i], "null")])

\* Loopback::transform
Loopback(requests) == [i \in DOMAIN requests |-> SetRequestId(requests[i], requests[i].id)]

\* DebugReturner::transform with a fixed response: dummies are answered like the rest.
Returner(requests) ==
  [i \in DOMAIN requests |-> SetRequestId(FromFrame("fixed", requests[i].id), requests[i].id)]

\* ParallelMap::transform: the requests go to the chains in rounds of one each.
Rounds(requests, parallelism) ==
  [r \in 1..((Len(requests) + parallelism - 1) \div parallelism) |->
    SubSeq(requests, (r - 1) * parallelism + 1,
           IF r * parallelism <= Len(requests) THEN r * parallelism ELSE Len(requests))]

\* What the chains of a ParallelMap send on in a round, each given one request as a batch that
\* is never a flush: a chain with a Coalesce of its own adds the request to what it holds and
\* sends all of it when that is count requests, and a chain without one (count 0) sends it.
RoundBatches(held, round, count) ==
  [i \in DOMAIN round |->
    IF Len(held[i]) + 1 >= count THEN Append(held[i], round[i]) ELSE <<>>]

HeldAfter(held, round, count) ==
  [i \in DOMAIN held |->
    CASE i \notin DOMAIN round -> held[i]
      [] i \in DOMAIN round /\ Len(held[i]) + 1 >= count -> <<>>
      [] OTHER -> Append(held[i], round[i])]

\* The responses of a round, in order (FuturesOrdered) or as they come (FuturesUnordered).
\* An error of one chain empties the round: the Err is dropped by into_iter().
RoundResponses(batches, failed, ordered) ==
  LET answers == [i \in DOMAIN batches |-> Answers(batches[i], "ok")]
  IN IF failed # {} THEN {<<>>}
     ELSE IF ordered THEN {FlattenSeq(answers)}
     ELSE {FlattenSeq(shuffled) : shuffled \in Shuffles(answers)}

\* A round: its responses, what the chains hold after it, and what the database was sent.  A
\* chain that fails may have sent its batch before.
RoundOutcomes(s, round, count, ordered, faults) ==
  LET batches == RoundBatches(s.held, round, count)
      called == {i \in DOMAIN round : batches[i] # <<>>}
      SentBy(chains) == FlattenSeq([i \in DOMAIN round |-> IF i \in chains THEN batches[i] ELSE <<>>])
  IN UNION {{[out |-> s.out \o responses, held |-> HeldAfter(s.held, round, count),
              sink |-> [SendOn(s.sink, SentBy(called \ unsent)) EXCEPT
                          !.dropped = @ \cup Ids(SentBy(unsent))]] :
               responses \in RoundResponses(batches, failed, ordered), unsent \in SUBSET failed} :
             failed \in IF faults THEN SUBSET called ELSE {{}}}

\* All rounds, one after the other.
ParallelOutcomes(sink, held, requests, parallelism, count, ordered, faults) ==
  LET rounds == Rounds(requests, parallelism)
      done[r \in 0..Len(rounds)] ==
        IF r = 0 THEN {[out |-> <<>>, held |-> held, sink |-> sink]}
        ELSE UNION {RoundOutcomes(s, rounds[r], count, ordered, faults) : s \in done[r - 1]}
  IN done[Len(rounds)]

=============================================================================
