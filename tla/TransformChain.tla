---------------------------- MODULE TransformChain ----------------------------
(***************************************************************************)
(* One client connection's transform chain in motion                       *)
(* (shotover/src/transforms/chain.rs, mod.rs and the transforms): Coalesce *)
(* with its timer task on top, then any of QueryTypeFilter,                *)
(* RequestThrottling, QueryCounter and DebugForceParse, then a sink, a Tee *)
(* above a sink, a ConnectionBalanceAndPool or a ParallelMap.              *)
(*                                                                         *)
(* A run of the chain begins when requests arrive, when something called   *)
(* force_run_chain.notify_one(), or when the client has gone (a flush).    *)
(* The way down to the sink is one step, as nothing in it waits; what the  *)
(* sink, the Tee and the buffered chain do are steps of their own, between *)
(* which the timer, the database and the other tasks act; the way up ends  *)
(* the run.                                                                *)
(*                                                                         *)
(* conf is the configuration, chosen once: which transforms are in the     *)
(* chain, how they are set up, and the protocol.  The sinks are known by   *)
(* how they answer: the single sinks wait for the answers to what they     *)
(* sent, "later" sinks (the cluster sinks) return what has arrived and are *)
(* run again for the rest.  The chains of a ParallelMap end in sinks that  *)
(* wait, and may have a Coalesce of their own, that counts.                *)
(***************************************************************************)
EXTENDS Tee

CONSTANTS
  Configurations,  \* what conf is chosen from
  BufferSize,      \* the capacity of a buffered chain's channel
  Parallelism,     \* the chains of a ParallelMap
  OtherRequests    \* what another client sends through the same pooled chain

ASSUME SizesArePositive == BufferSize \in Nat \ {0} /\ Parallelism \in Nat \ {0}

\* up_chain_protocol of RequestThrottling and of the sinks, checked as a chain is built.
ASSUME ProtocolsFit ==
  \A c \in Configurations :
    /\ c.protocol \in Protocols
    /\ "throttle" \in ToSet(c.upper) => c.protocol = "cassandra"
    /\ {c.sink, c.subSink} \cap Protocols \subseteq {c.protocol}
    /\ "later" \in {c.sink, c.subSink} => c.protocol # "opensearch"
    /\ "returner" \in {c.sink, c.subSink} => c.protocol = "valkey"

VARIABLES
  conf,      \* the configuration
  sent,      \* the client's requests, as the source decoded them
  coal,      \* Coalesce: buffer, elapsed (since last_flush), restart permit, timer task
  force,     \* the permit of force_run_chain
  stored,    \* the responses kept by filter and throttle for what they refused; for the
             \* properties, refused: what they ever refused
  counted,   \* the requests QueryCounter counted
  down,      \* the sink of the regular chain
  sub,       \* the buffered chain of Tee or pool: its channel and its sink; and what the
             \* chains of ParallelMap hold
  tee,       \* Tee: waiting responses, result source, kept requests, compared pairs
  other,     \* another client of the pooled chain: what it sent, waits for and got
  run,       \* the run in progress, or Idle
  returned,  \* what the client was sent, in order
  events,    \* how many messages the database sent on its own
  status     \* "open" | "closed" (after the flush) | "failed" | "panicked"

vars == <<conf, sent, coal, force, stored, counted, down, sub, tee, other, run, returned,
          events, status>>

Idle == [phase |-> "idle"]

\* TransformChainBuilder::build: every transform is built with the connection's notify.
Init ==
  /\ conf \in Configurations
  /\ sent = <<>>
  /\ coal = [buffer |-> <<>>, elapsed |-> FALSE, restart |-> conf.millis, timer |-> "parked"]
  /\ force = FALSE
  /\ stored = [filter |-> <<>>, throttle |-> <<>>, refused |-> {}]
  /\ counted = {}
  /\ down = FreshSink
  /\ sub = [queue |-> <<>>, sink |-> FreshSink, ended |-> FALSE,
            held |-> [i \in 1..Parallelism |-> <<>>]]
  /\ tee = [tee |-> <<>>, chain |-> <<>>, keep |-> "chain", kept |-> {}, pairs |-> {},
            mismatched |-> <<>>]
  /\ other = [sent |-> 0, waits |-> FALSE, got |-> <<>>]
  /\ run = Idle
  /\ returned = <<>>
  /\ events = 0
  /\ status = "open"

----------------------------------------------------------------------------
(* Coalesce: the timer task, and the two ways its transform() can go.      *)

HasCoalesce == conf.count > 0 \/ conf.millis

\* last_flush is now, and the timer is told to start again.
RestartInterval(c) ==
  IF conf.millis
  THEN [c EXCEPT !.elapsed = FALSE, !.restart = TRUE,
                 !.timer = IF @ = "sleeping" THEN "stale" ELSE @]
  ELSE c

\* Time: the interval since last_flush is over.
IntervalPasses ==
  /\ conf.millis /\ status = "open" /\ ~coal.elapsed
  /\ coal' = [coal EXCEPT !.elapsed = TRUE]
  /\ UNCHANGED <<conf, sent, force, stored, counted, down, sub, tee, other, run, returned,
                 events, status>>

\* The timer task is told to restart, parked or asleep, and computes what remains.
TimerRestarts ==
  /\ status = "open" /\ coal.restart
  /\ coal' = [coal EXCEPT !.restart = FALSE, !.timer = "sleeping"]
  /\ UNCHANGED <<conf, sent, force, stored, counted, down, sub, tee, other, run, returned,
                 events, status>>

\* Its sleep is over (a stale one was set for an earlier last_flush): the chain is to run,
\* and the task waits to be restarted.
TimerFires ==
  /\ status = "open"
  /\ coal.timer = "stale" \/ (coal.timer = "sleeping" /\ coal.elapsed)
  /\ coal' = [coal EXCEPT !.timer = "parked"]
  /\ force' = TRUE
  /\ UNCHANGED <<conf, sent, stored, counted, down, sub, tee, other, run, returned, events,
                 status>>

\* Coalesce::transform: whether the buffer goes down the chain in this run.
CoalesceFlushes(buffered, flush) ==
  \/ flush
  \/ conf.count > 0 /\ Len(buffered) >= conf.count
  \/ conf.millis /\ coal.elapsed /\ buffered # <<>>

\* Variant: an empty run moves last_flush and does not tell the timer task.
CoalesceHoldsSilently(buffered) ==
  IF buffered = <<>> THEN [coal EXCEPT !.elapsed = FALSE] ELSE [coal EXCEPT !.buffer = buffered]

\* The run ends in Coalesce: nothing below is called.
CoalesceHolds(buffered) ==
  IF buffered = <<>> THEN RestartInterval(coal) ELSE [coal EXCEPT !.buffer = buffered]

----------------------------------------------------------------------------
(* A run on its way down: the transforms above the sink, in order.         *)

\* The refused requests of a batch, for which a response is kept.
Refusals(requests, refused) == SelectSeq(requests, LAMBDA m : m.id \in refused)

\* QueryTypeFilter::transform, on the way down.
DownThroughFilter(d) ==
  LET refused == FilteredOut(d.requests, conf.denied, conf.protocol)
      kept == Refusals(d.requests, refused)
  IN [d EXCEPT !.requests = Refuse(@, refused),
               !.stored.filter = @ \o [i \in DOMAIN kept |-> RequestToErrorResponse(kept[i], "filtered")],
               !.stored.refused = @ \cup refused,
               !.stop = FilterStop(d.requests, conf.denied, conf.protocol)]

\* RequestThrottling::transform, on the way down.
DownThroughThrottle(d, throttled) ==
  LET kept == Refusals(d.requests, throttled)
  IN [d EXCEPT !.requests = Refuse(@, throttled),
               !.stored.throttle = @ \o [i \in DOMAIN kept |-> ToBackpressure(kept[i])],
               !.stored.refused = @ \cup throttled,
               !.stop = ThrottleStop(d.requests, throttled, conf.protocol)]

\* One transform's work on the requests; d.stop says how the run ended early, if it did.
DownThrough(d, transform, throttled) ==
  CASE d.stop # "" -> d
    [] d.stop = "" /\ transform = "filter" -> DownThroughFilter(d)
    [] d.stop = "" /\ transform = "throttle" -> DownThroughThrottle(d, throttled)
    [] d.stop = "" /\ transform = "count" -> [d EXCEPT !.counted = @ \cup Counted(d.requests)]
    [] d.stop = "" /\ transform = "parse" -> [d EXCEPT !.requests = ForceParse(@, FALSE)]
    [] OTHER -> [d EXCEPT !.requests = ForceParse(@, TRUE)]

\* ChainState::call_next_transform, transform after transform.
GoDown(requests, throttled) ==
  FoldLeft(LAMBDA d, t : DownThrough(d, t, throttled),
           [requests |-> requests, stored |-> stored, counted |-> counted, stop |-> ""],
           conf.upper)

\* What RequestThrottling's limiter refuses of a batch: any part of it.
MayThrottle(requests) ==
  IF "throttle" \in ToSet(conf.upper) THEN SUBSET Ids(requests) ELSE {{}}

\* The tail of the chain takes the run over.  Tee remembers the requests for its mismatch
\* chain, and without comparing it decides now whose responses it will return.
StartTail(requests, flush) ==
  /\ run' = [phase |-> "tail", requests |-> requests, flush |-> flush, keep |-> tee.keep,
              toSub |-> "unsent", subOut |-> <<>>, toChain |-> "unsent", chainOut |-> <<>>]
  /\ tee' = IF conf.tail = "tee" /\ conf.behaviour = "subchain"
            THEN [tee EXCEPT !.kept = @ \cup Ids(requests)] ELSE tee

\* TransformChain::process_request, up to the tail: Coalesce holds the requests, or they go
\* down and a transform may fail on the way.
ProcessRequest(batch, flush) ==
  LET buffered == coal.buffer \o batch
  IN IF HasCoalesce /\ ~CoalesceFlushes(buffered, flush)
     THEN /\ coal' = CoalesceHolds(buffered)
          /\ UNCHANGED <<stored, counted, tee, run, status>>
     ELSE \E throttled \in MayThrottle(buffered) :
            LET d == GoDown(buffered, throttled)
            IN /\ coal' = [coal EXCEPT !.buffer = <<>>]
               /\ stored' = d.stored
               /\ counted' = d.counted
               /\ IF d.stop = "" THEN StartTail(d.requests, flush) /\ UNCHANGED status
                  ELSE status' = d.stop /\ UNCHANGED <<run, tee>>

\* The client's next n requests.
NextRequests(n, frame) == [i \in 1..n |-> FromBytes(Wire(frame), Len(sent) + i)]

\* Requests have come from the client, at most conf.batch of them.
ClientSends ==
  /\ status = "open" /\ run = Idle
  /\ \E n \in 1..conf.batch, frame \in conf.kinds :
       /\ Len(sent) + n <= conf.requests
       /\ sent' = sent \o NextRequests(n, frame)
       /\ ProcessRequest(NextRequests(n, frame), FALSE)
  /\ UNCHANGED <<conf, force, down, sub, other, returned, events>>

\* The source was woken: a run with the requests that happen to be there, usually none.
ForcedRun ==
  /\ status = "open" /\ run = Idle /\ force
  /\ force' = FALSE
  /\ \E n \in 0..conf.batch, frame \in conf.kinds :
       /\ Len(sent) + n <= conf.requests
       /\ sent' = sent \o NextRequests(n, frame)
       /\ ProcessRequest(NextRequests(n, frame), FALSE)
  /\ UNCHANGED <<conf, down, sub, other, returned, events>>

\* The client has gone: one last run, that flushes.
ClientGone ==
  /\ status = "open" /\ run = Idle
  /\ ProcessRequest(<<>>, TRUE)
  /\ UNCHANGED <<conf, sent, force, down, sub, other, returned, events>>

----------------------------------------------------------------------------
(* The way up, and the end of a run.                                       *)

UpThrough(u, transform) ==
  CASE transform = "filter" ->
         [u EXCEPT !.responses = Restore(@, u.stored.filter),
                   !.stored.filter = StillStored(u.responses, @)]
    [] transform = "throttle" ->
         [u EXCEPT !.responses = Restore(@, u.stored.throttle),
                   !.stored.throttle = StillStored(u.responses, @)]
    [] transform = "parse" -> [u EXCEPT !.responses = ForceParse(@, FALSE)]
    [] transform = "encode" -> [u EXCEPT !.responses = ForceParse(@, TRUE)]
    [] OTHER -> u

\* The responses go up through the same transforms in reverse, and to the client unless it
\* has gone; Coalesce, above them all, restarts its interval.
EndRun(responses) ==
  LET u == FoldLeft(UpThrough, [responses |-> responses, stored |-> stored], Reverse(conf.upper))
  IN /\ stored' = u.stored
     /\ returned' = IF run.flush THEN returned ELSE returned \o u.responses
     /\ coal' = IF HasCoalesce THEN RestartInterval(coal) ELSE coal
     /\ status' = IF run.flush THEN "closed" ELSE status
     /\ run' = Idle

\* An Err passes every transform up to the source, which does not run the chain again.
FailRun(how) ==
  /\ status' = how
  /\ run' = Idle
  /\ UNCHANGED <<stored, returned, coal>>

----------------------------------------------------------------------------
(* Sinks.                                                                  *)

\* The transform() of the sink of the given kind; "later" stands for the cluster sinks, which
\* send the requests and return what has arrived.
SinkRuns(kind, sink, requests, content) ==
  CASE kind = "valkey" -> {ValkeySinkSingle(sink, requests, content)}
    [] kind = "kafka" -> {KafkaSinkSingle(sink, requests, content)}
    [] kind = "cassandra" -> CassandraSinkSingle(sink, requests, content)
    [] kind = "opensearch" -> {OpenSearchSinkSingle(sink, requests, content)}
    [] kind = "later" -> {Outcome([SendOn(sink, requests) EXCEPT !.owed = @ \o requests], sink.arrived)}
    [] kind = "null" -> {NullSink(sink, requests, conf.protocol)}
    [] kind = "loopback" -> {Outcome(SendOn(sink, requests), Loopback(requests))}
    [] OTHER -> {Outcome(SendOn(sink, requests), Returner(requests))}

\* The database answers a request of a cluster sink, for in order protocols the oldest one;
\* the SinkConnection's task wakes the source.
AnswerArrives(sink, content) ==
  {[sink EXCEPT !.owed = RemoveAt(@, i), !.arrived = Append(@, Answer(sink.owed[i], content))] :
     i \in {j \in DOMAIN sink.owed : IsInorder(conf.protocol) => j = 1}}

DownAnswers ==
  /\ status = "open"
  /\ down' \in AnswerArrives(down, "ok")
  /\ force' = TRUE
  /\ UNCHANGED <<conf, sent, coal, stored, counted, sub, tee, other, run, returned, events, status>>

SubAnswers ==
  /\ status = "open"
  /\ \E content \in conf.contents : \E sink \in AnswerArrives(sub.sink, content) :
       sub' = [sub EXCEPT !.sink = sink]
  /\ force' = TRUE
  /\ UNCHANGED <<conf, sent, coal, stored, counted, down, tee, other, run, returned, events, status>>

\* The database sends something on its own, on the connection of either chain.
EventArrives ==
  /\ status = "open" /\ events < conf.events
  /\ \/ down' = [down EXCEPT !.arrived = Append(@, Event)] /\ UNCHANGED sub
     \/ /\ conf.tail = "tee"
        /\ sub' = [sub EXCEPT !.sink.arrived = Append(@, Event)] /\ UNCHANGED down
  /\ events' = events + 1
  /\ force' = TRUE
  /\ UNCHANGED <<conf, sent, coal, stored, counted, tee, other, run, returned, status>>

\* The sink's run, or an Err because the connection to the database fails or has failed.
SinkOutcomes(kind, sink, requests, content) ==
  LET dead == Failure([sink EXCEPT !.broken = TRUE], requests)
  IN IF sink.broken THEN {dead}
     ELSE SinkRuns(kind, sink, requests, content) \cup (IF conf.faults THEN {dead} ELSE {})

\* The sink at the end of the chain.
SinkStep ==
  /\ conf.tail = "sink" /\ run.phase = "tail"
  /\ \E o \in SinkOutcomes(conf.sink, down, run.requests, "ok") :
       /\ down' = o.sink
       /\ IF o.ok THEN EndRun(o.out) ELSE FailRun("failed")
  /\ UNCHANGED <<conf, sent, force, counted, sub, tee, other, events>>

\* ParallelMap at the end of the chain: any of its chains may fail, and the run goes on.
ParallelStep ==
  /\ conf.tail = "parallel" /\ run.phase = "tail"
  /\ \E o \in ParallelOutcomes(down, sub.held, run.requests, Parallelism, conf.subCount, conf.ordered,
                               conf.faults) :
       /\ down' = o.sink
       /\ sub' = [sub EXCEPT !.held = o.held]
       /\ EndRun(o.out)
  /\ UNCHANGED <<conf, sent, force, counted, tee, other, events>>

----------------------------------------------------------------------------
(* A buffered chain: a channel, and a task that runs the chain for each    *)
(* batch of it, also after an Err.                                         *)

\* BufferedChain::process_request waits for the result; process_request_no_return does not,
\* except for a flush.
Batch(requests, flush, returns, owner) ==
  [requests |-> requests, flush |-> flush, returns |-> returns, owner |-> owner]

HasRoom == Len(sub.queue) < BufferSize

\* The task of build_buffered: one batch.
BufferedChainRuns ==
  /\ sub.queue # <<>> /\ ~sub.ended
  /\ LET batch == Head(sub.queue)
     IN \E content \in conf.contents :
          \E o \in SinkOutcomes(conf.subSink, sub.sink, batch.requests, content) :
            /\ sub' = [sub EXCEPT !.queue = Tail(@), !.sink = o.sink]
            /\ run' = IF batch.returns /\ batch.owner = "client" /\ run # Idle
                      THEN [run EXCEPT !.toSub = IF o.ok THEN "done" ELSE "failed",
                                       !.subOut = o.out]
                      ELSE run
            /\ other' = IF batch.owner = "other"
                        THEN [other EXCEPT !.waits = FALSE, !.got = @ \o o.out] ELSE other
  /\ UNCHANGED <<conf, sent, coal, force, stored, counted, down, tee, returned, events, status>>

\* All senders are dropped and the channel is empty: the chain is flushed and the task ends.
\* A pooled chain stays in the pool.
BufferedChainEnds ==
  /\ conf.tail # "pool" /\ status # "open" /\ sub.queue = <<>> /\ ~sub.ended
  /\ sub' = [sub EXCEPT !.ended = TRUE, !.sink.arrived = <<>>]
  /\ UNCHANGED <<conf, sent, coal, force, stored, counted, down, tee, other, run, returned,
                 events, status>>

----------------------------------------------------------------------------
(* Tee: both chains at once (tokio::join!), then the responses.            *)

\* Variant: a flush does not wait for the buffered chain either.
TeeWaitsExceptFlush == conf.behaviour # "ignore" \/ run.keep = "tee"

\* Whether Tee asks the buffered chain for its result.
TeeWaits == conf.behaviour # "ignore" \/ run.keep = "tee" \/ run.flush

\* The requests go to the buffered chain's channel when it has room.
TeeSends ==
  /\ conf.tail = "tee" /\ run.phase = "tail" /\ run.toSub = "unsent" /\ HasRoom
  /\ sub' = [sub EXCEPT !.queue = Append(@, Batch(run.requests, TeeWaits /\ run.flush, TeeWaits, "client"))]
  /\ run' = [run EXCEPT !.toSub = IF TeeWaits THEN "sent" ELSE "done"]
  /\ UNCHANGED <<conf, sent, coal, force, stored, counted, down, tee, other, returned, events, status>>

\* timeout_micros is over and there is still no room: the batch is dropped.
TeeSendTimesOut ==
  /\ conf.tail = "tee" /\ run.phase = "tail" /\ run.toSub = "unsent" /\ conf.timeout /\ ~HasRoom
  /\ run' = [run EXCEPT !.toSub = "failed"]
  /\ sub' = [sub EXCEPT !.sink.dropped = @ \cup Ids(run.requests)]
  /\ UNCHANGED <<conf, sent, coal, force, stored, counted, down, tee, other, returned, events, status>>

\* The regular chain below the Tee.
TeeCallsNext ==
  /\ conf.tail = "tee" /\ run.phase = "tail" /\ run.toChain = "unsent"
  /\ \E o \in SinkOutcomes(conf.sink, down, run.requests, "ok") :
       /\ down' = o.sink
       /\ run' = [run EXCEPT !.toChain = IF o.ok THEN "done" ELSE "failed", !.chainOut = o.out]
  /\ UNCHANGED <<conf, sent, coal, force, stored, counted, sub, tee, other, returned, events, status>>

\* Tee::ignore_behaviour: the result of the source, the other one is dropped.
TeeIgnores ==
  /\ IF run.keep = "chain"
     THEN IF run.toChain = "done" THEN EndRun(run.chainOut) ELSE FailRun("failed")
     ELSE IF run.toSub = "done" THEN EndRun(run.subOut) ELSE FailRun("failed")
  /\ UNCHANGED tee

\* The comparing behaviours: pair the responses, with the result source of this moment.
TeeCompares ==
  IF run.toSub = "failed" \/ run.toChain = "failed" THEN FailRun("failed") /\ UNCHANGED tee
  ELSE LET s == IF IsInorder(conf.protocol)
                THEN PairInOrder(tee.tee, tee.chain, run.subOut, run.chainOut, tee.keep,
                                 conf.behaviour, conf.protocol)
                ELSE PairOutOfOrder(tee.tee, tee.chain, run.subOut, run.chainOut, tee.keep,
                                    conf.behaviour, conf.protocol)
           wanted == IF conf.behaviour = "subchain" THEN ToSet(s.mismatched) ELSE {}
       IN /\ tee' = [tee EXCEPT !.tee = s.tee, !.chain = s.chain, !.pairs = @ \cup s.pairs,
                                !.kept = @ \ wanted,
                                !.mismatched = @ \o s.mismatched]
          /\ IF s.panics \/ ~(wanted \subseteq tee.kept) THEN FailRun("panicked")
             ELSE \/ EndRun(s.out)
                  \/ conf.behaviour = "subchain" /\ conf.faults /\ FailRun("failed")

\* Tee::transform, when both chains have been called.
TeeJoins ==
  /\ conf.tail = "tee" /\ run.phase = "tail"
  /\ run.toSub \in {"done", "failed"} /\ run.toChain \in {"done", "failed"}
  /\ IF conf.behaviour = "ignore" THEN TeeIgnores ELSE TeeCompares
  /\ UNCHANGED <<conf, sent, force, counted, down, sub, other, events>>

\* put_result_source: the other chain's responses are wanted from now on.
SwitchResultSource ==
  /\ conf.tail = "tee" /\ conf.switches /\ status = "open"
  /\ tee' = [tee EXCEPT !.keep = IF @ = "tee" THEN "chain" ELSE "tee"]
  /\ UNCHANGED <<conf, sent, coal, force, stored, counted, down, sub, other, run, returned, events,
                 status>>

----------------------------------------------------------------------------
(* ConnectionBalanceAndPool: at max_connections, clients share a buffered  *)
(* chain, which was built with the first one's force_run_chain.            *)

PoolSends ==
  /\ conf.tail = "pool" /\ run.phase = "tail" /\ run.toSub = "unsent" /\ HasRoom
  /\ sub' = [sub EXCEPT !.queue = Append(@, Batch(run.requests, run.flush, TRUE, "client"))]
  /\ run' = [run EXCEPT !.toSub = "sent"]
  /\ UNCHANGED <<conf, sent, coal, force, stored, counted, down, tee, other, returned, events, status>>

PoolReturns ==
  /\ conf.tail = "pool" /\ run.phase = "tail" /\ run.toSub \in {"done", "failed"}
  /\ IF run.toSub = "done" THEN EndRun(run.subOut) ELSE FailRun("failed")
  /\ UNCHANGED <<conf, sent, force, counted, down, sub, tee, other, events>>

\* Another client's run, whose chain ends in the same buffered chain.
OtherClientSends ==
  /\ conf.tail = "pool" /\ ~other.waits /\ other.sent < OtherRequests /\ HasRoom
  /\ LET request == FromBytes(Wire("read"), conf.requests + other.sent + 1)
     IN sub' = [sub EXCEPT !.queue = Append(@, Batch(<<request>>, FALSE, TRUE, "other"))]
  /\ other' = [other EXCEPT !.sent = @ + 1, !.waits = TRUE]
  /\ UNCHANGED <<conf, sent, coal, force, stored, counted, down, tee, run, returned, events, status>>

----------------------------------------------------------------------------
\* The client has gone or the chain has failed, and every task has ended.
Finished ==
  /\ status # "open" /\ sub.queue = <<>> /\ (sub.ended \/ conf.tail = "pool")
  /\ UNCHANGED vars

Next ==
  \/ IntervalPasses \/ TimerRestarts \/ TimerFires
  \/ ClientSends \/ ForcedRun \/ ClientGone
  \/ DownAnswers \/ SubAnswers \/ EventArrives
  \/ SinkStep \/ ParallelStep
  \/ BufferedChainRuns \/ BufferedChainEnds
  \/ TeeSends \/ TeeSendTimesOut \/ TeeCallsNext \/ TeeJoins \/ SwitchResultSource
  \/ PoolSends \/ PoolReturns \/ OtherClientSends
  \/ Finished

\* The tasks run on tokio and are polled when woken, time passes, and the databases answer.
\* Nothing is assumed of the clients, of events and of the switch.
Fairness ==
  /\ WF_vars(IntervalPasses) /\ WF_vars(TimerRestarts) /\ WF_vars(TimerFires)
  /\ WF_vars(ForcedRun)
  /\ WF_vars(DownAnswers) /\ WF_vars(SubAnswers)
  /\ WF_vars(SinkStep \/ ParallelStep \/ TeeSends \/ TeeCallsNext \/ TeeJoins \/ PoolSends \/ PoolReturns)
  /\ WF_vars(BufferedChainRuns)

Spec == Init /\ [][Next]_vars /\ Fairness

----------------------------------------------------------------------------
(* Properties.                                                             *)

Answered == Ids(returned) \ {NoId}

\* The client gets no response twice, and for in order protocols its responses come in the
\* order of its requests: through refusals (filter.rs, throttling.rs), the pairing and the
\* result source of Tee (tee.rs, new_responses) and the rounds of an ordered ParallelMap, as
\* long as its chains do not coalesce.
AnsweredOnceInOrder ==
  LET answers == SelectSeq(returned, LAMBDA r : r.id # NoId)
  IN \A i, j \in DOMAIN answers :
       i < j => IF IsInorder(conf.protocol) /\ conf.ordered /\ conf.subCount = 0
                THEN answers[i].id < answers[j].id
                ELSE answers[i].id # answers[j].id

\* A request that was refused reaches no database and is not counted by a QueryCounter below,
\* and a request the filter denies is answered by nothing but its error (filter.rs, transform;
\* throttling.rs, transform).
RefusedStayAbove ==
  /\ stored.refused \cap (ToSet(down.reached) \cup ToSet(sub.sink.reached) \cup counted) = {}
  /\ \A i \in DOMAIN returned :
       returned[i].id \in stored.refused => returned[i].frame \in {"filtered", "backpressure", "mismatch"}
  /\ \A i \in DOMAIN sent :
       ("filter" \in ToSet(conf.upper) /\ sent[i].bytes[1] \in conf.denied /\ i \in Answered) =>
         i \in stored.refused

\* After the flush that ends a connection (mod.rs, ChainState::flush) every request of the
\* client has been written to the database of each branch or was refused.  What is missing was
\* in a run of that branch that failed, and only where an Err does not end the connection: in
\* an ignoring Tee (tee.rs, ignore_behaviour: the branch whose result is not wanted, by an Err
\* or a full channel) and in a ParallelMap (parallel_map.rs, transform), whose own chains may
\* also still hold requests, as no flush reaches them.  A Tee whose flush timed out has left
\* earlier batches in the channel.
FlushLeavesNothing ==
  status = "closed" =>
    LET expected == Ids(sent) \ stored.refused
        ignores == conf.tail = "tee" /\ conf.behaviour = "ignore"
        swallowed(sink) == IF ignores \/ conf.tail = "parallel" THEN sink.dropped ELSE {}
        held == UNION {Ids(sub.held[i]) : i \in 1..Parallelism}
        queued == IF ignores /\ conf.timeout THEN UNION {Ids(b.requests) : b \in ToSet(sub.queue)} ELSE {}
    IN /\ coal.buffer = <<>>
       /\ conf.tail # "pool" => expected \ ToSet(down.reached) \subseteq held \cup swallowed(down)
       /\ conf.tail \in {"tee", "pool"} =>
            expected \ ToSet(sub.sink.reached) \subseteq queued \cup swallowed(sub.sink)
       /\ swallowed(down) \cup swallowed(sub.sink) # {} => conf.faults \/ conf.timeout

\* Nothing waits without a wake-up.  While Coalesce holds requests and has an interval, the
\* timer task sleeps or is told to, or the source is already woken: no order of the timer's
\* steps, of runs that flush and of runs that find nothing loses it (coalesce.rs, "avoids races
\* where a stale sleep fires").  Without Coalesce, a response that has arrived at a sink has
\* woken the source, or a batch for that chain is on its way (tee.rs, chain.rs).
NoLostWakeUp ==
  (status = "open" /\ run = Idle) =>
    /\ (conf.millis /\ coal.buffer # <<>>) => force \/ coal.restart \/ coal.timer # "parked"
    /\ (~HasCoalesce /\ down.arrived # <<>>) => force
    /\ (~HasCoalesce /\ sub.sink.arrived # <<>>) => force \/ sub.queue # <<>>

\* Tee compares the two responses to one request, however late either of them is and whatever
\* the database sends in between; and it finds every mismatched request it kept
\* (requests.remove(&id).unwrap()).  The chain panics only over a request that a transform
\* further up replaced by a dummy, and for Kafka and OpenSearch, in a filter or where
\* FailOnMismatch wants the error response these protocols do not have (tee.rs,
\* new_responses, transform; message/mod.rs, get_query_type, to_error_response).
TeePairsMatch ==
  /\ \A p \in tee.pairs : p[1] = p[2]
  /\ status = "panicked" =>
       \/ stored.refused # {}
       \/ /\ conf.protocol \in {"kafka", "opensearch"}
          /\ "filter" \in ToSet(conf.upper) \/ (conf.behaviour = "fail" /\ tee.mismatched # <<>>)

\* "But it must be returned eventually over the lifetime of the transform" (mod.rs:350), with
\* only the documented exception of a Coalesce without an interval.
ReturnedEventually ==
  \A i \in 1..3 : (Len(sent) >= i /\ (conf.count > 0 => conf.millis))
                    ~> (i \in Answered \/ status # "open")

\* "If a transform deletes a request it must return a simulated response message with its
\* request_id set to the deleted request" (mod.rs:351).
SimulatedResponsesPaired ==
  \A i \in DOMAIN returned : returned[i].id # NoId => returned[i].request_id = returned[i].id

\* "If the responses returned by the sub chain do not equal the responses returned by
\* down-chain then return an error." (transforms.md:602, of FailOnMismatch)
MismatchReturnsError == (conf.behaviour = "fail" /\ tee.mismatched # <<>>) => status # "panicked"

\* "When true transforms must flush any buffered messages into the messages field."
\* (mod.rs:163, of the flush), for the transforms inside a ParallelMap.
FlushReachesEveryChain == status = "closed" => \A i \in 1..Parallelism : sub.held[i] = <<>>

\* "unwrap each individual result and pop an error on the first one" (parallel_map.rs:144).
ParallelErrorEndsRun == (conf.tail = "parallel" /\ down.dropped # {}) => status # "open"
=============================================================================
