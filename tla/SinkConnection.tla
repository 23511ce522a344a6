---------------------------- MODULE SinkConnection ----------------------------
(***************************************************************************)
(* One outgoing connection of a sink (shotover/src/connection.rs) and the  *)
(* sink transform that owns it.  Four actors interleave:                   *)
(*                                                                         *)
(*   sink     the transform chain: send, try_recv_into, recv_into, drop    *)
(*   reader   the task that decodes responses and feeds the `in_` channel  *)
(*   writer   the task that drains the `out_` channel into the socket      *)
(*   dest     the destination (external): answers, stalls, closes          *)
(*                                                                         *)
(* A request is its position in the workload; a response is the id of the  *)
(* request it answers or Unrequested.  The destination speaks an in-order  *)
(* protocol (Valkey, Kafka), the ones that use dummy responses.  Which      *)
(* ConnectionError a task ends with is never inspected here, so an error   *)
(* is only present or absent.                                              *)
(***************************************************************************)
EXTENDS DummyResponseInserter, FiniteSets

CONSTANTS
  Workloads,    \* [requests : kinds of the requests in order, unrequested : Nat]
  Modes,        \* how the owning sink receives: "single" or "cluster"
  InCap,        \* capacity of the `in_` channel (10_000 batches in the code)
  ReadTimeout   \* whether read_timeout is configured

ASSUME InCapAssumption == InCap \in Nat \ {0}
ASSUME ReadTimeoutAssumption == ReadTimeout \in BOOLEAN
ASSUME ModesAssumption == Modes \subseteq {"single", "cluster"}

VARIABLES
  work, mode,                        \* chosen once
  sink, want, sent, got,             \* the owner, and what it sent and received
  error, inserter,                   \* fields of SinkConnection
  in_q, in_open, out_q, out_open,    \* the two channels
  closed_q,                          \* connection_closed_ (capacity 1) holds an error
  force_run,                         \* the permit of force_run_chain
  count, added,                      \* RequestPending: count, permit of notify
  reader, read_batch, timer,
  writer, write_batch,
  wire_out, wire_in, dest, pushed    \* the socket and the destination

sinkVars   == <<sink, want, sent, got, error, inserter>>
chanVars   == <<in_q, in_open, out_q, out_open, closed_q>>
pendVars   == <<count, added>>
readerVars == <<reader, read_batch, timer>>
writerVars == <<writer, write_batch>>
destVars   == <<wire_out, wire_in, dest, pushed>>
vars == <<work, mode, sinkVars, chanVars, force_run, pendVars, readerVars,
          writerVars, destVars>>

NoError  == "None"
Error    == "Some"
Panic    == "panic"

Farewell == -1                 \* what RespondAndThenCloseConnection carries
Ids      == 1..Len(work.requests)
\* Message::response_is_dummy: requests the destination will not answer.
NoReply  == {i \in Ids : work.requests[i] = "noreply"}
Real(b)  == SelectSeq(b, LAMBDA m : m \in Ids \ NoReply)
Min2(a, b) == IF a <= b THEN a ELSE b

Init ==
  /\ work \in Workloads /\ mode \in Modes
  /\ sink = "idle" /\ want = 0 /\ sent = 0 /\ got = <<>>
  /\ error = NoError /\ inserter = NewInserter
  /\ in_q = <<>> /\ in_open = TRUE /\ out_q = <<>> /\ out_open = TRUE
  /\ closed_q = FALSE /\ force_run = FALSE
  /\ count = 0 /\ added = FALSE
  /\ reader = "loop" /\ read_batch = <<>> /\ timer = FALSE
  /\ writer = "recv" /\ write_batch = <<>>
  /\ wire_out = <<>> /\ wire_in = <<>> /\ dest = "open" /\ pushed = 0

(***************************************************************************)
(* The handle, as the owning sink uses it.                                 *)
(***************************************************************************)
\* get_error_for_close: try_recv().unwrap() panics on an empty channel.
GetErrorForClose ==
  /\ error' = IF closed_q THEN Error ELSE Panic
  /\ closed_q' = FALSE

\* get_error: may be called at any time (connections.rs of the Kafka sink).
GetError ==
  /\ sink = "idle" /\ error = NoError /\ closed_q
  /\ error' = Error /\ closed_q' = FALSE
  /\ UNCHANGED <<work, mode, sink, want, sent, got, inserter, in_q, in_open,
                 out_q, out_open, force_run, pendVars, readerVars, writerVars,
                 destVars>>

\* A chain run with n requests calls send.  On Err the sink fails.
Send(n) ==
  LET batch == [k \in 1..n |-> sent + k] IN
  /\ sink = "idle" /\ sent + n <= Len(work.requests)
  /\ inserter' = ProcessRequests(inserter, batch, NoReply)
  /\ \/ /\ error # NoError
        /\ sink' = "failed"
        /\ UNCHANGED <<error, closed_q, out_q, sent, want>>
     \/ /\ error = NoError /\ ~out_open
        /\ GetErrorForClose
        /\ sink' = "failed"
        /\ UNCHANGED <<out_q, sent, want>>
     \/ /\ error = NoError /\ out_open
        /\ out_q' = Append(out_q, batch)
        /\ sent' = sent + n
        /\ IF mode = "single" THEN sink' = "recv" /\ want' = n
                              ELSE sink' = "poll" /\ UNCHANGED want
        /\ UNCHANGED <<error, closed_q>>
  /\ UNCHANGED <<work, mode, got, in_q, in_open, out_open, force_run, pendVars,
                 readerVars, writerVars, destVars>>

\* The handler consumes the permit and runs the chain with no requests.
ForceRun ==
  /\ sink = "idle" /\ force_run
  /\ force_run' = FALSE
  /\ sink' = "poll"
  /\ UNCHANGED <<work, mode, want, sent, got, error, inserter, chanVars, pendVars,
                 readerVars, writerVars, destVars>>

\* The responses that answer a request.
Answers(b)   == SelectSeq(b, LAMBDA r : r # Unrequested)
Requested(b) == Len(Answers(b))

\* try_recv_into with error = None: drain, insert dummies, and when the
\* channel is closed take the error (handle_disconnect_on_recv).
TryRecvInto(res, onErr) ==
  LET have == Requested(res.responses) IN
  /\ in_q' = <<>>
  /\ inserter' = res.inserter
  /\ got' = got \o Answers(res.responses)
  /\ IF in_open THEN UNCHANGED <<error, closed_q>> ELSE GetErrorForClose
  /\ IF ~in_open /\ res.responses = <<>>
     THEN sink' = onErr /\ UNCHANGED want
     ELSE IF sink = "poll" THEN sink' = "idle" /\ UNCHANGED want
     ELSE /\ want' = want - Min2(want, have)
          /\ sink' = IF have >= want THEN "idle"
                     ELSE IF res.responses = <<>> THEN "await" ELSE "recv"

\* What a receive error leads to: the chain fails, but ValkeySinkSingle
\* ignores it when the run had no requests.
OnError ==
  {"failed"} \cup (IF sink = "poll" /\ mode = "single" THEN {"idle"} ELSE {})

\* A receive on a handle that already holds an error returns that error.
ReceiveErr ==
  /\ sink \in {"poll", "recv"} /\ error # NoError
  /\ sink' \in OnError
  /\ UNCHANGED <<work, mode, want, sent, got, error, inserter, chanVars, force_run,
                 pendVars, readerVars, writerVars, destVars>>

\* try_recv_into: once in a "poll" run; in the "recv" loop of the single
\* sinks it is the first half of recv_into.
Receive ==
  /\ sink \in {"poll", "recv"} /\ error = NoError
  /\ \E res \in {ProcessResponses(inserter, FlattenSeq(in_q))},
        onErr \in OnError :
       TryRecvInto(res, onErr)
  /\ UNCHANGED <<work, mode, sent, in_open, out_q, out_open, force_run, pendVars,
                 readerVars, writerVars, destVars>>

\* The second half of recv_into: await exactly one batch, or the closing.
AwaitBatch ==
  /\ sink = "await" /\ in_q # <<>>
  /\ in_q' = Tail(in_q)
  /\ \E res \in {ProcessResponses(inserter, Head(in_q))} :
       LET have == Requested(res.responses) IN
       /\ inserter' = res.inserter
       /\ got' = got \o Answers(res.responses)
       /\ want' = want - Min2(want, have)
       /\ sink' = IF have >= want THEN "idle" ELSE "recv"
  /\ UNCHANGED <<work, mode, sent, error, in_open, out_q, out_open, closed_q,
                 force_run, pendVars, readerVars, writerVars, destVars>>

AwaitClosed ==
  /\ sink = "await" /\ in_q = <<>> /\ ~in_open
  /\ GetErrorForClose
  /\ sink' = "failed"
  /\ UNCHANGED <<work, mode, want, sent, got, inserter, in_q, in_open, out_q,
                 out_open, force_run, pendVars, readerVars, writerVars, destVars>>

\* The single sinks wrap recv_into in timeout(read_timeout, ..).
AwaitTimeout ==
  /\ sink = "await" /\ ReadTimeout
  /\ sink' = "failed"
  /\ UNCHANGED <<work, mode, want, sent, got, error, inserter, chanVars, force_run,
                 pendVars, readerVars, writerVars, destVars>>

\* The connection is dropped: in_rx, connection_closed_rx and the handle's
\* out_tx go away.
Drop ==
  /\ sink # "dropped"
  /\ sink' = "dropped" /\ want' = 0 /\ sent' = 0 /\ got' = <<>>
  /\ inserter' = NewInserter /\ error' = NoError
  /\ in_q' = <<>> /\ closed_q' = FALSE
  /\ UNCHANGED <<work, mode, in_open, out_q, out_open, force_run, pendVars,
                 readerVars, writerVars, destVars>>

(***************************************************************************)
(* reader_task and the code around it in spawn_read_write_tasks.           *)
(***************************************************************************)

\* Loop head: the timeout is armed only while requests are pending.
ReaderLoop ==
  /\ reader = "loop"
  /\ reader' = "select"
  /\ timer' = (count # 0 /\ ReadTimeout)
  /\ UNCHANGED <<work, mode, sinkVars, chanVars, force_run, pendVars, read_batch, writerVars, destVars>>

\* Variant: the select has no in_tx.closed() branch.
ReaderHandleGoneOnPush ==
  /\ reader = "push" /\ sink = "dropped"
  /\ reader' = "done" /\ timer' = FALSE /\ read_batch' = <<>>
  /\ UNCHANGED <<work, mode, sinkVars, chanVars, force_run, pendVars, writerVars,
                 destVars>>

\* The select is biased: each branch is taken only when those above it are
\* not ready.  First branch: in_tx.closed().
ReaderHandleGone ==
  /\ reader \in {"select", "push"} /\ sink = "dropped"
  /\ reader' = "done" /\ timer' = FALSE /\ read_batch' = <<>>
  /\ UNCHANGED <<work, mode, sinkVars, chanVars, force_run, pendVars,
                 writerVars, destVars>>

\* reader.next() yields a batch: whatever prefix of the stream has arrived.
ReaderNext ==
  /\ reader = "select" /\ sink # "dropped"
  /\ \E n \in 1..Len(wire_in) :
       /\ read_batch' = SubSeq(wire_in, 1, n)
       /\ wire_in' = SubSeq(wire_in, n + 1, Len(wire_in))
  /\ count' = count - Requested(read_batch')
  /\ reader' = "push" /\ timer' = FALSE
  /\ UNCHANGED <<work, mode, sinkVars, chanVars, force_run, added,
                  writerVars, wire_out, dest, pushed>>

\* in_tx.send(messages).await on the bounded channel.
ReaderPush ==
  /\ reader = "push" /\ sink # "dropped" /\ Len(in_q) < InCap
  /\ in_q' = Append(in_q, read_batch)
  /\ read_batch' = <<>>
  /\ reader' = "wake"
  /\ UNCHANGED <<work, mode, sinkVars, in_open, out_q, out_open, closed_q, force_run,
                 pendVars, timer, writerVars, destVars>>

\* Variant: the batch is queued without waking the chain.
ReaderWakeForgotten ==
  /\ reader = "wake"
  /\ reader' = "loop"
  /\ UNCHANGED <<work, mode, sinkVars, chanVars, force_run, pendVars, read_batch,
                 timer, writerVars, destVars>>

ReaderWake ==
  /\ reader = "wake"
  /\ force_run' = TRUE
  /\ reader' = "loop"
  /\ UNCHANGED <<work, mode, sinkVars, chanVars, pendVars, read_batch, timer, writerVars, destVars>>

\* The reader task returns Err(..).
ReaderErr ==
  /\ reader' = "fail" /\ timer' = FALSE
  /\ UNCHANGED <<work, mode, sinkVars, in_q, in_open, out_open, closed_q, force_run,
                 count, read_batch, writerVars, destVars>>

\* Decoding fails, or the read itself does; RespondAndThenCloseConnection
\* first queues a message for the destination.
ReaderDecodeErr ==
  /\ reader = "select" /\ sink # "dropped"
  /\ ReaderErr
  /\ \/ UNCHANGED out_q
     \/ out_open /\ out_q' = Append(out_q, <<Farewell>>)
  /\ UNCHANGED added

ReaderEof ==
  /\ reader = "select" /\ sink # "dropped" /\ wire_in = <<>> /\ dest = "closed"
  /\ ReaderErr
  /\ UNCHANGED <<out_q, added>>

\* Nothing to read.
Quiet == sink # "dropped" /\ wire_in = <<>> /\ dest # "closed"

\* request_pending.notify.notified(): go back and recompute the timeout.
ReaderNotified ==
  /\ reader = "select" /\ Quiet /\ added
  /\ added' = FALSE
  /\ reader' = "loop" /\ timer' = FALSE
  /\ UNCHANGED <<work, mode, sinkVars, chanVars, force_run, count, read_batch, writerVars, destVars>>

ReaderTimeout ==
  /\ reader = "select" /\ Quiet /\ ~added /\ timer
  /\ ReaderErr
  /\ UNCHANGED <<out_q, added>>

\* Variant: in_tx is dropped and the error never sent.
ReaderReportForgotten ==
  /\ reader = "fail"
  /\ reader' = "close"
  /\ UNCHANGED <<work, mode, sinkVars, chanVars, force_run, pendVars, read_batch,
                 timer, writerVars, destVars>>

\* The error goes to the handle, then in_tx is dropped, then the chain wakes.
ReaderReport ==
  /\ reader = "fail"
  /\ closed_q' = (sink # "dropped")
  /\ reader' = "close"
  /\ UNCHANGED <<work, mode, sinkVars, in_q, in_open, out_q, out_open, force_run,
                 pendVars, read_batch, timer, writerVars, destVars>>

ReaderClose ==
  /\ reader = "close"
  /\ in_open' = FALSE
  /\ reader' = "lastwake"
  /\ UNCHANGED <<work, mode, sinkVars, in_q, out_q, out_open, closed_q, force_run,
                 pendVars, read_batch, timer, writerVars, destVars>>

\* Variant: the failing reader does not wake the chain.
ReaderLastWakeForgotten ==
  /\ reader = "lastwake"
  /\ reader' = "done"
  /\ UNCHANGED <<work, mode, sinkVars, chanVars, force_run, pendVars, read_batch,
                 timer, writerVars, destVars>>

ReaderLastWake ==
  /\ reader = "lastwake"
  /\ force_run' = TRUE
  /\ reader' = "done"
  /\ UNCHANGED <<work, mode, sinkVars, chanVars, pendVars, read_batch, timer, writerVars, destVars>>

(***************************************************************************)
(* writer_task and the code around it.                                     *)
(***************************************************************************)
\* out_rx.recv() and request_pending.add(messages.len()).
WriterTake ==
  /\ writer = "recv" /\ out_q # <<>>
  /\ write_batch' = Head(out_q)
  /\ out_q' = Tail(out_q)
  /\ count' = count + Len(write_batch')
  /\ added' = TRUE
  /\ writer' = "send"
  /\ UNCHANGED <<work, mode, sinkVars, in_q, in_open, out_open, closed_q, force_run,
                 readerVars, destVars>>

\* writer.send(messages) succeeds; it is never certain to (a full socket).
WriterSend ==
  /\ writer = "send" /\ dest # "closed"
  /\ wire_out' = wire_out \o Real(write_batch)
  /\ write_batch' = <<>>
  /\ writer' = "recv"
  /\ UNCHANGED <<work, mode, sinkVars, chanVars, force_run, pendVars, readerVars, wire_in, dest, pushed>>

\* It fails: an encoding error writes nothing, an io error any prefix.
WriterErr ==
  /\ writer = "send"
  /\ \E n \in 0..Len(write_batch) :
       wire_out' = wire_out \o Real(SubSeq(write_batch, 1, n))
  /\ writer' = "fail" /\ write_batch' = <<>>
  /\ UNCHANGED <<work, mode, sinkVars, chanVars, force_run, pendVars, readerVars,
                 wire_in, dest, pushed>>

\* The error goes to the handle, then out_rx is dropped.
WriterReport ==
  /\ writer = "fail"
  /\ closed_q' = (sink # "dropped")
  /\ writer' = "close"
  /\ UNCHANGED <<work, mode, sinkVars, in_q, in_open, out_q, out_open, force_run,
                 pendVars, readerVars, write_batch, destVars>>

WriterClose ==
  /\ writer = "close"
  /\ out_open' = FALSE
  /\ out_q' = <<>>
  /\ writer' = "done"
  /\ UNCHANGED <<work, mode, sinkVars, in_q, in_open, closed_q, force_run, pendVars,
                 readerVars, write_batch, destVars>>

\* out_rx.recv() returns None: both senders, the handle's and the reader
\* task's, are gone.
WriterNone ==
  /\ writer = "recv" /\ out_q = <<>> /\ sink = "dropped"
  /\ reader \in {"fail", "close", "lastwake", "done"}
  /\ writer' = "done"
  /\ UNCHANGED <<work, mode, sinkVars, chanVars, force_run, pendVars, readerVars,
                 write_batch, destVars>>

(***************************************************************************)
(* The destination (external).  Once the handle or the reader is gone      *)
(* nothing it sends is observed.                                           *)
(***************************************************************************)
Observed == reader # "done" /\ sink # "dropped"

DestAnswer ==
  /\ dest = "open" /\ wire_out # <<>> /\ Observed
  /\ wire_in' = Append(wire_in, Head(wire_out))
  /\ wire_out' = Tail(wire_out)
  /\ UNCHANGED <<work, mode, sinkVars, chanVars, force_run, pendVars, readerVars,
                 writerVars, dest, pushed>>

DestPush ==
  /\ dest = "open" /\ pushed < work.unrequested /\ Observed
  /\ wire_in' = Append(wire_in, Unrequested)
  /\ pushed' = pushed + 1
  /\ UNCHANGED <<work, mode, sinkVars, chanVars, force_run, pendVars, readerVars,
                 writerVars, wire_out, dest>>

DestClose ==
  /\ dest = "open"
  /\ dest' = "closed"
  /\ UNCHANGED <<work, mode, sinkVars, chanVars, force_run, pendVars, readerVars,
                 writerVars, wire_out, wire_in, pushed>>

\* The writer's half of the TCP stream is shut down when it is dropped; the
\* destination reads the end of the stream and closes.
DestEof ==
  /\ writer \in {"fail", "close", "done"} /\ Observed
  /\ DestClose

-----------------------------------------------------------------------------
SinkStep == ForceRun \/ ReceiveErr \/ Receive \/ AwaitBatch \/ AwaitClosed
SinkNext ==
  \/ SinkStep \/ GetError \/ AwaitTimeout \/ Drop
  \/ \E n \in 1..Len(work.requests) : Send(n)
ReaderStep ==
  \/ ReaderLoop \/ ReaderHandleGone \/ ReaderNext \/ ReaderPush \/ ReaderWake
  \/ ReaderEof \/ ReaderNotified \/ ReaderTimeout \/ ReaderReport \/ ReaderClose
  \/ ReaderLastWake
WriterStep == WriterTake \/ WriterReport \/ WriterClose \/ WriterNone
Fault == ReaderDecodeErr \/ WriterErr
DestNext == DestAnswer \/ DestPush \/ DestClose

\* Everything is over: the handle is gone and both tasks have returned.
Finished ==
  /\ sink = "dropped" /\ reader = "done" /\ writer = "done"
  /\ UNCHANGED vars

Next ==
  SinkNext \/ ReaderStep \/ WriterStep \/ WriterSend \/ Fault \/ DestNext \/ Finished

\* Tokio polls every ready task and timers elapse.  A write may block for
\* ever and the destination need not answer, so neither is fair; but it does
\* close a stream that was shut down (plain TCP: the halves of a TLS stream
\* share it, and dropping one does not shut it down).
Fairness ==
  /\ WF_vars(ReaderStep) /\ WF_vars(WriterStep) /\ WF_vars(SinkStep)
  /\ WF_vars(DestEof)

Spec == Init /\ [][Next]_vars /\ Fairness

-----------------------------------------------------------------------------
Pc == [sink   |-> {"idle", "poll", "recv", "await", "failed", "dropped"},
       reader |-> {"loop", "select", "push", "wake", "fail", "close", "lastwake", "done"},
       writer |-> {"recv", "send", "fail", "close", "done"}]

\* Every variable stays in its domain: the pending counters never
\* underflow, indexes of dummies stay natural, the `in_` channel respects
\* its capacity.
TypeOK ==
  /\ work \in Workloads /\ mode \in Modes
  /\ sink \in Pc.sink /\ reader \in Pc.reader /\ writer \in Pc.writer
  /\ want \in Nat /\ sent \in 0..Len(work.requests)
  /\ error \in {NoError, Error, Panic} /\ closed_q \in BOOLEAN
  /\ inserter.pending_requests_count \in Nat
  /\ \A k \in DOMAIN inserter.dummy_requests :
       inserter.dummy_requests[k].request_index \in Nat
  /\ in_open \in BOOLEAN /\ out_open \in BOOLEAN /\ force_run \in BOOLEAN
  /\ Len(in_q) <= InCap
  /\ count \in Nat /\ added \in BOOLEAN /\ timer \in BOOLEAN
  /\ dest \in {"open", "closed"} /\ pushed \in 0..work.unrequested

\* get_error_for_close never finds connection_closed_ empty: its unwrap does
\* not panic, whatever order the two tasks fail in.
NoPanic == error # Panic

\* What the two task wrappers guarantee to a live handle: from the moment a
\* task has reported, and so whenever `in_` or `out_` is closed, the reason
\* is in connection_closed_ or already stored.  NoPanic rests on it.
ErrorAvailable ==
  sink # "dropped" /\ (reader = "close" \/ ~in_open \/ writer = "close" \/ ~out_open)
    => error # NoError \/ closed_q

\* Each request is answered to the sink at most once and in request order;
\* dummy responses stand where their request stood.
InRequestOrder ==
  \A i \in DOMAIN got : got[i] = i

\* A queued batch, or a closed channel, always has a wake-up coming unless
\* a chain run is about to drain the channel: no response is stuck until the
\* next client request.
NoStrandedResponse ==
  sink \in {"idle", "recv", "await"} /\ error = NoError /\ (in_q # <<>> \/ ~in_open)
    => force_run \/ reader \in {"wake", "lastwake"}

\* With a read timeout every request the sink sent is answered, or the
\* handle learns why not, even when the destination goes silent.
EveryRequestSettles ==
  (sent > Len(got)) ~>
     (sent = Len(got) \/ error # NoError \/ sink \in {"failed", "dropped"})

\* The owner of the handle is told: a request it sent is answered, or a
\* later receive fails (what the failing reader wakes the chain for).
EveryRequestReported ==
  (sent > Len(got)) ~> (sent = Len(got) \/ sink \in {"failed", "dropped"})

\* After a drop both tasks end, unless a write to the socket blocks.
TasksEnd == (sink = "dropped") ~> (reader = "done" /\ writer \in {"done", "send"})
=============================================================================
