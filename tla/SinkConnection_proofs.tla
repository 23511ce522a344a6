------------------------ MODULE SinkConnection_proofs ------------------------
(***************************************************************************)
(* Proofs about SinkConnection for every workload, channel capacity and    *)
(* receiving mode.  The argument is one of control only: which task has    *)
(* reported, which channel is closed, which permit is set.                 *)
(***************************************************************************)
EXTENDS SinkConnection, TLAPS

\* The Boolean variables the two invariants speak of.
FlagsOK == closed_q \in BOOLEAN /\ in_open \in BOOLEAN /\ out_open \in BOOLEAN

\* The inductive invariant: the unwrap of get_error_for_close is safe because
\* ErrorAvailable holds at every call of it and the caller, recv_into waiting
\* for a batch included, has no error stored yet.
ErrorInv ==
  FlagsOK /\ NoPanic /\ ErrorAvailable /\ (sink = "await" => error = NoError)

LEMMA ErrorInvInit == Init => ErrorInv
  BY Zenon DEF Init, ErrorInv, FlagsOK, NoPanic, ErrorAvailable, NoError, Panic

\* Every step keeps the reason for a closed channel available to the handle.
LEMMA ErrorInvStep == ErrorInv /\ [Next]_vars => ErrorInv'
<1> SUFFICES ASSUME ErrorInv, [Next]_vars PROVE ErrorInv'
  BY SMTT(20)
<1> USE DEF ErrorInv, FlagsOK, NoPanic, ErrorAvailable, NoError, Error, Panic
<1>1. CASE SinkNext
  <2>1. ASSUME NEW n \in 1..Len(work.requests), Send(n) PROVE ErrorInv'
    <3>1. UNCHANGED <<in_open, out_open, reader, writer>>
      BY <2>1 DEF Send, readerVars, writerVars
    <3>2. sink # "await" /\ sink' # "await" /\ sink # "dropped"
      BY <2>1 DEF Send
    <3>3. CASE error = NoError /\ ~out_open
      BY <2>1, <3>1, <3>2, <3>3, ZenonT(30) DEF Send, GetErrorForClose
    <3>4. CASE UNCHANGED <<error, closed_q>>
      BY <3>1, <3>2, <3>4
    <3> QED
      BY <2>1, <3>3, <3>4 DEF Send
  <2>2. CASE GetError
    BY <2>2, Zenon DEF GetError, readerVars, writerVars
  <2>3. CASE ForceRun
    BY <2>3 DEF ForceRun, chanVars, readerVars, writerVars
  <2>4. CASE ReceiveErr
    BY <2>4 DEF ReceiveErr, OnError, chanVars, readerVars, writerVars
  <2>5. CASE Receive
    BY <2>5, Zenon DEF Receive, OnError, TryRecvInto, GetErrorForClose, readerVars, writerVars
  <2>6. CASE AwaitBatch
    BY <2>6 DEF AwaitBatch, readerVars, writerVars
  <2>7. CASE AwaitClosed
    BY <2>7, ZenonT(30) DEF AwaitClosed, GetErrorForClose, readerVars, writerVars
  <2>8. CASE AwaitTimeout
    BY <2>8 DEF AwaitTimeout, chanVars, readerVars, writerVars
  <2>9. CASE Drop
    BY <2>9, Zenon DEF Drop
  <2> QED
    BY <1>1, <2>1, <2>2, <2>3, <2>4, <2>5, <2>6, <2>7, <2>8, <2>9, SMTT(20) DEF SinkNext, SinkStep
<1>2. CASE ReaderStep
  <2>1. CASE ReaderLoop
    BY <2>1 DEF ReaderLoop, sinkVars, chanVars, readerVars, writerVars
  <2>2. CASE ReaderHandleGone
    BY <2>2 DEF ReaderHandleGone, sinkVars, chanVars, readerVars, writerVars
  <2>3. CASE ReaderNext
    BY <2>3 DEF ReaderNext, sinkVars, chanVars, readerVars, writerVars
  <2>4. CASE ReaderPush
    BY <2>4 DEF ReaderPush, sinkVars, chanVars, readerVars, writerVars
  <2>5. CASE ReaderWake
    BY <2>5 DEF ReaderWake, sinkVars, chanVars, readerVars, writerVars
  <2>6. CASE ReaderEof
    BY <2>6 DEF ReaderEof, ReaderErr, sinkVars, chanVars, readerVars, writerVars
  <2>7. CASE ReaderNotified
    BY <2>7 DEF ReaderNotified, sinkVars, chanVars, readerVars, writerVars
  <2>8. CASE ReaderTimeout
    BY <2>8 DEF ReaderTimeout, ReaderErr, sinkVars, chanVars, readerVars, writerVars
  <2>9. CASE ReaderReport
    BY <2>9 DEF ReaderReport, sinkVars, chanVars, readerVars, writerVars
  <2>10. CASE ReaderClose
    BY <2>10, ZenonT(30) DEF ReaderClose, sinkVars, chanVars, readerVars, writerVars
  <2>11. CASE ReaderLastWake
    BY <2>11 DEF ReaderLastWake, sinkVars, chanVars, readerVars, writerVars
  <2> QED
    BY <1>2, <2>1, <2>2, <2>3, <2>4, <2>5, <2>6, <2>7, <2>8, <2>9, <2>10, <2>11 DEF ReaderStep
<1>3. CASE WriterStep
  <2>1. CASE WriterTake
    BY <2>1 DEF WriterTake, sinkVars, chanVars, readerVars, writerVars
  <2>2. CASE WriterReport
    BY <2>2 DEF WriterReport, sinkVars, chanVars, readerVars, writerVars
  <2>3. CASE WriterClose
    BY <2>3, ZenonT(30) DEF WriterClose, sinkVars, chanVars, readerVars, writerVars
  <2>4. CASE WriterNone
    BY <2>4 DEF WriterNone, sinkVars, chanVars, readerVars, writerVars
  <2> QED
    BY <1>3, <2>1, <2>2, <2>3, <2>4 DEF WriterStep
<1>4. CASE WriterSend \/ Fault
  <2>1. CASE WriterSend
    BY <2>1 DEF WriterSend, sinkVars, chanVars, readerVars, writerVars
  <2>2. CASE ReaderDecodeErr
    BY <2>2 DEF ReaderDecodeErr, ReaderErr, sinkVars, chanVars, readerVars, writerVars
  <2>3. CASE WriterErr
    BY <2>3 DEF WriterErr, sinkVars, chanVars, readerVars, writerVars
  <2> QED
    BY <1>4, <2>1, <2>2, <2>3 DEF Fault
<1>5. CASE DestNext
  BY <1>5 DEF DestNext, DestAnswer, DestPush, DestClose, sinkVars, chanVars,
     readerVars, writerVars
<1>6. CASE Finished \/ UNCHANGED vars
  BY <1>6 DEF Finished, vars, sinkVars, chanVars, readerVars, writerVars
<1> QED
  BY <1>1, <1>2, <1>3, <1>4, <1>5, <1>6 DEF Next

\* get_error_for_close never unwraps an empty channel.
THEOREM NeverPanics == Spec => []NoPanic
<1>1. ErrorInv => NoPanic
  BY DEF ErrorInv
<1> QED
  BY ErrorInvInit, ErrorInvStep, <1>1, PTL DEF Spec

-----------------------------------------------------------------------------
LEMMA NoStrandedInit == Init => NoStrandedResponse
  BY DEF Init, NoStrandedResponse

\* Every step keeps a wake-up coming for what the `in_` channel holds.
LEMMA NoStrandedStep == NoStrandedResponse /\ [Next]_vars => NoStrandedResponse'
<1> SUFFICES ASSUME NoStrandedResponse, [Next]_vars PROVE NoStrandedResponse'
  OBVIOUS
<1> USE DEF NoStrandedResponse, NoError, Error, Panic
<1>1. CASE SinkNext
  <2>1. CASE \E n \in 1..Len(work.requests) : Send(n)
    BY <2>1 DEF Send, GetErrorForClose, readerVars
  <2>2. CASE GetError
    BY <2>2 DEF GetError, readerVars
  <2>3. CASE ForceRun
    BY <2>3 DEF ForceRun
  <2>4. CASE ReceiveErr
    BY <2>4 DEF ReceiveErr, OnError, chanVars, readerVars
  <2>5. CASE Receive
    BY <2>5 DEF Receive, TryRecvInto, GetErrorForClose
  <2>6. CASE AwaitBatch
    BY <2>6 DEF AwaitBatch, readerVars
  <2>7. CASE AwaitClosed
    BY <2>7 DEF AwaitClosed
  <2>8. CASE AwaitTimeout
    BY <2>8 DEF AwaitTimeout
  <2>9. CASE Drop
    BY <2>9 DEF Drop
  <2> QED
    BY <1>1, <2>1, <2>2, <2>3, <2>4, <2>5, <2>6, <2>7, <2>8, <2>9, SMTT(20) DEF SinkNext, SinkStep
<1>2. CASE ReaderStep
  <2>1. CASE ReaderLoop
    BY <2>1 DEF ReaderLoop, sinkVars, chanVars, readerVars
  <2>2. CASE ReaderHandleGone
    BY <2>2 DEF ReaderHandleGone, sinkVars, chanVars, readerVars
  <2>3. CASE ReaderNext
    BY <2>3 DEF ReaderNext, sinkVars, chanVars, readerVars
  <2>4. CASE ReaderPush
    BY <2>4 DEF ReaderPush, sinkVars, chanVars, readerVars
  <2>5. CASE ReaderWake
    BY <2>5 DEF ReaderWake, sinkVars, chanVars, readerVars
  <2>6. CASE ReaderEof
    BY <2>6 DEF ReaderEof, ReaderErr, sinkVars, chanVars, readerVars
  <2>7. CASE ReaderNotified
    BY <2>7 DEF ReaderNotified, sinkVars, chanVars, readerVars
  <2>8. CASE ReaderTimeout
    BY <2>8 DEF ReaderTimeout, ReaderErr, sinkVars, chanVars, readerVars
  <2>9. CASE ReaderReport
    BY <2>9 DEF ReaderReport, sinkVars, chanVars, readerVars
  <2>10. CASE ReaderClose
    BY <2>10 DEF ReaderClose, sinkVars, chanVars, readerVars
  <2>11. CASE ReaderLastWake
    BY <2>11 DEF ReaderLastWake, sinkVars, chanVars, readerVars
  <2> QED
    BY <1>2, <2>1, <2>2, <2>3, <2>4, <2>5, <2>6, <2>7, <2>8, <2>9, <2>10, <2>11, SMTT(20) DEF ReaderStep
<1>3. CASE WriterStep
  <2>1. CASE WriterTake
    BY <2>1 DEF WriterTake, sinkVars, chanVars, readerVars
  <2>2. CASE WriterReport
    BY <2>2 DEF WriterReport, sinkVars, chanVars, readerVars
  <2>3. CASE WriterClose
    BY <2>3 DEF WriterClose, sinkVars, chanVars, readerVars
  <2>4. CASE WriterNone
    BY <2>4 DEF WriterNone, sinkVars, chanVars, readerVars
  <2> QED
    BY <1>3, <2>1, <2>2, <2>3, <2>4, SMTT(20) DEF WriterStep
<1>4. CASE WriterSend \/ Fault
  <2>1. CASE WriterSend
    BY <2>1 DEF WriterSend, sinkVars, chanVars, readerVars
  <2>2. CASE ReaderDecodeErr
    BY <2>2 DEF ReaderDecodeErr, ReaderErr, sinkVars, chanVars, readerVars
  <2>3. CASE WriterErr
    BY <2>3 DEF WriterErr, sinkVars, chanVars, readerVars
  <2> QED
    BY <1>4, <2>1, <2>2, <2>3, SMTT(20) DEF Fault
<1>5. CASE DestNext
  BY <1>5 DEF DestNext, DestAnswer, DestPush, DestClose, sinkVars, chanVars, readerVars
<1>6. CASE Finished \/ UNCHANGED vars
  BY <1>6 DEF Finished, vars, sinkVars, chanVars, readerVars
<1> QED
  BY <1>1, <1>2, <1>3, <1>4, <1>5, <1>6, SMTT(20) DEF Next

\* No response waits in the channel without a chain run on its way.
THEOREM NothingStranded == Spec => []NoStrandedResponse
  BY NoStrandedInit, NoStrandedStep, PTL DEF Spec
=============================================================================
