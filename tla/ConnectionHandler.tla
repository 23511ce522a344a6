-------------------------- MODULE ConnectionHandler --------------------------
(***************************************************************************)
(* One client connection (shotover/src/source_task.rs): the reader task,   *)
(* the main task that runs the transform chain (Handler::run) and the      *)
(* writer task, joined by the bounded `in_` and the unbounded `out_`       *)
(* channel, together with the client and the graceful shutdown signal.     *)
(*                                                                         *)
(* Requests are numbered in the order the client sends them, a response is *)
(* [id |-> its request, err |-> was it made by PendingRequests::to_errors];*)
(* Farewell is what CodecReadError::RespondAndThenCloseConnection carries. *)
(* The chain (external here, see the sink modules) holds the requests it   *)
(* accepted, answers in order if the protocol is, and may fail.            *)
(***************************************************************************)
EXTENDS Integers, Sequences, FiniteSets, Functions

CONSTANTS
    N,              \* requests the client sends at most
    InCap,          \* capacity of the `in_` channel (10_000 batches in the code)
    Protocols,      \* PendingRequests in use: "Ordered", "Unordered", "Unsupported"
    IdleTimeout     \* is the source's timeout configured?

ASSUME HandlerAssumption ==
    /\ N \in Nat /\ InCap \in Nat \ {0}
    /\ Protocols \subseteq {"Ordered", "Unordered", "Unsupported"}
    /\ IdleTimeout \in BOOLEAN

VARIABLES
    protocol,                       \* chosen once
    client, sent, wire_in,          \* the client and what it sent
    written,                        \* the responses the writer handed to the encoder
    reader, read_batch,
    in_q,
    main, result,
    pending_requests,               \* a Vec, or a set for the map of "Unordered"
    accepted,                       \* how many requests the chain was given
    chain, ready,                   \* those it holds, those it can answer, as they came in
    force_run,                      \* permit of force_run_chain
    out_q, writer, write_batch,
    shutdown                        \* the value of the shutdown watch channel

clientVars == <<client, sent, wire_in>>
readerVars == <<reader, read_batch, in_q>>
mainVars == <<main, result, pending_requests>>
chainVars == <<accepted, chain, ready, force_run>>
writerVars == <<out_q, writer, write_batch, written>>
vars == <<protocol, clientVars, readerVars, mainVars, chainVars, writerVars,
          shutdown>>

Farewell == [id |-> 0, err |-> TRUE]
Response(id) == [id |-> id, err |-> FALSE]
ErrorResponse(id) == [id |-> id, err |-> TRUE]
IdsOf(responses) == {responses[i].id : i \in DOMAIN responses}

\* The responses to requests in a batch of `out_`.
AnswersIn(batch) == IF batch = <<Farewell>> THEN <<>> ELSE batch

\* run_loop took in_rx and out_tx: it drops them when it returns.
MainReturned == main \in {"flush", "done"}

Init ==
    /\ protocol \in Protocols
    /\ client = "open" /\ sent = 0 /\ written = <<>> /\ wire_in = <<>>
    /\ reader = "select" /\ read_batch = <<>> /\ in_q = <<>>
    /\ main = "select" /\ result = "none"
    /\ pending_requests = IF protocol = "Unordered" THEN {} ELSE <<>>
    /\ accepted = 0 /\ chain = {} /\ ready = <<>> /\ force_run = FALSE
    /\ out_q = <<>> /\ writer = "recv" /\ write_batch = <<>>
    /\ shutdown = FALSE

\* The messages of the batches in a channel.
Flatten(q) ==
    LET upto[i \in 0..Len(q)] == IF i = 0 THEN <<>> ELSE upto[i - 1] \o q[i]
    IN upto[Len(q)]

-----------------------------------------------------------------------------
(* The reader task of spawn_read_write_tasks. *)

ReaderNext ==
    /\ reader = "select" /\ wire_in # <<>>
    /\ \E n \in 1..Len(wire_in) :
          /\ read_batch' = SubSeq(wire_in, 1, n)
          /\ wire_in' = SubSeq(wire_in, n + 1, Len(wire_in))
    /\ reader' = "push"
    /\ UNCHANGED <<protocol, client, sent, in_q, mainVars, chainVars,
                   writerVars, shutdown>>

\* in_tx.send(messages).await
ReaderPush ==
    /\ reader = "push" /\ ~MainReturned /\ Len(in_q) < InCap
    /\ in_q' = Append(in_q, read_batch)
    /\ read_batch' = <<>>
    /\ reader' = "select"
    /\ UNCHANGED <<protocol, clientVars, mainVars, chainVars, writerVars,
                   shutdown>>

ReaderReturn ==
    /\ reader' = "done" /\ read_batch' = <<>>
    /\ UNCHANGED <<protocol, clientVars, in_q, mainVars, chainVars, writer,
                   write_batch, written, shutdown>>

\* A variant in which only a failing send ends the task, not in_tx.closed().
ReaderMainGoneOnPush ==
    /\ reader = "push" /\ MainReturned
    /\ ReaderReturn /\ UNCHANGED out_q

\* The send fails or in_tx.closed() is ready: in_rx was dropped.
ReaderMainGone ==
    /\ reader \in {"select", "push"} /\ MainReturned
    /\ ReaderReturn /\ UNCHANGED out_q

\* What arrived cannot be decoded, or the read fails.
ReaderDecodeErr ==
    /\ reader = "select" /\ wire_in # <<>>
    /\ ReaderReturn
    /\ \/ UNCHANGED out_q
       \/ writer # "done" /\ out_q' = Append(out_q, <<Farewell>>)

ReaderEof ==
    /\ reader = "select" /\ wire_in = <<>> /\ client = "closed"
    /\ ReaderReturn /\ UNCHANGED out_q

-----------------------------------------------------------------------------
(* The main task: run_loop and send_receive_chain. *)

\* PendingRequests::process_requests.
ProcessRequests(requests) ==
    CASE protocol = "Ordered" -> pending_requests \o requests
      [] protocol = "Unordered" -> pending_requests \cup Range(requests)
      [] protocol = "Unsupported" -> pending_requests

\* The requests are noted as pending, then the chain is called.
StartChain(requests) ==
    /\ chain' = chain \cup Range(requests)
    /\ pending_requests' = ProcessRequests(requests)
    /\ accepted' = accepted + Len(requests)
    /\ in_q' = <<>>
    /\ main' = "chain"

\* The biased select of run_loop: the shutdown signal first ...
MainShutdown ==
    /\ main = "select" /\ shutdown
    /\ main' = "flush" /\ result' = "ShotoverShutdown"
    /\ UNCHANGED <<protocol, clientVars, readerVars,
                   pending_requests, chainVars, writerVars, shutdown>>

\* A variant that runs the chain on nothing but the permit.
MainForceRunEmpty ==
    /\ main = "select" /\ ~shutdown /\ force_run
    /\ force_run' = FALSE
    /\ StartChain(<<>>)
    /\ UNCHANGED <<protocol, clientVars, reader, read_batch, result, ready,
                   writerVars, shutdown>>

\* ... then force_run_chain, with whatever requests are queued ...
MainForceRun ==
    /\ main = "select" /\ ~shutdown /\ force_run
    /\ force_run' = FALSE
    /\ StartChain(Flatten(in_q))
    /\ UNCHANGED <<protocol, clientVars, reader, read_batch, result, ready,
                   writerVars, shutdown>>

\* ... then the requests ...
MainReceive ==
    /\ main = "select" /\ ~shutdown /\ ~force_run /\ in_q # <<>>
    /\ StartChain(Flatten(in_q))
    /\ UNCHANGED <<protocol, clientVars, reader, read_batch, result, ready,
                   force_run, writerVars, shutdown>>

\* ... until there can be none, or none arrived in time.
MainReceiveNone ==
    /\ main = "select" /\ ~shutdown /\ ~force_run /\ in_q = <<>>
    /\ reader = "done" \/ IdleTimeout
    /\ main' = "flush" /\ result' = "ClientClosed"
    /\ UNCHANGED <<protocol, clientVars, readerVars,
                   pending_requests, chainVars, writerVars, shutdown>>

\* PendingRequests::process_responses.
Settle(responses) ==
    IF protocol = "Unordered"
    THEN pending_requests \ IdsOf(responses)
    ELSE SubSeq(pending_requests, Len(responses) + 1, Len(pending_requests))

\* The chain returns Ok with all that it can answer, and perhaps asks for the
\* connection to be closed after these responses.
ChainOk(close) ==
    LET responses == [i \in DOMAIN ready |-> Response(ready[i])]
        dropped == responses # <<>> /\ writer = "done"
    IN /\ main = "chain"
       /\ pending_requests' = Settle(responses)
       /\ chain' = chain \ Range(ready) /\ ready' = <<>>
       /\ out_q' = IF responses = <<>> \/ dropped THEN out_q
                   ELSE Append(out_q, responses)
       /\ main' = IF dropped THEN "flush" ELSE IF close THEN "done" ELSE "select"
       /\ result' = IF dropped THEN "ClientClosed"
                    ELSE IF close THEN "TransformRequested" ELSE result
       /\ UNCHANGED <<protocol, clientVars, readerVars, accepted, force_run,
                      writer, write_batch, written, shutdown>>

\* A variant that makes error responses for the answered requests as well.
ChainErrForAll ==
    /\ main = "chain"
    /\ out_q' = IF writer = "done" THEN out_q
                ELSE Append(out_q, [i \in 1..accepted |-> ErrorResponse(i)])
    /\ main' = "done" /\ result' = "Err"
    /\ chain' = {} /\ ready' = <<>>
    /\ UNCHANGED <<protocol, clientVars, readerVars, pending_requests,
                   accepted, force_run, writer, write_batch, written, shutdown>>

\* PendingRequests::to_errors: the pending requests in the order of the Vec, or
\* those of the map that have metadata, in any order.
ToErrors ==
    IF protocol = "Unordered"
    THEN UNION {Injection(1..n, pending_requests) : n \in 0..Cardinality(pending_requests)}
    ELSE {pending_requests}

\* The chain returns Err: an error answers every pending request, and the
\* chain is destroyed without a flush.
ChainErr ==
    /\ main = "chain"
    /\ \E ids \in ToErrors :
          out_q' = IF writer = "done" THEN out_q
                   ELSE Append(out_q, [i \in DOMAIN ids |-> ErrorResponse(ids[i])])
    /\ main' = "done" /\ result' = "Err"
    /\ chain' = {} /\ ready' = <<>>
    /\ UNCHANGED <<protocol, clientVars, readerVars, pending_requests,
                   accepted, force_run, writer, write_batch, written, shutdown>>

\* The flush that follows a shutdown or a disconnect; what it returns is
\* discarded.
MainFlush ==
    /\ main = "flush"
    /\ main' = "done" /\ chain' = {} /\ ready' = <<>>
    /\ UNCHANGED <<protocol, clientVars, readerVars, result, pending_requests,
                   accepted, force_run, writerVars, shutdown>>

-----------------------------------------------------------------------------
(* The writer task of spawn_read_write_tasks. *)

WriterTake ==
    /\ writer = "recv" /\ out_q # <<>>
    /\ write_batch' = Head(out_q) /\ out_q' = Tail(out_q)
    /\ writer' = "send"
    /\ UNCHANGED <<protocol, clientVars, readerVars, mainVars, chainVars,
                   written, shutdown>>

\* The batch is handed to the encoder.  A CodecWriteError::Encoder is only
\* logged: the batch counts as written, although the client never sees it.
WriterSend ==
    /\ writer = "send" /\ client = "open"
    /\ written' = written \o AnswersIn(write_batch)
    /\ write_batch' = <<>> /\ writer' = "recv"
    /\ UNCHANGED <<protocol, clientVars, readerVars, mainVars, chainVars,
                   out_q, shutdown>>

\* BrokenPipe and ConnectionReset end the task, other errors are only logged.
WriterIoErr ==
    /\ writer = "send" /\ client = "closed"
    /\ write_batch' = <<>>
    /\ \/ writer' = "done" /\ out_q' = <<>>
       \/ writer' = "recv" /\ UNCHANGED out_q
    /\ UNCHANGED <<protocol, clientVars, readerVars, mainVars, chainVars,
                   written, shutdown>>

\* out_rx.recv() returns None: the main and the reader task dropped out_tx.
WriterNone ==
    /\ writer = "recv" /\ out_q = <<>> /\ MainReturned /\ reader = "done"
    /\ writer' = "done"
    /\ UNCHANGED <<protocol, clientVars, readerVars, mainVars, chainVars,
                   out_q, write_batch, written, shutdown>>

-----------------------------------------------------------------------------
(* The chain, the client and the runner (external). *)

\* A response comes back from the destination: it is returned by the next
\* chain run, which is asked for.
DestAnswer ==
    /\ main \in {"select", "chain"}
    /\ \E id \in chain \ Range(ready) :
          /\ protocol # "Unordered" => \A j \in chain \ Range(ready) : id <= j
          /\ ready' = Append(ready, id)
    /\ force_run' = TRUE
    /\ UNCHANGED <<protocol, clientVars, readerVars, mainVars, accepted, chain,
                   writerVars, shutdown>>

ClientSend ==
    /\ client = "open" /\ sent < N /\ reader # "done"
    /\ sent' = sent + 1 /\ wire_in' = Append(wire_in, sent + 1)
    /\ UNCHANGED <<protocol, client, readerVars, mainVars, chainVars,
                   writerVars, shutdown>>

ClientClose ==
    /\ client = "open"
    /\ client' = "closed"
    /\ UNCHANGED <<protocol, sent, wire_in, readerVars, mainVars,
                   chainVars, writerVars, shutdown>>

TriggerShutdown ==
    /\ ~shutdown
    /\ shutdown' = TRUE
    /\ UNCHANGED <<protocol, clientVars, readerVars, mainVars, chainVars,
                   writerVars>>

-----------------------------------------------------------------------------
ReaderStep ==
    ReaderNext \/ ReaderPush \/ ReaderMainGone \/ ReaderEof
MainStep ==
    \/ MainShutdown \/ MainForceRun \/ MainReceive
    \/ (MainReceiveNone /\ reader = "done") \/ MainFlush
WriterStep == WriterTake \/ WriterIoErr \/ WriterNone
ChainReturns == ChainErr \/ \E close \in BOOLEAN : ChainOk(close)

\* All three tasks are over.
Finished ==
    /\ main = "done" /\ reader = "done" /\ writer = "done"
    /\ UNCHANGED vars

Next ==
    \/ ReaderStep \/ ReaderDecodeErr
    \/ MainStep \/ MainReceiveNone \/ ChainReturns
    \/ WriterStep \/ WriterSend
    \/ DestAnswer \/ ClientSend \/ ClientClose \/ TriggerShutdown \/ Finished

\* Tokio polls every ready task and transforms return from every call.  The
\* client need not read what is written to it, so WriterSend is not fair.
Fairness ==
    /\ WF_vars(ReaderStep) /\ WF_vars(MainStep) /\ WF_vars(WriterStep)
    /\ WF_vars(ChainReturns)

Spec == Init /\ [][Next]_vars /\ Fairness

-----------------------------------------------------------------------------
(* Properties *)

TypeOK ==
    /\ protocol \in Protocols
    /\ client \in {"open", "closed"} /\ sent \in 0..N
    /\ reader \in {"select", "push", "done"}
    /\ Len(in_q) <= InCap
    /\ main \in {"select", "chain", "flush", "done"}
    /\ result \in {"none", "ShotoverShutdown", "ClientClosed",
                   "TransformRequested", "Err"}
    /\ writer \in {"recv", "send", "done"}
    /\ accepted \in 0..sent /\ chain \subseteq 1..accepted /\ Range(ready) \subseteq chain
    /\ force_run \in BOOLEAN /\ shutdown \in BOOLEAN

\* Everything that was put into `out_` and not lost to a broken client.
Delivered == written \o AnswersIn(write_batch)
                \o Flatten([i \in DOMAIN out_q |-> AnswersIn(out_q[i])])

Pending == IF protocol = "Unordered" THEN pending_requests ELSE Range(pending_requests)

\* pending_requests lists exactly the requests that were handed to the chain
\* and have no response yet, so that a failing chain is translated into one
\* error response for each of them (where the protocol has such responses).
PendingExact ==
    main \in {"select", "chain"} /\ client = "open" /\ protocol # "Unsupported" =>
        /\ Pending = (1..accepted) \ IdsOf(Delivered)
        /\ Pending = chain
        /\ protocol = "Ordered" => IsInjective(pending_requests)

\* The stream of requests and responses as the client sees it.
Stream == INSTANCE RequestStream WITH
    in_order <- protocol # "Unordered",
    issued <- sent,
    answered <- [i \in DOMAIN written |-> written[i].id]

\* The handler implements RequestStream: each request is answered at most
\* once and, for all protocols but Cassandra's, in the order of the requests, whatever
\* the tasks' interleaving and however the connection ends.
ImplementsRequestStream == Stream!Spec

\* A shutdown ends the main task; the end of the main task, for whatever
\* reason, ends the other two, although the writer may stay blocked on a
\* client that does not read.
TasksEnd ==
    (shutdown \/ main = "done") ~>
        (main = "done" /\ reader = "done" /\ writer \in {"done", "send"})
=============================================================================
