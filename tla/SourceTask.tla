----------------------------- MODULE SourceTask -----------------------------
(***************************************************************************)
(* The task that owns one listening port (src/shotover/src/source_task.rs, *)
(* SourceTask): it takes a permit of the connection-limit semaphore,       *)
(* accepts a client, gives stream and permit to a Handler task of its own, *)
(* and goes round again.  With a hard connection limit it closes the       *)
(* listener while no permit is free.  A hot-reload request takes the       *)
(* listener away for good; a shutdown or a gradual shutdown ends the       *)
(* accept loop at whatever await it is in and closes the connections.      *)
(*                                                                         *)
(* A Handler is seen from outside here: with TLS it first waits for the    *)
(* client's handshake, where nothing but the client can end it; then it    *)
(* lives, may end at any moment, and does end once it is told to           *)
(* (ConnectionHandler!TasksEnd).                                           *)
(* Failed binds and accepts are retried forever and change nothing, so     *)
(* they are stuttering steps.  The Vec of handles is a set: its order only *)
(* says which connections a chunk closes first.                            *)
(***************************************************************************)
EXTENDS Integers, Sequences, FiniteSets

CONSTANTS
    Clients,      \* clients, each of which connects at most once
    Limit,        \* permits of limit_connections
    PruneEvery,   \* 1000 in the code: how often finished handles are dropped
    Durations,    \* gradual shutdown durations, in units of 100 ms
    MaxReloads    \* bound on the hot-reload requests that are sent

ASSUME SourceAssumption ==
    /\ IsFiniteSet(Clients)
    /\ Limit \in Nat
    /\ PruneEvery \in Nat \ {0}
    /\ Durations \subseteq Nat
    /\ MaxReloads \in Nat

VARIABLES
    hard,           \* hard_connection_limit
    tls,            \* tls.is_some()
    task,           \* where the task is
    permits,        \* limit_connections.available_permits()
    listener,       \* listener.is_some()
    count,          \* connection_count, modulo PruneEvery
    conn,           \* what has become of each client's connection
    handles,        \* connection_handles
    signalled,      \* connections whose shutdown_tx has sent true
    closing,        \* connections_to_close
    duration,       \* shutdown_duration of the gradual shutdown
    per_chunk,      \* connections_to_drain
    sleeps,         \* sleeps of CHUNK_DURATION taken so far
    hot_reload_rx,  \* requests waiting in hot_reload_rx: is the other end of
                    \* their return_chan still there?
    reloads,        \* hot-reload requests sent so far
    reply,          \* what became of the listener that was asked for
    trigger,        \* trigger_shutdown_rx
    gradual         \* the request waiting in gradual_shutdown_rx

config == <<hard, tls>>
loop_vars == <<config, permits, listener, count, conn, handles>>
drain_vars == <<signalled, closing, duration, per_chunk, sleeps>>
request_vars == <<hot_reload_rx, reloads, reply, trigger, gradual>>
vars == <<config, task, permits, listener, count, conn, handles, signalled, closing, duration,
          per_chunk, sleeps, hot_reload_rx, reloads, reply, trigger, gradual>>

NoRequest == -1
CHUNK_DURATION == 2   \* 200 ms

Running == {"acquire", "sleep", "bind", "select", "parked"}
Stopping == {"joining", "drain", "join_chunk", "drain_sleep"}

\* The accepted connections whose Handler task has not finished.
Live == {c \in Clients : conn[c] \in {"handshake", "live"}}

\* The accept loop itself holds a permit from acquire until it hands it to a
\* Handler; parked after a hot reload it keeps it.
Holds == task \in {"bind", "select", "parked"}

(* Dropping the listener resets the connections nobody has accepted. *)
Reset(cs) == [c \in Clients |-> IF cs[c] = "backlog" THEN "refused" ELSE cs[c]]

Init ==
    /\ hard \in BOOLEAN
    /\ tls \in BOOLEAN
    /\ task = "acquire"
    /\ permits = Limit
    /\ listener = TRUE
    /\ count = 0
    /\ conn = [c \in Clients |-> "away"]
    /\ handles = {}
    /\ signalled = {}
    /\ closing = {}
    /\ duration = 0
    /\ per_chunk = 0
    /\ sleeps = 0
    /\ hot_reload_rx = <<>>
    /\ reloads = 0
    /\ reply = "none"
    /\ trigger = FALSE
    /\ gradual = NoRequest

-----------------------------------------------------------------------------
(* The accept loop: run.                                                   *)

NextCount == (count + 1) % PruneEvery

Acquire ==
    /\ task = "acquire"
    /\ permits > 0
    /\ permits' = permits - 1
    /\ task' = IF listener THEN "select" ELSE "bind"
    /\ count' = IF listener THEN NextCount ELSE count
    /\ UNCHANGED <<config, listener, conn, handles, drain_vars, request_vars>>

(* try_acquire_owned failed: close the socket and look again in a second. *)
TooFull ==
    /\ task = "acquire"
    /\ hard
    /\ permits = 0
    /\ listener' = FALSE
    /\ conn' = IF listener THEN Reset(conn) ELSE conn
    /\ task' = "sleep"
    /\ UNCHANGED <<config, permits, count, handles, drain_vars, request_vars>>

\* mutant: the accept loop gives up instead of looking again
WakeStuck ==
    /\ task = "sleep"
    /\ listener
    /\ task' = "acquire"
    /\ UNCHANGED <<loop_vars, drain_vars, request_vars>>

Wake ==
    /\ task = "sleep"
    /\ task' = "acquire"
    /\ UNCHANGED <<loop_vars, drain_vars, request_vars>>

(* create_listener_with_backoff has succeeded. *)
Bind ==
    /\ task = "bind"
    /\ listener' = TRUE
    /\ count' = NextCount
    /\ task' = "select"
    /\ UNCHANGED <<config, permits, conn, handles, drain_vars, request_vars>>

\* mutant: the pruning drops every handle
RetainNone(hs) == IF count = 0 THEN {} ELSE hs

\* The handles the loop keeps: those of unfinished connections, when it prunes.
Retain(hs) == IF count = 0 THEN hs \cap Live ELSE hs

(* A client is accepted: the Handler task is spawned with the permit and its *)
(* handle is tracked.                                                        *)
Accept(c) ==
    /\ task = "select"
    /\ listener
    /\ conn[c] = "backlog"
    /\ conn' = [conn EXCEPT ![c] = IF tls THEN "handshake" ELSE "live"]
    /\ handles' = Retain(handles) \cup {c}
    /\ task' = "acquire"
    /\ UNCHANGED <<config, permits, listener, count, drain_vars, request_vars>>

(* handle_hot_reload_request: the listener is taken, converted and sent into *)
(* the return_chan; a failed conversion or a requester that is gone closes   *)
(* it.  The loop then parks forever, with its permit.                        *)
HandleHotReload ==
    /\ task = "select"
    /\ hot_reload_rx # <<>>
    /\ hot_reload_rx' = Tail(hot_reload_rx)
    /\ listener' = FALSE
    /\ \/ Head(hot_reload_rx) /\ reply' = "fd" /\ UNCHANGED conn
       \/ ~Head(hot_reload_rx) /\ reply' = "dropped" /\ conn' = Reset(conn)
       \/ reply' = "no_listener" /\ conn' = Reset(conn)
    /\ task' = "parked"
    /\ UNCHANGED <<config, permits, count, handles, drain_vars, reloads, trigger, gradual>>

-----------------------------------------------------------------------------
(* Shutdown.  The select in start drops run() at the await it is in, and    *)
(* with it the permit the loop may hold.                                    *)

\* mutants: the loop's permit is lost with it; or one is returned it never held
ReleaseNothing == permits' = permits

ReleasePermit == permits' = IF Holds THEN permits + 1 ELSE permits


(* shutdown: signal every tracked connection, then wait for all of them. *)
Shutdown ==
    /\ task \in Running
    /\ trigger
    /\ ReleasePermit
    /\ signalled' = signalled \cup handles
    /\ task' = "joining"
    /\ UNCHANGED <<config, listener, count, conn, handles, closing, duration, per_chunk, sleeps,
                   request_vars>>

(* The task ends and drops the listener, if it still has it. *)
End ==
    /\ task' = "ended"
    /\ listener' = FALSE
    /\ conn' = IF listener THEN Reset(conn) ELSE conn
    /\ UNCHANGED <<config, permits, count>>

Joined ==
    /\ task = "joining"
    /\ handles \cap Live = {}
    /\ End
    /\ UNCHANGED <<handles, drain_vars, request_vars>>

DivCeil(a, b) == (a + b - 1) \div b
AtLeast1(n) == IF n > 0 THEN n ELSE 1
Lesser(a, b) == IF a < b THEN a ELSE b

\* mutant: rounding down leaves connections over when the time is up
PerChunkFloor(d) == AtLeast1(Cardinality(handles) \div AtLeast1(d \div CHUNK_DURATION))

PerChunk(d) == AtLeast1(DivCeil(Cardinality(handles), AtLeast1(d \div CHUNK_DURATION)))

(* gradual_shutdown: fix the size of the chunks. *)
GradualShutdown ==
    /\ task \in Running
    /\ gradual # NoRequest
    /\ ReleasePermit
    /\ gradual' = NoRequest
    /\ duration' = gradual
    /\ per_chunk' = PerChunk(gradual)
    /\ task' = "drain"
    /\ UNCHANGED <<config, listener, count, conn, handles, signalled, closing, sleeps,
                   hot_reload_rx, reloads, reply, trigger>>

\* mutant: the connections taken off the list are not told to shut down
DrainUnsignalled ==
    /\ task = "drain"
    /\ handles # {}
    /\ \E chunk \in SUBSET handles :
         /\ Cardinality(chunk) = Lesser(per_chunk, Cardinality(handles))
         /\ closing' = chunk
         /\ handles' = handles \ chunk
    /\ task' = "join_chunk"
    /\ UNCHANGED <<config, permits, listener, count, conn, signalled, duration, per_chunk, sleeps,
                   request_vars>>

(* One chunk is taken off the list and told to shut down. *)
Drain ==
    /\ task = "drain"
    /\ handles # {}
    /\ \E chunk \in SUBSET handles :
         /\ Cardinality(chunk) = Lesser(per_chunk, Cardinality(handles))
         /\ closing' = chunk
         /\ handles' = handles \ chunk
         /\ signalled' = signalled \cup chunk
    /\ task' = "join_chunk"
    /\ UNCHANGED <<config, permits, listener, count, conn, duration, per_chunk, sleeps,
                   request_vars>>

DrainNothing ==
    /\ task = "drain"
    /\ handles = {}
    /\ End
    /\ UNCHANGED <<handles, drain_vars, request_vars>>

(* Its connections have all ended: sleep, unless this was the last chunk. *)
JoinChunk ==
    /\ task = "join_chunk"
    /\ closing \cap Live = {}
    /\ closing' = {}
    /\ UNCHANGED <<handles, signalled, duration, per_chunk, request_vars>>
    /\ \/ handles = {} /\ End /\ UNCHANGED sleeps
       \/ /\ handles # {}
          /\ sleeps' = sleeps + 1
          /\ task' = "drain_sleep"
          /\ UNCHANGED <<config, permits, listener, count, conn>>

DrainSleep ==
    /\ task = "drain_sleep"
    /\ task' = "drain"
    /\ UNCHANGED <<loop_vars, drain_vars, request_vars>>

-----------------------------------------------------------------------------
(* The Handler tasks, and what comes from outside.                          *)

(* tls.accept of Handler::run has succeeded: the run_loop starts. *)
HandshakeDone(c) ==
    /\ conn[c] = "handshake"
    /\ conn' = [conn EXCEPT ![c] = "live"]
    /\ UNCHANGED <<config, task, permits, listener, count, handles, drain_vars, request_vars>>

(* A Handler ends (its client left, the handshake or the chain failed, or   *)
(* its run_loop saw that it was told to) and drops its permit.              *)
HandlerEnds(c) ==
    /\ c \in Live
    /\ conn' = [conn EXCEPT ![c] = "closed"]
    /\ permits' = permits + 1
    /\ UNCHANGED <<config, task, listener, count, handles, drain_vars, request_vars>>

(* A client connects: the kernel queues it on the listening socket. *)
Connect(c) ==
    /\ conn[c] = "away"
    /\ listener
    /\ conn' = [conn EXCEPT ![c] = "backlog"]
    /\ UNCHANGED <<config, task, permits, listener, count, handles, drain_vars, request_vars>>

(* process_request of the hot-reload server sends its request to the source. *)
RequestListener ==
    /\ reloads < MaxReloads
    /\ task # "ended"
    /\ reloads' = reloads + 1
    /\ hot_reload_rx' = Append(hot_reload_rx, TRUE)
    /\ UNCHANGED <<task, loop_vars, drain_vars, reply, trigger, gradual>>

(* The server waits 5 seconds for the answer.  It only waits in vain for a   *)
(* loop that does not get as far as its select.                              *)
RequestTimeout ==
    /\ \/ task = "acquire" /\ permits = 0
       \/ task \in {"sleep", "bind", "parked"} \cup Stopping
    /\ \E i \in DOMAIN hot_reload_rx :
         /\ hot_reload_rx[i]
         /\ hot_reload_rx' = [hot_reload_rx EXCEPT ![i] = FALSE]
    /\ UNCHANGED <<task, loop_vars, drain_vars, reloads, reply, trigger, gradual>>

(* process_request of the hot-reload server: GradualShutdown. *)
RequestGradual ==
    /\ task \in Running
    /\ gradual = NoRequest
    /\ gradual' \in Durations
    /\ UNCHANGED <<task, loop_vars, drain_vars, hot_reload_rx, reloads, reply, trigger>>

(* SIGINT, SIGTERM, or another source that ended. *)
TriggerShutdown ==
    /\ ~trigger
    /\ trigger' = TRUE
    /\ UNCHANGED <<task, loop_vars, drain_vars, hot_reload_rx, reloads, reply, gradual>>

TaskStep ==
    \/ Acquire \/ TooFull \/ Wake \/ Bind \/ HandleHotReload \/ \E c \in Clients : Accept(c)
    \/ Shutdown \/ Joined \/ GradualShutdown \/ Drain \/ DrainNothing \/ JoinChunk \/ DrainSleep

Next ==
    \/ TaskStep
    \/ \E c \in Clients : HandshakeDone(c) \/ HandlerEnds(c) \/ Connect(c)
    \/ RequestListener \/ RequestTimeout \/ RequestGradual \/ TriggerShutdown

(* The task is scheduled, its sleeps end, a bind that is retried forever    *)
(* succeeds, and a Handler that was told to end does once it is in its      *)
(* run_loop.  Nothing makes a Handler leave the handshake: tls.accept has   *)
(* no timeout and is outside the select on the shutdown signal.             *)
Fairness ==
    /\ WF_vars(TaskStep)
    /\ WF_vars(Shutdown \/ GradualShutdown)
    /\ \A c \in Clients : WF_vars(c \in signalled /\ conn[c] = "live" /\ HandlerEnds(c))

Spec == Init /\ [][Next]_vars /\ Fairness

-----------------------------------------------------------------------------
(* Type invariant. *)
TypeOK ==
    /\ hard \in BOOLEAN
    /\ tls \in BOOLEAN
    /\ task \in Running \cup Stopping \cup {"ended"}
    /\ permits \in 0 .. Limit
    /\ listener \in BOOLEAN
    /\ count \in 0 .. PruneEvery - 1
    /\ conn \in [Clients -> {"away", "backlog", "handshake", "live", "closed", "refused"}]
    /\ handles \subseteq Clients
    /\ signalled \subseteq Clients
    /\ closing \subseteq Clients
    /\ duration \in Nat
    /\ per_chunk \in Nat
    /\ sleeps \in Nat
    /\ hot_reload_rx \in Seq(BOOLEAN)
    /\ reloads \in 0 .. MaxReloads
    /\ reply \in {"none", "fd", "no_listener", "dropped"}
    /\ trigger \in BOOLEAN
    /\ gradual \in Durations \cup {NoRequest}

(* Every permit of limit_connections is free, with the accept loop or with  *)
(* one live Handler, at every moment and through every way out of the loop: *)
(* the limit is never exceeded and no slot is ever leaked.                  *)
PermitsConserved == permits + (IF Holds THEN 1 ELSE 0) + Cardinality(Live) = Limit

(* Every live connection is tracked (in connection_handles or in the chunk  *)
(* being closed), so a shutdown reaches it: pruning the list every          *)
(* PruneEvery connections and draining it in chunks lose none.              *)
LiveTracked == Live \subseteq handles \cup closing

(* The task only ends, and with it this source, when every connection it    *)
(* accepted has ended: shutdown and gradual_shutdown cut off none.          *)
EndedMeansClosed == task = "ended" => Live = {}

(* accept finds a listener: `expect("listener must be initialized")` of run *)
(* never panics, although the hard limit drops the listener.                *)
ListenerPresent == task = "select" => listener

(* gradual_shutdown takes no more chunks (one, and one after every sleep)   *)
(* than fit into the duration that was asked for, however the number of     *)
(* connections divides.                                                     *)
DrainWithinDuration == sleeps > 0 => (sleeps + 1) * CHUNK_DURATION <= duration

(* The listener a source gives up goes to the instance that asked for it:   *)
(* the loop parks "once it has handed off its listener"                     *)
(* (source_task.rs, run), never after closing it because nobody waits for   *)
(* it any more.                                                             *)
ListenerHandedOver == task = "parked" => reply # "dropped"

(* A listener closed because of the hard limit is open again once a permit  *)
(* is free, unless the permit goes or the source stops first.               *)
ReopensListener ==
    (task \in Running \ {"parked"} /\ ~listener /\ permits > 0)
        ~> (listener \/ permits = 0 \/ task \notin Running \/ task = "parked")

(* No client stays in its TLS handshake forever: it finishes it or leaves. *)
HandshakesEnd == \A c \in Clients : []<>(conn[c] # "handshake")

(* A triggered or gradual shutdown ends the task, whatever await of the     *)
(* accept loop it finds it in, a parked one included, provided no client    *)
(* stays in its TLS handshake.                                              *)
ShutdownEnds == HandshakesEnd => ((trigger \/ gradual # NoRequest) ~> (task = "ended"))

(* "When the shutdown signal is received, the connection is processed until *)
(* it reaches a safe state, at which point it is terminated"                *)
(* (source_task.rs, Handler::run): every connection that is told to shut    *)
(* down ends, the ones whose TLS handshake is not finished too.             *)
SignalledEnd == \A c \in Clients : (c \in signalled) ~> (c \notin Live)
=============================================================================
