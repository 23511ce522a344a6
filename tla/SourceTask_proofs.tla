------------------------- MODULE SourceTask_proofs --------------------------
(***************************************************************************)
(* Proofs about the source task, for any set of clients, any limit, any    *)
(* pruning interval and any gradual shutdown durations.                    *)
(***************************************************************************)
EXTENDS SourceTask, FiniteSetTheorems, TLAPS

ConnStates == {"away", "backlog", "handshake", "live", "closed", "refused"}

(* The types the arguments below rest on. *)
LoopTypes ==
    /\ task \in Running \cup Stopping \cup {"ended"}
    /\ permits \in Nat
    /\ listener \in BOOLEAN
    /\ conn \in [Clients -> ConnStates]
    /\ handles \subseteq Clients
    /\ closing \subseteq Clients

LEMMA LoopTypesInit == Init => LoopTypes
  BY SourceAssumption DEF Init, LoopTypes, ConnStates, Running

(* Dropping the listener resets clients nobody accepted, never a live one. *)
LEMMA ResetKeepsLive ==
  ASSUME conn \in [Clients -> ConnStates]
  PROVE  /\ Reset(conn) \in [Clients -> ConnStates]
         /\ \A c \in Clients : Reset(conn)[c] \in {"handshake", "live"} <=> conn[c] \in {"handshake", "live"}
  BY DEF Reset, ConnStates

(* What one step does to the set of live connections: Accept adds one and   *)
(* goes back to acquire without its permit, a Handler that ends leaves the  *)
(* set and returns its permit, and nothing else, a finished TLS handshake   *)
(* included, touches it.                                                    *)
LiveSame == Live' = Live
LiveAdds(c) == c \in Clients \ Live /\ Live' = Live \cup {c}
LiveLoses(c) == c \in Live /\ Live' = Live \ {c}

LEMMA EndKeepsLive ==
  ASSUME LoopTypes, End
  PROVE  LiveSame /\ conn' \in [Clients -> ConnStates]
  BY ResetKeepsLive DEF LoopTypes, End, LiveSame, Live

LEMMA AcceptAdds ==
  ASSUME LoopTypes, NEW c \in Clients, Accept(c)
  PROVE  LiveAdds(c) /\ conn' \in [Clients -> ConnStates]
  BY DEF LoopTypes, Accept, LiveAdds, Live, ConnStates

LEMMA HandlerEndLoses ==
  ASSUME LoopTypes, NEW c \in Clients, HandlerEnds(c)
  PROVE  LiveLoses(c) /\ conn' \in [Clients -> ConnStates]
  BY DEF LoopTypes, HandlerEnds, LiveLoses, Live, ConnStates

(* The steps after which the same connections are live. *)
QuietStep ==
    \/ Acquire \/ TooFull \/ Wake \/ Bind \/ HandleHotReload
    \/ Shutdown \/ Joined \/ GradualShutdown \/ Drain \/ DrainNothing \/ JoinChunk \/ DrainSleep
    \/ \E c \in Clients : HandshakeDone(c) \/ Connect(c)
    \/ RequestListener \/ RequestTimeout \/ RequestGradual \/ TriggerShutdown
    \/ UNCHANGED vars

LEMMA QuietKeepsLive ==
  ASSUME LoopTypes, QuietStep
  PROVE  LiveSame /\ conn' \in [Clients -> ConnStates]
<1>1. CASE UNCHANGED conn
  BY <1>1 DEF LoopTypes, LiveSame, Live
<1>2. CASE TooFull \/ HandleHotReload
  BY <1>1, <1>2, ResetKeepsLive, Zenon DEF LoopTypes, TooFull, HandleHotReload, LiveSame, Live
<1>3. CASE Joined \/ DrainNothing \/ JoinChunk
  BY <1>1, <1>3, EndKeepsLive DEF Joined, DrainNothing, JoinChunk
<1>4. CASE \E c \in Clients : HandshakeDone(c) \/ Connect(c)
  <2>1. PICK c \in Clients : HandshakeDone(c) \/ Connect(c)
    BY <1>4
  <2>. QED
    BY <2>1 DEF LoopTypes, HandshakeDone, Connect, LiveSame, Live, ConnStates
<1>5. CASE Acquire \/ Wake \/ Bind \/ Shutdown \/ GradualShutdown \/ Drain \/ DrainSleep
  <2>. UNCHANGED conn
    BY <1>5 DEF Acquire, Wake, Bind, Shutdown, GradualShutdown, Drain, DrainSleep, loop_vars
  <2>. QED
    BY <1>1
<1>6. CASE RequestListener \/ RequestTimeout \/ RequestGradual \/ TriggerShutdown \/ UNCHANGED vars
  <2>. UNCHANGED conn
    BY <1>6, Zenon DEF RequestListener, RequestTimeout, RequestGradual, TriggerShutdown, loop_vars, vars
  <2>. QED
    BY <1>1
<1>. QED
  BY <1>2, <1>3, <1>4, <1>5, <1>6 DEF QuietStep

LEMMA StepSplit ==
  ASSUME [Next]_vars
  PROVE  QuietStep \/ \E c \in Clients : Accept(c) \/ HandlerEnds(c)
  BY DEF Next, TaskStep, QuietStep

-----------------------------------------------------------------------------
(* Permits.                                                                *)

PermitInv == LoopTypes /\ PermitsConserved

LEMMA LiveCounted ==
  ASSUME NEW S \in SUBSET Clients
  PROVE  /\ IsFiniteSet(S)
         /\ Cardinality(S) \in Nat
         /\ \A c \in Clients \ S : Cardinality(S \cup {c}) = Cardinality(S) + 1
         /\ \A c \in S : Cardinality(S \ {c}) = Cardinality(S) - 1
<1>1. IsFiniteSet(S)
  BY SourceAssumption, FS_Subset
<1>. QED
  BY <1>1, FS_CardinalityType, FS_AddElement, FS_RemoveElement

LEMMA PermitInvInit == Init => PermitInv
<1>. SUFFICES ASSUME Init PROVE PermitInv
  OBVIOUS
<1>1. Live = {} /\ ~Holds /\ permits = Limit
  BY DEF Init, Live, Holds
<1>. QED
  BY <1>1, LoopTypesInit, FS_EmptySet, SourceAssumption DEF PermitInv, PermitsConserved

(* The permit the accept loop takes, keeps or gives back is exactly the one *)
(* Holds speaks of.                                                         *)
LEMMA QuietKeepsPermits ==
  ASSUME LoopTypes, QuietStep
  PROVE  /\ permits' \in Nat
         /\ permits' + (IF Holds' THEN 1 ELSE 0) = permits + (IF Holds THEN 1 ELSE 0)
         /\ task' \in Running \cup Stopping \cup {"ended"}
         /\ listener' \in BOOLEAN
         /\ handles' \subseteq Clients
         /\ closing' \subseteq Clients
<1>. USE DEF LoopTypes, Holds, Running, Stopping
<1>1. CASE Acquire
  <2>1. CASE listener
    BY <1>1, <2>1 DEF Acquire, drain_vars
  <2>2. CASE ~listener
    BY <1>1, <2>2 DEF Acquire, drain_vars
  <2>. QED
    BY <2>1, <2>2
<1>7. CASE TooFull
  BY <1>7, Zenon DEF TooFull, drain_vars
<1>8. CASE Wake
  BY <1>8 DEF Wake, loop_vars, drain_vars
<1>9. CASE Bind
  BY <1>9 DEF Bind, drain_vars
<1>10. CASE HandleHotReload
  BY <1>10, Zenon DEF HandleHotReload, drain_vars
<1>2. CASE Shutdown \/ GradualShutdown
  BY <1>2 DEF Shutdown, GradualShutdown, ReleasePermit
<1>3. CASE Joined \/ DrainNothing \/ JoinChunk
  BY <1>3, Zenon DEF Joined, DrainNothing, JoinChunk, End, drain_vars
<1>4. CASE Drain \/ DrainSleep
  BY <1>4 DEF Drain, DrainSleep, loop_vars, drain_vars
<1>5. CASE \E c \in Clients : HandshakeDone(c) \/ Connect(c)
  BY <1>5 DEF HandshakeDone, Connect, drain_vars
<1>6. CASE RequestListener \/ RequestTimeout \/ RequestGradual \/ TriggerShutdown \/ UNCHANGED vars
  BY <1>6, Zenon DEF RequestListener, RequestTimeout, RequestGradual, TriggerShutdown, loop_vars, drain_vars, vars
<1>. QED
  BY <1>1, <1>2, <1>3, <1>4, <1>5, <1>6, <1>7, <1>8, <1>9, <1>10 DEF QuietStep

LEMMA PermitInvStep == PermitInv /\ [Next]_vars => PermitInv'
<1>. SUFFICES ASSUME PermitInv, [Next]_vars
              PROVE  PermitInv'
  OBVIOUS
<1>. USE DEF PermitInv
<1>0. Live \in SUBSET Clients
  BY DEF Live
<1>1. CASE QuietStep
  <2>1. LoopTypes'
    BY <1>1, QuietKeepsLive, QuietKeepsPermits DEF LoopTypes
  <2>2. Cardinality(Live') = Cardinality(Live) /\ Cardinality(Live) \in Nat
    BY <1>0, <1>1, QuietKeepsLive, LiveCounted DEF LiveSame
  <2>3. PermitsConserved'
    BY <1>1, <2>2, QuietKeepsPermits, SourceAssumption DEF PermitsConserved, LoopTypes
  <2>. QED
    BY <2>1, <2>3
<1>2. ASSUME NEW c \in Clients, Accept(c)
      PROVE  PermitInv'
  <2>1. LoopTypes'
    BY <1>2, AcceptAdds, Zenon DEF LoopTypes, Accept, Retain, Running, drain_vars
  <2>2. Cardinality(Live') = Cardinality(Live) + 1 /\ Cardinality(Live) \in Nat
    BY <1>0, <1>2, AcceptAdds, LiveCounted DEF LiveAdds
  <2>3. permits' = permits /\ Holds /\ ~Holds'
    BY <1>2 DEF Accept, Holds
  <2>. QED
    BY <2>1, <2>2, <2>3, SourceAssumption DEF PermitsConserved, LoopTypes
<1>3. ASSUME NEW c \in Clients, HandlerEnds(c)
      PROVE  PermitInv'
  <2>0. conn' \in [Clients -> ConnStates]
    BY <1>3, HandlerEndLoses
  <2>1. LoopTypes'
    BY <1>3, <2>0 DEF LoopTypes, HandlerEnds, drain_vars
  <2>2. Cardinality(Live') = Cardinality(Live) - 1 /\ Cardinality(Live) \in Nat
    BY <1>0, <1>3, HandlerEndLoses, LiveCounted DEF LiveLoses
  <2>3. permits' = permits + 1 /\ (Holds' <=> Holds)
    BY <1>3 DEF HandlerEnds, Holds
  <2>. QED
    BY <2>1, <2>2, <2>3, SourceAssumption DEF PermitsConserved, LoopTypes
<1>. QED
  BY <1>1, <1>2, <1>3, StepSplit

(* Every permit of the connection limit is free, with the accept loop or    *)
(* with one live connection, whatever the limit and however connections,    *)
(* hot reloads and shutdowns interleave.                                    *)
THEOREM PermitsNeverLeak == Spec => []PermitsConserved
  BY PermitInvInit, PermitInvStep, PTL DEF Spec, PermitInv

-----------------------------------------------------------------------------
(* Tracking.  That no live connection is forgotten is inductive only with   *)
(* two more facts: the chunk being closed is empty outside join_chunk, so   *)
(* taking the next one drops nothing; and an ended task has no live ones.   *)

TrackInv ==
    /\ LoopTypes
    /\ LiveTracked
    /\ EndedMeansClosed
    /\ task # "join_chunk" => closing = {}

LEMMA TrackInvInit == Init => TrackInv
<1>. SUFFICES ASSUME Init PROVE TrackInv
  OBVIOUS
<1>1. Live = {} /\ closing = {}
  BY DEF Init, Live
<1>. QED
  BY <1>1, LoopTypesInit DEF TrackInv, LiveTracked, EndedMeansClosed

LEMMA TrackInvStep == TrackInv /\ [Next]_vars => TrackInv'
<1>. SUFFICES ASSUME TrackInv, [Next]_vars
              PROVE  TrackInv'
  OBVIOUS
<1>. USE DEF TrackInv, LiveTracked, EndedMeansClosed
<1>1. CASE QuietStep
  <2>1. LoopTypes' /\ Live' = Live
    BY <1>1, QuietKeepsLive, QuietKeepsPermits DEF LoopTypes, LiveSame
  <2>2. CASE Acquire \/ TooFull \/ Wake \/ Bind \/ HandleHotReload
    BY <2>1, <2>2, Zenon DEF Acquire, TooFull, Wake, Bind, HandleHotReload, loop_vars, drain_vars
  <2>3. CASE Shutdown \/ GradualShutdown
    BY <2>1, <2>3 DEF Shutdown, GradualShutdown, Running
  <2>4. CASE Joined \/ DrainNothing
    BY <2>1, <2>4 DEF Joined, DrainNothing, End, drain_vars
  <2>5. CASE JoinChunk
    BY <2>1, <2>5 DEF JoinChunk, End
  <2>6. CASE Drain \/ DrainSleep
    BY <2>1, <2>6 DEF Drain, DrainSleep, loop_vars, drain_vars
  <2>7. CASE \E c \in Clients : HandshakeDone(c) \/ Connect(c)
    BY <2>1, <2>7 DEF HandshakeDone, Connect, drain_vars
  <2>8. CASE RequestListener \/ RequestTimeout \/ RequestGradual \/ TriggerShutdown \/ UNCHANGED vars
    BY <2>1, <2>8, Zenon DEF RequestListener, RequestTimeout, RequestGradual, TriggerShutdown, loop_vars, drain_vars, vars
  <2>. QED
    BY <1>1, <2>2, <2>3, <2>4, <2>5, <2>6, <2>7, <2>8 DEF QuietStep
<1>2. ASSUME NEW c \in Clients, Accept(c)
      PROVE  TrackInv'
  <2>1. conn' \in [Clients -> ConnStates] /\ Live' = Live \cup {c}
    BY <1>2, AcceptAdds DEF LiveAdds
  <2>2. Live \cap handles \subseteq Retain(handles) /\ Retain(handles) \subseteq handles
    BY DEF Retain, Live
  <2>3. LoopTypes'
    BY <1>2, <2>1, <2>2 DEF LoopTypes, Accept, Running, drain_vars
  <2>4. closing = {} /\ closing' = {} /\ task' = "acquire"
    BY <1>2 DEF Accept, drain_vars
  <2>5. Live' \subseteq handles'
    BY <1>2, <2>1, <2>2, <2>4 DEF Accept
  <2>. QED
    BY <2>3, <2>4, <2>5
<1>3. ASSUME NEW c \in Clients, HandlerEnds(c)
      PROVE  TrackInv'
  <2>1. conn' \in [Clients -> ConnStates] /\ Live' = Live \ {c}
    BY <1>3, HandlerEndLoses DEF LiveLoses
  <2>2. LoopTypes'
    BY <1>3, <2>1 DEF LoopTypes, HandlerEnds, drain_vars
  <2>. QED
    BY <1>3, <2>1, <2>2 DEF HandlerEnds, drain_vars
<1>. QED
  BY <1>1, <1>2, <1>3, StepSplit

(* No live connection is ever forgotten by the pruning or the draining of   *)
(* connection_handles, for any pruning interval and any chunk size.         *)
THEOREM ConnectionsStayTracked == Spec => []LiveTracked
  BY TrackInvInit, TrackInvStep, PTL DEF Spec, TrackInv

(* A source task that has ended left no connection behind: both ways to     *)
(* shut down wait for everything that was accepted.                         *)
THEOREM NothingCutOff == Spec => []EndedMeansClosed
  BY TrackInvInit, TrackInvStep, PTL DEF Spec, TrackInv

-----------------------------------------------------------------------------
(* The listener the accept loop expects is there: only TooFull drops it     *)
(* while the loop goes on, and the way back from there leads through bind.  *)

(* The `expect` on the listener in run never panics.                        *)
THEOREM AcceptHasListener == Spec => []ListenerPresent
<1>1. Init => ListenerPresent
  BY DEF Init, ListenerPresent
<1>2. ListenerPresent /\ TrackInv /\ [Next]_vars => ListenerPresent'
  <2>. SUFFICES ASSUME ListenerPresent, LoopTypes, [Next]_vars, task' = "select"
                PROVE  listener'
    BY DEF ListenerPresent, TrackInv
  <2>. USE DEF ListenerPresent
  <2>1. CASE Acquire
    BY <2>1 DEF Acquire
  <2>2. CASE Bind
    BY <2>2 DEF Bind
  <2>3. CASE \E c \in Clients : HandshakeDone(c) \/ HandlerEnds(c) \/ Connect(c)
    BY <2>3 DEF HandshakeDone, HandlerEnds, Connect
  <2>4. CASE RequestListener \/ RequestTimeout \/ RequestGradual \/ TriggerShutdown \/ UNCHANGED vars
    BY <2>4, Zenon DEF RequestListener, RequestTimeout, RequestGradual, TriggerShutdown, loop_vars, vars
  <2>5. CASE TaskStep /\ ~Acquire /\ ~Bind
    BY <2>5, Zenon DEF TaskStep, TooFull, Wake, HandleHotReload, Accept, Shutdown, Joined,
                GradualShutdown, Drain, DrainNothing, JoinChunk, DrainSleep, End
  <2>. QED
    BY <2>1, <2>2, <2>3, <2>4, <2>5 DEF Next
<1>. QED
  BY <1>1, <1>2, TrackInvInit, TrackInvStep, PTL DEF Spec

-----------------------------------------------------------------------------
(* Draining in time.  The chunk size is fixed once, from the number of      *)
(* handles; the invariant says at every later point of the drain that the   *)
(* handles still tracked fit into the chunks that are still to come.        *)

Chunks == AtLeast1(duration \div CHUNK_DURATION)

DrainTypes ==
    /\ LoopTypes
    /\ duration \in Nat
    /\ per_chunk \in Nat
    /\ sleeps \in Nat
    /\ gradual \in Durations \cup {NoRequest}

FitsInto(chunks) == Cardinality(handles) <= per_chunk * chunks

DrainInv ==
    /\ DrainTypes
    /\ task \in Running => sleeps = 0
    /\ task \in {"drain", "drain_sleep"} => FitsInto(Chunks - sleeps)
    /\ task = "join_chunk" => handles = {} \/ FitsInto(Chunks - sleeps - 1)
    /\ DrainWithinDuration

LEMMA DivCeilCovers ==
  ASSUME NEW a \in Nat, NEW n \in Nat \ {0}
  PROVE  DivCeil(a, n) \in Nat /\ a <= DivCeil(a, n) * n
<1>. DEFINE x == a + n - 1
<1>1. ASSUME NEW m \in Nat
      PROVE  /\ m \div n \in Nat
             /\ m % n \in 0 .. n - 1
             /\ m = n * (m \div n) + (m % n)
  OBVIOUS
<1>2. x \div n \in Nat /\ x % n \in 0 .. n - 1 /\ x = n * (x \div n) + (x % n)
  BY <1>1
<1>. QED
  BY <1>2 DEF DivCeil

LEMMA HalfFits ==
  ASSUME NEW d \in Nat
  PROVE  d \div CHUNK_DURATION \in Nat /\ (d \div CHUNK_DURATION) * CHUNK_DURATION <= d
  BY DEF CHUNK_DURATION

LEMMA NoRoom ==
  ASSUME NEW p \in Nat, NEW k \in Int, k <= 0
  PROVE  p * k <= 0
  OBVIOUS

LEMMA OneChunkLess ==
  ASSUME NEW p \in Nat, NEW k \in Int
  PROVE  p * (k - 1) = p * k - p
  OBVIOUS

LEMMA ChunksType ==
  ASSUME duration \in Nat
  PROVE  Chunks \in Nat \ {0}
  BY HalfFits DEF Chunks, AtLeast1

(* The size GradualShutdown fixes is enough for all the handles there are. *)
LEMMA PerChunkEnough ==
  ASSUME NEW d \in Nat, handles \subseteq Clients
  PROVE  /\ PerChunk(d) \in Nat
         /\ Cardinality(handles) <= PerChunk(d) * AtLeast1(d \div CHUNK_DURATION)
<1>. DEFINE n == AtLeast1(d \div CHUNK_DURATION)
            a == Cardinality(handles)
<1>1. n \in Nat \ {0}
  BY HalfFits DEF AtLeast1
<1>2. a \in Nat
  BY LiveCounted
<1>3. DivCeil(a, n) \in Nat /\ a <= DivCeil(a, n) * n
  BY <1>1, <1>2, DivCeilCovers
<1>. HIDE DEF n, a
<1>4. AtLeast1(DivCeil(a, n)) \in Nat /\ a <= AtLeast1(DivCeil(a, n)) * n
  <2>1. CASE DivCeil(a, n) > 0
    BY <1>3, <2>1 DEF AtLeast1
  <2>2. CASE DivCeil(a, n) = 0
    BY <1>1, <1>2, <1>3, <2>2 DEF AtLeast1
  <2>. QED
    BY <1>3, <2>1, <2>2
<1>. QED
  BY <1>4 DEF PerChunk, n, a

LEMMA DrainInvInit == Init => DrainInv
  BY LoopTypesInit DEF Init, DrainInv, DrainTypes, DrainWithinDuration, Running

LEMMA DrainTypesStep == DrainTypes /\ TrackInv /\ [Next]_vars => DrainTypes'
<1>. SUFFICES ASSUME DrainTypes, TrackInv, [Next]_vars
              PROVE  DrainTypes'
  OBVIOUS
<1>0. LoopTypes'
  BY TrackInvStep DEF TrackInv
<1>. USE <1>0 DEF DrainTypes
<1>1. CASE GradualShutdown
  <2>1. gradual \in Nat
    BY <1>1, SourceAssumption DEF GradualShutdown
  <2>. QED
    BY <1>1, <2>1, PerChunkEnough DEF GradualShutdown, LoopTypes
<1>2. CASE JoinChunk
  BY <1>2 DEF JoinChunk, request_vars
<1>3. CASE RequestGradual
  BY <1>3 DEF RequestGradual, drain_vars
<1>4. CASE Next /\ ~GradualShutdown /\ ~JoinChunk /\ ~RequestGradual
  <2>. UNCHANGED <<duration, per_chunk, sleeps, gradual>>
    BY <1>4, Zenon DEF Next, TaskStep, Acquire, TooFull, Wake, Bind, HandleHotReload, Accept, Shutdown,
                Joined, Drain, DrainNothing, DrainSleep, HandshakeDone, HandlerEnds, Connect, RequestListener,
                RequestTimeout, TriggerShutdown, drain_vars, request_vars
  <2>. QED
    OBVIOUS
<1>. QED
  BY <1>1, <1>2, <1>3, <1>4 DEF vars

(* Taking a chunk uses one of the chunks to come, or takes all that is left. *)
LEMMA DrainTakesChunk ==
  ASSUME DrainInv, Drain
  PROVE  handles' = {} \/ FitsInto(Chunks - sleeps - 1)'
<1>. USE DEF DrainInv, DrainTypes
<1>1. PICK chunk \in SUBSET handles :
        /\ Cardinality(chunk) = Lesser(per_chunk, Cardinality(handles))
        /\ handles' = handles \ chunk
  BY DEF Drain
<1>2. handles \subseteq Clients /\ chunk \subseteq Clients /\ handles \ chunk \subseteq Clients
  BY DEF LoopTypes
<1>3. IsFiniteSet(handles) /\ IsFiniteSet(handles \ chunk)
  BY <1>2, LiveCounted
<1>4. /\ Cardinality(handles) \in Nat
      /\ Cardinality(chunk) \in Nat
      /\ Cardinality(handles \ chunk) = Cardinality(handles) - Cardinality(chunk)
  <2>1. handles \cap chunk = chunk
    OBVIOUS
  <2>2. Cardinality(handles) \in Nat /\ Cardinality(chunk) \in Nat
    BY <1>2, LiveCounted
  <2>3. Cardinality(handles \ chunk) = Cardinality(handles) - Cardinality(handles \cap chunk)
    BY <1>3, FS_Difference, Zenon
  <2>. QED
    BY <2>1, <2>2, <2>3
<1>5. CASE per_chunk < Cardinality(handles)
  <2>1. Cardinality(handles') = Cardinality(handles) - per_chunk
    BY <1>1, <1>4, <1>5 DEF Lesser
  <2>2. Cardinality(handles) <= per_chunk * (Chunks - sleeps)
    BY DEF Drain, FitsInto
  <2>3. Chunks' = Chunks /\ UNCHANGED <<per_chunk, sleeps>>
    BY DEF Drain, Chunks
  <2>4. per_chunk * (Chunks - sleeps - 1) = per_chunk * (Chunks - sleeps) - per_chunk
    BY ChunksType, OneChunkLess
  <2>. QED
    BY <1>4, <2>1, <2>2, <2>3, <2>4, ChunksType DEF FitsInto
<1>6. CASE ~(per_chunk < Cardinality(handles))
  <2>1. Cardinality(handles \ chunk) = 0
    BY <1>1, <1>4, <1>6 DEF Lesser
  <2>. QED
    BY <1>1, <1>3, <2>1, FS_EmptySet
<1>. QED
  BY <1>5, <1>6

(* Handles left after a chunk mean at least one more chunk to come, so the  *)
(* duration has room for the sleep before it.                               *)
LEMMA SleepFits ==
  ASSUME DrainInv, JoinChunk, handles # {}
  PROVE  sleeps' = sleeps + 1 /\ FitsInto(Chunks - sleeps)' /\ DrainWithinDuration'
<1>. USE DEF DrainInv, DrainTypes
<1>1. FitsInto(Chunks - sleeps - 1) /\ sleeps' = sleeps + 1
  BY DEF JoinChunk
<1>2. UNCHANGED <<handles, duration, per_chunk>> /\ Chunks' = Chunks
  BY DEF JoinChunk, Chunks
<1>3. Cardinality(handles) \in Nat /\ Cardinality(handles) # 0
  <2>1. IsFiniteSet(handles) /\ Cardinality(handles) \in Nat
    BY LiveCounted DEF LoopTypes
  <2>. QED
    BY <2>1, FS_EmptySet
<1>4. Chunks \in Nat \ {0} /\ Chunks - sleeps - 1 \in Int
  BY ChunksType
<1>5. Chunks - sleeps - 1 > 0
  BY <1>1, <1>3, <1>4, NoRoom DEF FitsInto
<1>6. Chunks = duration \div CHUNK_DURATION
  BY <1>4, <1>5, HalfFits DEF Chunks, AtLeast1
<1>7. Chunks * CHUNK_DURATION <= duration
  BY <1>6, HalfFits
<1>8. (sleeps + 2) * CHUNK_DURATION <= Chunks * CHUNK_DURATION
  BY <1>4, <1>5 DEF CHUNK_DURATION
<1>9. DrainWithinDuration'
  BY <1>1, <1>2, <1>4, <1>7, <1>8 DEF DrainWithinDuration, CHUNK_DURATION
<1>10. FitsInto(Chunks - sleeps)'
  <2>1. Chunks' - sleeps' = Chunks - sleeps - 1
    BY <1>1, <1>2, <1>4
  <2>. QED
    BY <1>1, <1>2, <2>1 DEF FitsInto
<1>. QED
  BY <1>1, <1>9, <1>10

LEMMA DrainInvStep == DrainInv /\ TrackInv /\ [Next]_vars => DrainInv'
<1>. SUFFICES ASSUME DrainInv, TrackInv, [Next]_vars
              PROVE  DrainInv'
  OBVIOUS
<1>0. DrainTypes'
  BY DrainTypesStep DEF DrainInv
<1>. USE <1>0 DEF DrainInv
<1>1. CASE GradualShutdown
  <2>1. gradual \in Nat /\ handles \subseteq Clients
    BY <1>1, SourceAssumption DEF GradualShutdown, DrainTypes, LoopTypes
  <2>2. /\ task' = "drain"
        /\ sleeps = 0 /\ sleeps' = 0
        /\ duration' = gradual
        /\ handles' = handles
        /\ per_chunk' = PerChunk(gradual)
    BY <1>1 DEF GradualShutdown
  <2>3. FitsInto(Chunks - sleeps)'
    <3>1. Chunks' = AtLeast1(gradual \div CHUNK_DURATION) /\ Chunks' \in Nat
      BY <2>1, <2>2, HalfFits DEF Chunks, AtLeast1
    <3>2. Chunks' - sleeps' = Chunks'
      BY <2>2, <3>1
    <3>. QED
      BY <2>1, <2>2, <3>1, <3>2, PerChunkEnough DEF FitsInto
  <2>. QED
    BY <2>2, <2>3 DEF DrainWithinDuration, Running
<1>2. CASE Drain
  <2>1. task' = "join_chunk" /\ UNCHANGED <<sleeps, duration>>
    BY <1>2 DEF Drain
  <2>. QED
    BY <1>2, <2>1, DrainTakesChunk DEF DrainWithinDuration, Running
<1>3. CASE JoinChunk
  <2>1. CASE handles # {}
    <3>1. task' = "drain_sleep"
      BY <1>3, <2>1 DEF JoinChunk
    <3>. QED
      BY <1>3, <2>1, <3>1, SleepFits DEF Running
  <2>2. CASE handles = {}
    <3>1. task' = "ended" /\ UNCHANGED <<sleeps, duration>>
      BY <1>3, <2>2 DEF JoinChunk, End
    <3>. QED
      BY <3>1 DEF DrainWithinDuration, Running
  <2>. QED
    BY <2>1, <2>2
<1>4. CASE \/ Acquire \/ TooFull \/ Wake \/ Bind \/ HandleHotReload \/ Shutdown
           \/ \E c \in Clients : Accept(c)
  <2>1. task \in Running /\ task' \in Running \cup {"joining"} /\ UNCHANGED <<sleeps, duration>>
    BY <1>4, Zenon DEF Acquire, TooFull, Wake, Bind, HandleHotReload, Shutdown, Accept, Running,
                drain_vars
  <2>. QED
    BY <2>1 DEF DrainWithinDuration, Running
<1>5. CASE Joined \/ DrainNothing
  <2>1. task' = "ended" /\ UNCHANGED <<sleeps, duration>>
    BY <1>5 DEF Joined, DrainNothing, End, drain_vars
  <2>. QED
    BY <2>1 DEF DrainWithinDuration, Running
<1>6. CASE DrainSleep
  <2>1. /\ task = "drain_sleep" /\ task' = "drain"
        /\ UNCHANGED <<sleeps, duration, per_chunk, handles>>
    BY <1>6 DEF DrainSleep, loop_vars, drain_vars
  <2>. QED
    BY <2>1 DEF DrainWithinDuration, FitsInto, Chunks, Running
<1>7. CASE \/ \E c \in Clients : HandshakeDone(c) \/ HandlerEnds(c) \/ Connect(c)
           \/ RequestListener \/ RequestTimeout \/ RequestGradual \/ TriggerShutdown
           \/ UNCHANGED vars
  <2>1. UNCHANGED <<task, sleeps, duration, per_chunk, handles>>
    BY <1>7, Zenon DEF HandshakeDone, HandlerEnds, Connect, RequestListener, RequestTimeout, RequestGradual,
                TriggerShutdown, loop_vars, drain_vars, vars
  <2>. QED
    BY <2>1 DEF DrainWithinDuration, FitsInto, Chunks
<1>. QED
  BY <1>1, <1>2, <1>3, <1>4, <1>5, <1>6, <1>7 DEF Next, TaskStep

(* gradual_shutdown never takes more chunks than fit into the duration it   *)
(* was asked for, for any number of connections and any duration: rounding  *)
(* the chunk size up always covers what is left.                            *)
THEOREM DrainsInTime == Spec => []DrainWithinDuration
  BY DrainInvInit, DrainInvStep, TrackInvInit, TrackInvStep, PTL DEF Spec, DrainInv
=============================================================================
