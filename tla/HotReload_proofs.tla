-------------------------- MODULE HotReload_proofs --------------------------
(***************************************************************************)
(* What holds of HotReload for any number of processes, ports and faults.  *)
(***************************************************************************)
EXTENDS HotReload, TLAPS

States == {"off", "requesting", "building", "telling", "serving", "exited"}
Waiting == [client : Processes, request : {"listeners", "shutdown"}]

\* The process of a shutdown request is past run_chains: its sources are built.
Ready(c) ==
    /\ proc[c] \in {"telling", "serving", "exited"}
    /\ to_build[c] = <<>>
    /\ c \notin errors

QueueTypes ==
    /\ proc \in [Processes -> States]
    /\ path \in Processes \cup {None}
    /\ queue \in [Processes -> Seq(Waiting)]
    /\ DOMAIN to_build = Processes
    /\ errors \subseteq Processes

\* Every shutdown request on its way was sent by a process that is ready.
DrainInv ==
    /\ QueueTypes
    /\ \A i \in Processes : \A k \in DOMAIN queue[i] :
         queue[i][k].request = "shutdown" => Ready(queue[i][k].client)

\* A process that is ready stays ready: run_chains is behind it.
ReadyStays == \A c \in Processes : Ready(c) => Ready(c)'

\* The requests of a queue are those it had, or it has a new one of a ready process.
NoRequestAdded == \A j \in Processes : queue'[j] = queue[j] \/ queue'[j] = <<>>
                                       \/ (queue[j] # <<>> /\ queue'[j] = Tail(queue[j]))

\* What the steps that send no request have to show.
LEMMA DrainInvKept ==
  ASSUME DrainInv, QueueTypes', ReadyStays, NoRequestAdded
  PROVE  DrainInv'
<1>. USE DEF DrainInv, QueueTypes
<1>. SUFFICES ASSUME NEW j \in Processes, NEW k \in DOMAIN queue'[j],
                     queue'[j][k].request = "shutdown"
              PROVE  Ready(queue[j][k].client)'
  OBVIOUS
<1>1. \E m \in DOMAIN queue[j] : queue'[j][k] = queue[j][m]
  <2>1. CASE queue'[j] = queue[j]
    BY <2>1, Zenon
  <2>2. CASE queue'[j] = <<>>
    BY <2>2
  <2>3. CASE queue[j] # <<>> /\ queue'[j] = Tail(queue[j])
    <3>1. k + 1 \in DOMAIN queue[j] /\ queue'[j][k] = queue[j][k + 1]
      BY <2>3
    <3>. QED BY <3>1, Zenon
  <2>. QED BY <2>1, <2>2, <2>3, Zenon DEF NoRequestAdded
<1>2. PICK m \in DOMAIN queue[j] : queue'[j][k] = queue[j][m]
  BY <1>1, Zenon
<1>3. queue[j][m] \in Waiting
  OBVIOUS
<1>4. queue[j][m].client \in Processes
  BY <1>3, Zenon DEF Waiting
<1>. QED BY <1>2, <1>4, Zenon DEF ReadyStays

\* Send appends a request to the queue at the path.
LEMMA DrainInvSend ==
  ASSUME DrainInv, QueueTypes', ReadyStays, path \in Processes,
         NEW i \in Processes, NEW r \in {"listeners", "shutdown"}, Send(i, r),
         r = "shutdown" => Ready(i)'
  PROVE  DrainInv'
<1>. USE DEF DrainInv, QueueTypes
<1>. SUFFICES ASSUME NEW j \in Processes, NEW k \in DOMAIN queue'[j],
                     queue'[j][k].request = "shutdown"
              PROVE  Ready(queue[j][k].client)'
  OBVIOUS
<1>1. queue[path] \in Seq(Waiting) /\ queue' = [queue EXCEPT ![path] = Append(@, [client |-> i, request |-> r])]
  BY Zenon DEF Send
<1>2. CASE j = path /\ k = Len(queue[j]) + 1
  BY <1>1, <1>2
<1>3. CASE ~(j = path /\ k = Len(queue[j]) + 1)
  <2>1. k \in DOMAIN queue[j] /\ queue'[j][k] = queue[j][k]
    BY <1>1, <1>3
  <2>2. queue[j][k] \in Waiting
    BY <2>1
  <2>3. queue[j][k].client \in Processes
    BY <2>2, Zenon DEF Waiting
  <2>. QED BY <2>1, <2>3, Zenon DEF ReadyStays
<1>. QED BY <1>2, <1>3, Zenon

\* A request put into a queue keeps the type of the queues.
LEMMA SendTypes ==
  ASSUME QueueTypes, path \in Processes, NEW i \in Processes,
         NEW r \in {"listeners", "shutdown"}, Send(i, r)
  PROVE  queue' \in [Processes -> Seq(Waiting)]
<1>1. queue[path] \in Seq(Waiting) /\ [client |-> i, request |-> r] \in Waiting
  BY ZenonT(30) DEF Waiting, QueueTypes
<1>. QED BY <1>1 DEF Send, QueueTypes

\* Initially no request is queued.
LEMMA DrainInvInit == Init => DrainInv
<1>. SUFFICES ASSUME Init PROVE DrainInv
  OBVIOUS
<1>1. QueueTypes
  <2>1. <<>> \in Seq(Waiting)
    OBVIOUS
  <2>2. queue \in [Processes -> Seq(Waiting)]
    BY <2>1, Zenon DEF Init
  <2>. QED BY <2>2, Zenon DEF Init, QueueTypes, States
<1>2. \A i \in Processes : queue[i] = <<>>
  BY Zenon DEF Init
<1>. QED BY <1>1, <1>2 DEF DrainInv

\* The end of a process leaves its queue empty and the others as they are.
LEMMA DrainInvGone ==
  ASSUME DrainInv, NEW i \in Processes, Gone(i), path' \in Processes \cup {None}
  PROVE  DrainInv'
<1>. USE DEF DrainInv, QueueTypes, Gone, client_vars
<1>1. QueueTypes'
  <2>1. <<>> \in Seq(Waiting)
    OBVIOUS
  <2>2. queue' \in [Processes -> Seq(Waiting)]
    BY <2>1, Zenon
  <2>. QED BY <2>2, Zenon DEF States
<1>2. ReadyStays
  BY Zenon DEF ReadyStays, Ready
<1>3. NoRequestAdded
  BY Zenon DEF NoRequestAdded
<1>. QED BY <1>1, <1>2, <1>3, DrainInvKept, Zenon

\* A step that only moves a process on, and not out of being ready.
LEMMA DrainInvMoves ==
  ASSUME DrainInv, NEW i \in Processes, NEW s \in States,
         proc' = [proc EXCEPT ![i] = s],
         Ready(i) => s \in {"telling", "serving", "exited"},
         UNCHANGED <<path, queue, to_build, errors>>
  PROVE  DrainInv'
<1>. USE DEF DrainInv, QueueTypes
<1>1. QueueTypes'
  OBVIOUS
<1>2. ReadyStays
  BY Zenon DEF ReadyStays, Ready
<1>3. NoRequestAdded
  BY Zenon DEF NoRequestAdded
<1>. QED BY <1>1, <1>2, <1>3, DrainInvKept, Zenon

\* A step that takes at most a request out of a queue.
LEMMA DrainInvTakes ==
  ASSUME DrainInv, NEW i \in Processes, path' \in Processes \cup {None},
         UNCHANGED queue \/ (queue[i] # <<>> /\ queue' = [queue EXCEPT ![i] = Tail(@)]),
         UNCHANGED <<proc, to_build, errors>>
  PROVE  DrainInv'
<1>. USE DEF DrainInv, QueueTypes
<1>1. QueueTypes'
  <2>1. queue[i] # <<>> => Tail(queue[i]) \in Seq(Waiting)
    OBVIOUS
  <2>. QED BY <2>1, Zenon
<1>2. ReadyStays
  BY Zenon DEF ReadyStays, Ready
<1>3. NoRequestAdded
  BY Zenon DEF NoRequestAdded
<1>. QED BY <1>1, <1>2, <1>3, DrainInvKept, Zenon

\* Every action keeps DrainInv; the sends are the ones that could add a request.
LEMMA DrainInvNext ==
  ASSUME DrainInv, [Next]_vars
  PROVE  DrainInv'
<1>. USE DEF client_vars, source_vars, server_vars
<1>0. path \in Processes \cup {None}
  BY Zenon DEF DrainInv, QueueTypes
<1>1. CASE UNCHANGED vars
  BY <1>1, Zenon DEF vars, DrainInv, QueueTypes, Ready
<1>2. ASSUME NEW i \in Processes, Start(i)
      PROVE  DrainInv'
  <2>1. ReadyStays /\ DOMAIN to_build' = Processes
    BY <1>2, Zenon DEF Start, ReadyStays, Ready, DrainInv, QueueTypes
  <2>2. CASE path = None
    <3>1. QueueTypes' /\ NoRequestAdded
      BY <1>2, <2>1, <2>2, Zenon DEF Start, NoRequestAdded, DrainInv, QueueTypes, States
    <3>. QED BY <3>1, <2>1, DrainInvKept, Zenon
  <2>3. CASE path # None
    <3>1. path \in Processes /\ Send(i, "listeners")
      BY <1>0, <1>2, <2>3, Zenon DEF Start
    <3>2. QueueTypes'
      BY <1>2, <2>1, <2>3, <3>1, SendTypes, Zenon DEF Start, DrainInv, QueueTypes, States
    <3>. QED BY <3>1, <3>2, <2>1, DrainInvSend, Zenon
  <2>. QED BY <2>2, <2>3, Zenon
<1>3. ASSUME NEW i \in Processes, Built(i)
      PROVE  DrainInv'
  <2>1. ReadyStays
    BY <1>3, Zenon DEF Built, ReadyStays, Ready, DrainInv, QueueTypes
  <2>2. CASE replaces[i] /\ Reachable(path)
    <3>1. path \in Processes /\ Send(i, "shutdown")
      BY <1>0, <1>3, <2>2, Zenon DEF Built, Reachable
    <3>2. QueueTypes'
      BY <1>3, <2>2, <3>1, SendTypes, Zenon DEF Built, DrainInv, QueueTypes, States
    <3>3. Ready(i)'
      BY <1>3, <2>2, Zenon DEF Built, Ready, DrainInv, QueueTypes
    <3>. QED BY <3>1, <3>2, <3>3, <2>1, DrainInvSend, Zenon
  <2>3. CASE ~(replaces[i] /\ Reachable(path))
    BY <1>3, <2>3, DrainInvMoves, Zenon DEF Built, States
  <2>. QED BY <2>2, <2>3, Zenon
<1>4. ASSUME NEW i \in Processes,
             Exits(i) \/ Killed(i) \/ StartFails(i) \/ BuildFails(i)
      PROVE  DrainInv'
  <2>1. Gone(i) /\ path' \in Processes \cup {None}
    BY <1>0, <1>4, Zenon DEF Exits, RemoveSocketFile, Killed, StartFails, BuildFails, Fails
  <2>. QED BY <2>1, DrainInvGone, Zenon
<1>5. ASSUME NEW i \in Processes, PeerGone(i) \/ RequestTimesOut(i)
      PROVE  DrainInv'
  <2>1. RequestFails(i)
    BY <1>5, Zenon DEF PeerGone, RequestTimesOut
  <2>2. CASE proc[i] = "requesting" /\ Fails(i)
    BY <1>0, <2>2, DrainInvGone, Zenon DEF Fails
  <2>3. CASE proc' = [proc EXCEPT ![i] = "serving"] /\ UNCHANGED <<path, client_vars, server_vars>>
    BY <2>3, DrainInvMoves, ZenonT(30) DEF States
  <2>. QED BY <2>1, <2>2, <2>3, Zenon DEF RequestFails
<1>6. ASSUME NEW i \in Processes, ReceiveListeners(i) \/ ReceiveShutdown(i)
      PROVE  DrainInv'
  <2>1. CASE ReceiveListeners(i)
    BY <2>1, DrainInvMoves, Zenon DEF ReceiveListeners, States, Ready
  <2>2. CASE ReceiveShutdown(i)
    BY <2>2, DrainInvMoves, ZenonT(30) DEF ReceiveShutdown, States
  <2>. QED BY <1>6, <2>1, <2>2, Zenon
<1>7. ASSUME NEW i \in Processes, BuildSource(i) \/ InvalidSource(i)
      PROVE  DrainInv'
  <2>. DEFINE Builds == /\ proc[i] = "building" /\ UNCHANGED <<proc, path, queue>>
                        /\ to_build' = [to_build EXCEPT ![i] = Tail(@)]
                        /\ errors' \in {errors, errors \cup {i}}
  <2>1. Builds
    <3>1. BuildSource(i) => Builds
      BY Zenon DEF BuildSource, TakeListener
    <3>2. InvalidSource(i) => Builds
      BY Zenon DEF InvalidSource
    <3>. HIDE DEF Builds
    <3>. QED BY <1>7, <3>1, <3>2, Zenon
  <2>2. QueueTypes' /\ ReadyStays /\ NoRequestAdded
    BY <2>1, Zenon DEF DrainInv, QueueTypes, ReadyStays, Ready, NoRequestAdded
  <2>. QED BY <2>2, DrainInvKept, Zenon
<1>8. ASSUME NEW i \in Processes, ServeListeners(i) \/ ServeShutdown(i)
      PROVE  DrainInv'
  BY <1>0, <1>8, DrainInvTakes, ZenonT(30) DEF ServeListeners, ServeShutdown
<1>9. ASSUME NEW i \in Processes,
             Signal(i) \/ ServerBinds(i) \/ Collect(i) \/ CollectTimesOut(i) \/ Respond(i)
      PROVE  DrainInv'
  <2>. DEFINE Same == path' \in Processes \cup {None} /\ UNCHANGED <<proc, queue, to_build, errors>>
  <2>1. Same
    <3>1. Signal(i) \/ ServerBinds(i) => Same
      BY <1>0, Zenon DEF Signal, ServerBinds
    <3>2. Collect(i) \/ CollectTimesOut(i) => Same
      BY <1>0, Zenon DEF Collect, CollectTimesOut
    <3>3. Respond(i) => Same
      BY <1>0, Zenon DEF Respond
    <3>. HIDE DEF Same
    <3>. QED BY <1>9, <3>1, <3>2, <3>3, Zenon
  <2>. QED BY <2>1, DrainInvTakes, Zenon
<1>10. ASSUME NEW i \in Processes, NEW p \in Ports,
              SourceStep(i, p) \/ LimitReached(i, p) \/ LimitCleared(i, p)
       PROVE  DrainInv'
  <2>. DEFINE Same == UNCHANGED <<path, proc, queue, to_build, errors>>
  <2>1. Same
    <3>1. HandOver(i, p) => Same
      BY Zenon DEF HandOver
    <3>2. StopSource(i, p) \/ SourceEnds(i, p) => Same
      BY Zenon DEF StopSource, SourceEnds
    <3>3. LimitReached(i, p) \/ LimitCleared(i, p) => Same
      BY Zenon DEF LimitReached, LimitCleared
    <3>. HIDE DEF Same
    <3>. QED BY <1>10, <3>1, <3>2, <3>3, Zenon DEF SourceStep
  <2>. QED BY <1>0, <2>1, DrainInvTakes, Zenon
<1>. QED
  BY <1>1, <1>2, <1>3, <1>4, <1>5, <1>6, <1>7, <1>8, <1>9, <1>10, Zenon DEF Next, ClientStep, ServerStep

\* However many processes overlap, fail and are killed, a source is only told to drain by a
\* process whose own sources are all built (run_inner sends the request after run_chains).
THEOREM DrainsOnlyForReady == Spec => DrainedByReady
<1>1. Init => DrainInv
  BY DrainInvInit, Zenon
<1>2. DrainInv /\ [Next]_vars => DrainInv'
  BY DrainInvNext, Zenon
<1>3. DrainInv /\ [Next]_vars =>
        [\A s \in Processes \X Ports :
           gradual'[s] # gradual[s] => to_build[gradual'[s]] = <<>> /\ gradual'[s] \notin errors]_vars
  <2>. SUFFICES ASSUME DrainInv, Next, NEW s \in Processes \X Ports, gradual'[s] # gradual[s]
                PROVE  to_build[gradual'[s]] = <<>> /\ gradual'[s] \notin errors
    OBVIOUS
  <2>. USE DEF client_vars, source_vars, server_vars
  <2>1. ASSUME NEW i \in Processes, ServeShutdown(i)
        PROVE  to_build[gradual'[s]] = <<>> /\ gradual'[s] \notin errors
    <3>1. gradual'[s] = Head(queue[i]).client
      BY <2>1, Zenon DEF ServeShutdown
    <3>2. 1 \in DOMAIN queue[i] /\ Head(queue[i]) = queue[i][1]
      BY <2>1 DEF ServeShutdown, DrainInv, QueueTypes
    <3>3. Ready(Head(queue[i]).client)
      BY <2>1, <3>2, Zenon DEF ServeShutdown, DrainInv
    <3>. QED BY <3>1, <3>3, Zenon DEF Ready
  <2>2. ASSUME NEW i \in Processes, UNCHANGED gradual
        PROVE  FALSE
    BY <2>2, Zenon
  <2>3. ASSUME NEW i \in Processes,
               \/ Start(i) \/ StartFails(i) \/ InvalidSource(i) \/ ClientStep(i)
               \/ ServerStep(i) /\ ~ServeShutdown(i)
               \/ Exits(i) \/ Killed(i) \/ Signal(i)
        PROVE  UNCHANGED gradual
    <3>1. Start(i) => UNCHANGED gradual
      BY Zenon DEF Start
    <3>2. BuildSource(i) \/ InvalidSource(i) => UNCHANGED gradual
      BY Zenon DEF BuildSource, InvalidSource
    <3>3. Gone(i) => UNCHANGED gradual
      BY Zenon DEF Gone
    <3>4. StartFails(i) \/ BuildFails(i) \/ Exits(i) \/ Killed(i) => UNCHANGED gradual
      BY <3>3, Zenon DEF StartFails, BuildFails, Exits, Killed, Fails
    <3>5. RequestFails(i) => UNCHANGED gradual
      BY <3>3, Zenon DEF RequestFails, Fails
    <3>6. PeerGone(i) \/ RequestTimesOut(i) => UNCHANGED gradual
      BY <3>5, Zenon DEF PeerGone, RequestTimesOut
    <3>7. ReceiveListeners(i) \/ ReceiveShutdown(i) => UNCHANGED gradual
      BY Zenon DEF ReceiveListeners, ReceiveShutdown
    <3>8. Built(i) => UNCHANGED gradual
      BY Zenon DEF Built
    <3>9. ServerBinds(i) \/ ServeListeners(i) \/ Signal(i) => UNCHANGED gradual
      BY Zenon DEF ServerBinds, ServeListeners, Signal
    <3>10. Collect(i) \/ CollectTimesOut(i) => UNCHANGED gradual
      BY Zenon DEF Collect, CollectTimesOut
    <3>11. Respond(i) => UNCHANGED gradual
      BY Zenon DEF Respond
    <3>. QED BY <2>3, <3>1, <3>2, <3>4, <3>6, <3>7, <3>8, <3>9, <3>10, <3>11, ZenonT(30)
             DEF ClientStep, ServerStep
  <2>4. ASSUME NEW i \in Processes, NEW p \in Ports,
               SourceStep(i, p) \/ LimitReached(i, p) \/ LimitCleared(i, p)
        PROVE  UNCHANGED gradual
    <3>1. HandOver(i, p) => UNCHANGED gradual
      BY Zenon DEF HandOver
    <3>2. StopSource(i, p) \/ SourceEnds(i, p) => UNCHANGED gradual
      BY Zenon DEF StopSource, SourceEnds
    <3>3. LimitReached(i, p) \/ LimitCleared(i, p) => UNCHANGED gradual
      BY Zenon DEF LimitReached, LimitCleared
    <3>. QED BY <2>4, <3>1, <3>2, <3>3, Zenon DEF SourceStep
  <2>. QED BY <2>1, <2>2, <2>3, <2>4, Zenon DEF Next, ServerStep
<1>. QED BY <1>1, <1>2, <1>3, PTL DEF Spec, DrainedByReady

-----------------------------------------------------------------------------
\* The descriptor of a port's listening socket is in one place at a time, and a source that
\* accepts connections is where it is.
OneHolder ==
    /\ \A p \in Ports : \A a, b \in sockets[p] : a = b
    /\ \A i \in Processes, p \in Ports :
         source[<<i, p>>] \in {"accepting", "full"} => WithSource(i) \in sockets[p]

HolderInv ==
    /\ DOMAIN sockets = Ports
    /\ DOMAIN source = Processes \X Ports
    /\ OneHolder

\* The places a descriptor can be held at are different.
LEMMA PlacesDiffer ==
  \A i, j : /\ WithSource(i) # WithServer(j) /\ WithSource(i) # WithClient(j)
            /\ WithServer(i) # WithClient(j)
            /\ WithSource(i) = WithSource(j) => i = j
BY Zenon DEF WithSource, WithServer, WithClient

\* Descriptors dropped by a process that no source of its own holds.
LEMMA HolderInvDrops ==
  ASSUME HolderInv, DOMAIN sockets' = Ports, UNCHANGED source,
         \A p \in Ports : sockets'[p] \subseteq sockets[p]
                          /\ \A i \in Processes : WithSource(i) \in sockets[p] => WithSource(i) \in sockets'[p]
  PROVE  HolderInv'
BY Zenon DEF HolderInv, OneHolder

\* A process that ends takes its descriptors and its sources with it.
LEMMA HolderInvGone ==
  ASSUME HolderInv, NEW i \in Processes, Gone(i)
  PROVE  HolderInv'
<1>1. DOMAIN sockets' = Ports /\ DOMAIN source' = Processes \X Ports
  BY Zenon DEF Gone, Released
<1>2. \A p \in Ports : sockets'[p] = sockets[p] \ PlacesOf(i)
  BY Zenon DEF Gone, Released
<1>3. \A j \in Processes, p \in Ports : source'[<<j, p>>] \in {"accepting", "full"} =>
          j # i /\ source[<<j, p>>] \in {"accepting", "full"}
  BY Zenon DEF Gone
<1>4. \A j \in Processes : j # i => WithSource(j) \notin PlacesOf(i)
  BY PlacesDiffer, Zenon DEF PlacesOf
<1>. QED BY <1>1, <1>2, <1>3, <1>4 DEF HolderInv, OneHolder

\* Every action keeps HolderInv.
LEMMA HolderInvNext ==
  ASSUME HolderInv, [Next]_vars
  PROVE  HolderInv'
<1>. USE DEF client_vars, source_vars, server_vars
<1>1. ASSUME UNCHANGED <<sockets, source>>
      PROVE  HolderInv'
  BY <1>1, Zenon DEF HolderInv, OneHolder
<1>2. ASSUME NEW i \in Processes,
             Exits(i) \/ Killed(i) \/ StartFails(i) \/ BuildFails(i) \/ PeerGone(i) \/ RequestTimesOut(i)
      PROVE  HolderInv'
  <2>1. Gone(i) \/ UNCHANGED <<sockets, source>>
    <3>1. Exits(i) \/ Killed(i) \/ StartFails(i) => Gone(i)
      BY Zenon DEF Exits, Killed, StartFails, Fails
    <3>2. BuildFails(i) => Gone(i)
      BY Zenon DEF BuildFails, Fails
    <3>3. RequestFails(i) => Gone(i) \/ UNCHANGED <<sockets, source>>
      BY Zenon DEF RequestFails, Fails
    <3>4. PeerGone(i) \/ RequestTimesOut(i) => RequestFails(i)
      BY Zenon DEF PeerGone, RequestTimesOut
    <3>. QED BY <1>2, <3>1, <3>2, <3>3, <3>4, ZenonT(30)
  <2>. QED BY <1>1, <2>1, HolderInvGone, Zenon
<1>3. ASSUME NEW i \in Processes, BuildSource(i)
      PROVE  HolderInv'
  <2>. DEFINE p == Head(to_build[i])
  <2>1. CASE WithClient(i) \in sockets[p] \/ sockets[p] = {}
    <3>1. /\ sockets' = [sockets EXCEPT ![p] = (@ \ {WithClient(i)}) \cup {WithSource(i)}]
          /\ source' = [source EXCEPT ![<<i, p>>] = IF i \in trigger THEN "stopping" ELSE "accepting"]
      BY <1>3, <2>1, Zenon DEF BuildSource, TakeListener, Starts
    <3>. HIDE DEF p
    <3>2. CASE p \notin Ports
      BY <3>1, <3>2, Zenon DEF HolderInv, OneHolder
    <3>3. CASE p \in Ports
      <4>1. sockets'[p] = {WithSource(i)} /\ \A j \in Processes : WithSource(j) \notin sockets[p]
        BY <2>1, <3>1, <3>3, PlacesDiffer, SMTT(20) DEF HolderInv, OneHolder
      <4>. QED BY <3>1, <3>3, <4>1, Zenon DEF HolderInv, OneHolder
    <3>. QED BY <3>2, <3>3, Zenon
  <2>2. CASE ~(WithClient(i) \in sockets[p] \/ sockets[p] = {})
    BY <1>1, <1>3, <2>2, Zenon DEF BuildSource, TakeListener
  <2>. QED BY <2>1, <2>2, Zenon
<1>4. ASSUME NEW i \in Processes, Built(i)
      PROVE  HolderInv'
  <2>1. UNCHANGED source /\ sockets' = [p \in Ports |-> sockets[p] \ {WithClient(i)}]
    BY <1>4, Zenon DEF Built, DropUnused
  <2>. QED BY <2>1, PlacesDiffer, HolderInvDrops, Zenon
<1>5. ASSUME NEW i \in Processes, Respond(i)
      PROVE  HolderInv'
  <2>1. UNCHANGED source /\ DOMAIN sockets' = Ports
    BY <1>5, Zenon DEF Respond, SendFds
  <2>2. ASSUME NEW p \in Ports
        PROVE  \/ sockets'[p] = sockets[p] \ {WithServer(i)}
               \/ /\ WithServer(i) \in sockets[p]
                  /\ sockets'[p] = (sockets[p] \ {WithServer(i)}) \cup {WithClient(server[i].client)}
    BY <1>5, Zenon DEF Respond, SendFds
  <2>. QED BY <2>1, <2>2, PlacesDiffer, SMTT(30) DEF HolderInv, OneHolder
<1>6. ASSUME NEW i \in Processes, NEW p \in Ports, HandOver(i, p)
      PROVE  HolderInv'
  <2>1. sockets[p] = {WithSource(i)}
    <3>1. WithSource(i) \in sockets[p]
      BY <1>6, ZenonT(30) DEF HandOver, HolderInv, OneHolder
    <3>. QED BY <3>1 DEF HolderInv, OneHolder
  <2>2. source' = [source EXCEPT ![<<i, p>>] = "parked"]
        /\ \/ sockets' = [sockets EXCEPT ![p] = {}]
           \/ sockets' = [sockets EXCEPT ![p] = {WithServer(i)}]
    BY <1>6, <2>1, ZenonT(30) DEF HandOver
  <2>. QED BY <2>1, <2>2, PlacesDiffer, SMTT(20) DEF HolderInv, OneHolder
<1>7. ASSUME NEW i \in Processes, NEW p \in Ports, LimitReached(i, p)
      PROVE  HolderInv'
  <2>1. source[<<i, p>>] = "accepting" /\ WithSource(i) \in sockets[p]
    BY <1>7, Zenon DEF LimitReached, HolderInv, OneHolder
  <2>2. CASE source' = [source EXCEPT ![<<i, p>>] = "full"] /\ UNCHANGED sockets
    BY <2>1, <2>2, Zenon DEF HolderInv, OneHolder
  <2>3. CASE /\ source' = [source EXCEPT ![<<i, p>>] = "closed"]
             /\ sockets' = [sockets EXCEPT ![p] = @ \ {WithSource(i)}]
    BY <2>1, <2>3, PlacesDiffer, Zenon DEF HolderInv, OneHolder
  <2>. QED BY <1>7, <2>2, <2>3, Zenon DEF LimitReached
<1>8. ASSUME NEW i \in Processes, NEW p \in Ports, LimitCleared(i, p)
      PROVE  HolderInv'
  BY <1>8, PlacesDiffer, SMTT(30) DEF LimitCleared, HolderInv, OneHolder
<1>9. ASSUME NEW i \in Processes, NEW p \in Ports, StopSource(i, p)
      PROVE  HolderInv'
  BY <1>9, Zenon DEF StopSource, HolderInv, OneHolder
<1>10. ASSUME NEW i \in Processes, NEW p \in Ports, SourceEnds(i, p)
       PROVE  HolderInv'
  BY <1>10, PlacesDiffer, ZenonT(30) DEF SourceEnds, HolderInv, OneHolder
<1>11. ASSUME NEW i \in Processes,
              \/ Start(i) \/ InvalidSource(i) \/ ReceiveListeners(i) \/ ReceiveShutdown(i)
              \/ ServerBinds(i) \/ ServeListeners(i) \/ ServeShutdown(i) \/ Collect(i)
              \/ CollectTimesOut(i) \/ Signal(i)
       PROVE  HolderInv'
  <2>1. UNCHANGED <<sockets, source>>
    <3>1. Start(i) => UNCHANGED <<sockets, source>>
      BY Zenon DEF Start
    <3>2. InvalidSource(i) \/ ReceiveListeners(i) \/ ReceiveShutdown(i) => UNCHANGED <<sockets, source>>
      BY Zenon DEF InvalidSource, ReceiveListeners, ReceiveShutdown
    <3>3. ServerBinds(i) \/ ServeListeners(i) \/ ServeShutdown(i) => UNCHANGED <<sockets, source>>
      BY Zenon DEF ServerBinds, ServeListeners, ServeShutdown
    <3>4. Collect(i) \/ CollectTimesOut(i) \/ Signal(i) => UNCHANGED <<sockets, source>>
      BY Zenon DEF Collect, CollectTimesOut, Signal
    <3>. QED BY <1>11, <3>1, <3>2, <3>3, <3>4, Zenon
  <2>. QED BY <1>1, <2>1, Zenon
<1>12. CASE UNCHANGED vars
  BY <1>1, <1>12, Zenon DEF vars
<1>. QED
  BY <1>2, <1>3, <1>4, <1>5, <1>6, <1>7, <1>8, <1>9, <1>10, <1>11, <1>12
 , Zenon DEF Next, ClientStep, ServerStep, SourceStep

\* Through every hand-over, failed start and killed process the listening socket of a port has
\* one holder: two processes never accept on the same port, and a process that ends or drops
\* what it was handed never closes a listener that another one serves.
THEOREM ListenerHasOneHolder == Spec => []OneHolder
<1>1. Init => HolderInv
  BY SMTT(30) DEF Init, HolderInv, OneHolder
<1>2. HolderInv /\ [Next]_vars => HolderInv'
  BY HolderInvNext, Zenon
<1>3. HolderInv => OneHolder
  BY Zenon DEF HolderInv
<1>. QED BY <1>1, <1>2, <1>3, PTL DEF Spec

-----------------------------------------------------------------------------
(* Somebody holds the listening socket of a port that was opened.  A step    *)
(* closes a socket when a process ends, a source ends, or a descriptor on    *)
(* its way is dropped; the invariant says where the descriptors are at these *)
(* moments.                                                                  *)

Started == {"building", "telling", "serving"}
Settled == {"serving", "exited"}
ServerStates == {"down", "accept", "collect"}

ServerRecord == [state : ServerStates, client : Processes \cup {None},
                 waits_for : Seq(Ports), fds : SUBSET Ports]

OpenTypes ==
    /\ asked \in [Processes \X Ports -> Seq(BOOLEAN)]
    /\ DOMAIN reply = Processes \X Ports
    /\ DOMAIN gradual = Processes \X Ports
    /\ server \in [Processes -> ServerRecord]
    /\ to_build \in [Processes -> Seq(Ports)]

\* A socket is with a source that has it in use, with a server that is collecting and
\* will send it, or with a process that is starting.
HolderIsBusy ==
    \A i \in Processes, p \in Ports :
        /\ WithSource(i) \in sockets[p] =>
              /\ source[<<i, p>>] \in {"accepting", "full", "stopping"}
              /\ proc[i] \in Started
        /\ WithServer(i) \in sockets[p] =>
              /\ p \in PortsOf[i]
              /\ server[i].state = "collect"
              /\ \/ p \in server[i].fds
                 \/ p \in Range(server[i].waits_for) /\ reply[<<i, p>>] = "fd"
        /\ WithClient(i) \in sockets[p] => proc[i] \in {"requesting", "building"}

\* Only a process that serves has a server and requests, and only its sources are told to
\* drain.  A source is one of the topology of a process that runs.
PhaseInv ==
    \A i \in Processes :
        /\ server[i].state # "down" => proc[i] = "serving"
        /\ queue[i] # <<>> => server[i].state # "down"
        /\ i \in trigger => i \in signals \/ proc[i] \in Settled
        /\ \A p \in Ports :
             /\ gradual[<<i, p>>] # None => proc[i] \in Settled
             /\ proc[i] \notin Settled => asked[<<i, p>>] = <<>>
             /\ source[<<i, p>>] # "none" => p \in PortsOf[i] /\ proc[i] \in Started

\* Only the request that is being collected finds its requester waiting.
AskedInv ==
    \A i \in Processes, p \in Ports :
        proc[i] # "exited" =>
          /\ source[<<i, p>>] = "ended" => asked[<<i, p>>] = <<>>
          /\ \A k \in DOMAIN asked[<<i, p>>] : asked[<<i, p>>][k] =>
               /\ k = Len(asked[<<i, p>>])
               /\ server[i].state = "collect"
               /\ p \in Range(server[i].waits_for)
               /\ reply[<<i, p>>] = "none"

\* A source that stops without a signal was told to drain, and so were the others.
ToldToDrain(i, p) == source[<<i, p>>] = "ended" \/ gradual[<<i, p>>] # None
DrainsTogether ==
    \A i \in Processes : proc[i] # "exited" =>
        /\ i \in trigger \ signals => \A p \in PortsOf[i] : ToldToDrain(i, p)
        /\ \A p \in Ports :
             /\ gradual[<<i, p>>] # None => \A q \in PortsOf[i] : ToldToDrain(i, q)
             /\ source[<<i, p>>] = "stopping" => i \in trigger \/ gradual[<<i, p>>] # None

\* Process i has nothing left to lose on port p.
LetGo(i, p) == WithSource(i) \in sockets[p] \/ WithServer(i) \in sockets[p] => p \in excused

\* Who asks a process to drain has taken its ports over.
TakenOver ==
    \A i \in Processes, p \in Ports :
        /\ gradual[<<i, p>>] # None /\ p \in PortsOf[gradual[<<i, p>>]] => LetGo(i, p)
        /\ \A k \in DOMAIN queue[i] :
             queue[i][k].request = "shutdown" /\ p \in PortsOf[queue[i][k].client] => LetGo(i, p)
        /\ WithServer(i) \in sockets[p] /\ source[<<i, p>>] = "ended" => p \in excused

\* A start that goes well has the sources it has built, one that will fail has nothing.
StartInv ==
    \A i \in Processes :
        /\ Range(to_build[i]) \subseteq PortsOf[i]
        /\ proc[i] \in {"off", "requesting"} => i \notin errors
        /\ proc[i] = "building" /\ i \in errors => Held(i) \subseteq excused
        /\ proc[i] \in {"requesting", "building"} /\ i \notin errors =>
             \A p \in PortsOf[i] : \/ p \in Range(to_build[i])
                                   \/ WithSource(i) \in sockets[p]
                                   \/ p \in excused

OpenInv ==
    /\ OpenTypes
    /\ HolderIsBusy /\ PhaseInv /\ AskedInv /\ DrainsTogether /\ TakenOver /\ StartInv
    /\ PortStaysOpen

\* A place belongs to one process.
LEMMA PlacesBelong ==
  \A i, j : /\ WithSource(i) \in PlacesOf(j) <=> i = j
            /\ WithServer(i) \in PlacesOf(j) <=> i = j
            /\ WithClient(i) \in PlacesOf(j) <=> i = j
            /\ WithServer(i) = WithServer(j) => i = j
            /\ WithClient(i) = WithClient(j) => i = j
BY Zenon DEF WithSource, WithServer, WithClient, PlacesOf

\* The first element of a sequence and the others.
LEMMA HeadAndRest ==
  ASSUME NEW S, NEW s \in Seq(S), s # <<>>
  PROVE  /\ Head(s) \in S /\ Tail(s) \in Seq(S)
         /\ Range(s) = {Head(s)} \cup Range(Tail(s))
<1>1. Head(s) \in S /\ Tail(s) \in Seq(S)
  OBVIOUS
<1>2. DOMAIN s = 1 .. Len(s) /\ Len(s) \in Nat /\ DOMAIN Tail(s) = 1 .. Len(s) - 1
  OBVIOUS
<1>3. \A k \in DOMAIN Tail(s) : k + 1 \in DOMAIN s /\ Tail(s)[k] = s[k + 1]
  OBVIOUS
<1>4. 1 \in DOMAIN s /\ Head(s) = s[1]
  OBVIOUS
<1>5. ASSUME NEW x \in Range(s) PROVE x \in {Head(s)} \cup Range(Tail(s))
  <2>1. PICK k \in DOMAIN s : x = s[k]
    BY Zenon DEF Range
  <2>2. CASE k = 1
    BY <1>4, <2>1, <2>2, Zenon
  <2>3. CASE k # 1
    <3>1. k - 1 \in DOMAIN Tail(s) /\ (k - 1) + 1 = k
      BY <1>2, <2>3
    <3>2. x = Tail(s)[k - 1]
      BY <1>3, <2>1, <3>1, Zenon
    <3>. QED BY <3>1, <3>2, Zenon DEF Range
  <2>. QED BY <2>2, <2>3, Zenon
<1>6. ASSUME NEW x \in {Head(s)} \cup Range(Tail(s)) PROVE x \in Range(s)
  BY <1>3, <1>4 DEF Range
<1>. QED BY <1>1, <1>5, <1>6, Zenon

\* The elements of the rest of a sequence are elements of it.
LEMMA TailElements ==
  ASSUME NEW S, NEW s \in Seq(S), s # <<>>, NEW k \in DOMAIN Tail(s)
  PROVE  \E m \in DOMAIN s : Tail(s)[k] = s[m]
<1>1. k + 1 \in DOMAIN s /\ Tail(s)[k] = s[k + 1]
  OBVIOUS
<1>. QED BY <1>1, Zenon

\* The elements of a sequence that got one more.
LEMMA AppendElements ==
  ASSUME NEW S, NEW s \in Seq(S), NEW x \in S
  PROVE  /\ Append(s, x) \in Seq(S) /\ Append(s, x)[Len(Append(s, x))] = x
         /\ \A k \in DOMAIN Append(s, x) :
              k = Len(Append(s, x)) \/ (k \in DOMAIN s /\ Append(s, x)[k] = s[k])
OBVIOUS

\* A sequence whose elements have become FALSE.
LEMMA AllFalse ==
  ASSUME NEW s \in Seq(BOOLEAN)
  PROVE  /\ [k \in DOMAIN s |-> FALSE] \in Seq(BOOLEAN)
         /\ s = <<>> => [k \in DOMAIN s |-> FALSE] = <<>>
<1>1. \A b \in BOOLEAN : [k \in 1 .. Len(s) |-> b] \in Seq(BOOLEAN)
  OBVIOUS
<1>2. s = <<>> => \A b \in BOOLEAN : [k \in 1 .. Len(s) |-> b] = <<>>
  OBVIOUS
<1>3. DOMAIN s = 1 .. Len(s)
  OBVIOUS
<1>. QED BY <1>1, <1>2, <1>3, Zenon

\* The first element of a sequence is at position 1.
LEMMA HeadElement ==
  ASSUME NEW S, NEW s \in Seq(S), s # <<>>
  PROVE  Head(s) = s[1] /\ 1 \in DOMAIN s /\ Tail(s) \in Seq(S)
OBVIOUS

\* The others move up.
LEMMA TailPositions ==
  ASSUME NEW S, NEW s \in Seq(S), s # <<>>, NEW k \in DOMAIN Tail(s)
  PROVE  /\ k + 1 \in DOMAIN s /\ Tail(s)[k] = s[k + 1]
         /\ k + 1 = Len(s) => k = Len(Tail(s))
         /\ Len(s) # 1
OBVIOUS

\* The sources of a topology are on ports.
LEMMA SourcesHavePorts ==
  ASSUME NEW i \in Processes
  PROVE  SourcesOf[i] \in Seq(Ports) /\ PortsOf[i] = Range(SourcesOf[i]) /\ PortsOf[i] \subseteq Ports
<1>1. SourcesOf[i] \in Seq(Ports)
  BY HotReloadAssumption, Zenon
<1>. QED BY <1>1 DEF PortsOf, Range

\* A conjunct of OpenInv is kept by a step that leaves its variables alone.
LEMMA HolderIsBusyFrame ==
  HolderIsBusy /\ UNCHANGED <<proc, source, sockets, reply, server>> => HolderIsBusy'
<1>. SUFFICES ASSUME HolderIsBusy, UNCHANGED <<proc, source, sockets, reply, server>>,
                     NEW i \in Processes, NEW p \in Ports
              PROVE  HolderIsBusy!(i, p)'
  BY Zenon DEF HolderIsBusy
<1>1. HolderIsBusy!(i, p)
  BY Zenon DEF HolderIsBusy
<1>. QED BY <1>1, Zenon

\* The same for the phases.
LEMMA PhaseInvFrame ==
  PhaseInv /\ UNCHANGED <<proc, source, server, queue, signals, trigger, gradual, asked>> => PhaseInv'
<1>. SUFFICES ASSUME PhaseInv, NEW i \in Processes,
                     UNCHANGED <<proc, source, server, queue, signals, trigger, gradual, asked>>
              PROVE  PhaseInv!(i)'
  BY Zenon DEF PhaseInv
<1>1. PhaseInv!(i)
  BY Zenon DEF PhaseInv
<1>. QED BY <1>1, Zenon

\* The same for the requests in the channels of the sources.
LEMMA AskedInvFrame ==
  AskedInv /\ UNCHANGED <<proc, source, asked, reply, server>> => AskedInv'
BY ZenonT(30) DEF AskedInv

\* The same for the sources that drain.
LEMMA DrainsTogetherFrame ==
  DrainsTogether /\ UNCHANGED <<proc, source, gradual, signals, trigger>> => DrainsTogether'
BY Zenon DEF DrainsTogether, ToldToDrain

\* The same for the ports that were taken over.
LEMMA TakenOverFrame ==
  TakenOver /\ UNCHANGED <<source, sockets, gradual, queue, excused>> => TakenOver'
BY Zenon DEF TakenOver, LetGo

\* What is initially so.
LEMMA OpenInvInit == Init => OpenInv
<1>. SUFFICES ASSUME Init PROVE OpenInv
  OBVIOUS
<1>. USE DEF Init
<1>1. OpenTypes
  <2>1. <<>> \in Seq(BOOLEAN) /\ <<>> \in Seq(Ports)
    OBVIOUS
  <2>2. asked \in [Processes \X Ports -> Seq(BOOLEAN)] /\ to_build \in [Processes -> Seq(Ports)]
    BY <2>1, Zenon
  <2>3. NoServer \in ServerRecord
    BY <2>1, Zenon DEF NoServer, ServerStates, ServerRecord
  <2>4. server \in [Processes -> ServerRecord]
    BY <2>3, Zenon
  <2>. QED BY <2>2, <2>4, Zenon DEF OpenTypes
<1>2. HolderIsBusy /\ TakenOver /\ PortStaysOpen
  BY Zenon DEF HolderIsBusy, TakenOver, PortStaysOpen, LetGo
<1>3. PhaseInv /\ AskedInv
  BY SMTT(20) DEF PhaseInv, AskedInv, NoServer
<1>4. DrainsTogether /\ StartInv
  BY DEF DrainsTogether, StartInv, Range
<1>. QED BY <1>1, <1>2, <1>3, <1>4, Zenon DEF OpenInv

\* The invariants that are known of every step.
Known == DrainInv /\ HolderInv

\* A process may end when the ports that it holds are excused.
LEMMA OpenInvGone ==
  ASSUME OpenInv, Known, NEW i \in Processes, Gone(i),
         \A q \in Ports : q \in excused => q \in excused', Held(i) \subseteq excused'
  PROVE  OpenInv'
<1>0. /\ proc' = [proc EXCEPT ![i] = "exited"]
      /\ server' = [server EXCEPT ![i] = NoServer]
      /\ queue' = [queue EXCEPT ![i] = <<>>]
      /\ UNCHANGED <<replaces, inbox, waited, to_build, errors, asked, reply, gradual, signals, trigger>>
  BY Zenon DEF Gone, client_vars
<1>1. \A p \in Ports : sockets'[p] = sockets[p] \ PlacesOf(i)
  BY Zenon DEF Gone, Released
<1>2. \A j \in Processes, p \in Ports :
        source'[<<j, p>>] = IF j = i THEN "none" ELSE source[<<j, p>>]
  BY Zenon DEF Gone
<1>3. \A j \in Processes, p \in Ports :
        /\ WithSource(j) \in sockets'[p] <=> j # i /\ WithSource(j) \in sockets[p]
        /\ WithServer(j) \in sockets'[p] <=> j # i /\ WithServer(j) \in sockets[p]
        /\ WithClient(j) \in sockets'[p] <=> j # i /\ WithClient(j) \in sockets[p]
  BY <1>1, PlacesBelong
<1>4. DOMAIN proc = Processes /\ DOMAIN server = Processes /\ DOMAIN queue = Processes
  BY Zenon DEF OpenInv, OpenTypes, Known, DrainInv, QueueTypes
<1>5. OpenTypes'
  <2>1. NoServer \in ServerRecord
    BY SMTT(20) DEF NoServer, ServerStates, ServerRecord
  <2>. QED BY <1>0, <2>1, Zenon DEF OpenInv, OpenTypes
<1>6. HolderIsBusy'
  <2>. SUFFICES ASSUME NEW j \in Processes, NEW p \in Ports
                PROVE  HolderIsBusy!(j, p)'
    BY ZenonT(30) DEF HolderIsBusy
  <2>1. HolderIsBusy!(j, p)
    BY Zenon DEF OpenInv, HolderIsBusy
  <2>. QED BY <1>0, <1>2, <1>3, <1>4, <2>1, Zenon
<1>7. PhaseInv'
  BY <1>0, <1>2, <1>4, ZenonT(30) DEF OpenInv, PhaseInv, NoServer, Settled, Started
<1>8. AskedInv'
  BY <1>0, <1>2, <1>4, Zenon DEF OpenInv, AskedInv
<1>9. DrainsTogether'
  BY <1>0, <1>2, <1>4, SourcesHavePorts, ZenonT(30) DEF OpenInv, DrainsTogether, ToldToDrain
<1>10. TakenOver'
  BY <1>0, <1>2, <1>3, <1>4, ZenonT(30) DEF OpenInv, TakenOver, LetGo
<1>11. StartInv'
  <2>1. \A j \in Processes : Held(j)' \subseteq Held(j) /\ Held(j) \subseteq Ports
    BY <1>1, Zenon DEF Held
  <2>. QED BY <1>0, <1>3, <1>4, <2>1, SourcesHavePorts, Zenon DEF OpenInv, StartInv
<1>12. PortStaysOpen'
  BY <1>1, Zenon DEF OpenInv, PortStaysOpen, Held
<1>. QED BY <1>5, <1>6, <1>7, <1>8, <1>9, <1>10, <1>11, <1>12, Zenon DEF OpenInv

\* A first request goes to a queue, and no request to drain.
LEMMA OpenInvStart ==
  ASSUME OpenInv, Known, NEW i \in Processes, Start(i)
  PROVE  OpenInv'
<1>. USE DEF client_vars, source_vars, server_vars
<1>0. /\ proc[i] = "off" /\ proc' = [proc EXCEPT ![i] = proc'[i]]
      /\ proc'[i] \in {"building", "requesting"}
      /\ to_build' = [to_build EXCEPT ![i] = SourcesOf[i]]
      /\ UNCHANGED <<path, source, asked, reply, gradual, signals, trigger, sockets, server, errors,
                     faults, excused>>
  BY Zenon DEF Start, Known, DrainInv, QueueTypes
<1>1. DOMAIN proc = Processes /\ DOMAIN to_build = Processes /\ queue \in [Processes -> Seq(Waiting)]
  BY Zenon DEF OpenInv, OpenTypes, Known, DrainInv, QueueTypes
<1>2. \A j \in Processes : \/ queue'[j] = queue[j]
                           \/ /\ server[j].state # "down"
                              /\ queue'[j] = Append(queue[j], [client |-> i, request |-> "listeners"])
  BY <1>1, Zenon DEF Start, Send, Reachable
<1>3. OpenTypes'
  BY <1>0, SourcesHavePorts, ZenonT(30) DEF OpenInv, OpenTypes
<1>4. HolderIsBusy'
  <2>. SUFFICES ASSUME NEW j \in Processes, NEW q \in Ports
                PROVE  HolderIsBusy!(j, q)'
    BY ZenonT(30) DEF HolderIsBusy
  <2>1. HolderIsBusy!(j, q)
    BY ZenonT(30) DEF OpenInv, HolderIsBusy
  <2>. QED BY <1>0, <1>1, <2>1, ZenonT(30) DEF Started
<1>5. PhaseInv'
  BY <1>0, <1>1, <1>2, Zenon DEF OpenInv, PhaseInv, Settled, Started
<1>6. AskedInv' /\ DrainsTogether'
  BY <1>0, <1>1, ZenonT(30) DEF OpenInv, AskedInv, DrainsTogether, ToldToDrain
<1>7. TakenOver'
  <2>1. ASSUME NEW j \in Processes, NEW k \in DOMAIN queue'[j], queue'[j][k].request = "shutdown"
        PROVE  k \in DOMAIN queue[j] /\ queue'[j][k] = queue[j][k]
    <3>1. CASE queue'[j] = queue[j]
      BY <2>1, <3>1, Zenon
    <3>2. CASE queue'[j] = Append(queue[j], [client |-> i, request |-> "listeners"])
      BY <1>1, <2>1, <3>2, SMTT(20)
    <3>. QED BY <1>2, <3>1, <3>2, Zenon
  <2>. QED BY <1>0, <2>1, ZenonT(30) DEF OpenInv, TakenOver, LetGo
<1>8. StartInv'
  <2>1. \A j \in Processes : Held(j)' = Held(j)
    BY <1>0, Zenon DEF Held
  <2>. QED BY <1>0, <1>1, <2>1, SourcesHavePorts, Zenon DEF OpenInv, StartInv
<1>9. PortStaysOpen'
  BY <1>0, Zenon DEF OpenInv, PortStaysOpen
<1>. QED BY <1>3, <1>4, <1>5, <1>6, <1>7, <1>8, <1>9, Zenon DEF OpenInv

\* A process gets an answer to its request, or none to the second one.
LEMMA OpenInvMoves ==
  ASSUME OpenInv, Known, NEW i \in Processes, NEW s \in States,
         proc' = [proc EXCEPT ![i] = s],
         <<proc[i], s>> \in {<<"requesting", "building">>, <<"telling", "serving">>},
         UNCHANGED <<path, client_vars, source_vars, sockets, server_vars, excused>>
  PROVE  OpenInv'
<1>. USE DEF client_vars, source_vars, server_vars
<1>1. DOMAIN proc = Processes
  BY Zenon DEF Known, DrainInv, QueueTypes
<1>2. \/ proc[i] = "requesting" /\ s = "building"
      \/ proc[i] = "telling" /\ s = "serving"
  BY Zenon
<1>3. OpenTypes' /\ PortStaysOpen' /\ TakenOver'
  <2>1. OpenTypes' /\ PortStaysOpen'
    BY Zenon DEF OpenInv, OpenTypes, PortStaysOpen
  <2>. QED BY <2>1, TakenOverFrame, Zenon DEF OpenInv
<1>4. HolderIsBusy'
  <2>. SUFFICES ASSUME NEW j \in Processes, NEW q \in Ports
                PROVE  HolderIsBusy!(j, q)'
    BY ZenonT(30) DEF HolderIsBusy
  <2>1. HolderIsBusy!(j, q)
    BY Zenon DEF OpenInv, HolderIsBusy
  <2>. QED BY <1>1, <1>2, <2>1, Zenon DEF Started
<1>5. PhaseInv'
  BY <1>1, <1>2, Zenon DEF OpenInv, PhaseInv, Settled, Started
<1>6. AskedInv' /\ DrainsTogether'
  BY <1>1, <1>2, SMTT(20) DEF OpenInv, AskedInv, DrainsTogether, ToldToDrain
<1>7. StartInv'
  BY <1>1, <1>2, Zenon DEF OpenInv, StartInv, Held
<1>. QED BY <1>3, <1>4, <1>5, <1>6, <1>7, Zenon DEF OpenInv

\* A source gets the listener that was handed over or a new one, or the start fails.
LEMMA OpenInvBuildSource ==
  ASSUME OpenInv, Known, NEW i \in Processes, BuildSource(i)
  PROVE  OpenInv'
<1>. USE DEF server_vars
<1>. DEFINE p == Head(to_build[i])
<1>0. /\ proc[i] = "building"
      /\ to_build' = [to_build EXCEPT ![i] = Tail(@)]
      /\ UNCHANGED <<proc, asked, reply, gradual, signals, trigger, server, queue>>
  BY Zenon DEF BuildSource
<1>1. /\ p \in Ports /\ Tail(to_build[i]) \in Seq(Ports)
      /\ Range(to_build[i]) = {p} \cup Range(Tail(to_build[i]))
      /\ \A j \in Processes : j # i => to_build'[j] = to_build[j]
      /\ to_build'[i] = Tail(to_build[i])
  BY <1>0, HeadAndRest, Zenon DEF BuildSource, OpenInv, OpenTypes
<1>2. OpenTypes'
  BY <1>0, <1>1, Zenon DEF OpenInv, OpenTypes
<1>3. CASE WithClient(i) \in sockets[p] \/ sockets[p] = {}
  <2>1. /\ sockets' = [sockets EXCEPT ![p] = (@ \ {WithClient(i)}) \cup {WithSource(i)}]
        /\ source' = [source EXCEPT ![<<i, p>>] = IF i \in trigger THEN "stopping" ELSE "accepting"]
        /\ UNCHANGED <<errors, excused>>
    BY <1>3, Zenon DEF BuildSource, TakeListener, Starts
  <2>. HIDE DEF p
  <2>2. sockets'[p] = {WithSource(i)} /\ \A q \in Ports : q # p => sockets'[q] = sockets[q]
    BY <1>1, <1>3, <2>1 DEF Known, HolderInv, OneHolder
  <2>3. \A j \in Processes, q \in Ports :
          source'[<<j, q>>] = IF j = i /\ q = p THEN (IF i \in trigger THEN "stopping" ELSE "accepting")
                              ELSE source[<<j, q>>]
    BY <1>1, <2>1, Zenon DEF Known, HolderInv
  <2>4. p \in PortsOf[i] /\ PortsOf[i] \subseteq Ports
    BY <1>1, SourcesHavePorts, Zenon DEF OpenInv, StartInv
  <2>5. HolderIsBusy'
    <3>. SUFFICES ASSUME NEW j \in Processes, NEW q \in Ports
                  PROVE  HolderIsBusy!(j, q)'
      BY Zenon DEF HolderIsBusy
    <3>1. HolderIsBusy!(j, q)
      BY ZenonT(30) DEF OpenInv, HolderIsBusy
    <3>. QED BY <1>0, <1>1, <2>2, <2>3, <2>4, PlacesDiffer, <3>1, SMTT(20) DEF Started
  <2>6. PhaseInv' /\ AskedInv'
    BY <1>0, <2>3, <2>4, SMTT(20) DEF OpenInv, PhaseInv, AskedInv, Settled, Started
  <2>7. DrainsTogether'
    BY <1>0, <2>3, SourcesHavePorts, SMTT(20) DEF OpenInv, DrainsTogether, ToldToDrain, PhaseInv, Settled, Started
  <2>8. TakenOver'
    <3>. SUFFICES ASSUME NEW j \in Processes, NEW q \in Ports
                  PROVE  TakenOver!(j, q)'
      BY Zenon DEF TakenOver
    <3>1. TakenOver!(j, q)
      BY ZenonT(30) DEF OpenInv, TakenOver
    <3>2. j = i => gradual[<<j, q>>] = None /\ queue[j] = <<>>
      BY <1>0, Zenon DEF OpenInv, PhaseInv, Settled
    <3>3. j # i => (LetGo(j, q) => LetGo(j, q)')
      <4>1. j # i => WithSource(j) \notin sockets'[p] /\ WithServer(j) \notin sockets'[p]
        BY <2>2, PlacesDiffer, Zenon
      <4>. QED BY <2>1, <2>2, <4>1, Zenon DEF LetGo
    <3>4. WithServer(j) \in sockets'[q] => WithServer(j) \in sockets[q] /\ source'[<<j, q>>] = source[<<j, q>>]
      BY <2>2, <2>3, PlacesDiffer
    <3>5. /\ gradual' = gradual /\ queue' = queue /\ excused' = excused
          /\ j = i => \A k \in DOMAIN queue[j] : FALSE
      BY <1>0, <2>1, <3>2
    <3>. QED BY <3>1, <3>2, <3>3, <3>4, <3>5, ZenonT(30)
  <2>9. StartInv'
    <3>1. \A j \in Processes \ {i} : Held(j)' \subseteq Held(j)
      BY <2>2, PlacesBelong DEF Held
    <3>2. Held(i)' \subseteq Held(i) \cup excused
      BY <1>3, <2>2, Zenon DEF Held, PlacesOf, OpenInv, PortStaysOpen
    <3>3. \A j \in Processes \ {i}, q \in Ports : WithSource(j) \in sockets[q] => WithSource(j) \in sockets'[q]
      BY <1>3, <2>2, PlacesDiffer DEF Known, HolderInv, OneHolder
    <3>. QED BY <1>0, <1>1, <2>1, <2>2, <3>1, <3>2, <3>3, SourcesHavePorts, ZenonT(30) DEF OpenInv, StartInv
  <2>10. PortStaysOpen'
    BY <2>1, <2>2, Zenon DEF OpenInv, PortStaysOpen
  <2>. QED BY <1>2, <2>5, <2>6, <2>7, <2>8, <2>9, <2>10, Zenon DEF OpenInv
<1>4. CASE ~(WithClient(i) \in sockets[p] \/ sockets[p] = {})
  <2>1. /\ errors' = errors \cup {i}
        /\ excused' = excused \cup Held(i)
        /\ UNCHANGED <<sockets, source>>
    BY <1>4, Zenon DEF BuildSource, TakeListener
  <2>2. HolderIsBusy' /\ PhaseInv' /\ AskedInv'
    BY <1>0, <2>1, HolderIsBusyFrame, PhaseInvFrame, AskedInvFrame, Zenon DEF OpenInv
  <2>3. DrainsTogether' /\ TakenOver' /\ PortStaysOpen'
    BY <1>0, <2>1, Zenon DEF OpenInv, DrainsTogether, ToldToDrain, TakenOver, LetGo, PortStaysOpen
  <2>4. StartInv'
    <3>1. \A j \in Processes : Held(j)' = Held(j)
      BY <2>1, Zenon DEF Held
    <3>. QED BY <1>0, <1>1, <2>1, <3>1, Zenon DEF OpenInv, StartInv
  <2>. QED BY <1>2, <2>2, <2>3, <2>4, Zenon DEF OpenInv
<1>. QED BY <1>3, <1>4, Zenon

\* A source that is not valid: every port is excused.
LEMMA OpenInvInvalidSource ==
  ASSUME OpenInv, Known, NEW i \in Processes, InvalidSource(i)
  PROVE  OpenInv'
<1>. USE DEF server_vars, source_vars
<1>0. /\ proc[i] = "building" /\ to_build' = [to_build EXCEPT ![i] = Tail(@)]
      /\ errors' = errors \cup {i} /\ excused' = Ports
      /\ UNCHANGED <<proc, asked, reply, gradual, signals, trigger, source, sockets, server, queue>>
  BY Zenon DEF InvalidSource
<1>1. /\ Tail(to_build[i]) \in Seq(Ports)
      /\ Range(Tail(to_build[i])) \subseteq Range(to_build[i])
      /\ \A j \in Processes : j # i => to_build'[j] = to_build[j]
      /\ to_build'[i] = Tail(to_build[i])
  <2>1. to_build \in [Processes -> Seq(Ports)] /\ to_build[i] # <<>>
    BY Zenon DEF InvalidSource, OpenInv, OpenTypes
  <2>2. to_build[i] \in Seq(Ports)
    BY <2>1, Zenon
  <2>. QED BY <1>0, <2>1, <2>2, HeadAndRest, Zenon
<1>2. OpenTypes'
  BY <1>0, <1>1, Zenon DEF OpenInv, OpenTypes
<1>3. HolderIsBusy' /\ PhaseInv' /\ AskedInv'
  BY <1>0, HolderIsBusyFrame, PhaseInvFrame, AskedInvFrame, Zenon DEF OpenInv
<1>4. DrainsTogether' /\ TakenOver' /\ PortStaysOpen'
  BY <1>0, Zenon DEF OpenInv, DrainsTogether, ToldToDrain, TakenOver, LetGo, PortStaysOpen
<1>5. StartInv'
  BY <1>0, <1>1, SourcesHavePorts, Zenon DEF OpenInv, StartInv, Held
<1>. QED BY <1>2, <1>3, <1>4, <1>5, Zenon DEF OpenInv

\* A signal excuses every port.
LEMMA OpenInvSignal ==
  ASSUME OpenInv, Known, NEW i \in Processes, Signal(i)
  PROVE  OpenInv'
<1>. USE DEF client_vars, server_vars
<1>0. /\ signals' = signals \cup {i} /\ trigger' = trigger \cup {i} /\ excused' = Ports
      /\ UNCHANGED <<proc, to_build, errors, source, sockets, asked, reply, gradual, server, queue>>
  BY Zenon DEF Signal
<1>1. OpenTypes' /\ HolderIsBusy' /\ AskedInv'
  BY <1>0, HolderIsBusyFrame, AskedInvFrame, Zenon DEF OpenInv, OpenTypes
<1>2. PhaseInv' /\ DrainsTogether'
  BY <1>0, Zenon DEF OpenInv, PhaseInv, DrainsTogether, ToldToDrain
<1>3. TakenOver' /\ PortStaysOpen'
  BY <1>0, Zenon DEF TakenOver, LetGo, PortStaysOpen
<1>4. StartInv'
  BY <1>0, SourcesHavePorts, ZenonT(30) DEF OpenInv, StartInv, Held
<1>. QED BY <1>1, <1>2, <1>3, <1>4, Zenon DEF OpenInv

\* The server comes up: nothing has been handed to it yet.
LEMMA OpenInvServerBinds ==
  ASSUME OpenInv, Known, NEW i \in Processes, ServerBinds(i)
  PROVE  OpenInv'
<1>. USE DEF client_vars, source_vars
<1>0. /\ proc[i] = "serving" /\ server[i].state = "down"
      /\ server' = [server EXCEPT ![i] = IdleServer]
      /\ UNCHANGED <<proc, to_build, errors, source, sockets, asked, reply, gradual, signals, trigger,
                     queue, excused>>
  BY Zenon DEF ServerBinds
<1>1. DOMAIN server = Processes
  BY Zenon DEF OpenInv, OpenTypes
<1>2. IdleServer.state = "accept"
      /\ IdleServer \in ServerRecord
  <2>1. IdleServer = [state |-> "accept", client |-> None, waits_for |-> <<>>, fds |-> {}]
    BY DEF IdleServer, NoServer
  <2>. QED BY <2>1 DEF ServerStates, ServerRecord
<1>3. OpenTypes'
  BY <1>0, <1>2, Zenon DEF OpenInv, OpenTypes
<1>4. HolderIsBusy' /\ AskedInv'
  <2>1. \A j \in Processes : server[j].state = "collect" => server'[j] = server[j]
    BY <1>0, <1>1, Zenon
  <2>2. HolderIsBusy'
    <3>. SUFFICES ASSUME NEW j \in Processes, NEW q \in Ports
                  PROVE  HolderIsBusy!(j, q)'
      BY Zenon DEF HolderIsBusy
    <3>1. HolderIsBusy!(j, q)
      BY Zenon DEF OpenInv, HolderIsBusy
    <3>. QED BY <1>0, <2>1, <3>1, Zenon
  <2>3. AskedInv'
    <3>. SUFFICES ASSUME NEW j \in Processes, NEW q \in Ports
                  PROVE  AskedInv!(j, q)'
      BY Zenon DEF AskedInv
    <3>1. AskedInv!(j, q)
      BY Zenon DEF OpenInv, AskedInv
    <3>. QED BY <1>0, <2>1, <3>1, Zenon
  <2>. QED BY <2>2, <2>3, Zenon
<1>5. PhaseInv' /\ DrainsTogether'
  BY <1>0, <1>1, <1>2, Zenon DEF OpenInv, PhaseInv, DrainsTogether, ToldToDrain
<1>6. TakenOver' /\ PortStaysOpen' /\ StartInv'
  BY <1>0, Zenon DEF OpenInv, TakenOver, LetGo, PortStaysOpen, StartInv, Held
<1>. QED BY <1>3, <1>4, <1>5, <1>6, Zenon DEF OpenInv

\* Every source that can be asked is: its requester waits from now on.
LEMMA OpenInvServeListeners ==
  ASSUME OpenInv, Known, NEW i \in Processes, ServeListeners(i)
  PROVE  OpenInv'
<1>. USE DEF client_vars
<1>0. /\ server[i].state = "accept" /\ queue[i] # <<>>
      /\ server' = [server EXCEPT ![i] = [state |-> "collect", client |-> Head(queue[i]).client,
                                          waits_for |-> SourcesOf[i], fds |-> {}]]
      /\ queue' = [queue EXCEPT ![i] = Tail(@)]
      /\ UNCHANGED <<proc, to_build, errors, source, sockets, gradual, signals, trigger, excused>>
  BY ZenonT(30) DEF ServeListeners
<1>1. DOMAIN server = Processes /\ queue[i] \in Seq(Waiting) /\ DOMAIN queue = Processes
  BY Zenon DEF OpenInv, OpenTypes, Known, DrainInv, QueueTypes
<1>2. /\ \A j \in Processes, p \in Ports :
           asked'[<<j, p>>] = IF j = i /\ p \in Receiving(i) THEN Append(asked[<<j, p>>], TRUE)
                              ELSE asked[<<j, p>>]
      /\ \A j \in Processes, p \in Ports : reply'[<<j, p>>] = IF j = i THEN "none" ELSE reply[<<j, p>>]
      /\ DOMAIN reply' = Processes \X Ports
  BY ZenonT(30) DEF ServeListeners
<1>3. proc[i] = "serving"
  BY <1>0, Zenon DEF OpenInv, PhaseInv
<1>4. OpenTypes'
  <2>1. asked' \in [Processes \X Ports -> Seq(BOOLEAN)]
    <3>1. \A s \in Processes \X Ports : asked[s] \in Seq(BOOLEAN) /\ Append(asked[s], TRUE) \in Seq(BOOLEAN)
      BY AppendElements, Zenon DEF OpenInv, OpenTypes
    <3>. QED BY <3>1, Zenon DEF ServeListeners
  <2>2. Head(queue[i]) \in Waiting
    BY <1>0, <1>1, SMTT(20)
  <2>3. [state |-> "collect", client |-> Head(queue[i]).client, waits_for |-> SourcesOf[i], fds |-> {}]
          \in ServerRecord
    BY <2>2, SourcesHavePorts, Zenon DEF Waiting, ServerStates, ServerRecord
  <2>. QED BY <1>0, <1>2, <2>1, <2>3, Zenon DEF OpenInv, OpenTypes
<1>5. HolderIsBusy'
  <2>. SUFFICES ASSUME NEW j \in Processes, NEW q \in Ports
                PROVE  HolderIsBusy!(j, q)'
    BY Zenon DEF HolderIsBusy
  <2>1. HolderIsBusy!(j, q)
    BY Zenon DEF OpenInv, HolderIsBusy
  <2>. QED BY <1>0, <1>1, <1>2, <2>1, ZenonT(30)
<1>6. PhaseInv'
  BY <1>0, <1>1, <1>2, <1>3, ZenonT(30) DEF OpenInv, PhaseInv, Settled, Started
<1>7. AskedInv'
  <2>. SUFFICES ASSUME NEW j \in Processes, NEW p \in Ports, proc[j] # "exited"
                PROVE  /\ source[<<j, p>>] = "ended" => asked'[<<j, p>>] = <<>>
                       /\ \A k \in DOMAIN asked'[<<j, p>>] : asked'[<<j, p>>][k] =>
                            /\ k = Len(asked'[<<j, p>>])
                            /\ server'[j].state = "collect"
                            /\ p \in Range(server'[j].waits_for)
                            /\ reply'[<<j, p>>] = "none"
    BY <1>0, Zenon DEF AskedInv
  <2>. DEFINE old == asked[<<j, p>>]
  <2>1. /\ source[<<j, p>>] = "ended" => old = <<>>
        /\ \A k \in DOMAIN old : old[k] => /\ k = Len(old) /\ server[j].state = "collect"
                                           /\ p \in Range(server[j].waits_for)
                                           /\ reply[<<j, p>>] = "none"
    BY Zenon DEF OpenInv, AskedInv
  <2>2. old \in Seq(BOOLEAN)
    BY Zenon DEF OpenInv, OpenTypes
  <2>3. CASE j # i
    BY <1>0, <1>1, <1>2, <2>1, <2>3, Zenon
  <2>4. CASE j = i /\ p \in Receiving(i)
    <3>1. asked'[<<j, p>>] = Append(old, TRUE) /\ source[<<j, p>>] # "ended" /\ p \in PortsOf[i]
      BY <1>2, <2>4, Zenon DEF Receiving
    <3>2. \A k \in DOMAIN old : ~old[k]
      BY <1>0, <2>1, <2>4, ZenonT(30)
    <3>3. p \in Range(server'[j].waits_for) /\ server'[j].state = "collect" /\ reply'[<<j, p>>] = "none"
      BY <1>0, <1>1, <1>2, <2>4, <3>1, SourcesHavePorts, ZenonT(30)
    <3>. HIDE DEF old
    <3>4. \A b \in BOOLEAN : \A k \in DOMAIN Append(old, b) :
            k = Len(Append(old, b)) \/ (k \in DOMAIN old /\ Append(old, b)[k] = old[k])
      BY <2>2, SMTT(30)
    <3>. QED BY <3>1, <3>2, <3>3, <3>4, Zenon
  <2>5. CASE j = i /\ p \notin Receiving(i)
    BY <1>0, <1>2, <2>1, <2>5, Zenon
  <2>. QED BY <2>3, <2>4, <2>5, Zenon
<1>8. DrainsTogether' /\ PortStaysOpen' /\ StartInv'
  BY <1>0, Zenon DEF OpenInv, DrainsTogether, ToldToDrain, PortStaysOpen, StartInv, Held
<1>9. TakenOver'
  <2>1. \A j \in Processes : \A k \in DOMAIN queue'[j] :
          \E m \in DOMAIN queue[j] : queue'[j][k] = queue[j][m]
    BY <1>0, <1>1, TailElements, SMTT(20)
  <2>. SUFFICES ASSUME NEW j \in Processes, NEW q \in Ports
                PROVE  TakenOver!(j, q)'
    BY Zenon DEF TakenOver
  <2>2. TakenOver!(j, q)
    BY ZenonT(30) DEF OpenInv, TakenOver
  <2>3. LetGo(j, q)' <=> LetGo(j, q)
    BY <1>0, ZenonT(30) DEF LetGo
  <2>. QED BY <1>0, <2>1, <2>2, <2>3, ZenonT(30)
<1>. QED BY <1>4, <1>5, <1>6, <1>7, <1>8, <1>9, Zenon DEF OpenInv

\* Every source that can be told to drain is, by a process that has taken its port over.
LEMMA OpenInvServeShutdown ==
  ASSUME OpenInv, Known, NEW i \in Processes, ServeShutdown(i)
  PROVE  OpenInv'
<1>. DEFINE c == Head(queue[i]).client
<1>0. /\ server[i].state = "accept" /\ queue[i] # <<>> /\ Head(queue[i]).request = "shutdown"
      /\ queue' = [queue EXCEPT ![i] = Tail(@)]
      /\ UNCHANGED <<proc, to_build, errors, source, asked, reply, sockets, signals, trigger, server,
                     excused>>
  BY ZenonT(30) DEF ServeShutdown
<1>1. queue[i] \in Seq(Waiting) /\ DOMAIN queue = Processes
  BY ZenonT(30) DEF Known, DrainInv, QueueTypes
<1>2. /\ \A j \in Processes, p \in Ports :
           gradual'[<<j, p>>] = IF j = i /\ p \in Receiving(i) THEN c ELSE gradual[<<j, p>>]
      /\ DOMAIN gradual' = Processes \X Ports
  BY ZenonT(30) DEF ServeShutdown
<1>3. proc[i] = "serving"
  BY <1>0, Zenon DEF OpenInv, PhaseInv
<1>4. 1 \in DOMAIN queue[i] /\ Head(queue[i]) = queue[i][1]
  BY <1>0, <1>1
<1>5. c # None
  <2>1. Head(queue[i]) \in Waiting
    BY <1>0, <1>1, SMTT(20)
  <2>. QED BY <2>1, HotReloadAssumption, Zenon DEF Waiting, None
<1>. HIDE DEF c
<1>6. OpenTypes' /\ HolderIsBusy' /\ AskedInv'
  BY <1>0, <1>2, HolderIsBusyFrame, AskedInvFrame, Zenon DEF OpenInv, OpenTypes
<1>7. PhaseInv'
  <2>1. \A j \in Processes : queue'[j] # <<>> => queue[j] # <<>>
    BY <1>0, <1>1, Zenon
  <2>2. \A j \in Processes, p \in Ports : gradual'[<<j, p>>] # None => j = i \/ gradual[<<j, p>>] # None
    BY <1>2, Zenon
  <2>. QED BY <1>0, <1>3, <2>1, <2>2, Zenon DEF OpenInv, PhaseInv, Settled
<1>8. DrainsTogether'
  <2>1. \A p \in PortsOf[i] : ToldToDrain(i, p)'
    BY <1>0, <1>2, <1>5, SourcesHavePorts, Zenon DEF Receiving, ToldToDrain
  <2>2. \A j \in Processes \ {i}, p \in Ports : gradual'[<<j, p>>] = gradual[<<j, p>>]
    BY <1>2, Zenon
  <2>3. \A j \in Processes \ {i} : \A p \in PortsOf[j] : ToldToDrain(j, p)' <=> ToldToDrain(j, p)
    BY <1>0, <2>2, SourcesHavePorts, Zenon DEF ToldToDrain
  <2>4. \A p \in Ports : gradual[<<i, p>>] # None => gradual'[<<i, p>>] # None
    BY <1>2, <1>5, Zenon
  <2>. QED BY <1>0, <2>1, <2>2, <2>3, <2>4, Zenon DEF OpenInv, DrainsTogether
<1>9. PortStaysOpen' /\ StartInv'
  BY <1>0, Zenon DEF OpenInv, PortStaysOpen, StartInv, Held
<1>10. TakenOver'
  <2>1. \A j \in Processes : \A k \in DOMAIN queue'[j] :
          \E m \in DOMAIN queue[j] : queue'[j][k] = queue[j][m]
    BY <1>0, <1>1, TailElements, SMTT(20)
  <2>. SUFFICES ASSUME NEW j \in Processes, NEW q \in Ports
                PROVE  TakenOver!(j, q)'
    BY Zenon DEF TakenOver
  <2>2. TakenOver!(j, q)
    BY ZenonT(30) DEF OpenInv, TakenOver
  <2>3. LetGo(j, q)' <=> LetGo(j, q)
    BY <1>0, Zenon DEF LetGo
  <2>4. j = i /\ q \in PortsOf[c] => LetGo(j, q)
    BY <1>0, <1>4, <2>2, Zenon DEF c
  <2>. QED BY <1>0, <1>2, <2>1, <2>2, <2>3, <2>4, ZenonT(30)
<1>. QED BY <1>6, <1>7, <1>8, <1>9, <1>10, Zenon DEF OpenInv

\* The server goes on to the next source: what this one has handed over is kept.
LEMMA OpenInvCollect ==
  ASSUME OpenInv, Known, NEW i \in Processes, Collect(i) \/ CollectTimesOut(i)
  PROVE  OpenInv'
<1>. USE DEF client_vars, source_vars
<1>. DEFINE p == Awaited(i)
<1>0. /\ server[i].state = "collect" /\ server[i].waits_for # <<>>
      /\ UNCHANGED <<proc, to_build, errors, source, reply, gradual, sockets, signals, trigger, queue>>
      /\ excused' \in {excused, Ports}
  BY Zenon DEF Collect, CollectTimesOut
<1>1. /\ server \in [Processes -> ServerRecord]
      /\ server[i].waits_for \in Seq(Ports)
  BY Zenon DEF OpenInv, OpenTypes, ServerRecord
<1>2. /\ p \in Ports /\ Tail(server[i].waits_for) \in Seq(Ports)
      /\ Range(server[i].waits_for) = {p} \cup Range(Tail(server[i].waits_for))
  BY <1>0, <1>1, HeadAndRest, Zenon DEF Awaited
<1>3. \E r \in ServerRecord :
        /\ server' = [server EXCEPT ![i] = r]
        /\ r.state = "collect" /\ r.waits_for = Tail(server[i].waits_for)
        /\ server[i].fds \subseteq r.fds
        /\ reply[<<i, p>>] = "fd" => p \in r.fds
  <2>1. server[i] \in ServerRecord /\ server[i].fds \in SUBSET Ports
    BY <1>1, Zenon DEF ServerRecord
  <2>2. /\ NextAwaited(i) \in ServerRecord /\ NextAwaited(i).state = "collect"
        /\ NextAwaited(i).waits_for = Tail(server[i].waits_for) /\ NextAwaited(i).fds = server[i].fds
    BY <1>0, <1>2, <2>1, ZenonT(30) DEF NextAwaited, ServerRecord
  <2>3. CASE Collect(i) /\ reply[<<i, p>>] = "fd"
    <3>. DEFINE r == [NextAwaited(i) EXCEPT !.fds = @ \cup {p}]
    <3>1. server' = [server EXCEPT ![i] = r]
      BY <2>3, Zenon DEF Collect
    <3>2. /\ r \in ServerRecord /\ r.state = "collect" /\ r.waits_for = Tail(server[i].waits_for)
          /\ r.fds = server[i].fds \cup {p}
      BY <1>2, <2>1, <2>2, Zenon DEF ServerRecord
    <3>. HIDE DEF r
    <3>. QED BY <3>1, <3>2, Zenon
  <2>4. CASE reply[<<i, p>>] # "fd" /\ server' = [server EXCEPT ![i] = NextAwaited(i)]
    BY <2>2, <2>4, Zenon
  <2>5. \/ Collect(i) /\ reply[<<i, p>>] = "fd"
        \/ reply[<<i, p>>] # "fd" /\ server' = [server EXCEPT ![i] = NextAwaited(i)]
    BY Zenon DEF Collect, CollectTimesOut
  <2>. QED BY <2>3, <2>4, <2>5, Zenon
<1>4. PICK r \in ServerRecord :
        /\ server' = [server EXCEPT ![i] = r]
        /\ r.state = "collect" /\ r.waits_for = Tail(server[i].waits_for)
        /\ server[i].fds \subseteq r.fds
        /\ reply[<<i, p>>] = "fd" => p \in r.fds
  BY <1>3, Zenon
<1>5. /\ server'[i] = r
      /\ \A j \in Processes : j # i => server'[j] = server[j]
  BY <1>1, <1>4, Zenon
<1>6. \/ UNCHANGED asked /\ (reply[<<i, p>>] # "none" \/ source[<<i, p>>] = "ended")
      \/ asked' = [asked EXCEPT ![<<i, p>>] = [k \in DOMAIN @ |-> FALSE]]
  BY Zenon DEF Collect, CollectTimesOut
<1>. HIDE DEF p
<1>7. OpenTypes'
  <2>1. asked' \in [Processes \X Ports -> Seq(BOOLEAN)]
    <3>. DEFINE new == [k \in DOMAIN asked[<<i, p>>] |-> FALSE]
    <3>1. asked \in [Processes \X Ports -> Seq(BOOLEAN)]
      BY Zenon DEF OpenInv, OpenTypes
    <3>2. new \in Seq(BOOLEAN)
      BY <1>2, <3>1, AllFalse, Zenon
    <3>3. asked' \in {asked, [asked EXCEPT ![<<i, p>>] = new]}
      BY <1>6, Zenon
    <3>. HIDE DEF new
    <3>. QED BY <3>1, <3>2, <3>3, Zenon
  <2>3. server' \in [Processes -> ServerRecord]
    BY <1>1, <1>4, Zenon
  <2>. QED BY <1>0, <2>1, <2>3, Zenon DEF OpenInv, OpenTypes
<1>8. HolderIsBusy'
  <2>. SUFFICES ASSUME NEW j \in Processes, NEW q \in Ports
                PROVE  HolderIsBusy!(j, q)'
    BY Zenon DEF HolderIsBusy
  <2>1. HolderIsBusy!(j, q)
    BY Zenon DEF OpenInv, HolderIsBusy
  <2>. QED BY <1>0, <1>2, <1>4, <1>5, <2>1, ZenonT(30)
<1>9. PhaseInv'
  <2>1. \A j \in Processes : server'[j].state = server[j].state
    BY <1>0, <1>4, <1>5, Zenon
  <2>2. \A j \in Processes, q \in Ports : asked[<<j, q>>] = <<>> => asked'[<<j, q>>] = <<>>
    BY <1>2, <1>6, AllFalse, ZenonT(30) DEF OpenInv, OpenTypes
  <2>. QED BY <1>0, <2>1, <2>2, ZenonT(30) DEF OpenInv, PhaseInv
<1>10. AskedInv'
  <2>1. \A j \in Processes, q \in Ports : <<j, q>> # <<i, p>> => asked'[<<j, q>>] = asked[<<j, q>>]
    BY <1>6, Zenon DEF OpenInv, OpenTypes
  <2>2. proc[i] = "serving"
    BY <1>0, Zenon DEF OpenInv, PhaseInv
  <2>3. /\ \A k \in DOMAIN asked'[<<i, p>>] : ~asked'[<<i, p>>][k]
        /\ source[<<i, p>>] = "ended" => asked'[<<i, p>>] = <<>>
    <3>1. /\ \A k \in DOMAIN asked[<<i, p>>] : asked[<<i, p>>][k] => reply[<<i, p>>] = "none"
          /\ source[<<i, p>>] = "ended" => asked[<<i, p>>] = <<>>
      BY <1>2, <2>2, ZenonT(30) DEF OpenInv, AskedInv
    <3>2. CASE UNCHANGED asked /\ (reply[<<i, p>>] # "none" \/ source[<<i, p>>] = "ended")
      BY <3>1, <3>2
    <3>3. CASE asked' = [asked EXCEPT ![<<i, p>>] = [k \in DOMAIN @ |-> FALSE]]
      BY <1>2, <3>1, <3>3, AllFalse, Zenon DEF OpenInv, OpenTypes
    <3>. QED BY <1>6, <3>2, <3>3, Zenon
  <2>. SUFFICES ASSUME NEW j \in Processes, NEW q \in Ports
                PROVE  AskedInv!(j, q)'
    BY Zenon DEF AskedInv
  <2>4. AskedInv!(j, q)
    BY Zenon DEF OpenInv, AskedInv
  <2>5. CASE <<j, q>> = <<i, p>>
    BY <1>0, <2>3, <2>5, Zenon
  <2>6. CASE <<j, q>> # <<i, p>>
    BY <1>0, <1>2, <1>4, <1>5, <2>1, <2>4, <2>6, ZenonT(30)
  <2>. QED BY <2>5, <2>6, Zenon
<1>11. DrainsTogether' /\ TakenOver'
  BY <1>0, SourcesHavePorts, Zenon DEF OpenInv, DrainsTogether, ToldToDrain, TakenOver, LetGo
<1>12. PortStaysOpen' /\ StartInv'
  BY <1>0, SourcesHavePorts, Zenon DEF OpenInv, PortStaysOpen, StartInv, Held
<1>. QED BY <1>7, <1>8, <1>9, <1>10, <1>11, <1>12, Zenon DEF OpenInv

\* The listeners that were collected go to a process that starts, or every port is excused.
LEMMA OpenInvRespond ==
  ASSUME OpenInv, Known, NEW i \in Processes, Respond(i)
  PROVE  OpenInv'
<1>. USE DEF source_vars
<1>. DEFINE c == server[i].client
<1>0. /\ server[i].state = "collect" /\ server[i].waits_for = <<>>
      /\ server' = [server EXCEPT ![i] = IdleServer]
      /\ UNCHANGED <<proc, to_build, errors, source, asked, reply, gradual, signals, trigger, queue>>
      /\ excused' = IF proc[c] = "requesting" THEN excused ELSE Ports
  BY Zenon DEF Respond, SendFds
<1>1. /\ IdleServer.state = "accept" /\ IdleServer \in ServerRecord
      /\ server'[i] = IdleServer /\ \A j \in Processes : j # i => server'[j] = server[j]
  <2>1. IdleServer = [state |-> "accept", client |-> None, waits_for |-> <<>>, fds |-> {}]
    BY DEF IdleServer, NoServer
  <2>2. IdleServer.state = "accept" /\ IdleServer \in ServerRecord
    BY <2>1 DEF ServerStates, ServerRecord
  <2>. QED BY <1>0, <2>2, ZenonT(30) DEF OpenInv, OpenTypes
<1>2. ASSUME NEW p \in Ports
      PROVE  \/ WithServer(i) \notin sockets[p] /\ sockets'[p] = sockets[p]
             \/ /\ sockets[p] = {WithServer(i)} /\ proc[c] = "requesting"
                /\ sockets'[p] = {WithClient(c)}
             \/ sockets[p] = {WithServer(i)} /\ proc[c] # "requesting" /\ sockets'[p] = {}
  <2>1. WithServer(i) \in sockets[p] => p \in server[i].fds /\ sockets[p] = {WithServer(i)}
    <3>1. Range(server[i].waits_for) = {}
      BY <1>0 DEF Range
    <3>2. WithServer(i) \in sockets[p] => p \in server[i].fds
      BY <3>1, Zenon DEF OpenInv, HolderIsBusy
    <3>3. WithServer(i) \in sockets[p] => sockets[p] = {WithServer(i)}
      BY DEF Known, HolderInv, OneHolder
    <3>. QED BY <3>2, <3>3, Zenon
  <2>2. sockets'[p] = IF (p \in server[i].fds /\ WithServer(i) \in sockets[p]) /\ proc[c] = "requesting"
                      THEN (sockets[p] \ {WithServer(i)}) \cup {WithClient(c)}
                      ELSE sockets[p] \ {WithServer(i)}
    BY Zenon DEF Respond, SendFds
  <2>. QED BY <2>1, <2>2, Zenon
<1>. HIDE DEF c
<1>3. OpenTypes'
  BY <1>0, <1>1, Zenon DEF OpenInv, OpenTypes
<1>4. HolderIsBusy'
  <2>. SUFFICES ASSUME NEW j \in Processes, NEW q \in Ports
                PROVE  HolderIsBusy!(j, q)'
    BY Zenon DEF HolderIsBusy
  <2>1. HolderIsBusy!(j, q)
    BY Zenon DEF OpenInv, HolderIsBusy
  <2>2. /\ WithSource(j) \in sockets'[q] => WithSource(j) \in sockets[q]
        /\ WithServer(j) \in sockets'[q] => j # i /\ WithServer(j) \in sockets[q]
        /\ WithClient(j) \in sockets'[q] => WithClient(j) \in sockets[q] \/ proc[j] = "requesting"
    BY <1>2, PlacesDiffer, PlacesBelong DEF PlacesOf
  <2>. QED BY <1>0, <1>1, <2>1, <2>2, ZenonT(30)
<1>5. PhaseInv'
  BY <1>0, <1>1, ZenonT(30) DEF OpenInv, PhaseInv
<1>6. AskedInv'
  <2>. SUFFICES ASSUME NEW j \in Processes, NEW q \in Ports
                PROVE  AskedInv!(j, q)'
    BY ZenonT(30) DEF AskedInv
  <2>1. AskedInv!(j, q)
    BY ZenonT(30) DEF OpenInv, AskedInv
  <2>2. Range(server[i].waits_for) = {}
    BY <1>0 DEF Range
  <2>. QED BY <1>0, <1>1, <2>1, <2>2, Zenon
<1>7. DrainsTogether'
  BY <1>0, Zenon DEF OpenInv, DrainsTogether, ToldToDrain
<1>8. TakenOver'
  <2>. SUFFICES ASSUME NEW j \in Processes, NEW q \in Ports
                PROVE  TakenOver!(j, q)'
    BY Zenon DEF TakenOver
  <2>1. TakenOver!(j, q)
    BY Zenon DEF OpenInv, TakenOver
  <2>2. /\ WithSource(j) \in sockets'[q] => WithSource(j) \in sockets[q]
        /\ WithServer(j) \in sockets'[q] => WithServer(j) \in sockets[q]
    BY <1>2, PlacesDiffer
  <2>3. q \in excused => q \in excused'
    BY <1>0, Zenon
  <2>. QED BY <1>0, <2>1, <2>2, <2>3, ZenonT(30) DEF LetGo
<1>9. StartInv'
  <2>1. \A j \in Processes : proc[j] = "building" =>
           Held(j)' \subseteq Held(j)
    <3>. SUFFICES ASSUME NEW j \in Processes, proc[j] = "building", NEW q \in Ports,
                         sockets'[q] \cap PlacesOf(j) # {}
                  PROVE  sockets[q] \cap PlacesOf(j) # {}
      BY Zenon DEF Held
    <3>1. CASE WithServer(i) \notin sockets[q] /\ sockets'[q] = sockets[q]
      BY <3>1, Zenon
    <3>2. CASE proc[c] = "requesting" /\ sockets'[q] = {WithClient(c)}
      BY <3>2, PlacesBelong
    <3>. QED BY <1>2, <3>1, <3>2, Zenon
  <2>2. \A j \in Processes, q \in Ports : WithSource(j) \in sockets[q] => WithSource(j) \in sockets'[q]
    BY <1>2, PlacesDiffer, Zenon
  <2>3. \A q \in Ports : q \in excused => q \in excused'
    BY <1>0, Zenon
  <2>4. \A j \in Processes : Held(j) \subseteq Ports
    BY Zenon DEF Held
  <2>. QED BY <1>0, <2>1, <2>2, <2>3, <2>4, SourcesHavePorts, Zenon DEF OpenInv, StartInv
<1>10. PortStaysOpen'
  BY <1>0, <1>2, Zenon DEF OpenInv, PortStaysOpen
<1>. QED BY <1>3, <1>4, <1>5, <1>6, <1>7, <1>8, <1>9, <1>10, Zenon DEF OpenInv

\* A listener goes to the server that waits for it, or every port is excused.
LEMMA OpenInvHandOver ==
  ASSUME OpenInv, Known, NEW i \in Processes, NEW p \in Ports, HandOver(i, p)
  PROVE  OpenInv'
<1>. USE DEF client_vars, server_vars
<1>. DEFINE old == asked[<<i, p>>]
<1>0. /\ source[<<i, p>>] = "accepting" /\ old # <<>>
      /\ asked' = [asked EXCEPT ![<<i, p>>] = Tail(@)]
      /\ source' = [source EXCEPT ![<<i, p>>] = "parked"]
      /\ UNCHANGED <<proc, to_build, errors, gradual, signals, trigger, server, queue>>
  BY Zenon DEF HandOver
<1>1. /\ asked \in [Processes \X Ports -> Seq(BOOLEAN)] /\ old \in Seq(BOOLEAN)
      /\ DOMAIN reply = Processes \X Ports /\ DOMAIN source = Processes \X Ports
      /\ DOMAIN sockets = Ports
  BY Zenon DEF OpenInv, OpenTypes, Known, HolderInv
<1>2. WithSource(i) \in sockets[p] /\ sockets[p] = {WithSource(i)}
  BY <1>0 DEF Known, HolderInv, OneHolder
<1>3. proc[i] \in Settled /\ proc[i] \in Started /\ p \in PortsOf[i]
  BY <1>0, Zenon DEF OpenInv, PhaseInv
<1>4. Head(old) = old[1] /\ 1 \in DOMAIN old /\ Tail(old) \in Seq(BOOLEAN)
  BY <1>0, <1>1, HeadElement, Zenon
<1>5. Head(old) => /\ server[i].state = "collect" /\ p \in Range(server[i].waits_for)
                   /\ Len(old) = 1
  <2>1. proc[i] # "exited"
    BY <1>3, Zenon DEF Started
  <2>2. AskedInv
    BY Zenon DEF OpenInv
  <2>3. \A k \in DOMAIN old : old[k] => /\ k = Len(old) /\ server[i].state = "collect"
                                        /\ p \in Range(server[i].waits_for)
    BY <2>1, <2>2, Zenon DEF AskedInv
  <2>. QED BY <1>4, <2>3, Zenon
<1>6. \/ /\ Head(old) /\ reply' = [reply EXCEPT ![<<i, p>>] = "fd"]
         /\ sockets' = [sockets EXCEPT ![p] = {WithServer(i)}] /\ UNCHANGED excused
      \/ /\ ~Head(old) /\ UNCHANGED reply
         /\ sockets' = [sockets EXCEPT ![p] = {}] /\ excused' = Ports
      \/ /\ Head(old) /\ reply' = [reply EXCEPT ![<<i, p>>] = "no_listener"]
         /\ sockets' = [sockets EXCEPT ![p] = {}] /\ excused' = Ports
  BY <1>2, Zenon DEF HandOver
<1>7. /\ source'[<<i, p>>] = "parked" /\ asked'[<<i, p>>] = Tail(old)
      /\ \A j \in Processes, q \in Ports : ~(j = i /\ q = p) =>
           /\ source'[<<j, q>>] = source[<<j, q>>] /\ asked'[<<j, q>>] = asked[<<j, q>>]
           /\ reply'[<<j, q>>] = reply[<<j, q>>]
      /\ \A q \in Ports : q # p => sockets'[q] = sockets[q]
      /\ \A q \in Ports : q \in excused => q \in excused'
  BY <1>0, <1>1, <1>6, ZenonT(30)
<1>8. \/ Head(old) /\ sockets'[p] = {WithServer(i)} /\ reply'[<<i, p>>] = "fd"
      \/ sockets'[p] = {} /\ excused' = Ports
  BY <1>1, <1>6, Zenon
<1>8a. \A j \in Processes : /\ WithSource(j) \notin sockets'[p] /\ WithClient(j) \notin sockets'[p]
                            /\ WithServer(j) \in sockets'[p] => j = i /\ Head(old) /\ reply'[<<i, p>>] = "fd"
  <2>1. CASE Head(old) /\ sockets'[p] = {WithServer(i)} /\ reply'[<<i, p>>] = "fd"
    <3>1. \A j \in Processes : /\ WithSource(j) \notin sockets'[p] /\ WithClient(j) \notin sockets'[p]
                               /\ WithServer(j) \in sockets'[p] => j = i
      BY <2>1, PlacesDiffer, PlacesBelong, Zenon
    <3>. QED BY <2>1, <3>1, Zenon
  <2>2. CASE sockets'[p] = {}
    BY <2>2, Zenon
  <2>. QED BY <1>8, <2>1, <2>2, Zenon
<1>9. ~Head(old) => reply'[<<i, p>>] = reply[<<i, p>>]
  BY <1>6, Zenon
<1>. HIDE DEF old
<1>10. OpenTypes'
  <2>1. asked' = [asked EXCEPT ![<<i, p>>] = Tail(old)]
    BY <1>0, Zenon DEF old
  <2>2. DOMAIN reply' = Processes \X Ports
    BY <1>1, <1>6, Zenon
  <2>3. asked' \in [Processes \X Ports -> Seq(BOOLEAN)]
    BY <1>1, <1>4, <2>1, Zenon
  <2>. QED BY <1>0, <2>2, <2>3, Zenon DEF OpenInv, OpenTypes
<1>11. HolderIsBusy'
  <2>. SUFFICES ASSUME NEW j \in Processes, NEW q \in Ports
                PROVE  HolderIsBusy!(j, q)'
    BY Zenon DEF HolderIsBusy
  <2>1. HolderIsBusy!(j, q)
    BY Zenon DEF OpenInv, HolderIsBusy
  <2>2. CASE q = p
    BY <1>0, <1>3, <1>5, <1>8a, <2>2, ZenonT(30)
  <2>3. CASE q # p
    <3>1. /\ sockets'[q] = sockets[q] /\ source'[<<j, q>>] = source[<<j, q>>]
          /\ reply'[<<j, q>>] = reply[<<j, q>>] /\ proc' = proc /\ server' = server
      BY <1>0, <1>7, <2>3, Zenon
    <3>. QED BY <2>1, <3>1, Zenon
  <2>. QED BY <2>2, <2>3, Zenon
<1>12. PhaseInv'
  <2>1. \A j \in Processes, q \in Ports : source'[<<j, q>>] # "none" => source[<<j, q>>] # "none"
    BY <1>0, <1>7, Zenon
  <2>2. \A j \in Processes, q \in Ports : asked[<<j, q>>] = <<>> => asked'[<<j, q>>] = <<>>
    BY <1>0, <1>7, Zenon DEF old
  <2>. QED BY <1>0, <2>1, <2>2, Zenon DEF OpenInv, PhaseInv
<1>13. AskedInv'
  <2>. SUFFICES ASSUME NEW j \in Processes, NEW q \in Ports
                PROVE  AskedInv!(j, q)'
    BY Zenon DEF AskedInv
  <2>1. AskedInv!(j, q)
    BY Zenon DEF OpenInv, AskedInv
  <2>2. CASE ~(j = i /\ q = p)
    <3>1. /\ asked'[<<j, q>>] = asked[<<j, q>>] /\ source'[<<j, q>>] = source[<<j, q>>]
          /\ reply'[<<j, q>>] = reply[<<j, q>>] /\ proc' = proc /\ server' = server
      BY <1>0, <1>7, <2>2, Zenon
    <3>. QED BY <2>1, <3>1, Zenon
  <2>3. CASE j = i /\ q = p
    <3>1. asked'[<<j, q>>] = Tail(old) /\ source'[<<j, q>>] # "ended"
      BY <1>7, <2>3, Zenon
    <3>2. CASE Head(old)
      <4>1. \A k \in DOMAIN Tail(old) : FALSE
        BY <1>0, <1>1, <1>5, <3>2, TailPositions, Zenon DEF old
      <4>. QED BY <3>1, <4>1, Zenon
    <3>3. CASE ~Head(old)
      <4>1. \A k \in DOMAIN old : old[k] =>
               /\ k = Len(old) /\ server[j].state = "collect" /\ q \in Range(server[j].waits_for)
               /\ reply[<<j, q>>] = "none"
        <5>1. proc[i] # "exited"
          BY <1>3, Zenon DEF Started
        <5>. QED BY <2>1, <2>3, <5>1, Zenon DEF old
      <4>2. \A k \in DOMAIN Tail(old) : /\ k + 1 \in DOMAIN old /\ Tail(old)[k] = old[k + 1]
                                        /\ k + 1 = Len(old) => k = Len(Tail(old))
        BY <1>0, <1>1, TailPositions, Zenon DEF old
      <4>3. \A k \in DOMAIN Tail(old) : Tail(old)[k] =>
               /\ k = Len(Tail(old)) /\ server[j].state = "collect" /\ q \in Range(server[j].waits_for)
               /\ reply[<<j, q>>] = "none"
        BY <4>1, <4>2, Zenon
      <4>4. server' = server /\ reply'[<<j, q>>] = reply[<<j, q>>]
        BY <1>0, <1>9, <2>3, <3>3, Zenon
      <4>. QED BY <3>1, <4>3, <4>4, Zenon
    <3>. QED BY <3>2, <3>3, Zenon
  <2>. QED BY <2>2, <2>3, Zenon
<1>14. DrainsTogether'
  <2>1. /\ \A j \in Processes, q \in Ports : source[<<j, q>>] = "ended" <=> source'[<<j, q>>] = "ended"
        /\ \A j \in Processes, q \in Ports : source'[<<j, q>>] = "stopping" => source[<<j, q>>] = "stopping"
    BY <1>0, <1>7, Zenon
  <2>2. \A j \in Processes : \A q \in PortsOf[j] : ToldToDrain(j, q) => ToldToDrain(j, q)'
    BY <1>0, <2>1, SourcesHavePorts, Zenon DEF ToldToDrain
  <2>. QED BY <1>0, <2>1, <2>2, Zenon DEF OpenInv, DrainsTogether
<1>15. TakenOver'
  <2>. SUFFICES ASSUME NEW j \in Processes, NEW q \in Ports
                PROVE  TakenOver!(j, q)'
    BY Zenon DEF TakenOver
  <2>1. TakenOver!(j, q)
    BY Zenon DEF OpenInv, TakenOver
  <2>2. LetGo(j, q) => LetGo(j, q)'
    BY <1>2, <1>7, <1>8a, Zenon DEF LetGo
  <2>3. WithServer(j) \in sockets'[q] /\ source'[<<j, q>>] = "ended" =>
          WithServer(j) \in sockets[q] /\ source[<<j, q>>] = "ended"
    BY <1>7, <1>8a, Zenon
  <2>. QED BY <1>0, <1>7, <2>1, <2>2, <2>3, Zenon
<1>16. StartInv'
  <2>1. \A j \in Processes : Held(j)' \subseteq Held(j) /\ Held(j) \subseteq Ports
    <3>1. \A j \in Processes : sockets'[p] \cap PlacesOf(j) # {} => sockets[p] \cap PlacesOf(j) # {}
      <4>1. \A j \in Processes : sockets'[p] \cap PlacesOf(j) # {} => WithServer(j) \in sockets'[p]
        BY <1>8a, Zenon DEF PlacesOf
      <4>2. WithSource(i) \in sockets[p] \cap PlacesOf(i)
        BY <1>2, PlacesBelong, Zenon
      <4>3. \A j \in Processes : WithServer(j) \in sockets'[p] => j = i
        BY <1>8a, Zenon
      <4>. QED BY <4>1, <4>2, <4>3, Zenon
    <3>. QED BY <1>7, <3>1, Zenon DEF Held
  <2>2. \A j \in Processes \ {i}, q \in Ports : WithSource(j) \in sockets[q] => WithSource(j) \in sockets'[q]
    <3>1. \A j \in Processes \ {i} : WithSource(j) \notin sockets[p]
      BY <1>2, PlacesDiffer, Zenon
    <3>. QED BY <1>7, <3>1, Zenon
  <2>. QED BY <1>0, <1>3, <1>7, <2>1, <2>2, SourcesHavePorts, Zenon DEF OpenInv, StartInv, Settled
<1>17. PortStaysOpen'
  BY <1>7, <1>8, Zenon DEF OpenInv, PortStaysOpen
<1>. QED BY <1>10, <1>11, <1>12, <1>13, <1>14, <1>15, <1>16, <1>17, Zenon DEF OpenInv

\* A source that is there goes on, and does not end.
LEMMA SourceMoves ==
  ASSUME OpenInv, UNCHANGED <<proc, asked, reply, gradual, signals, trigger, server, queue>>,
         \A j \in Processes, q \in Ports :
           /\ source'[<<j, q>>] # "none" => source[<<j, q>>] # "none"
           /\ source'[<<j, q>>] = "ended" => source[<<j, q>>] = "ended"
  PROVE  PhaseInv' /\ AskedInv'
<1>1. PhaseInv'
  BY Zenon DEF OpenInv, PhaseInv
<1>2. AskedInv'
  <2>. SUFFICES ASSUME NEW j \in Processes, NEW q \in Ports
                PROVE  AskedInv!(j, q)'
    BY Zenon DEF AskedInv
  <2>1. AskedInv!(j, q)
    BY Zenon DEF OpenInv, AskedInv
  <2>. QED BY <2>1, Zenon
<1>. QED BY <1>1, <1>2, Zenon

\* A connection limit is reached: a closed listener excuses every port.
LEMMA OpenInvLimitReached ==
  ASSUME OpenInv, Known, NEW i \in Processes, NEW p \in Ports, LimitReached(i, p)
  PROVE  OpenInv'
<1>. USE DEF client_vars, server_vars
<1>0. /\ source[<<i, p>>] = "accepting" /\ source'[<<i, p>>] \in {"full", "closed"}
      /\ UNCHANGED <<proc, to_build, errors, asked, reply, gradual, signals, trigger, server, queue>>
      /\ \A j \in Processes, q \in Ports : ~(j = i /\ q = p) => source'[<<j, q>>] = source[<<j, q>>]
  BY Zenon DEF LimitReached, Known, HolderInv
<1>1. \/ source'[<<i, p>>] = "full" /\ UNCHANGED <<sockets, excused>>
      \/ /\ sockets' = [sockets EXCEPT ![p] = @ \ {WithSource(i)}]
         /\ excused' = Ports
  BY Zenon DEF LimitReached, Known, HolderInv
<1>2. /\ \A j \in Processes, q \in Ports : j # i \/ q # p =>
           /\ WithSource(j) \in sockets'[q] <=> WithSource(j) \in sockets[q]
           /\ WithServer(j) \in sockets'[q] <=> WithServer(j) \in sockets[q]
           /\ WithClient(j) \in sockets'[q] <=> WithClient(j) \in sockets[q]
      /\ WithSource(i) \in sockets'[p] => source'[<<i, p>>] = "full"
      /\ sockets[p] = {WithSource(i)}
      /\ \A q \in Ports : sockets'[q] \subseteq sockets[q]
      /\ \A q \in Ports : q \in excused => q \in excused'
  <2>1. sockets[p] = {WithSource(i)}
    <3>1. WithSource(i) \in sockets[p]
      BY <1>0, Zenon DEF Known, HolderInv, OneHolder
    <3>2. \A h, g \in sockets[p] : h = g
      BY Zenon DEF Known, HolderInv, OneHolder
    <3>. QED BY <3>1, <3>2, Zenon
  <2>2. CASE source'[<<i, p>>] = "full" /\ UNCHANGED <<sockets, excused>>
    BY <2>1, <2>2, Zenon
  <2>3. CASE /\ sockets' = [sockets EXCEPT ![p] = @ \ {WithSource(i)}]
             /\ excused' = Ports
    BY <2>1, <2>3, PlacesDiffer, Zenon DEF Known, HolderInv
  <2>. QED BY <1>1, <2>2, <2>3, Zenon
<1>3. WithServer(i) \notin sockets'[p] /\ WithClient(i) \notin sockets'[p]
  BY <1>2, PlacesDiffer, Zenon
<1>4. OpenTypes' /\ PhaseInv' /\ AskedInv'
  <2>1. OpenTypes'
    BY <1>0, Zenon DEF OpenInv, OpenTypes
  <2>2. ASSUME NEW j \in Processes, NEW q \in Ports
        PROVE  /\ source'[<<j, q>>] # "none" => source[<<j, q>>] # "none"
               /\ source'[<<j, q>>] = "ended" => source[<<j, q>>] = "ended"
    BY <1>0, Zenon
  <2>. QED BY <1>0, <2>1, <2>2, SourceMoves, Zenon
<1>5. HolderIsBusy'
  <2>. SUFFICES ASSUME NEW j \in Processes, NEW q \in Ports
                PROVE  HolderIsBusy!(j, q)'
    BY Zenon DEF HolderIsBusy
  <2>1. HolderIsBusy!(j, q)
    BY Zenon DEF OpenInv, HolderIsBusy
  <2>2. CASE j = i /\ q = p
    BY <1>0, <1>2, <1>3, <2>1, <2>2, Zenon
  <2>3. CASE ~(j = i /\ q = p)
    BY <1>0, <1>2, <2>1, <2>3, Zenon
  <2>. QED BY <2>2, <2>3, Zenon
<1>6. DrainsTogether'
  BY <1>0, SourcesHavePorts DEF OpenInv, DrainsTogether, ToldToDrain
<1>7. TakenOver'
  <2>. SUFFICES ASSUME NEW j \in Processes, NEW q \in Ports
                PROVE  TakenOver!(j, q)'
    BY Zenon DEF TakenOver
  <2>1. TakenOver!(j, q)
    BY Zenon DEF OpenInv, TakenOver
  <2>2. LetGo(j, q) => LetGo(j, q)'
    BY <1>2, Zenon DEF LetGo
  <2>3. WithServer(j) \in sockets'[q] /\ source'[<<j, q>>] = "ended" =>
          WithServer(j) \in sockets[q] /\ source[<<j, q>>] = "ended"
    BY <1>0, <1>2, Zenon
  <2>. QED BY <1>0, <1>2, <2>1, <2>2, <2>3, Zenon
<1>8. StartInv' /\ PortStaysOpen'
  <2>1. CASE UNCHANGED <<sockets, excused>>
    BY <1>0, <2>1, Zenon DEF OpenInv, StartInv, Held, PortStaysOpen
  <2>2. CASE excused' = Ports
    BY <1>0, <2>2, SourcesHavePorts, Zenon DEF OpenInv, StartInv, Held, PortStaysOpen
  <2>. QED BY <1>1, <2>1, <2>2, Zenon
<1>. QED BY <1>4, <1>5, <1>6, <1>7, <1>8, Zenon DEF OpenInv

\* A connection limit is left: a listener is bound again only where nobody has the port.
LEMMA OpenInvLimitCleared ==
  ASSUME OpenInv, Known, NEW i \in Processes, NEW p \in Ports, LimitCleared(i, p)
  PROVE  OpenInv'
<1>. USE DEF client_vars, server_vars
<1>0. /\ source[<<i, p>>] \in {"full", "closed"} /\ source'[<<i, p>>] = "accepting"
      /\ UNCHANGED <<proc, to_build, errors, asked, reply, gradual, signals, trigger, server, queue, excused>>
      /\ \A j \in Processes, q \in Ports : ~(j = i /\ q = p) => source'[<<j, q>>] = source[<<j, q>>]
  BY Zenon DEF LimitCleared, Known, HolderInv
<1>1. \/ UNCHANGED sockets
      \/ /\ sockets[p] = {} /\ sockets'[p] = {WithSource(i)}
         /\ \A q \in Ports : q # p => sockets'[q] = sockets[q]
         /\ p \in excused
  BY Zenon DEF LimitCleared, Known, HolderInv, OpenInv, PortStaysOpen
<1>2. proc[i] \in Started
  BY <1>0, ZenonT(30) DEF OpenInv, PhaseInv
<1>3. /\ \A j \in Processes, q \in Ports :
           /\ WithSource(j) \in sockets'[q] => WithSource(j) \in sockets[q] \/ (j = i /\ q = p /\ q \in excused)
           /\ WithServer(j) \in sockets'[q] => WithServer(j) \in sockets[q]
           /\ WithClient(j) \in sockets'[q] => WithClient(j) \in sockets[q]
      /\ \A q \in Ports : sockets[q] \subseteq sockets'[q]
  BY <1>1, PlacesDiffer
<1>4. OpenTypes' /\ PhaseInv' /\ AskedInv'
  <2>1. OpenTypes'
    BY <1>0, Zenon DEF OpenInv, OpenTypes
  <2>2. ASSUME NEW j \in Processes, NEW q \in Ports
        PROVE  /\ source'[<<j, q>>] # "none" => source[<<j, q>>] # "none"
               /\ source'[<<j, q>>] = "ended" => source[<<j, q>>] = "ended"
    BY <1>0, <1>2, Zenon
  <2>. QED BY <1>0, <2>1, <2>2, SourceMoves, Zenon
<1>5. HolderIsBusy'
  <2>. SUFFICES ASSUME NEW j \in Processes, NEW q \in Ports
                PROVE  HolderIsBusy!(j, q)'
    BY Zenon DEF HolderIsBusy
  <2>1. HolderIsBusy!(j, q)
    BY Zenon DEF OpenInv, HolderIsBusy
  <2>2. CASE j = i /\ q = p
    BY <1>0, <1>2, <1>3, <2>1, <2>2, Zenon
  <2>3. CASE ~(j = i /\ q = p)
    BY <1>0, <1>3, <2>1, <2>3, Zenon
  <2>. QED BY <2>2, <2>3, Zenon
<1>6. DrainsTogether'
  BY <1>0, SourcesHavePorts, ZenonT(30) DEF OpenInv, DrainsTogether, ToldToDrain
<1>7. TakenOver'
  <2>. SUFFICES ASSUME NEW j \in Processes, NEW q \in Ports
                PROVE  TakenOver!(j, q)'
    BY Zenon DEF TakenOver
  <2>1. TakenOver!(j, q)
    BY Zenon DEF OpenInv, TakenOver
  <2>2. LetGo(j, q) => LetGo(j, q)'
    BY <1>0, <1>3, Zenon DEF LetGo
  <2>3. WithServer(j) \in sockets'[q] /\ source'[<<j, q>>] = "ended" =>
          WithServer(j) \in sockets[q] /\ source[<<j, q>>] = "ended"
    BY <1>0, <1>3, Zenon
  <2>. QED BY <1>0, <2>1, <2>2, <2>3, Zenon
<1>8. StartInv'
  <2>1. \A j \in Processes : Held(j)' \subseteq Held(j) \cup excused
    BY <1>1, Zenon DEF Held
  <2>. QED BY <1>0, <1>3, <2>1, SourcesHavePorts, Zenon DEF OpenInv, StartInv
<1>9. PortStaysOpen'
  BY <1>0, <1>3, Zenon DEF OpenInv, PortStaysOpen
<1>. QED BY <1>4, <1>5, <1>6, <1>7, <1>8, <1>9, Zenon DEF OpenInv

\* A source begins to stop.
LEMMA OpenInvStopSource ==
  ASSUME OpenInv, Known, NEW i \in Processes, NEW p \in Ports, StopSource(i, p)
  PROVE  OpenInv'
<1>. USE DEF client_vars, server_vars
<1>0. /\ source[<<i, p>>] \in Running /\ source'[<<i, p>>] = "stopping"
      /\ i \in trigger \/ gradual[<<i, p>>] # None
      /\ UNCHANGED <<proc, to_build, errors, asked, reply, gradual, signals, trigger, sockets, server,
                     queue, excused>>
      /\ \A j \in Processes, q \in Ports : ~(j = i /\ q = p) => source'[<<j, q>>] = source[<<j, q>>]
  BY Zenon DEF StopSource, Known, HolderInv
<1>1. source[<<i, p>>] # "none" /\ source[<<i, p>>] # "ended"
  BY <1>0, ZenonT(30) DEF Running
<1>2. OpenTypes' /\ PhaseInv' /\ AskedInv'
  <2>1. OpenTypes'
    BY <1>0, ZenonT(30) DEF OpenInv, OpenTypes
  <2>2. ASSUME NEW j \in Processes, NEW q \in Ports
        PROVE  /\ source'[<<j, q>>] # "none" => source[<<j, q>>] # "none"
               /\ source'[<<j, q>>] = "ended" => source[<<j, q>>] = "ended"
    BY <1>0, <1>1, Zenon
  <2>. QED BY <1>0, <2>1, <2>2, SourceMoves, Zenon
<1>3. HolderIsBusy'
  <2>. SUFFICES ASSUME NEW j \in Processes, NEW q \in Ports
                PROVE  HolderIsBusy!(j, q)'
    BY Zenon DEF HolderIsBusy
  <2>1. HolderIsBusy!(j, q)
    BY Zenon DEF OpenInv, HolderIsBusy
  <2>. QED BY <1>0, <2>1, Zenon
<1>4. DrainsTogether'
  <2>1. \A j \in Processes : \A q \in PortsOf[j] : ToldToDrain(j, q) => ToldToDrain(j, q)'
    BY <1>0, <1>1, SourcesHavePorts, Zenon DEF ToldToDrain
  <2>. QED BY <1>0, <2>1, Zenon DEF OpenInv, DrainsTogether
<1>5. TakenOver'
  BY <1>0, ZenonT(30) DEF OpenInv, TakenOver, LetGo
<1>6. StartInv' /\ PortStaysOpen'
  BY <1>0, Zenon DEF OpenInv, StartInv, Held, PortStaysOpen
<1>. QED BY <1>2, <1>3, <1>4, <1>5, <1>6, Zenon DEF OpenInv

\* A source ends without a signal only when another process has its port or has not wanted it.
LEMMA OpenInvSourceEnds ==
  ASSUME OpenInv, Known, NEW i \in Processes, NEW p \in Ports, SourceEnds(i, p)
  PROVE  OpenInv'
<1>. USE DEF client_vars, server_vars
<1>0. /\ source[<<i, p>>] = "stopping" /\ source'[<<i, p>>] = "ended"
      /\ trigger' = trigger \cup {i}
      /\ UNCHANGED <<proc, to_build, errors, reply, gradual, signals, server, queue>>
      /\ \A j \in Processes, q \in Ports : ~(j = i /\ q = p) => source'[<<j, q>>] = source[<<j, q>>]
      /\ asked' = [asked EXCEPT ![<<i, p>>] = <<>>]
      /\ sockets'[p] = sockets[p] \ {WithSource(i)}
      /\ \A q \in Ports : q # p => sockets'[q] = sockets[q]
  BY Zenon DEF SourceEnds, Known, HolderInv
<1>1. p \in PortsOf[i] /\ proc[i] \in Started
  BY <1>0, Zenon DEF OpenInv, PhaseInv
<1>2. i \notin signals => /\ gradual[<<i, p>>] # None /\ proc[i] \in Settled
                          /\ \A q \in PortsOf[i] : ToldToDrain(i, q)
  BY <1>0, <1>1, Zenon DEF OpenInv, PhaseInv, DrainsTogether, ToldToDrain, Started
<1>3. /\ \A q \in Ports : q \in excused => q \in excused'
      /\ WithSource(i) \in sockets[p] \/ WithServer(i) \in sockets[p] => p \in excused'
      /\ i \in signals => excused' = Ports
  <2>1. CASE i \in signals
    BY <2>1, Zenon DEF SourceEnds
  <2>2. CASE i \notin signals /\ p \notin PortsOf[gradual[<<i, p>>]]
    BY <1>2, <2>2, ZenonT(30) DEF SourceEnds, Abandoned
  <2>3. CASE i \notin signals /\ p \in PortsOf[gradual[<<i, p>>]]
    <3>1. LetGo(i, p)
      BY <1>2, <2>3, Zenon DEF OpenInv, TakenOver
    <3>2. UNCHANGED excused
      BY <2>3, Zenon DEF SourceEnds, Abandoned
    <3>. QED BY <2>3, <3>1, <3>2, Zenon DEF LetGo
  <2>. QED BY <2>1, <2>2, <2>3, Zenon
<1>4. /\ \A j \in Processes, q \in Ports :
           /\ WithSource(j) \in sockets'[q] <=> WithSource(j) \in sockets[q] /\ ~(j = i /\ q = p)
           /\ WithServer(j) \in sockets'[q] <=> WithServer(j) \in sockets[q]
           /\ WithClient(j) \in sockets'[q] <=> WithClient(j) \in sockets[q]
      /\ \A q \in Ports : sockets'[q] \subseteq sockets[q]
  BY <1>0, PlacesDiffer, Zenon
<1>5. /\ \A j \in Processes, q \in Ports : ~(j = i /\ q = p) => asked'[<<j, q>>] = asked[<<j, q>>]
      /\ asked'[<<i, p>>] = <<>>
      /\ asked' \in [Processes \X Ports -> Seq(BOOLEAN)]
  <2>1. <<>> \in Seq(BOOLEAN)
    OBVIOUS
  <2>. QED BY <1>0, <2>1, Zenon DEF OpenInv, OpenTypes
<1>6. OpenTypes'
  BY <1>0, <1>5, Zenon DEF OpenInv, OpenTypes
<1>7. HolderIsBusy'
  <2>. SUFFICES ASSUME NEW j \in Processes, NEW q \in Ports
                PROVE  HolderIsBusy!(j, q)'
    BY Zenon DEF HolderIsBusy
  <2>1. HolderIsBusy!(j, q)
    BY Zenon DEF OpenInv, HolderIsBusy
  <2>. QED BY <1>0, <1>4, <2>1, Zenon
<1>8. PhaseInv'
  <2>1. \A j \in Processes : j \in trigger' => j \in signals \/ proc[j] \in Settled
    BY <1>0, <1>2, Zenon DEF OpenInv, PhaseInv
  <2>2. \A j \in Processes, q \in Ports : source'[<<j, q>>] # "none" => q \in PortsOf[j] /\ proc[j] \in Started
    BY <1>0, <1>1, ZenonT(30) DEF OpenInv, PhaseInv
  <2>3. \A j \in Processes, q \in Ports : asked[<<j, q>>] = <<>> => asked'[<<j, q>>] = <<>>
    BY <1>5, Zenon
  <2>. QED BY <1>0, <2>1, <2>2, <2>3, ZenonT(30) DEF OpenInv, PhaseInv
<1>9. AskedInv'
  <2>. SUFFICES ASSUME NEW j \in Processes, NEW q \in Ports
                PROVE  AskedInv!(j, q)'
    BY Zenon DEF AskedInv
  <2>1. AskedInv!(j, q)
    BY Zenon DEF OpenInv, AskedInv
  <2>2. CASE j = i /\ q = p
    <3>1. \A k \in DOMAIN asked'[<<j, q>>] : FALSE
      BY <1>5, <2>2
    <3>. QED BY <1>5, <2>2, <3>1, Zenon
  <2>3. CASE ~(j = i /\ q = p)
    <3>1. /\ asked'[<<j, q>>] = asked[<<j, q>>] /\ source'[<<j, q>>] = source[<<j, q>>]
          /\ reply' = reply /\ proc' = proc /\ server' = server
      BY <1>0, <1>5, <2>3
    <3>. QED BY <2>1, <3>1, Zenon
  <2>. QED BY <2>2, <2>3, Zenon
<1>10. DrainsTogether'
  <2>1. \A j \in Processes : \A q \in PortsOf[j] : ToldToDrain(j, q) => ToldToDrain(j, q)'
    BY <1>0, SourcesHavePorts, Zenon DEF ToldToDrain
  <2>. QED BY <1>0, <1>2, <2>1, Zenon DEF OpenInv, DrainsTogether
<1>11. TakenOver'
  <2>. SUFFICES ASSUME NEW j \in Processes, NEW q \in Ports
                PROVE  TakenOver!(j, q)'
    BY Zenon DEF TakenOver
  <2>1. TakenOver!(j, q)
    BY Zenon DEF OpenInv, TakenOver
  <2>2. LetGo(j, q) => LetGo(j, q)'
    BY <1>3, <1>4, Zenon DEF LetGo
  <2>3. WithServer(j) \in sockets'[q] /\ source'[<<j, q>>] = "ended" => q \in excused'
    BY <1>0, <1>3, <1>4, <2>1, Zenon
  <2>. QED BY <1>0, <2>1, <2>2, <2>3, Zenon
<1>12. StartInv'
  <2>1. \A j \in Processes : Held(j)' \subseteq Held(j) /\ Held(j) \subseteq Ports
    BY <1>4, Zenon DEF Held
  <2>2. \A j \in Processes, q \in Ports : WithSource(j) \in sockets[q] => WithSource(j) \in sockets'[q] \/ q \in excused'
    BY <1>3, <1>4, Zenon
  <2>. QED BY <1>0, <1>3, <2>1, <2>2, SourcesHavePorts, Zenon DEF OpenInv, StartInv
<1>13. PortStaysOpen'
  BY <1>0, <1>3, Zenon DEF OpenInv, PortStaysOpen
<1>. QED BY <1>6, <1>7, <1>8, <1>9, <1>10, <1>11, <1>12, <1>13, Zenon DEF OpenInv

\* The sources are built: the ports are taken over, and the old process may be told to drain.
LEMMA OpenInvBuilt ==
  ASSUME OpenInv, Known, NEW i \in Processes, Built(i)
  PROVE  OpenInv'
<1>. USE DEF source_vars
<1>0. /\ proc[i] = "building" /\ to_build[i] = <<>> /\ i \notin errors
      /\ proc' = [proc EXCEPT ![i] = proc'[i]] /\ proc'[i] \in {"telling", "serving"}
      /\ UNCHANGED <<source, asked, reply, gradual, signals, trigger, server, to_build, errors>>
  BY Zenon DEF Built, Known, DrainInv, QueueTypes
<1>1. DOMAIN proc = Processes /\ queue \in [Processes -> Seq(Waiting)]
  BY Zenon DEF Known, DrainInv, QueueTypes
<1>2. /\ \A j \in Processes, q \in Ports :
           /\ WithSource(j) \in sockets'[q] <=> WithSource(j) \in sockets[q]
           /\ WithServer(j) \in sockets'[q] <=> WithServer(j) \in sockets[q]
           /\ WithClient(j) \in sockets'[q] <=> WithClient(j) \in sockets[q] /\ j # i
      /\ \A q \in Ports : sockets'[q] = sockets[q] \ {WithClient(i)}
  BY PlacesDiffer, PlacesBelong, Zenon DEF Built, DropUnused
<1>3. \A q \in Ports : /\ WithClient(i) \in sockets[q] => q \in excused'
                       /\ q \in excused /\ q \notin excused' => WithSource(i) \in sockets[q] /\ Alone(i)
  BY Zenon DEF Built, DropUnused
<1>4. \A j \in Processes : \/ queue'[j] = queue[j]
                           \/ /\ server[j].state # "down"
                              /\ queue'[j] = Append(queue[j], [client |-> i, request |-> "shutdown"])
  BY <1>1, Zenon DEF Built, Send, Reachable
<1>5. /\ server[i].state = "down" /\ queue[i] = <<>>
      /\ \A q \in Ports : gradual[<<i, q>>] = None /\ WithServer(i) \notin sockets[q]
  <2>1. server[i].state = "down" /\ queue[i] = <<>> /\ \A q \in Ports : gradual[<<i, q>>] = None
    BY <1>0, Zenon DEF OpenInv, PhaseInv, Settled
  <2>. QED BY <2>1, Zenon DEF OpenInv, HolderIsBusy
<1>6. \A j \in Processes \ {i}, q \in Ports :
        WithSource(i) \in sockets[q] => WithSource(j) \notin sockets[q] /\ WithServer(j) \notin sockets[q]
  BY PlacesDiffer DEF Known, HolderInv, OneHolder
<1>7. \A j \in Processes \ {i}, q \in Ports : LetGo(j, q) => LetGo(j, q)'
  BY <1>2, <1>3, <1>6, Zenon DEF LetGo
<1>8. \A j \in Processes \ {i} : \A q \in PortsOf[i] : LetGo(j, q)'
  <2>1. \A q \in PortsOf[i] : q \in Ports /\ (WithSource(i) \in sockets[q] \/ q \in excused)
    <3>1. Range(to_build[i]) = {}
      BY <1>0 DEF Range
    <3>. QED BY <1>0, <3>1, SourcesHavePorts, Zenon DEF OpenInv, StartInv
  <2>. QED BY <1>2, <1>3, <1>6, <2>1, ZenonT(30) DEF LetGo
<1>9. OpenTypes'
  BY <1>0, Zenon DEF OpenInv, OpenTypes
<1>10. HolderIsBusy'
  <2>. SUFFICES ASSUME NEW j \in Processes, NEW q \in Ports
                PROVE  HolderIsBusy!(j, q)'
    BY Zenon DEF HolderIsBusy
  <2>1. HolderIsBusy!(j, q)
    BY Zenon DEF OpenInv, HolderIsBusy
  <2>. QED BY <1>0, <1>1, <1>2, <2>1, ZenonT(30) DEF Started
<1>11. PhaseInv'
  <2>1. \A j \in Processes : queue'[j] # <<>> => queue[j] # <<>> \/ server[j].state # "down"
    BY <1>4, Zenon
  <2>2. /\ \A j \in Processes : proc[j] \in Settled => proc'[j] \in Settled
        /\ \A j \in Processes : proc[j] \in Started => proc'[j] \in Started
        /\ \A j \in Processes : proc'[j] \notin Settled => proc[j] \notin Settled
        /\ \A j \in Processes : proc[j] = "serving" => proc'[j] = "serving"
    BY <1>0, <1>1, Zenon DEF Settled, Started
  <2>. QED BY <1>0, <2>1, <2>2, Zenon DEF OpenInv, PhaseInv
<1>12. AskedInv'
  <2>. SUFFICES ASSUME NEW j \in Processes, NEW q \in Ports
                PROVE  AskedInv!(j, q)'
    BY Zenon DEF AskedInv
  <2>1. AskedInv!(j, q)
    BY ZenonT(30) DEF OpenInv, AskedInv
  <2>. QED BY <1>0, <1>1, <2>1, ZenonT(30)
<1>13. DrainsTogether'
  BY <1>0, <1>1, ZenonT(30) DEF OpenInv, DrainsTogether, ToldToDrain
<1>14. TakenOver'
  <2>. SUFFICES ASSUME NEW j \in Processes, NEW q \in Ports
                PROVE  TakenOver!(j, q)'
    BY Zenon DEF TakenOver
  <2>1. TakenOver!(j, q)
    BY Zenon DEF OpenInv, TakenOver
  <2>2. CASE j = i
    <3>1. gradual'[<<j, q>>] = None /\ WithServer(j) \notin sockets'[q] /\ queue'[j] = <<>>
      BY <1>0, <1>2, <1>4, <1>5, <2>2, Zenon
    <3>2. \A k \in DOMAIN queue'[j] : FALSE
      BY <3>1
    <3>. QED BY <3>1, <3>2, Zenon
  <2>3. CASE j # i
    <3>1. ASSUME NEW k \in DOMAIN queue'[j]
          PROVE  \/ k \in DOMAIN queue[j] /\ queue'[j][k] = queue[j][k]
                 \/ queue'[j][k].client = i
      <4>1. CASE queue'[j] = queue[j]
        BY <4>1, ZenonT(30)
      <4>2. CASE queue'[j] = Append(queue[j], [client |-> i, request |-> "shutdown"])
        BY <1>1, <4>2, SMTT(30)
      <4>. QED BY <1>4, <4>1, <4>2, Zenon
    <3>2. WithServer(j) \in sockets[q] => (q \in excused => q \in excused')
      BY <1>3, <1>6, <2>3, Zenon
    <3>. QED BY <1>0, <1>2, <1>7, <1>8, <2>1, <2>3, <3>1, <3>2, Zenon
  <2>. QED BY <2>2, <2>3, Zenon
<1>15. StartInv'
  <2>1. \A j \in Processes : Held(j)' \subseteq Held(j) /\ Held(j) \subseteq Ports
    BY <1>2, Zenon DEF Held
  <2>2. \A j \in Processes \ {i} : proc[j] \in {"requesting", "building"} =>
          \A q \in Ports : q \in excused => q \in excused'
    BY <1>3, Zenon DEF Alone, Alive
  <2>. QED BY <1>0, <1>1, <1>2, <2>1, <2>2, SourcesHavePorts, ZenonT(30) DEF OpenInv, StartInv
<1>16. PortStaysOpen'
  BY <1>2, <1>3, ZenonT(30) DEF OpenInv, PortStaysOpen
<1>. QED BY <1>9, <1>10, <1>11, <1>12, <1>13, <1>14, <1>15, <1>16, Zenon DEF OpenInv

\* Every action keeps OpenInv; a process ends when what it holds is excused.
LEMMA OpenInvNext ==
  ASSUME OpenInv, Known, [Next]_vars
  PROVE  OpenInv'
<1>1. CASE UNCHANGED vars
  <2>1. OpenTypes' /\ HolderIsBusy' /\ PhaseInv' /\ AskedInv'
    BY <1>1, HolderIsBusyFrame, PhaseInvFrame, AskedInvFrame, Zenon DEF vars, client_vars, source_vars,
       server_vars, OpenInv, OpenTypes
  <2>2. DrainsTogether' /\ TakenOver' /\ StartInv' /\ PortStaysOpen'
    BY <1>1, Zenon DEF vars, OpenInv, DrainsTogether, ToldToDrain, TakenOver, LetGo, StartInv, Held, PortStaysOpen
  <2>. QED BY <2>1, <2>2, Zenon DEF OpenInv
<1>2. ASSUME NEW i \in Processes, Exits(i)
      PROVE  OpenInv'
  <2>1. Gone(i) /\ excused' = excused
    BY <1>2, Zenon DEF Exits
  <2>2. ASSUME NEW p \in Ports, p \notin excused
        PROVE  /\ WithSource(i) \notin sockets[p] /\ WithServer(i) \notin sockets[p]
               /\ WithClient(i) \notin sockets[p]
    <3>1. \A q \in PortsOf[i] : source[<<i, q>>] = "ended"
      BY <1>2, ZenonT(30) DEF Exits
    <3>2. WithSource(i) \in sockets[p] => p \in PortsOf[i] /\ source[<<i, p>>] # "ended"
      BY Zenon DEF OpenInv, HolderIsBusy, PhaseInv
    <3>3. WithServer(i) \in sockets[p] => p \in PortsOf[i] /\ source[<<i, p>>] # "ended"
      BY <2>2, Zenon DEF OpenInv, HolderIsBusy, TakenOver
    <3>4. WithClient(i) \notin sockets[p]
      BY <1>2, Zenon DEF Exits, OpenInv, HolderIsBusy
    <3>. QED BY <3>1, <3>2, <3>3, <3>4, Zenon
  <2>3. Held(i) \subseteq excused
    BY <2>2, Zenon DEF Held, PlacesOf
  <2>. QED BY <2>1, <2>3, OpenInvGone, Zenon
<1>3. ASSUME NEW i \in Processes, Killed(i)
      PROVE  OpenInv'
  <2>1. Gone(i) /\ excused' = Ports
    BY <1>3, Zenon DEF Killed
  <2>2. Held(i) \subseteq Ports
    BY Zenon DEF Held
  <2>. QED BY <2>1, <2>2, OpenInvGone, Zenon
<1>4. ASSUME NEW i \in Processes, StartFails(i) \/ BuildFails(i)
      PROVE  OpenInv'
  <2>1. Gone(i) /\ excused' = excused
    BY <1>4, Zenon DEF StartFails, BuildFails, Fails
  <2>2. CASE StartFails(i)
    <3>1. \A p \in Ports : /\ WithSource(i) \notin sockets[p] /\ WithServer(i) \notin sockets[p]
                           /\ WithClient(i) \notin sockets[p]
      BY <2>2, ZenonT(30) DEF StartFails, OpenInv, HolderIsBusy, PhaseInv, Started
    <3>2. Held(i) = {}
      BY <3>1, Zenon DEF Held, PlacesOf
    <3>. QED BY <2>1, <3>2, OpenInvGone, Zenon
  <2>3. CASE BuildFails(i)
    <3>1. Held(i) \subseteq excused
      BY <2>3, Zenon DEF BuildFails, OpenInv, StartInv
    <3>. QED BY <2>1, <3>1, OpenInvGone, Zenon
  <2>. QED BY <1>4, <2>2, <2>3, Zenon
<1>5. ASSUME NEW i \in Processes, PeerGone(i) \/ RequestTimesOut(i)
      PROVE  OpenInv'
  <2>1. RequestFails(i)
    BY <1>5, Zenon DEF PeerGone, RequestTimesOut
  <2>2. CASE proc[i] = "requesting" /\ Fails(i) /\ excused' = Ports
    <3>1. Gone(i) /\ Held(i) \subseteq Ports
      BY <2>2, Zenon DEF Fails, Held
    <3>. QED BY <2>2, <3>1, OpenInvGone, Zenon
  <2>3. CASE /\ proc[i] = "telling" /\ proc' = [proc EXCEPT ![i] = "serving"]
             /\ UNCHANGED <<path, client_vars, source_vars, sockets, server_vars, excused>>
    BY <2>3, OpenInvMoves, Zenon DEF States
  <2>. QED BY <2>1, <2>2, <2>3, Zenon DEF RequestFails
<1>6. ASSUME NEW i \in Processes, ReceiveListeners(i) \/ ReceiveShutdown(i)
      PROVE  OpenInv'
  <2>1. CASE ReceiveListeners(i)
    BY <2>1, OpenInvMoves, Zenon DEF ReceiveListeners, States
  <2>2. CASE ReceiveShutdown(i)
    BY <2>2, OpenInvMoves, Zenon DEF ReceiveShutdown, States
  <2>. QED BY <1>6, <2>1, <2>2, Zenon
<1>7. ASSUME NEW i \in Processes,
             Start(i) \/ InvalidSource(i) \/ BuildSource(i) \/ Built(i) \/ Signal(i)
      PROVE  OpenInv'
  BY <1>7, OpenInvStart, OpenInvInvalidSource, OpenInvBuildSource, OpenInvBuilt, OpenInvSignal, Zenon
<1>8. ASSUME NEW i \in Processes, ServerStep(i)
      PROVE  OpenInv'
  BY <1>8, OpenInvServerBinds, OpenInvServeListeners, OpenInvServeShutdown, OpenInvCollect,
     OpenInvRespond, Zenon DEF ServerStep
<1>9. ASSUME NEW i \in Processes, NEW p \in Ports,
             SourceStep(i, p) \/ LimitReached(i, p) \/ LimitCleared(i, p)
      PROVE  OpenInv'
  BY <1>9, OpenInvHandOver, OpenInvStopSource, OpenInvSourceEnds, OpenInvLimitReached,
     OpenInvLimitCleared, Zenon DEF SourceStep
<1>. QED BY <1>1, <1>2, <1>3, <1>4, <1>5, <1>6, <1>7, <1>8, <1>9, Zenon DEF Next, ClientStep

\* A port that was opened stays open, whatever the topologies, however many processes overlap
\* and whatever fails: a step that closes its last descriptor is one of the faults that excuse
\* it, or leaves a process out that the port has been taken over from.
THEOREM PortsStayOpen == Spec => []PortStaysOpen
<1>1. Init => DrainInv /\ HolderInv /\ OpenInv
  <2>1. Init => HolderInv
    BY Zenon DEF Init, HolderInv, OneHolder
  <2>. QED BY <2>1, DrainInvInit, OpenInvInit, Zenon
<1>2. DrainInv /\ HolderInv /\ OpenInv /\ [Next]_vars => DrainInv' /\ HolderInv' /\ OpenInv'
  BY DrainInvNext, HolderInvNext, OpenInvNext, Zenon DEF Known
<1>3. OpenInv => PortStaysOpen
  BY Zenon DEF OpenInv
<1>. QED BY <1>1, <1>2, <1>3, PTL DEF Spec
=============================================================================
