----------------------------- MODULE HotReload ------------------------------
(***************************************************************************)
(* Replacing a running shotover by a new one without closing its ports     *)
(* (src/shotover/src/hot_reload/, runner.rs, Topology::run_chains): the    *)
(* new process finds the Unix socket of the old one at a configured path,  *)
(* asks it for its listening sockets, builds its sources on them, asks the *)
(* old one to drain and end, and puts a Unix socket of its own at the path.*)
(*                                                                         *)
(* Processes of one host, started at any moment, are composed here with    *)
(* the path and with the kernel's listening sockets.  A source is seen     *)
(* from outside: what SourceTask does between two of its awaits is one     *)
(* step here.                                                              *)
(***************************************************************************)
EXTENDS Integers, Sequences, FiniteSets, Functions

CONSTANTS
    Processes,   \* 1 .. n, in the order in which they are started
    Ports,       \* a set of integers
    SourcesOf,   \* SourcesOf[i]: the ports of the sources of process i's topology, in order
    Patience,    \* the client's 30 seconds, in the server's 5 second waits
    MaxFaults    \* bound on kills, signals, invalid topologies, reached connection
                 \* limits and failed conversions

ASSUME HotReloadAssumption ==
    /\ IsFiniteSet(Processes) /\ Processes \subseteq Nat \ {0}
    /\ IsFiniteSet(Ports) /\ Ports \subseteq Nat
    /\ SourcesOf \in [Processes -> Seq(Ports)]
    /\ Patience \in Nat \ {0} /\ MaxFaults \in Nat

VARIABLES
    proc,       \* how far run_inner of each process is
    replaces,   \* hotreload_client.is_some()
    path,       \* whose socket file is at hotreload_socket, or None
    source,     \* the source task of each process and port
    sockets,    \* who holds a descriptor of each port's listening socket
    asked,      \* a source's hot_reload_rx: is the requester still waiting?
    reply,      \* the answer of a source to the request being collected
    gradual,    \* who has sent a source a GradualShutdownRequest, or None
    signals,    \* processes that got a SIGINT or SIGTERM
    trigger,    \* processes whose trigger_shutdown is set
    server,     \* the UnixSocketServer task of each process
    queue,      \* connections to it that are not accepted, and their request
    inbox,      \* has the server answered the client's request?
    waited,     \* for how many server waits the client has been waiting
    to_build,   \* sources run_chains has not built yet
    errors,     \* topology_errors is not empty
    faults,     \* how many of these have happened
    excused     \* ports on which no process was fully built since the last fault

vars == <<proc, replaces, path, source, sockets, asked, reply, gradual, signals, trigger,
          server, queue, inbox, waited, to_build, errors, faults, excused>>

None == 0
PortsOf == [i \in Processes |-> Range(SourcesOf[i])]
Alive(i) == proc[i] \notin {"off", "exited"}
Requesting == {"requesting", "telling"}

\* The places a descriptor can be: with a source task, on the way from it to the
\* server task (or in the server's collected_fds), or with a starting process.
WithSource(i) == <<"source", i>>
WithServer(i) == <<"server", i>>
WithClient(i) == <<"client", i>>
PlacesOf(i) == {WithSource(i), WithServer(i), WithClient(i)}
Held(i) == {p \in Ports : sockets[p] \cap PlacesOf(i) # {}}

NoServer == [state |-> "down", client |-> None, waits_for |-> <<>>, fds |-> {}]
IdleServer == [NoServer EXCEPT !.state = "accept"]

Init ==
    /\ proc = [i \in Processes |-> "off"]
    /\ replaces = [i \in Processes |-> FALSE]
    /\ path = None
    /\ source = [s \in Processes \X Ports |-> "none"]
    /\ sockets = [p \in Ports |-> {}]
    /\ asked = [s \in Processes \X Ports |-> <<>>]
    /\ reply = [s \in Processes \X Ports |-> "none"]
    /\ gradual = [s \in Processes \X Ports |-> None]
    /\ signals = {}
    /\ trigger = {}
    /\ server = [i \in Processes |-> NoServer]
    /\ queue = [i \in Processes |-> <<>>]
    /\ inbox = [i \in Processes |-> FALSE]
    /\ waited = [i \in Processes |-> 0]
    /\ to_build = [i \in Processes |-> <<>>]
    /\ errors = {}
    /\ faults = 0
    /\ excused = Ports

client_vars == <<replaces, inbox, waited, to_build, errors>>
source_vars == <<source, asked, reply, gradual, signals, trigger>>
server_vars == <<server, queue>>

-----------------------------------------------------------------------------
(* The end of a process: the kernel closes what it held.                    *)

Released(i) == [p \in Ports |-> sockets[p] \ PlacesOf(i)]

\* Its tasks are gone, and with them the connections to its server.
Gone(i) ==
    /\ proc' = [proc EXCEPT ![i] = "exited"]
    /\ sockets' = Released(i)
    /\ source' = [s \in Processes \X Ports |-> IF s[1] = i THEN "none" ELSE source[s]]
    /\ server' = [server EXCEPT ![i] = NoServer]
    /\ queue' = [queue EXCEPT ![i] = <<>>]
    /\ UNCHANGED <<client_vars, asked, reply, gradual, signals, trigger>>

(* Start fails: run_block reports the error and exits.  No socket file is   *)
(* removed, there is no server yet.                                         *)
Fails(i) == Gone(i) /\ UNCHANGED <<path, faults>>

(* Drop of UnixSocketServer: whatever is at the path is removed. *)
RemoveSocketFile(i) == path' = IF server[i].state = "down" THEN path ELSE None

(* Every source has ended: join_all is over and run_block exits. *)
Exits(i) ==
    /\ proc[i] = "serving"
    /\ \A p \in PortsOf[i] : source[<<i, p>>] = "ended"
    /\ Gone(i)
    /\ RemoveSocketFile(i)
    /\ UNCHANGED <<faults, excused>>

(* The process is killed: nothing of it runs any more, its file stays. *)
Killed(i) ==
    /\ Alive(i) /\ faults < MaxFaults
    /\ Gone(i)
    /\ faults' = faults + 1
    /\ excused' = Ports
    /\ UNCHANGED path

(* SIGINT or SIGTERM. *)
Signal(i) ==
    /\ Alive(i) /\ i \notin signals /\ faults < MaxFaults
    /\ signals' = signals \cup {i}
    /\ trigger' = trigger \cup {i}
    /\ faults' = faults + 1
    /\ excused' = Ports
    /\ UNCHANGED <<proc, path, client_vars, source, sockets, asked, reply, gradual, server_vars>>

-----------------------------------------------------------------------------
(* The new process: run_inner.                                              *)

\* HotReloadClient connects to whoever listens on the socket file.
Reachable(i) == i # None /\ server[i].state # "down"

Send(i, request) ==
    /\ queue' = [queue EXCEPT ![path] = Append(@, [client |-> i, request |-> request])]
    /\ inbox' = [inbox EXCEPT ![i] = FALSE]
    /\ waited' = [waited EXCEPT ![i] = 0]

(* There is a file at the path: the listening sockets are asked for.  Else  *)
(* this is a first start, with no listeners.                                *)
Start(i) ==
    /\ proc[i] = "off"
    /\ i - 1 \in Processes => proc[i - 1] # "off"
    /\ IF path = None
       THEN /\ proc' = [proc EXCEPT ![i] = "building"]
            /\ UNCHANGED <<replaces, queue, inbox, waited>>
       ELSE /\ Reachable(path)
            /\ replaces' = [replaces EXCEPT ![i] = TRUE]
            /\ proc' = [proc EXCEPT ![i] = "requesting"]
            /\ Send(i, "listeners")
    /\ to_build' = [to_build EXCEPT ![i] = SourcesOf[i]]
    /\ UNCHANGED <<path, source_vars, sockets, server, errors, faults, excused>>

(* There is a file, and nobody listens on it: connect fails, and so does     *)
(* the start.                                                                *)
StartFails(i) ==
    /\ proc[i] = "off"
    /\ i - 1 \in Processes => proc[i - 1] # "off"
    /\ path # None /\ ~Reachable(path)
    /\ Fails(i)
    /\ UNCHANGED excused

\* Is the request of i still queued or being served?
Served(i) ==
    \E j \in Processes :
        \/ server[j].client = i
        \/ \E k \in DOMAIN queue[j] : queue[j][k].client = i

\* The error path of send_request: fatal for the first request of the two.
RequestFails(i) ==
    \/ proc[i] = "requesting" /\ Fails(i) /\ excused' = Ports
    \/ /\ proc[i] = "telling"
       /\ proc' = [proc EXCEPT ![i] = "serving"]
       /\ UNCHANGED <<path, client_vars, source_vars, sockets, server_vars, faults, excused>>

(* The peer has gone without an answer: the read fails. *)
PeerGone(i) ==
    /\ proc[i] \in Requesting /\ ~inbox[i] /\ ~Served(i)
    /\ RequestFails(i)

(* The timeout of send_request. *)
RequestTimesOut(i) ==
    /\ proc[i] \in Requesting /\ waited[i] >= Patience
    /\ RequestFails(i)

(* The listeners have come. *)
ReceiveListeners(i) ==
    /\ proc[i] = "requesting" /\ inbox[i]
    /\ proc' = [proc EXCEPT ![i] = "building"]
    /\ UNCHANGED <<path, client_vars, source_vars, sockets, server_vars, faults, excused>>

\* A source starts on listener p; it ends at once when shutdown is triggered.
Starts(i, p) ==
    source' = [source EXCEPT ![<<i, p>>] = IF i \in trigger THEN "stopping" ELSE "accepting"]

(* SourceTask::start: the listener that was handed over for this port, or a  *)
(* new one.  It cannot be bound while another process has the port: then the *)
(* start will fail, and close the listeners it was handed.                   *)
TakeListener(i) ==
    LET p == Head(to_build[i]) IN
    /\ IF WithClient(i) \in sockets[p] \/ sockets[p] = {}
       THEN /\ sockets' = [sockets EXCEPT ![p] = (@ \ {WithClient(i)}) \cup {WithSource(i)}]
            /\ Starts(i, p)
            /\ UNCHANGED <<errors, excused>>
       ELSE /\ errors' = errors \cup {i}
            /\ excused' = excused \cup Held(i)
            /\ UNCHANGED <<sockets, source>>

(* run_chains: the next source is built, *)
BuildSource(i) ==
    /\ proc[i] = "building" /\ to_build[i] # <<>>
    /\ TakeListener(i)
    /\ to_build' = [to_build EXCEPT ![i] = Tail(@)]
    /\ UNCHANGED <<proc, path, replaces, inbox, waited, asked, reply, gradual, signals, trigger,
                   server_vars, faults>>

(* or its chain is not valid: the whole start will fail, *)
InvalidSource(i) ==
    /\ proc[i] = "building" /\ to_build[i] # <<>> /\ faults < MaxFaults
    /\ faults' = faults + 1
    /\ to_build' = [to_build EXCEPT ![i] = Tail(@)]
    /\ errors' = errors \cup {i}
    /\ excused' = Ports
    /\ UNCHANGED <<proc, path, replaces, inbox, waited, source_vars, sockets, server_vars>>

(* and when all are, the process goes on or ends. *)
BuildFails(i) ==
    /\ proc[i] = "building" /\ to_build[i] = <<>> /\ i \in errors
    /\ Fails(i)
    /\ UNCHANGED excused

\* No other process is starting or still has a listener to lose.
Alone(i) ==
    \A j \in Processes \ {i} : Alive(j) =>
        proc[j] = "serving" /\ \A p \in Ports : source[<<j, p>>] \notin {"accepting", "full", "closed"}

\* The listeners nobody used are dropped with the map.
DropUnused(i) ==
    /\ sockets' = [p \in Ports |-> sockets[p] \ {WithClient(i)}]
    /\ excused' = {p \in excused : WithSource(i) \notin sockets[p] \/ i \in trigger \/ ~Alone(i)}
                  \cup {p \in Ports : WithClient(i) \in sockets[p]}

\* Variant: the old process is asked to drain before the sources are built.
BuiltEarly(i) ==
    /\ proc[i] = "building" /\ i \notin errors
    /\ DropUnused(i)
    /\ IF replaces[i] /\ Reachable(path)
       THEN proc' = [proc EXCEPT ![i] = "telling"] /\ Send(i, "shutdown")
       ELSE proc' = [proc EXCEPT ![i] = "serving"] /\ UNCHANGED <<queue, inbox, waited>>
    /\ UNCHANGED <<path, replaces, source_vars, server, to_build, errors, faults>>

(* request_shutdown_old_instance goes to whoever is at the path by now.     *)
Built(i) ==
    /\ proc[i] = "building" /\ to_build[i] = <<>> /\ i \notin errors
    /\ DropUnused(i)
    /\ IF replaces[i] /\ Reachable(path)
       THEN proc' = [proc EXCEPT ![i] = "telling"] /\ Send(i, "shutdown")
       ELSE proc' = [proc EXCEPT ![i] = "serving"] /\ UNCHANGED <<queue, inbox, waited>>
    /\ UNCHANGED <<path, replaces, source_vars, server, to_build, errors, faults>>

(* The old process has been told. *)
ReceiveShutdown(i) ==
    /\ proc[i] = "telling" /\ inbox[i]
    /\ proc' = [proc EXCEPT ![i] = "serving"]
    /\ UNCHANGED <<path, client_vars, source_vars, sockets, server_vars, faults, excused>>

-----------------------------------------------------------------------------
(* The server of the old process.                                           *)

(* UnixSocketServer::new takes the path over, whoever's file is there. *)
ServerBinds(i) ==
    /\ proc[i] = "serving" /\ server[i].state = "down"
    /\ path' = i
    /\ server' = [server EXCEPT ![i] = IdleServer]
    /\ UNCHANGED <<proc, client_vars, source_vars, sockets, queue, faults, excused>>

\* Sources whose task is still there to receive a request.
Receiving(i) == {p \in PortsOf[i] : source[<<i, p>>] # "ended"}

(* A connection is accepted, its request read: every source is asked for    *)
(* its listener.  One that has ended cannot be, and Collect passes over it. *)
ServeListeners(i) ==
    /\ server[i].state = "accept" /\ queue[i] # <<>>
    /\ Head(queue[i]).request = "listeners"
    /\ asked' = [s \in Processes \X Ports |->
                   IF s[1] = i /\ s[2] \in Receiving(i) THEN Append(asked[s], TRUE) ELSE asked[s]]
    /\ reply' = [s \in Processes \X Ports |-> IF s[1] = i THEN "none" ELSE reply[s]]
    /\ server' = [server EXCEPT ![i] =
                    [state |-> "collect", client |-> Head(queue[i]).client,
                     waits_for |-> SourcesOf[i], fds |-> {}]]
    /\ queue' = [queue EXCEPT ![i] = Tail(@)]
    /\ UNCHANGED <<proc, path, client_vars, source, sockets, gradual, signals, trigger, faults,
                   excused>>

\* The client of a request is still waiting for it.
StillWaits(c) == proc[c] \in Requesting

(* A connection is accepted, its request read: every source is told to      *)
(* drain, and the client that it has been.                                  *)
ServeShutdown(i) ==
    LET c == Head(queue[i]).client IN
    /\ server[i].state = "accept" /\ queue[i] # <<>>
    /\ Head(queue[i]).request = "shutdown"
    /\ gradual' = [s \in Processes \X Ports |->
                     IF s[1] = i /\ s[2] \in Receiving(i) THEN c ELSE gradual[s]]
    /\ inbox' = [inbox EXCEPT ![c] = @ \/ StillWaits(c)]
    /\ queue' = [queue EXCEPT ![i] = Tail(@)]
    /\ UNCHANGED <<proc, path, replaces, waited, to_build, errors, source, asked, reply, signals,
                   trigger, sockets, server, faults, excused>>

\* The source the server waits for.
Awaited(i) == Head(server[i].waits_for)
NextAwaited(i) == [server[i] EXCEPT !.waits_for = Tail(@)]

(* It has answered, or it has ended and dropped the return_chan. *)
Collect(i) ==
    /\ server[i].state = "collect" /\ server[i].waits_for # <<>>
    /\ \/ /\ reply[<<i, Awaited(i)>>] = "fd"
          /\ server' = [server EXCEPT ![i] = [NextAwaited(i) EXCEPT !.fds = @ \cup {Awaited(i)}]]
       \/ /\ reply[<<i, Awaited(i)>>] = "no_listener" \/ source[<<i, Awaited(i)>>] = "ended"
          /\ reply[<<i, Awaited(i)>>] # "fd"
          /\ server' = [server EXCEPT ![i] = NextAwaited(i)]
    /\ UNCHANGED <<proc, path, client_vars, source_vars, sockets, queue, faults, excused>>

\* Variant: the server waits for as long as it takes.
CollectTimesOutNever(i) == FALSE /\ UNCHANGED vars

(* The timeout of 5 seconds: it only ends the wait for a source that does    *)
(* not get as far as its select.  The request stays in the source's channel. *)
CollectTimesOut(i) ==
    /\ server[i].state = "collect" /\ server[i].waits_for # <<>>
    /\ reply[<<i, Awaited(i)>>] = "none"
    /\ source[<<i, Awaited(i)>>] \in {"full", "closed", "parked", "stopping"}
    /\ server' = [server EXCEPT ![i] = NextAwaited(i)]
    /\ asked' = [asked EXCEPT ![<<i, Awaited(i)>>] = [k \in DOMAIN @ |-> FALSE]]
    /\ waited' = [c \in Processes |->
                    IF StillWaits(c) /\ waited[c] < Patience
                         /\ \/ server[i].client = c
                            \/ \E k \in DOMAIN queue[i] : queue[i][k].client = c
                    THEN waited[c] + 1 ELSE waited[c]]
    /\ excused' = IF source[<<i, Awaited(i)>>] = "parked" THEN excused ELSE Ports
    /\ UNCHANGED <<proc, path, replaces, inbox, to_build, errors, source, reply, gradual, signals,
                   trigger, sockets, queue, faults>>

\* Variant: the descriptors are closed before they are sent.
SendFdsClosed(i) ==
    /\ sockets' = [p \in Ports |-> sockets[p] \ {WithServer(i)}]
    /\ UNCHANGED excused

\* write_json_with_fds, and the drop of the originals.  It fails when the client
\* has given up: then they are just dropped.
SendFds(i) ==
    LET c == server[i].client
        sent == {p \in server[i].fds : WithServer(i) \in sockets[p]}
    IN /\ sockets' = [p \in Ports |->
                        IF p \in sent /\ proc[c] = "requesting"
                        THEN (sockets[p] \ {WithServer(i)}) \cup {WithClient(c)}
                        ELSE sockets[p] \ {WithServer(i)}]
       /\ excused' = IF proc[c] = "requesting" THEN excused ELSE Ports

(* All have answered or timed out: the response goes to the client. *)
Respond(i) ==
    LET c == server[i].client IN
    /\ server[i].state = "collect" /\ server[i].waits_for = <<>>
    /\ SendFds(i)
    /\ inbox' = [inbox EXCEPT ![c] = @ \/ proc[c] = "requesting"]
    /\ server' = [server EXCEPT ![i] = IdleServer]
    /\ UNCHANGED <<proc, path, replaces, waited, to_build, errors, source_vars, queue, faults>>

-----------------------------------------------------------------------------
(* The sources.                                                             *)

Running == {"accepting", "full", "closed", "parked"}

(* handle_hot_reload_request: the listener goes to whoever waits for it, and *)
(* is closed when nobody does or it cannot be converted.                     *)
HandOver(i, p) ==
    LET rest == sockets[p] \ {WithSource(i)} IN
    /\ source[<<i, p>>] = "accepting" /\ asked[<<i, p>>] # <<>>
    /\ asked' = [asked EXCEPT ![<<i, p>>] = Tail(@)]
    /\ source' = [source EXCEPT ![<<i, p>>] = "parked"]
    /\ \/ /\ Head(asked[<<i, p>>])
          /\ reply' = [reply EXCEPT ![<<i, p>>] = "fd"]
          /\ sockets' = [sockets EXCEPT ![p] = rest \cup {WithServer(i)}]
          /\ UNCHANGED <<faults, excused>>
       \/ /\ ~Head(asked[<<i, p>>])
          /\ sockets' = [sockets EXCEPT ![p] = rest]
          /\ excused' = Ports
          /\ UNCHANGED <<reply, faults>>
       \/ /\ Head(asked[<<i, p>>]) /\ faults < MaxFaults
          /\ reply' = [reply EXCEPT ![<<i, p>>] = "no_listener"]
          /\ sockets' = [sockets EXCEPT ![p] = rest]
          /\ faults' = faults + 1
          /\ excused' = Ports
    /\ UNCHANGED <<proc, path, client_vars, gradual, signals, trigger, server_vars>>

(* All connections of the limit are taken: a hard limit closes the listener. *)
LimitReached(i, p) ==
    /\ source[<<i, p>>] = "accepting" /\ faults < MaxFaults
    /\ faults' = faults + 1
    /\ \/ source' = [source EXCEPT ![<<i, p>>] = "full"] /\ UNCHANGED <<sockets, excused>>
       \/ /\ source' = [source EXCEPT ![<<i, p>>] = "closed"]
          /\ sockets' = [sockets EXCEPT ![p] = @ \ {WithSource(i)}]
          /\ excused' = Ports
    /\ UNCHANGED <<proc, path, client_vars, asked, reply, gradual, signals, trigger, server_vars>>

(* A connection has ended, and the listener, if closed, could be bound again. *)
LimitCleared(i, p) ==
    /\ \/ source[<<i, p>>] = "full" /\ UNCHANGED sockets
       \/ /\ source[<<i, p>>] = "closed" /\ sockets[p] = {}
          /\ sockets' = [sockets EXCEPT ![p] = {WithSource(i)}]
    /\ source' = [source EXCEPT ![<<i, p>>] = "accepting"]
    /\ UNCHANGED <<proc, path, client_vars, asked, reply, gradual, signals, trigger, server_vars,
                   faults, excused>>

(* shutdown or gradual_shutdown begins, at whatever await the task is. *)
StopSource(i, p) ==
    /\ source[<<i, p>>] \in Running
    /\ i \in trigger \/ gradual[<<i, p>>] # None
    /\ source' = [source EXCEPT ![<<i, p>>] = "stopping"]
    /\ UNCHANGED <<proc, path, client_vars, asked, reply, gradual, signals, trigger, sockets,
                   server_vars, faults, excused>>

\* The process that takes over does not have the port.
Abandoned(i, p) == gradual[<<i, p>>] # None /\ p \notin PortsOf[gradual[<<i, p>>]]

(* Its connections have ended, the task ends; Source::join triggers the      *)
(* shutdown of the others.                                                   *)
SourceEnds(i, p) ==
    /\ source[<<i, p>>] = "stopping"
    /\ source' = [source EXCEPT ![<<i, p>>] = "ended"]
    /\ sockets' = [sockets EXCEPT ![p] = @ \ {WithSource(i)}]
    /\ trigger' = trigger \cup {i}
    /\ asked' = [asked EXCEPT ![<<i, p>>] = <<>>]
    /\ excused' = IF i \in signals THEN Ports
                  ELSE IF Abandoned(i, p) THEN excused \cup {p} ELSE excused
    /\ UNCHANGED <<proc, path, client_vars, reply, gradual, signals, server_vars, faults>>

-----------------------------------------------------------------------------
ClientStep(i) ==
    \/ PeerGone(i) \/ RequestTimesOut(i) \/ ReceiveListeners(i) \/ BuildSource(i) \/ BuildFails(i)
    \/ Built(i) \/ ReceiveShutdown(i)

ServerStep(i) ==
    \/ ServerBinds(i) \/ ServeListeners(i) \/ ServeShutdown(i) \/ Collect(i) \/ CollectTimesOut(i)
    \/ Respond(i)

SourceStep(i, p) == HandOver(i, p) \/ StopSource(i, p) \/ SourceEnds(i, p)

Next ==
    \E i \in Processes :
        \/ Start(i) \/ StartFails(i) \/ InvalidSource(i) \/ ClientStep(i) \/ ServerStep(i)
        \/ Exits(i) \/ Killed(i) \/ Signal(i)
        \/ \E p \in Ports : SourceStep(i, p) \/ LimitReached(i, p) \/ LimitCleared(i, p)

(* Tasks are scheduled and timeouts pass; nobody has to start a process, and *)
(* nothing says that a connection limit is ever left.                        *)
Fairness ==
    \A i \in Processes :
        /\ WF_vars(ClientStep(i)) /\ WF_vars(ServerStep(i)) /\ WF_vars(Exits(i))
        /\ \A p \in Ports : WF_vars(SourceStep(i, p))

Spec == Init /\ [][Next]_vars /\ Fairness

-----------------------------------------------------------------------------
(* A port that was opened stays open through any number of reloads, starts   *)
(* that overlap and old processes that end: somebody always holds its        *)
(* listening socket.  Only a fault closes it: a kill, a signal, an invalid   *)
(* topology, a connection limit that kept a source from answering in time, a *)
(* topology without the port, or a start that was handed the port and fails  *)
(* because it does not get another one (process_request, handle_connection,  *)
(* run_chains, handle_hot_reload_request).                                   *)
PortStaysOpen == \A p \in Ports : sockets[p] = {} => p \in excused

(* A process is only told to drain by one whose sources are all built: "once *)
(* the new instance is fully started" (run_inner).                           *)
DrainedByReady ==
    [][\A s \in Processes \X Ports :
         gradual'[s] # gradual[s] => to_build[gradual'[s]] = <<>> /\ gradual'[s] \notin errors]_vars

(* Every start comes to an end, serving or failed: no request of the         *)
(* hand-over waits for ever, although a source at its limit never answers    *)
(* and the server takes one connection at a time (send_request,              *)
(* process_request).                                                         *)
StartSettles ==
    \A i \in Processes :
        proc[i] \in Requesting \cup {"building"} ~> proc[i] \in {"serving", "exited"}

(* "Once the old instance terminates, the new instance will be able to       *)
(* create its own Unix socket" (hot_reload.md): the server started last is   *)
(* the one that is found at the path, for as long as its process runs.       *)
SocketFileStays ==
    \A i \in Processes :
        server[i].state # "down" /\ (\A j \in Processes : j > i => proc[j] = "off") => path = i
=============================================================================
