-------------------------- MODULE KafkaSinkCluster --------------------------
(***************************************************************************)
(* KafkaSinkCluster (shotover/src/transforms/kafka/sink_cluster): the last *)
(* transform of the chain of one client connection.  It routes every       *)
(* request to one or more brokers, pipelines requests over one connection  *)
(* per destination, and must give back exactly one response per request,   *)
(* in request order, although brokers answer independently of each other.  *)
(*                                                                         *)
(* Requests of the client are numbered 1, 2, ...  Request n is a Kafka     *)
(* handshake request, a fetch, another request that may be split over      *)
(* several brokers (produce, ...), or any other one.  What is left of a    *)
(* message is its token <<n, part>>, `part` telling apart the requests     *)
(* that one client request was split into; a broker's response carries the *)
(* token of the request it answers.  The connections behave as module      *)
(* SinkConnection promises: answers in request order, an error once the    *)
(* connection is broken, and a wake-up of the chain for both.              *)
(***************************************************************************)
EXTENDS Integers, Sequences, FiniteSets, FiniteSetsExt

CONSTANTS
    Brokers,        \* the brokers of the cluster, all of them contact points
    Control,        \* Destination::ControlConnection
    Kinds,          \* the requests of the client: sequences over KindSet
    MaxParts,       \* bound on the destinations of one split request
    Scram,          \* is authorize_scram_over_mtls configured?
    Pipelined,      \* does the client pipeline requests behind its handshake?
    MaxLookups,     \* bound on the control requests of one call
    MaxRefetches,   \* bound on the fetches sent again by recv_responses
    MaxFaults       \* bound on connections that break and brokers that go away

KindSet == {"handshake", "fetch", "split", "other"}
Splits == {"fetch", "split"}    \* the requests of a RequestSplitAndRouter
Dests == Brokers \cup {Control}

ASSUME KafkaAssumption ==
    /\ Control \notin Brokers /\ Brokers # {}
    /\ \A k \in Kinds : k \in Seq(KindSet)
    /\ MaxParts \in Nat \ {0}
    /\ Scram \in BOOLEAN /\ Pipelined \in BOOLEAN
    /\ MaxLookups \in Nat \ {0}
    /\ MaxRefetches \in Nat /\ MaxFaults \in Nat

VARIABLES
    kinds,      \* the client's requests, chosen once
    taken,      \* how many of them the transform was handed
    batch,      \* the requests of this call that are not routed yet
    pending,    \* KafkaSinkCluster::pending_requests
    auth_complete,
    known,      \* does `nodes` list the brokers yet?
    up,         \* KafkaNodeState of each node
    conns,      \* Connections::connections, <<>> when there is none, otherwise
                \* <<connection>> or <<connection, old_connection>>
    control_addr, \* control_connection_address
    outbox,     \* send_requests: the requests not handed to a connection yet
    unread,     \* recv_responses: the connections not polled yet
    errored,    \* recv_responses: connection_errors
    pc,         \* where the transform is
    lookups,    \* control requests that route_requests still has to make
    ctl,        \* which attempt control_send_receive is at
    mixed,      \* ghost: control_send_receive took the response to another request
    returned,   \* ghost: the responses given back, sequences of tokens
    wake,       \* the force_run_chain permit
    reach,      \* brokers that accept connections
    refetches, faults

clientVars == <<kinds, taken, batch, returned, auth_complete>>
nodeVars == <<known, up, control_addr>>
loopVars == <<outbox, unread, errored>>
ctlVars == <<ctl, lookups>>
boundVars == <<reach, refetches, faults>>
vars == <<clientVars, pending, nodeVars, conns, loopVars, pc, ctlVars,
          mixed, wake, boundVars>>

NoAddr == "none"
CtlToken == <<0, 0>>
Nothing == <<>>
Pcs == {"idle", "route", "meta", "control", "await", "push", "send",
        "sending", "recv", "resend", "resending", "failed", "panic"}

\* A SinkConnection: the requests it has not answered to its user (the
\* first `ready` of them are answered by the broker), and whether it has
\* noticed that the connection is broken.
NewConn == [q |-> <<>>, ready |-> 0, err |-> FALSE]

TypeOK ==
    /\ kinds \in Kinds
    /\ taken \in 0..Len(kinds)
    /\ \A i \in DOMAIN batch : batch[i] \in 1..taken
    /\ \A k \in DOMAIN pending :
          /\ pending[k].dest \in Dests
          /\ pending[k].st \in {"Routed", "Sent", "Received"}
          /\ pending[k].index \in Nat
    /\ auth_complete \in BOOLEAN /\ known \in BOOLEAN
    /\ up \in [Brokers -> BOOLEAN] /\ reach \in [Brokers -> BOOLEAN]
    /\ control_addr \in Brokers \cup {NoAddr}
    /\ \A d \in Dests :
          /\ Len(conns[d]) \in 0..2
          /\ Len(conns[d]) = 2 => Scram
          /\ \A i \in DOMAIN conns[d] :
                conns[d][i].ready \in 0..Len(conns[d][i].q)
    /\ unread \subseteq Dests /\ errored \subseteq Dests
    /\ pc \in Pcs /\ ctl \in {"none", "first", "second", "loop"}
    /\ wake \in BOOLEAN /\ mixed \in BOOLEAN

Init ==
    /\ kinds \in Kinds
    /\ taken = 0 /\ batch = <<>> /\ returned = <<>> /\ pending = <<>>
    /\ auth_complete = FALSE
    /\ known \in BOOLEAN        \* another client may have fetched the metadata
    /\ up = [b \in Brokers |-> TRUE]
    /\ control_addr = NoAddr
    /\ conns = [d \in Dests |-> <<>>]
    /\ outbox = [d \in Dests |-> <<>>]
    /\ unread = {} /\ errored = {}
    /\ pc = "idle" /\ ctl = "none" /\ lookups = 0 /\ mixed = FALSE
    /\ wake = FALSE
    /\ reach = [b \in Brokers |-> TRUE] /\ refetches = 0 /\ faults = 0

-----------------------------------------------------------------------------
(* Connections *)

\* The requests a connection has not answered, those of old_connection first.
Owed(c) ==
    IF c = <<>> THEN <<>>
    ELSE IF Len(c) = 1 THEN c[1].q ELSE c[2].q \o c[1].q

PendingCount(c) == Len(Owed(c))

\* SinkConnection::try_recv_into: what was received, or the error once there
\* is nothing left to receive.
SinkTryRecv(s) ==
    [ok |-> ~(s.err /\ s.ready = 0),
     msgs |-> SubSeq(s.q, 1, s.ready),
     conn |-> [s EXCEPT !.q = SubSeq(s.q, s.ready + 1, Len(s.q)), !.ready = 0]]

\* A variant that polls the new connection although the old one still owes
\* responses.
TryRecvIntoUndrained(c) ==
    LET new == SinkTryRecv(c[1]) IN
    IF Len(c) = 1 THEN [ok |-> new.ok, msgs |-> new.msgs, conn |-> <<new.conn>>]
    ELSE LET old == SinkTryRecv(c[2]) IN
         [ok |-> old.ok /\ new.ok, msgs |-> old.msgs \o new.msgs,
          conn |-> <<new.conn>> \o
                   (IF old.conn.q = <<>> THEN <<>> ELSE <<old.conn>>)]

\* KafkaConnection::try_recv_into: an old connection is drained completely
\* before the new one is read.
TryRecvInto(c) ==
    LET new == SinkTryRecv(c[1]) IN
    IF Len(c) = 1 THEN [ok |-> new.ok, msgs |-> new.msgs, conn |-> <<new.conn>>]
    ELSE LET old == SinkTryRecv(c[2]) IN
         IF old.ok /\ old.conn.q = <<>>
         THEN [ok |-> new.ok, msgs |-> old.msgs \o new.msgs,
               conn |-> <<new.conn>>]
         ELSE [ok |-> old.ok, msgs |-> old.msgs, conn |-> <<c[1], old.conn>>]

UpNodes == {b \in Brokers : known /\ up[b]}

\* The addresses a new connection to destination d may be opened to.
Address(d) ==
    IF d # Control THEN {d}
    ELSE IF UpNodes # {} THEN UpNodes ELSE Brokers

\* create_and_insert_connection: the possible outcomes of replacing `old`
\* (<<>>: nothing to keep), `left` being what stays in place on failure.
Create(d, old, left) ==
    {LET ok == reach[a] /\ Len(old) < 2
     IN [ok |-> ok, addr |-> a,
         conn |-> IF ok THEN <<NewConn>> \o
                             (IF PendingCount(old) = 0 THEN <<>> ELSE old)
                  ELSE left] : a \in Address(d)}

\* get_or_open_connection: the possible outcomes.
GetOrOpen(d) ==
    LET c == conns[d]
        owes == PendingCount(c) > 0
        asIs(ok) == {[ok |-> ok, addr |-> control_addr, conn |-> c]}
    IN IF c = <<>> THEN Create(d, <<>>, <<>>)
       ELSE (IF ~c[1].err THEN asIs(TRUE)
             ELSE IF owes THEN asIs(FALSE)
             ELSE Create(d, <<>>, c))
            \cup (IF Scram THEN Create(d, c, <<>>) ELSE {})

\* SinkConnection::send on the current connection.
Append1(c, tokens) == [c EXCEPT ![1].q = @ \o tokens]

AddressOf(d) == IF d = Control THEN control_addr ELSE d

\* handle_connection_error opens a new connection to the address and marks
\* the node, if it is known yet, up or down accordingly.
Tested(a) == [up EXCEPT ![a] = IF known THEN reach[a] ELSE @]

ControlAddr(d, res) ==
    control_addr' = IF d = Control THEN res.addr ELSE control_addr

\* The transform returned Err: the client connection is torn down with it.
Fail ==
    /\ pc' = "failed"
    /\ batch' = <<>> /\ pending' = <<>>
    /\ conns' = [d \in Dests |-> <<>>] /\ outbox' = [d \in Dests |-> <<>>]
    /\ unread' = {} /\ errored' = {} /\ ctl' = "none" /\ lookups' = 0
    /\ wake' = FALSE

-----------------------------------------------------------------------------
(* transform: route_requests *)

HandshakeUnanswered ==
    \E n \in 1..taken : kinds[n] = "handshake" /\ n > Len(returned)

\* OriginalScramState::AuthSuccess, for a client with the right credentials.
AuthSuccess ==
    (\E n \in 1..taken : kinds[n] = "handshake") /\ ~HandshakeUnanswered

\* The handler runs the chain on the next n requests of the client.
Begin(n) ==
    /\ pc = "idle" /\ taken + n <= Len(kinds)
    /\ \/ Pipelined
       \/ \A i \in taken + 1..taken + n : kinds[i] = "handshake"
       \/ /\ ~HandshakeUnanswered
          /\ \A i \in taken + 1..taken + n : kinds[i] # "handshake"
    /\ taken' = taken + n
    /\ batch' = [i \in 1..n |-> taken + i]
    /\ pc' = "route"
    /\ UNCHANGED <<kinds, returned, auth_complete, pending, nodeVars, conns,
                   loopVars, ctlVars, mixed, wake, boundVars>>

Entry(n, part, dest, combine) ==
    [id |-> n, part |-> part, dest |-> dest, st |-> "Routed", index |-> 0,
     combine |-> combine, resp |-> Nothing]

HandshakePrefix ==
    LET later == {i \in DOMAIN batch : kinds[batch[i]] # "handshake"}
    IN IF later = {} THEN Len(batch) ELSE Min(later) - 1

\* The part of route_requests that runs until authentication is complete.
\* route_to_control_connection asserts that it is not.
RouteHandshake ==
    /\ pc = "route"
    /\ LET h == HandshakePrefix
           complete == h < Len(batch)
       IN IF auth_complete
          THEN /\ pc' = "meta"
               /\ UNCHANGED <<clientVars, pending, nodeVars, conns, loopVars,
                              ctlVars, mixed, wake, boundVars>>
          ELSE IF complete /\ Scram /\ ~AuthSuccess
          THEN /\ Fail
               /\ UNCHANGED <<kinds, taken, returned, auth_complete, nodeVars,
                              mixed, boundVars>>
          ELSE /\ auth_complete' = complete
               /\ pc' = IF complete /\ h > 0 THEN "panic"
                        ELSE IF complete THEN "meta" ELSE "send"
               /\ pending' = pending \o
                    [i \in 1..h |-> Entry(batch[i], 1, Control, 1)]
               /\ batch' = SubSeq(batch, h + 1, Len(batch))
               /\ UNCHANGED <<kinds, taken, returned, nodeVars, conns,
                              loopVars, ctlVars, mixed, wake, boundVars>>

\* Are the coordinators, leaders and controller of these requests known?
\* If not they are asked for over the control connection first.
RouteMeta ==
    /\ pc = "meta"
    /\ lookups' \in (IF known THEN 0 ELSE 1)..MaxLookups
    /\ IF lookups' = 0 THEN pc' = "push" /\ ctl' = "none"
                        ELSE pc' = "control" /\ ctl' = "first"
    /\ UNCHANGED <<clientVars, pending, nodeVars, conns, loopVars, mixed,
                   wake, boundVars>>

-----------------------------------------------------------------------------
(* control_send_receive *)

\* control_send_receive_inner failed.  First the connection is recreated at
\* the same address (handle_connection_error); if that fails too, other nodes
\* are tried for as long as one of them is marked up.
ControlErr(addr, c) ==
    LET recreated == PendingCount(c) = 0 /\ reach[addr]
    IN \/ /\ ctl = "first" /\ recreated
          /\ conns' = [conns EXCEPT ![Control] = <<NewConn>>]
          /\ up' = Tested(addr) /\ ctl' = "second" /\ pc' = "control"
          /\ UNCHANGED <<batch, pending, loopVars, lookups, wake>>
       \/ /\ \/ ctl = "first" /\ ~recreated /\ up' = Tested(addr)
             \/ ctl = "loop" /\ UpNodes # {} /\ up' = up
          /\ conns' = [conns EXCEPT ![Control] = <<>>]
          /\ ctl' = "loop" /\ pc' = "control"
          /\ UNCHANGED <<batch, pending, loopVars, lookups, wake>>
       \/ /\ ctl = "second" \/ (ctl = "loop" /\ UpNodes = {})
          /\ up' = up
          /\ Fail

\* control_send_receive_inner up to its await: open the connection and send.
ControlSend ==
    /\ pc = "control"
    /\ \E res \in GetOrOpen(Control) :
          /\ control_addr' = res.addr
          /\ IF res.ok
             THEN /\ conns' = [conns EXCEPT ![Control] =
                                    Append1(res.conn, <<CtlToken>>)]
                  /\ pc' = "await"
                  /\ UNCHANGED <<up, ctlVars, batch, pending, loopVars, wake>>
             ELSE ControlErr(res.addr, res.conn)
    /\ UNCHANGED <<kinds, taken, returned, auth_complete, known, mixed,
                   boundVars>>

\* connection.recv().await?.remove(0): the first of the responses received is
\* taken for the answer, the others are dropped.
ControlRecv ==
    /\ pc = "await"
    /\ \E res \in {TryRecvInto(conns[Control])} :
        \/ /\ res.ok /\ res.msgs # <<>>
           /\ mixed' = (Head(res.msgs) # CtlToken)
           /\ IF Head(res.msgs) = CtlToken
              THEN /\ conns' = [conns EXCEPT ![Control] = res.conn]
                   /\ known' = TRUE
                   /\ lookups' = lookups - 1
                   /\ IF lookups = 1 THEN pc' = "push" /\ ctl' = "none"
                                     ELSE pc' = "control" /\ ctl' = "first"
                   /\ UNCHANGED <<batch, pending, loopVars, wake>>
              ELSE Fail /\ UNCHANGED known
           /\ UNCHANGED <<up, control_addr>>
        \/ /\ ~res.ok
           /\ ControlErr(control_addr, conns[Control])
           /\ UNCHANGED <<mixed, known, control_addr>>
    /\ UNCHANGED <<kinds, taken, returned, auth_complete, boundVars>>

-----------------------------------------------------------------------------
(* transform: the rest of route_requests, send_requests *)

\* One request of the batch is routed: to one broker, or split over several.
RoutePush ==
    /\ pc = "push"
    /\ \E p \in 1..MaxParts : \E to \in [1..p -> Brokers] :
          /\ p > 1 => kinds[Head(batch)] \in Splits
          /\ pending' = pending \o
                [i \in 1..p |-> Entry(Head(batch), i, to[i], p)]
    /\ batch' = Tail(batch)
    /\ pc' = IF Len(batch) = 1 THEN "send" ELSE "push"
    /\ UNCHANGED <<kinds, taken, returned, auth_complete, nodeVars, conns,
                   loopVars, ctlVars, mixed, wake, boundVars>>

IsSent(e, d) == e.st = "Sent" /\ e.dest = d
IsRouted(e, d) == e.st = "Routed" /\ e.dest = d

Token(e) == <<e.id, e.part>>

\* RoutedRequests::requests of destination d after k turns of the loop.
RoutedUpto(p, d) ==
    LET upto[k \in 0..Len(p)] ==
            IF k = 0 THEN <<>>
            ELSE IF IsRouted(p[k], d) THEN Append(upto[k - 1], Token(p[k]))
            ELSE upto[k - 1]
    IN upto

\* A variant that forgets the requests already pending at the destination.
MarkSentNoOffset(p) ==
    [k \in DOMAIN p |->
        IF p[k].st = "Routed"
        THEN [p[k] EXCEPT !.st = "Sent",
                          !.index = Len(RoutedUpto(p, p[k].dest)[k - 1])]
        ELSE p[k]]

\* The first loop of send_requests: every routed request becomes sent, its
\* index the number of responses its connection owes before its own.
MarkSent(p) ==
    [k \in DOMAIN p |->
        IF p[k].st = "Routed"
        THEN [p[k] EXCEPT !.st = "Sent", !.index =
                Len(RoutedUpto(p, p[k].dest)[k - 1])
                + Cardinality({j \in DOMAIN p : IsSent(p[j], p[k].dest)})]
        ELSE p[k]]

RoutedTokens(p, d) == RoutedUpto(p, d)[Len(p)]

SendRequests ==
    /\ pc \in {"send", "resend"}
    /\ pending' = MarkSent(pending)
    /\ outbox' = [d \in Dests |-> RoutedTokens(pending, d)]
    /\ pc' = IF pc = "send" THEN "sending" ELSE "resending"
    /\ UNCHANGED <<clientVars, nodeVars, conns, unread, errored, ctlVars, mixed,
                   wake, boundVars>>

\* The second loop of send_requests, one destination at a time.
SendTo(d) ==
    /\ pc \in {"sending", "resending"} /\ outbox[d] # <<>>
    /\ \E res \in GetOrOpen(d) :
          /\ ControlAddr(d, res)
          /\ IF res.ok
             THEN /\ conns' = [conns EXCEPT ![d] = Append1(res.conn, outbox[d])]
                  /\ outbox' = [outbox EXCEPT ![d] = <<>>]
                  /\ UNCHANGED <<pc, up, batch, pending, unread, errored, ctlVars,
                                 wake>>
             ELSE /\ up' = [b \in Brokers |->
                        up[b] /\ ~(known /\ b = (IF d = Control THEN res.addr
                                                 ELSE d))]
                  /\ Fail
    /\ UNCHANGED <<kinds, taken, returned, auth_complete, known, mixed,
                   boundVars>>

\* send fails although get_error saw no error: the connection broke in between.
\* handle_connection_error tests the node, and the transform fails.
SendToBroken(d) ==
    /\ pc \in {"sending", "resending"} /\ outbox[d] # <<>>
    /\ conns[d] # <<>> /\ faults < MaxFaults
    /\ faults' = faults + 1
    /\ up' = Tested(AddressOf(d))
    /\ Fail
    /\ UNCHANGED <<kinds, taken, returned, auth_complete, known, control_addr,
                   mixed, reach, refetches>>

SendDone ==
    /\ pc \in {"sending", "resending"}
    /\ \A d \in Dests : outbox[d] = <<>>
    /\ IF pc = "sending"
       THEN pc' = "recv" /\ unread' = {d \in Dests : conns[d] # <<>>}
       ELSE pc' = "idle" /\ UNCHANGED unread
    /\ UNCHANGED <<clientVars, pending, nodeVars, conns, outbox, errored, ctlVars,
                   mixed, wake, boundVars>>

-----------------------------------------------------------------------------
(* transform: recv_responses *)

\* The handler runs the chain on no requests, as force_run_chain asked.
ForceRun ==
    /\ pc = "idle" /\ wake
    /\ wake' = FALSE
    /\ pc' = "recv" /\ unread' = {d \in Dests : conns[d] # <<>>}
    /\ UNCHANGED <<clientVars, pending, nodeVars, conns, outbox, errored, ctlVars,
                   mixed, boundVars>>

\* One response of connection d is stored with the sent request whose index
\* is 0; the others of that connection move up.
Deliver(p, d, msg) ==
    [k \in DOMAIN p |->
        IF ~IsSent(p[k], d) THEN p[k]
        ELSE IF p[k].index = 0
        THEN [p[k] EXCEPT !.st = "Received", !.resp = msg]
        ELSE [p[k] EXCEPT !.index = @ - 1]]

DeliverAll(p, d, msgs) ==
    LET after[i \in 0..Len(msgs)] ==
            IF i = 0 THEN p ELSE Deliver(after[i - 1], d, msgs[i])
    IN after[Len(msgs)]

\* Poll one connection.
RecvFrom(d) ==
    /\ pc = "recv" /\ d \in unread
    /\ \E res \in {TryRecvInto(conns[d])} :
        /\ conns' = [conns EXCEPT ![d] = res.conn]
        /\ unread' = unread \ {d}
        /\ errored' = IF res.ok THEN errored ELSE errored \cup {d}
        /\ pending' = IF res.ok THEN DeliverAll(pending, d, res.msgs)
                      ELSE pending
    /\ UNCHANGED <<clientVars, nodeVars, outbox, pc, ctlVars, mixed, wake,
                   boundVars>>

\* A variant that drops a failed connection whatever it still owes.
DropErroredAlways(d) ==
    /\ pc = "recv" /\ unread = {} /\ d \in errored
    /\ conns' = [conns EXCEPT ![d] = <<>>]
    /\ errored' = errored \ {d}
    /\ UNCHANGED <<clientVars, pending, nodeVars, outbox, unread, pc, ctlVars,
                   mixed, wake, boundVars>>

\* A failed connection that owes nothing is dropped, the next request to its
\* destination opens another.  Otherwise handle_connection_error tests the
\* node and the transform fails.
HandleErrored(d) ==
    /\ pc = "recv" /\ unread = {} /\ d \in errored
    /\ IF PendingCount(conns[d]) = 0
       THEN /\ conns' = [conns EXCEPT ![d] = <<>>]
            /\ errored' = errored \ {d}
            /\ UNCHANGED <<pending, batch, outbox, unread, pc, ctlVars, wake, up>>
       ELSE up' = Tested(AddressOf(d)) /\ Fail
    /\ UNCHANGED <<kinds, taken, returned, auth_complete, known, control_addr,
                   mixed, boundVars>>

\* Every connection was polled and every error handled.
Collected == pc = "recv" /\ unread = {} /\ errored = {}

\* all_combined_received of the request at the front.
FrontReceived ==
    /\ pending # <<>>
    /\ \A i \in 1..pending[1].combine :
          i \in DOMAIN pending /\ pending[i].st = "Received"

\* The request at the front is complete: its responses are combined into one
\* and returned.
ReturnFront ==
    /\ Collected /\ FrontReceived
    /\ LET n == pending[1].combine
       IN /\ returned' = Append(returned, [i \in 1..n |-> pending[i].resp])
          /\ pending' = SubSeq(pending, n + 1, Len(pending))
    /\ UNCHANGED <<kinds, taken, batch, auth_complete, nodeVars, conns,
                   loopVars, pc, ctlVars, mixed, wake, boundVars>>

\* ... unless it is a fetch that has not gathered min_bytes within
\* max_wait_ms, which is routed again as a whole.
Refetch ==
    /\ Collected /\ FrontReceived
    /\ kinds[pending[1].id] = "fetch" /\ refetches < MaxRefetches
    /\ refetches' = refetches + 1
    /\ pending' = [k \in DOMAIN pending |->
                     IF k <= pending[1].combine
                     THEN [pending[k] EXCEPT !.st = "Routed", !.resp = Nothing]
                     ELSE pending[k]]
    /\ pc' = "resend"
    /\ UNCHANGED <<clientVars, nodeVars, conns, loopVars, ctlVars, mixed, wake,
                   reach, faults>>

ReturnDone ==
    /\ Collected /\ ~FrontReceived
    /\ pc' = "resend"
    /\ UNCHANGED <<clientVars, pending, nodeVars, conns, loopVars, ctlVars,
                   mixed, wake, boundVars>>

-----------------------------------------------------------------------------
(* The brokers (external).  The transform looks for answers only where it  *)
(* receives, and for broken connections also where it sends; a step of a    *)
(* broker at any other point commutes with the transform's steps up to the  *)
(* next such point, and is left out.                                        *)

Receiving(d) == pc \in {"idle", "await"} \/ (pc = "recv" /\ d \in unread)
Connecting == pc \in {"control", "sending", "resending"}

Unchanged_Transform ==
    UNCHANGED <<clientVars, pending, nodeVars, loopVars, pc, ctlVars, mixed,
                refetches>>

BrokerAnswer(d) ==
    /\ Receiving(d)
    /\ \E i \in DOMAIN conns[d] :
          /\ ~conns[d][i].err /\ conns[d][i].ready < Len(conns[d][i].q)
          /\ conns' = [conns EXCEPT ![d][i].ready = @ + 1]
    /\ wake' = TRUE
    /\ UNCHANGED <<reach, faults>> /\ Unchanged_Transform

ConnectionBreaks(d) ==
    /\ Receiving(d) \/ Connecting
    /\ faults < MaxFaults
    /\ \E i \in DOMAIN conns[d] :
          /\ ~conns[d][i].err
          /\ conns' = [conns EXCEPT ![d][i].err = TRUE]
    /\ faults' = faults + 1 /\ wake' = TRUE
    /\ UNCHANGED reach /\ Unchanged_Transform

BrokerUnreachable(b) ==
    /\ reach[b] /\ (Receiving(b) \/ Connecting)
    /\ faults < MaxFaults /\ faults' = faults + 1
    /\ reach' = [reach EXCEPT ![b] = FALSE]
    /\ conns' = [d \in Dests |->
                    IF d = b \/ (d = Control /\ control_addr = b)
                    THEN [i \in DOMAIN conns[d] |->
                             [conns[d][i] EXCEPT !.err = TRUE]]
                    ELSE conns[d]]
    /\ wake' = TRUE
    /\ Unchanged_Transform

-----------------------------------------------------------------------------

\* The client has nothing more to ask, and nothing wakes the chain.
Finished ==
    /\ pc \in {"failed", "panic"} \/ (pc = "idle" /\ taken = Len(kinds) /\ ~wake)
    /\ UNCHANGED vars

TransformStep ==
    \/ RouteHandshake \/ RouteMeta \/ ControlSend \/ ControlRecv \/ RoutePush
    \/ SendRequests \/ SendDone \/ ForceRun
    \/ ReturnFront \/ Refetch \/ ReturnDone
    \/ \E d \in Dests : \/ SendTo(d) \/ SendToBroken(d)
                        \/ RecvFrom(d) \/ HandleErrored(d)

BrokerStep ==
    \/ \E d \in Dests : BrokerAnswer(d) \/ ConnectionBreaks(d)
    \/ \E b \in Brokers : BrokerUnreachable(b)

Next ==
    \/ \E n \in 1..Len(kinds) : Begin(n)
    \/ TransformStep
    \/ BrokerStep
    \/ Finished

\* Tokio keeps polling the client's task; a broker that stays connected
\* answers (a silent one is turned into an error by read_timeout); the node
\* for a new control connection is chosen at random.
Fairness ==
    /\ WF_vars(TransformStep)
    /\ \A d \in Dests : WF_vars(BrokerAnswer(d))
    /\ \A b \in Brokers : SF_vars(ControlSend /\ control_addr' = b)

Spec == Init /\ [][Next]_vars /\ Fairness

-----------------------------------------------------------------------------
(* Properties *)

\* The requests of the client among q: the control request, if there is one,
\* is the last.
WithoutControl(q) ==
    IF q # <<>> /\ q[Len(q)] = CtlToken THEN SubSeq(q, 1, Len(q) - 1) ELSE q

\* What the connection of d still owes the client, then what send_requests is
\* about to give it.
Outstanding(d) == WithoutControl(Owed(conns[d])) \o outbox[d]

\* The index of a sent request is the exact number of responses that its
\* connection owes before the request's own, and the connection owes nothing
\* that is not in pending_requests.  recv_responses relies on it: its
\* `response.take().unwrap()` panics, or a response is dropped, otherwise.
\* (A connection whose error is not handled yet may have lost responses.)
IndexExact ==
    \A d \in Dests \ errored :
        LET sent == {k \in DOMAIN pending : IsSent(pending[k], d)}
        IN /\ Cardinality(sent) = Len(Outstanding(d))
           /\ \A k \in sent :
                 /\ pending[k].index < Len(Outstanding(d))
                 /\ Outstanding(d)[pending[k].index + 1] = Token(pending[k])

\* The n-th response given to the client answers its n-th request, and a
\* request that was split is answered by all of its parts' own responses, in
\* the order of the parts: recv_responses neither reorders, mixes nor cuts.
ReturnedInOrder ==
    \A n \in DOMAIN returned :
        \A i \in DOMAIN returned[n] : returned[n][i] = <<n, i>>

\* The assertions of route_to_control_connection hold.
NoPanic == pc # "panic"

\* control_send_receive gets the response to the request that it sent.
ControlNotMixed == ~mixed

\* A node is marked down only when it does not accept connections.
DownOnlyIfUnreachable == \A b \in Brokers : ~up[b] => ~reach[b]

\* A connection broke after its last responses and both were noticed by the
\* same poll: try_recv_into reported the responses, and the error has no
\* wake-up of its own left (SinkConnection!EveryRequestReported).
ErrorSwallowed ==
    /\ pc = "idle" /\ ~wake
    /\ \E d \in Dests : \E i \in DOMAIN conns[d] : conns[d][i].err

\* Every request handed to the transform is answered, or the transform fails
\* and the client connection is closed: no routed request is forgotten
\* between send_requests, recv_responses, refetches and replaced
\* connections.
EveryRequestReturned ==
    (taken > Len(returned)) ~>
        (taken = Len(returned) \/ pc = "failed" \/ ErrorSwallowed)

\* Looking up metadata over the control connection ends.
ControlEnds == (ctl = "loop") ~> (ctl # "loop")

=============================================================================
