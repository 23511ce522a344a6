------------------------ MODULE KafkaSinkCluster_proofs ------------------------
(***************************************************************************)
(* Proofs about KafkaSinkCluster for a client that waits for the answers   *)
(* to its handshake (~Pipelined), with any number of brokers, requests,    *)
(* parts, refetches and faults: the index of every sent request is exact,  *)
(* the responses are returned in request order, and the control connection *)
(* is not mixed up.  For a client that does not wait these are false.      *)
(***************************************************************************)
EXTENDS KafkaSinkCluster_invariant

-------------------------------------------------------------------------------
(* control_send_receive. *)

\* While requests other than the handshake's are routed, no request of the
\* client is sent over the control connection.
LEMMA NoneOverControl ==
  ASSUME KafkaInv, NoControl(pending)
  PROVE  /\ \A owed \in Seq(Tokens) : Exact(pending, Control, owed) <=> owed = <<>>
<1>1. ASSUME NEW k \in 1..Len(pending) PROVE ~IsSent(pending[k], Control)
  BY Zenon DEF NoControl, IsSent
<1>2. ASSUME NEW owed \in Seq(Tokens), Exact(pending, Control, owed) PROVE owed = <<>>
  <2>1. ASSUME NEW i \in 1..Len(owed) PROVE FALSE
    BY <1>1, <1>2, Zenon DEF Exact
  <2>2. Len(owed) \in Nat
    BY LenProperties, Zenon
  <2>3. \A n \in Nat : 1..n = {} => n = 0
    <3>. SUFFICES ASSUME NEW n \in Nat, n # 0 PROVE 1..n # {}
      OBVIOUS
    <3>1. 1 \in 1..n
      OBVIOUS
    <3>. QED BY <3>1, Zenon
  <2>4. Len(owed) = 0
    BY <2>1, <2>2, <2>3, Zenon
  <2>. QED BY <2>4, EmptySeq, Zenon
<1>3. Exact(pending, Control, <<>>)
  <2>1. Len(<<>>) = 0 /\ 1..0 = {}
    OBVIOUS
  <2>. QED BY <1>1, <2>1, Zenon DEF Exact
<1>. QED BY <1>2, <1>3, Zenon

\* What holds where control_send_receive is.
LEMMA ControlFacts ==
  ASSUME KafkaInv, pc \in {"control", "await"}
  PROVE  /\ auth_complete /\ NoControl(pending) /\ errored = {} /\ unread = {} /\ batch # <<>>
         /\ \A d \in Dests : outbox[d] = <<>>
         /\ Routing /\ pc # "route" /\ pc # "recv" /\ pc # "failed"
         /\ Exact(pending, Control, <<>>) /\ mixed = FALSE /\ Control \in Dests
         /\ Owed(conns[Control]) = IF pc = "await" THEN <<CtlToken>> ELSE <<>>
<1>1. /\ Routing /\ pc # "route" /\ pc # "recv" /\ pc # "failed" /\ pc \notin {"sending", "resending"}
  BY DEF Routing
<1>2. /\ auth_complete /\ NoControl(pending) /\ errored = {} /\ unread = {} /\ batch # <<>>
      /\ \A d \in Dests : outbox[d] = <<>>
  BY <1>1, Zenon DEF KafkaInv, Handshake, Phases
<1>3. Control \in Dests /\ mixed = FALSE
  BY KafkaFacts, Zenon DEF KafkaInv, KafkaTypes
<1>4. <<>> \in Seq(Tokens)
  OBVIOUS
<1>5. Exact(pending, Control, <<>>)
  BY <1>2, <1>4, NoneOverControl, Zenon
<1>6. ASSUME pc # "await" PROVE Owed(conns[Control]) = <<>>
  <2>. DEFINE o == Owed(conns[Control])
              x == outbox[Control]
  <2>1. o \in Seq(Tokens) /\ x \in Seq(Tokens) /\ o \o x \in Seq(Tokens)
    BY <1>3, KafkaFacts, Zenon
  <2>2. Exact(pending, Control, o \o x)
    BY <1>2, <1>3, <1>6, Zenon DEF KafkaInv, OwedExactly
  <2>. HIDE DEF o, x
  <2>3. o \o x = <<>>
    BY <1>2, <2>1, <2>2, NoneOverControl, Zenon
  <2>. QED BY <2>1, <2>3, TokensConcat, Zenon DEF o
<1>7. ASSUME pc = "await" PROVE Owed(conns[Control]) = <<CtlToken>>
  BY <1>7, Zenon DEF KafkaInv, OwedExactly
<1>. QED BY <1>1, <1>2, <1>3, <1>5, <1>6, <1>7, Zenon

\* The control connection is used, or replaced by one that owes nothing.
LEMMA ControlKeeps ==
  ASSUME KafkaInv, pc \in {"control", "await"}, pc' \in {"control", "await", "push"},
         NEW c \in Seq(Connection), Drained(c),
         Owed(c) = IF pc' = "await" THEN <<CtlToken>> ELSE <<>>,
         conns' = [conns EXCEPT ![Control] = c],
         UNCHANGED <<kinds, taken, returned, auth_complete, batch, pending, loopVars, mixed>>
  PROVE  KafkaInv'
<1>1. /\ auth_complete /\ NoControl(pending) /\ errored = {} /\ unread = {} /\ batch # <<>>
      /\ \A d \in Dests : outbox[d] = <<>>
      /\ Exact(pending, Control, <<>>) /\ Control \in Dests /\ pc # "failed"
  BY ControlFacts, Zenon
<1>2. /\ pc' \in Pcs \ {"panic"} /\ pc' # "route" /\ pc' # "recv" /\ Routing'
      /\ pc' \notin {"sending", "resending"} /\ pc' # "failed"
  BY DEF Routing, Pcs
<1>3. conns \in [Dests -> Seq(Connection)]
  BY Zenon DEF KafkaInv, KafkaTypes
<1>4. /\ conns' \in [Dests -> Seq(Connection)] /\ conns'[Control] = c
      /\ \A d \in Dests : d # Control => conns'[d] = conns[d]
  <2>. DEFINE S == Seq(Connection)
  <2>1. c \in S /\ conns \in [Dests -> S]
    BY <1>3, Zenon
  <2>. HIDE DEF S
  <2>2. /\ conns' \in [Dests -> S] /\ conns'[Control] = c
        /\ \A d \in Dests : d # Control => conns'[d] = conns[d]
    BY <1>1, <2>1
  <2>. QED BY <2>2, Zenon DEF S
<1>5. KafkaTypes'
  BY <1>2, <1>4, Zenon DEF KafkaInv, KafkaTypes, loopVars
<1>6. Phases'
  BY <1>1, <1>2, Zenon DEF Phases, loopVars
<1>7. InTurn'
  BY <1>1, Zenon DEF KafkaInv, InTurn
<1>8. Handshake'
  BY <1>1, <1>2, Zenon DEF KafkaInv, Handshake, NoControl, ControlOnly
<1>9. ASSUME NEW d \in Dests, d # Control
      PROVE  Exact(pending', d, Owed(conns'[d]) \o outbox'[d])
  BY <1>1, <1>4, <1>9, Zenon DEF KafkaInv, OwedExactly, loopVars
<1>10. Exact(pending', Control, <<>>) /\ outbox'[Control] = <<>> /\ conns'[Control] = c
  BY <1>1, <1>4, Zenon DEF loopVars
<1>11. OwedExactly'
  <2>1. CASE pc' = "await"
    BY <1>9, <1>10, <2>1, Zenon DEF OwedExactly
  <2>2. CASE pc' # "await"
    <3>1. <<>> \o <<>> = <<>>
      OBVIOUS
    <3>. QED BY <1>9, <1>10, <2>2, <3>1, Zenon DEF OwedExactly
  <2>. QED BY <2>1, <2>2
<1>12. (\A d \in Dests : Drained(conns[d]))'
  BY <1>4, Zenon DEF KafkaInv
<1>. QED BY <1>5, <1>6, <1>7, <1>8, <1>11, <1>12 DEF KafkaInv

\* What control_send_receive does about an error.
LEMMA ControlErrKeeps ==
  ASSUME KafkaInv, pc \in {"control", "await"}, NEW a, NEW c, ControlErr(a, c),
         UNCHANGED <<kinds, taken, returned, auth_complete, mixed>>
  PROVE  KafkaInv'
<1>1. CASE Fail
  BY <1>1, FailKeeps, Zenon
<1>2. CASE /\ conns' = [conns EXCEPT ![Control] = <<NewConn>>] /\ pc' = "control"
           /\ UNCHANGED <<batch, pending, loopVars>>
  <2>1. <<NewConn>> \in Seq(Connection) /\ Drained(<<NewConn>>) /\ Owed(<<NewConn>>) = <<>>
    <3>1. 0 <= Len(<<>>)
      OBVIOUS
    <3>. QED BY <3>1, NewConnIs, Single, Zenon
  <2>2. pc' \in {"control", "await", "push"} /\ pc' # "await"
    BY <1>2
  <2>. QED BY <1>2, <2>1, <2>2, ControlKeeps, Zenon
<1>3. CASE /\ conns' = [conns EXCEPT ![Control] = <<>>] /\ pc' = "control"
           /\ UNCHANGED <<batch, pending, loopVars>>
  <2>1. pc' \in {"control", "await", "push"} /\ pc' # "await"
    BY <1>3
  <2>. QED BY <1>3, <2>1, NoConnection, ControlKeeps, Zenon
<1>. QED BY <1>1, <1>2, <1>3, Zenon DEF ControlErr

\* The control request is sent.
LEMMA ControlSendKeeps ==
  ASSUME KafkaInv, ControlSend
  PROVE  KafkaInv'
<1>1. pc = "control" /\ UNCHANGED <<kinds, taken, returned, auth_complete, mixed>>
  BY Zenon DEF ControlSend
<1>2. pc \in {"control", "await"} /\ pc # "await"
  BY <1>1
<1>3. PICK res \in GetOrOpen(Control) :
         IF res.ok
         THEN /\ conns' = [conns EXCEPT ![Control] = Append1(res.conn, <<CtlToken>>)]
              /\ pc' = "await" /\ UNCHANGED <<batch, pending, loopVars>>
         ELSE ControlErr(res.addr, res.conn)
  BY Zenon DEF ControlSend
<1>4. CASE res.ok
  <2>. DEFINE c == Append1(res.conn, <<CtlToken>>)
  <2>1. /\ conns' = [conns EXCEPT ![Control] = c]
        /\ pc' = "await" /\ UNCHANGED <<batch, pending, loopVars>>
    BY <1>3, <1>4, Zenon
  <2>2. <<CtlToken>> \in Seq(Tokens) /\ <<CtlToken>> # <<>>
    BY DEF CtlToken, Tokens
  <2>3. Control \in Dests /\ conns[Control] \in Seq(Connection) /\ Drained(conns[Control])
    BY KafkaFacts, Zenon
  <2>4. SentOver(conns[Control], <<CtlToken>>, c)
    BY <1>4, <2>2, <2>3, GetOrOpenFacts, Zenon
  <2>5. Owed(conns[Control]) = <<>>
    BY <1>2, ControlFacts, Zenon
  <2>. HIDE DEF c
  <2>6. c \in Seq(Connection) /\ Drained(c) /\ Owed(c) = <<CtlToken>>
    BY <2>2, <2>4, <2>5, TokensConcat, Zenon DEF SentOver
  <2>7. pc' \in {"control", "await", "push"}
    BY <2>1
  <2>. QED BY <1>1, <1>2, <2>1, <2>6, <2>7, ControlKeeps, Zenon
<1>5. CASE ~res.ok
  BY <1>1, <1>2, <1>3, <1>5, ControlErrKeeps, Zenon
<1>. QED BY <1>4, <1>5

\* The response to the control request is received: the control connection
\* owes nothing else, so what is received is that response.
LEMMA ControlRecvKeeps ==
  ASSUME KafkaInv, ControlRecv
  PROVE  KafkaInv'
<1>. DEFINE c == conns[Control]
            res == TryRecvInto(c)
<1>1. pc = "await" /\ UNCHANGED <<kinds, taken, returned, auth_complete>>
  BY Zenon DEF ControlRecv
<1>2. pc \in {"control", "await"}
  BY <1>1
<1>3. Owed(c) = <<CtlToken>> /\ mixed = FALSE /\ c \in Seq(Connection) /\ Drained(c)
  BY <1>1, <1>2, ControlFacts, KafkaFacts, Zenon
<1>4. c # <<>>
  <2>1. <<CtlToken>> # <<>>
    OBVIOUS
  <2>. QED BY <1>3, <2>1, NoConnection, Zenon
<1>5. Polled(c, res)
  BY <1>3, <1>4, TryRecvIntoFacts, Zenon
<1>6. \/ /\ res.ok /\ res.msgs # <<>> /\ mixed' = (Head(res.msgs) # CtlToken)
         /\ Head(res.msgs) = CtlToken =>
               /\ conns' = [conns EXCEPT ![Control] = res.conn]
               /\ pc' \in {"push", "control"} /\ UNCHANGED <<batch, pending, loopVars>>
      \/ /\ ~res.ok /\ ControlErr(control_addr, c) /\ UNCHANGED mixed
  BY Zenon DEF ControlRecv
<1>. HIDE DEF c, res
<1>7. CASE /\ res.ok /\ res.msgs # <<>> /\ mixed' = (Head(res.msgs) # CtlToken)
           /\ Head(res.msgs) = CtlToken =>
                 /\ conns' = [conns EXCEPT ![Control] = res.conn]
                 /\ pc' \in {"push", "control"} /\ UNCHANGED <<batch, pending, loopVars>>
  <2>. DEFINE m == res.msgs
              k == res.conn
              o == Owed(k)
  <2>1. m \in Seq(Tokens) /\ k \in Seq(Connection) /\ Drained(k) /\ <<CtlToken>> = m \o o
    BY <1>3, <1>5, <1>7, Zenon DEF Polled
  <2>2. o \in Seq(Tokens)
    BY <2>1, OwedType, Zenon
  <2>3. m # <<>>
    BY <1>7
  <2>. HIDE DEF m, o, k
  <2>4. Head(m) = CtlToken /\ o = <<>>
    <3>1. Len(m) \in Nat /\ Len(o) \in Nat /\ Len(m) # 0 /\ Len(m \o o) = Len(m) + Len(o)
      BY <2>1, <2>2, <2>3, TokensConcat, LenProperties, EmptySeq, Zenon
    <3>2. Len(<<CtlToken>>) = 1
      OBVIOUS
    <3>3. 1 = Len(m) + Len(o)
      BY <2>1, <3>1, <3>2, Zenon
    <3>4. Len(m) = 1 /\ Len(o) = 0
      <4>1. \A x, y \in Nat : x # 0 /\ 1 = x + y => x = 1 /\ y = 0
        OBVIOUS
      <4>. QED BY <3>1, <3>3, <4>1, Zenon
    <3>5. o = <<>>
      BY <2>2, <3>4, EmptySeq, Zenon
    <3>6. m = <<CtlToken>>
      BY <2>1, <3>5, TokensConcat, Zenon
    <3>7. Head(<<CtlToken>>) = CtlToken
      OBVIOUS
    <3>. QED BY <3>5, <3>6, <3>7, Zenon
  <2>5. /\ conns' = [conns EXCEPT ![Control] = k]
        /\ pc' \in {"push", "control"} /\ UNCHANGED <<batch, pending, loopVars>>
    BY <1>7, <2>4, Zenon DEF m, k
  <2>6. mixed' = FALSE
    BY <1>7, <2>4, Zenon DEF m
  <2>7. pc' \in {"control", "await", "push"} /\ pc' # "await"
    BY <2>5
  <2>8. Owed(k) = <<>>
    BY <2>4, Zenon DEF o
  <2>. QED BY <1>1, <1>2, <1>3, <2>1, <2>5, <2>6, <2>7, <2>8, ControlKeeps, Zenon
<1>8. CASE ~res.ok /\ ControlErr(control_addr, c) /\ UNCHANGED mixed
  BY <1>1, <1>2, <1>8, ControlErrKeeps, Zenon
<1>. QED BY <1>6, <1>7, <1>8, Zenon

-------------------------------------------------------------------------------
(* send_requests. *)

\* The states of pending requests change, the requests do not.
LEMMA SameRequestsKeep ==
  ASSUME KafkaInv, pending' \in Seq(Entries), SameRequests(pending, pending'), Stored(pending'),
         UNCHANGED clientVars, pc # "failed", ~Routing, ~Routing'
  PROVE  InTurn' /\ Handshake'
<1>1. pending \in Seq(Entries) /\ UNCHANGED <<kinds, taken, batch, returned, auth_complete>>
  BY KafkaFacts, Zenon DEF clientVars
<1>2. Numbered(pending', Len(returned), taken - Len(batch))
  BY <1>1, NumberedKept, Zenon DEF KafkaInv, InTurn
<1>3. InTurn'
  BY <1>1, <1>2, Zenon DEF KafkaInv, InTurn
<1>4. \A k \in 1..Len(pending') : /\ k \in 1..Len(pending) /\ pending'[k].id = pending[k].id
                                  /\ pending'[k].dest = pending[k].dest
  BY Zenon DEF SameRequests
<1>5. pc' # "route"
  BY DEF Routing
<1>6. Handshake'
  BY <1>1, <1>4, <1>5, Zenon DEF KafkaInv, Handshake, ControlOnly, NoControl
<1>. QED BY <1>3, <1>6

\* One entry of Connections::connections is replaced.
LEMMA ReplaceConn ==
  ASSUME KafkaInv, NEW d \in Dests, NEW c \in Seq(Connection), Drained(c),
         conns' = [conns EXCEPT ![d] = c]
  PROVE  /\ conns' \in [Dests -> Seq(Connection)] /\ conns'[d] = c
         /\ \A e \in Dests : e # d => conns'[e] = conns[e]
         /\ (\A e \in Dests : Drained(conns[e]))'
<1>1. conns \in [Dests -> Seq(Connection)]
  BY Zenon DEF KafkaInv, KafkaTypes
<1>2. /\ conns' \in [Dests -> Seq(Connection)] /\ conns'[d] = c
      /\ \A e \in Dests : e # d => conns'[e] = conns[e]
  <2>. DEFINE S == Seq(Connection)
  <2>1. c \in S /\ conns \in [Dests -> S]
    BY <1>1, Zenon
  <2>. HIDE DEF S
  <2>2. /\ conns' \in [Dests -> S] /\ conns'[d] = c
        /\ \A e \in Dests : e # d => conns'[e] = conns[e]
    BY <2>1
  <2>. QED BY <2>2, Zenon DEF S
<1>. QED BY <1>2, Zenon DEF KafkaInv

\* The first loop of send_requests.
LEMMA SendRequestsKeeps ==
  ASSUME KafkaInv, SendRequests
  PROVE  KafkaInv'
<1>1. /\ pc \in {"send", "resend"} /\ pending' = MarkSent(pending)
      /\ outbox' = [d \in Dests |-> RoutedTokens(pending, d)]
      /\ pc' \in {"sending", "resending"}
      /\ UNCHANGED <<clientVars, conns, unread, errored, mixed>>
  BY Zenon DEF SendRequests
<1>2. /\ ~Routing /\ ~Routing' /\ pc # "await" /\ pc' # "await" /\ pc # "failed"
      /\ pc' \in Pcs \ {"panic"} /\ pc' # "recv" /\ pc # "recv" /\ pc \notin {"sending", "resending"}
  BY <1>1 DEF Routing, Pcs
<1>3. batch = <<>> /\ errored = {} /\ unread = {} /\ \A d \in Dests : outbox[d] = <<>>
  BY <1>2, Zenon DEF KafkaInv, Phases
<1>4. pending \in Seq(Entries) /\ Stored(pending)
  BY KafkaFacts, Zenon DEF KafkaInv, InTurn
<1>5. /\ pending' \in Seq(Entries) /\ SameRequests(pending, pending')
      /\ \A k \in 1..Len(pending) : pending'[k].st = "Received" => pending'[k] = pending[k]
  BY <1>1, <1>4, MarkSentType, Zenon
<1>6. Stored(pending')
  <2>1. Len(pending') = Len(pending)
    BY <1>5, Zenon DEF SameRequests
  <2>. QED BY <1>4, <1>5, <2>1, Zenon DEF Stored
<1>7. ASSUME NEW d \in Dests
      PROVE  /\ outbox'[d] = RoutedTokens(pending, d) /\ outbox'[d] \in Seq(Tokens)
             /\ Exact(pending', d, Owed(conns[d]) \o outbox'[d])
  <2>. DEFINE o == Owed(conns[d])
  <2>1. o \in Seq(Tokens)
    BY KafkaFacts, Zenon
  <2>2. Exact(pending, d, o \o outbox[d])
    BY <1>2, <1>3, Zenon DEF KafkaInv, OwedExactly
  <2>. HIDE DEF o
  <2>3. Exact(pending, d, o)
    BY <1>3, <2>1, <2>2, TokensConcat, Zenon
  <2>4. outbox'[d] = RoutedTokens(pending, d)
    BY <1>1, Zenon
  <2>5. RoutedTokens(pending, d) \in Seq(Tokens) /\ Exact(MarkSent(pending), d, o \o RoutedTokens(pending, d))
    BY <1>4, <2>1, <2>3, MarkSentExact, Zenon
  <2>. QED BY <1>1, <2>4, <2>5, Zenon DEF o
<1>8. KafkaTypes'
  <2>1. outbox' \in [Dests -> Seq(Tokens)]
    BY <1>1, <1>7, Zenon
  <2>. QED BY <1>1, <1>2, <1>5, <2>1, Zenon DEF KafkaInv, KafkaTypes, clientVars
<1>9. Phases'
  BY <1>1, <1>2, <1>3, Zenon DEF Phases, clientVars
<1>10. InTurn' /\ Handshake'
  BY <1>1, <1>2, <1>5, <1>6, SameRequestsKeep, Zenon
<1>11. OwedExactly'
  BY <1>1, <1>2, <1>7, Zenon DEF OwedExactly
<1>12. (\A d \in Dests : Drained(conns[d]))'
  BY <1>1, Zenon DEF KafkaInv
<1>. QED BY <1>8, <1>9, <1>10, <1>11, <1>12 DEF KafkaInv

\* The second loop of send_requests: one destination gets its requests.
LEMMA SendToKeeps ==
  ASSUME KafkaInv, NEW d \in Dests, SendTo(d)
  PROVE  KafkaInv'
<1>1. /\ pc \in {"sending", "resending"} /\ outbox[d] # <<>>
      /\ UNCHANGED <<kinds, taken, returned, auth_complete, mixed>>
  BY Zenon DEF SendTo
<1>2. PICK res \in GetOrOpen(d) :
         IF res.ok
         THEN /\ conns' = [conns EXCEPT ![d] = Append1(res.conn, outbox[d])]
              /\ outbox' = [outbox EXCEPT ![d] = <<>>]
              /\ UNCHANGED <<pc, batch, pending, unread, errored>>
         ELSE Fail
  BY Zenon DEF SendTo
<1>3. CASE ~res.ok
  BY <1>1, <1>2, <1>3, FailKeeps, Zenon
<1>4. CASE res.ok
  <2>. DEFINE a == Append1(res.conn, outbox[d])
  <2>1. /\ conns' = [conns EXCEPT ![d] = a]
        /\ outbox' = [outbox EXCEPT ![d] = <<>>]
        /\ UNCHANGED <<pc, batch, pending, unread, errored>>
    BY <1>2, <1>4, Zenon
  <2>2. conns[d] \in Seq(Connection) /\ Drained(conns[d]) /\ outbox[d] \in Seq(Tokens)
    BY KafkaFacts, Zenon
  <2>3. SentOver(conns[d], outbox[d], a)
    BY <1>1, <1>4, <2>2, GetOrOpenFacts, Zenon
  <2>. HIDE DEF a
  <2>4. a \in Seq(Connection) /\ Drained(a) /\ Owed(a) = Owed(conns[d]) \o outbox[d]
    BY <2>3, Zenon DEF SentOver
  <2>5. /\ conns' \in [Dests -> Seq(Connection)] /\ conns'[d] = a
        /\ \A e \in Dests : e # d => conns'[e] = conns[e]
        /\ (\A e \in Dests : Drained(conns[e]))'
    BY <2>1, <2>4, ReplaceConn, Zenon
  <2>6. /\ outbox' \in [Dests -> Seq(Tokens)] /\ outbox'[d] = <<>>
        /\ \A e \in Dests : e # d => outbox'[e] = outbox[e]
    <3>. DEFINE S == Seq(Tokens)
    <3>1. outbox \in [Dests -> S]
      BY Zenon DEF KafkaInv, KafkaTypes
    <3>2. <<>> \in S
      OBVIOUS
    <3>. HIDE DEF S
    <3>3. /\ outbox' \in [Dests -> S] /\ outbox'[d] = <<>>
          /\ \A e \in Dests : e # d => outbox'[e] = outbox[e]
      BY <2>1, <3>1, <3>2
    <3>. QED BY <3>3, Zenon DEF S
  <2>7. pc # "recv" /\ pc # "await"
    BY <1>1
  <2>8. errored = {} /\ unread = {}
    BY <2>7, Zenon DEF KafkaInv, Phases
  <2>9. ASSUME NEW e \in Dests PROVE Exact(pending', e, Owed(conns'[e]) \o outbox'[e])
    <3>1. Exact(pending, e, Owed(conns[e]) \o outbox[e])
      BY <2>7, <2>8, Zenon DEF KafkaInv, OwedExactly
    <3>2. CASE e # d
      BY <2>1, <2>5, <2>6, <3>1, <3>2, Zenon
    <3>3. CASE e = d
      <4>1. Owed(a) \in Seq(Tokens)
        BY <2>4, OwedType, Zenon
      <4>2. Owed(a) \o <<>> = Owed(a)
        BY <4>1, TokensConcat, Zenon
      <4>. QED BY <2>1, <2>4, <2>5, <2>6, <3>1, <3>3, <4>2, Zenon
    <3>. QED BY <3>2, <3>3
  <2>10. KafkaTypes'
    BY <1>1, <2>1, <2>5, <2>6, Zenon DEF KafkaInv, KafkaTypes
  <2>11. Phases'
    <3>1. (Routing' <=> Routing) /\ batch' = batch
      BY <2>1, Zenon DEF Routing
    <3>. QED BY <1>1, <2>1, <2>8, <3>1, Zenon DEF KafkaInv, Phases
  <2>12. InTurn'
    BY <1>1, <2>1, Zenon DEF KafkaInv, InTurn
  <2>13. Handshake'
    BY <1>1, <2>1, Zenon DEF KafkaInv, Handshake, ControlOnly, NoControl, Routing, HandshakeUnanswered
  <2>14. OwedExactly'
    BY <2>1, <2>7, <2>9, Zenon DEF OwedExactly
  <2>. QED BY <2>5, <2>10, <2>11, <2>12, <2>13, <2>14 DEF KafkaInv
<1>. QED BY <1>3, <1>4

-------------------------------------------------------------------------------
(* recv_responses. *)

\* One connection is polled.
LEMMA RecvFromKeeps ==
  ASSUME KafkaInv, NEW d \in Dests, RecvFrom(d)
  PROVE  KafkaInv'
<1>. DEFINE c == conns[d]
            res == TryRecvInto(c)
            k == res.conn
            msgs == res.msgs
            rest == Owed(k)
<1>1. /\ pc = "recv" /\ d \in unread /\ conns' = [conns EXCEPT ![d] = k]
      /\ unread' = unread \ {d}
      /\ errored' = IF res.ok THEN errored ELSE errored \cup {d}
      /\ pending' = IF res.ok THEN DeliverAll(pending, d, msgs) ELSE pending
      /\ UNCHANGED <<clientVars, outbox, pc, mixed>>
  BY Zenon DEF RecvFrom
<1>2. /\ ~Routing /\ ~Routing' /\ pc # "await" /\ pc # "failed" /\ pc \notin {"sending", "resending"}
  BY <1>1 DEF Routing
<1>3. /\ c # <<>> /\ d \notin errored /\ batch = <<>> /\ \A e \in Dests : outbox[e] = <<>>
  BY <1>1, <1>2, Zenon DEF KafkaInv, Phases
<1>4. c \in Seq(Connection) /\ Drained(c) /\ Owed(c) \in Seq(Tokens) /\ pending \in Seq(Entries)
  BY KafkaFacts, Zenon
<1>5. Polled(c, res)
  BY <1>3, <1>4, TryRecvIntoFacts, Zenon
<1>6. /\ msgs \in Seq(Tokens) /\ k \in Seq(Connection) /\ k # <<>> /\ Drained(k)
      /\ res.ok => Owed(c) = msgs \o rest
      /\ ~res.ok /\ rest = <<>> => Owed(c) = <<>>
  BY <1>5, Zenon DEF Polled
<1>7. rest \in Seq(Tokens) /\ Exact(pending, d, Owed(c))
  <2>1. Exact(pending, d, Owed(c) \o outbox[d])
    BY <1>2, <1>3, Zenon DEF KafkaInv, OwedExactly
  <2>2. Owed(c) \o <<>> = Owed(c)
    BY <1>4, TokensConcat, Zenon
  <2>3. rest \in Seq(Tokens)
    BY <1>6, OwedType, Zenon
  <2>. QED BY <1>3, <2>1, <2>2, <2>3, Zenon
<1>8. /\ conns' \in [Dests -> Seq(Connection)] /\ conns'[d] = k
      /\ \A e \in Dests : e # d => conns'[e] = conns[e]
      /\ (\A e \in Dests : Drained(conns[e]))'
  BY <1>1, <1>6, ReplaceConn, Zenon
<1>. HIDE DEF c, res, k, msgs, rest
<1>9. Phases'
  <2>1. unread \subseteq Dests
    BY Zenon DEF KafkaInv, KafkaTypes
  <2>2. ASSUME NEW e \in unread' PROVE pc' = "recv" /\ conns'[e] # <<>> /\ e \notin errored'
    <3>1. e \in unread /\ e # d /\ e \in Dests
      BY <1>1, <2>1, Zenon
    <3>2. conns[e] # <<>> /\ e \notin errored
      BY <3>1, Zenon DEF KafkaInv, Phases
    <3>. QED BY <1>1, <1>8, <3>1, <3>2, Zenon
  <2>. QED BY <1>1, <1>2, <1>3, <2>2, Zenon DEF Phases, clientVars
<1>10. ASSUME pending' \in Seq(Entries), SameRequests(pending, pending'), Stored(pending'),
              d \notin errored' \/ rest = <<>> => Exact(pending', d, rest),
              \A e \in Dests : \A owed : e # d /\ Exact(pending, e, owed) => Exact(pending', e, owed),
              errored' \in {errored, errored \cup {d}}
       PROVE  KafkaInv'
  <2>1. KafkaTypes'
    <3>1. errored' \subseteq Dests /\ unread' \subseteq Dests
      BY <1>1, <1>10, Zenon DEF KafkaInv, KafkaTypes
    <3>. QED BY <1>1, <1>8, <1>10, <3>1, Zenon DEF KafkaInv, KafkaTypes, clientVars
  <2>2. InTurn' /\ Handshake'
    BY <1>1, <1>2, <1>10, SameRequestsKeep, Zenon
  <2>3. ASSUME NEW e \in Dests, e \notin errored' \/ Owed(conns'[e]) = <<>>
        PROVE  Exact(pending', e, Owed(conns'[e]) \o outbox'[e])
    <3>1. CASE e = d
      <4>1. rest \o <<>> = rest
        BY <1>7, TokensConcat, Zenon
      <4>2. Exact(pending', d, rest)
        BY <1>8, <1>10, <2>3, <3>1, Zenon DEF rest
      <4>. QED BY <1>1, <1>3, <1>8, <3>1, <4>1, <4>2, Zenon DEF rest
    <3>2. CASE e # d
      <4>1. e \notin errored \/ Owed(conns[e]) = <<>>
        BY <1>8, <1>10, <2>3, <3>2, Zenon
      <4>2. Exact(pending, e, Owed(conns[e]) \o outbox[e])
        BY <1>2, <4>1, Zenon DEF KafkaInv, OwedExactly
      <4>. QED BY <1>1, <1>8, <1>10, <3>2, <4>2, Zenon
    <3>. QED BY <3>1, <3>2
  <2>4. OwedExactly'
    BY <1>1, <1>2, <2>3, Zenon DEF OwedExactly
  <2>. QED BY <1>8, <1>9, <2>1, <2>2, <2>4 DEF KafkaInv
<1>11. CASE res.ok
  <2>1. pending' = DeliverAll(pending, d, msgs) /\ errored' = errored
    BY <1>1, <1>11, Zenon
  <2>2. Exact(pending, d, msgs \o rest)
    BY <1>6, <1>7, <1>11, Zenon
  <2>3. AllDelivered(pending, d, rest, pending')
    BY <1>4, <1>6, <1>7, <2>1, <2>2, DeliverAllExact, Zenon
  <2>4. Stored(pending')
    <3>1. Len(pending') = Len(pending) /\ Stored(pending)
      BY <2>3, Zenon DEF AllDelivered, SameRequests, KafkaInv, InTurn
    <3>. QED BY <2>3, <3>1, Zenon DEF AllDelivered, Stored
  <2>5. \A e \in Dests : \A owed : e # d /\ Exact(pending, e, owed) => Exact(pending', e, owed)
    BY <1>4, <2>3, DeliverAllOther, Zenon DEF AllDelivered
  <2>. QED BY <1>10, <2>1, <2>3, <2>4, <2>5, Zenon DEF AllDelivered
<1>12. CASE ~res.ok
  <2>1. pending' = pending /\ errored' = errored \cup {d}
    BY <1>1, <1>12, Zenon
  <2>2. SameRequests(pending, pending') /\ Stored(pending')
    BY <2>1, Zenon DEF SameRequests, KafkaInv, InTurn
  <2>3. d \in errored'
    BY <2>1
  <2>4. rest = <<>> => Exact(pending', d, rest)
    BY <1>6, <1>7, <1>12, <2>1, Zenon
  <2>. QED BY <1>4, <1>10, <2>1, <2>2, <2>3, <2>4, Zenon
<1>. QED BY <1>11, <1>12

\* A failed connection that owes nothing is dropped.
LEMMA HandleErroredKeeps ==
  ASSUME KafkaInv, NEW d \in Dests, HandleErrored(d)
  PROVE  KafkaInv'
<1>1. /\ pc = "recv" /\ unread = {} /\ UNCHANGED <<kinds, taken, returned, auth_complete, mixed>>
  BY Zenon DEF HandleErrored
<1>2. CASE Fail
  BY <1>1, <1>2, FailKeeps, Zenon
<1>3. CASE /\ PendingCount(conns[d]) = 0 /\ conns' = [conns EXCEPT ![d] = <<>>]
           /\ errored' = errored \ {d} /\ UNCHANGED <<pending, batch, outbox, unread, pc>>
  <2>1. conns[d] \in Seq(Connection) /\ Drained(conns[d])
    BY KafkaFacts, Zenon
  <2>2. Owed(conns[d]) = <<>>
    BY <1>3, <2>1, OwedType, Zenon
  <2>3. /\ conns' \in [Dests -> Seq(Connection)] /\ conns'[d] = <<>>
        /\ \A e \in Dests : e # d => conns'[e] = conns[e]
        /\ (\A e \in Dests : Drained(conns[e]))'
    BY <1>3, NoConnection, ReplaceConn, Zenon
  <2>4. ASSUME NEW e \in Dests
        PROVE  /\ Owed(conns'[e]) = Owed(conns[e])
               /\ e \notin errored' \/ Owed(conns'[e]) = <<>> => e \notin errored \/ Owed(conns[e]) = <<>>
    BY <1>3, <2>2, <2>3, NoConnection, Zenon
  <2>5. KafkaTypes'
    BY <1>1, <1>3, <2>3, Zenon DEF KafkaInv, KafkaTypes
  <2>6. Phases'
    BY <1>1, <1>3, Zenon DEF KafkaInv, Phases, Routing
  <2>7. InTurn'
    BY <1>1, <1>3, Zenon DEF KafkaInv, InTurn
  <2>8. Handshake'
    BY <1>1, <1>3, Zenon DEF KafkaInv, Handshake, ControlOnly, NoControl, Routing, HandshakeUnanswered
  <2>9. OwedExactly'
    <3>1. pc # "await" /\ pc' # "await"
      BY <1>1, <1>3
    <3>. QED BY <1>3, <2>4, <3>1, Zenon DEF KafkaInv, OwedExactly
  <2>. QED BY <2>3, <2>5, <2>6, <2>7, <2>8, <2>9 DEF KafkaInv
<1>. QED BY <1>2, <1>3, Zenon DEF HandleErrored

\* The first n entries of p are the parts of request m.
IsGroup(p, n, m) ==
    /\ n \in Nat /\ n # 0
    /\ \A i \in 1..n : /\ p[i].id = m /\ p[i].part = i /\ p[i].combine = n
                       /\ i \in 1..Len(p)

\* The parts of the request at the front are at the front, in order.
LEMMA FrontGroup ==
  ASSUME NEW p \in Seq(Entries), NEW first \in Nat, NEW last, Numbered(p, first, last), p # <<>>,
         NEW n, n = p[1].combine, n <= Len(p)
  PROVE  IsGroup(p, n, first + 1)
<1>. DEFINE L == Len(p)
            At(i) == p[i].id = first + 1 /\ p[i].part = i /\ p[i].combine = n
            S == {i \in Nat : i + 1 <= n => At(i + 1)}
<1>1. L \in Nat /\ L # 0
  BY EntryFacts, EmptySeq, Zenon
<1>2. 1 \in 1..L
  BY <1>1
<1>3. n \in Nat /\ 1 \in 1..n
  <2>1. n \in Nat
    BY <1>2, EntryFacts, Zenon
  <2>. QED BY <1>2, <2>1, Zenon DEF Numbered
<1>4. n # 0 /\ \A i \in 1..n : i \in 1..L
  BY <1>1, <1>3
<1>5. 0 \in S
  <2>1. At(0 + 1)
    <3>1. 0 + 1 = 1
      OBVIOUS
    <3>. QED BY <3>1, Zenon DEF Numbered
  <2>2. 0 \in Nat
    OBVIOUS
  <2>. HIDE DEF At
  <2>. QED BY <2>1, <2>2, Zenon
<1>6. ASSUME NEW i \in S PROVE i + 1 \in S
  <2>1. i \in Nat /\ (i + 1 <= n => At(i + 1))
    BY Zenon
  <2>2. ASSUME (i + 1) + 1 <= n PROVE At((i + 1) + 1)
    <3>. DEFINE j == i + 1
    <3>1. j \in 1..L - 1 /\ j <= n /\ j < n /\ j \in Nat
      BY <1>1, <1>3, <2>1, <2>2
    <3>2. At(j)
      BY <2>1, <3>1, Zenon
    <3>. HIDE DEF j
    <3>3. Follows(p[j], p[j + 1])
      BY <3>1, Zenon DEF Numbered
    <3>4. p[j + 1].id = p[j].id /\ p[j + 1].part = p[j].part + 1 /\ p[j + 1].combine = p[j].combine
      BY <3>1, <3>2, <3>3, Zenon DEF Follows
    <3>5. At(j + 1)
      BY <3>2, <3>4, Zenon
    <3>. QED BY <3>5, Zenon DEF j
  <2>3. i + 1 \in Nat
    BY <2>1
  <2>. HIDE DEF At
  <2>. QED BY <2>2, <2>3, Zenon
<1>7. S = Nat
  <2>1. S \in SUBSET Nat
    BY Zenon
  <2>. HIDE DEF S
  <2>. QED BY <1>5, <1>6, <2>1, SetInduction, Zenon
<1>8. ASSUME NEW i \in 1..n PROVE At(i)
  <2>. HIDE DEF At
  <2>1. i - 1 \in Nat /\ (i - 1) + 1 = i /\ i <= n
    BY <1>3
  <2>2. i - 1 \in S
    BY <1>7, <2>1, Zenon
  <2>3. (i - 1) + 1 <= n => At((i - 1) + 1)
    BY <2>2, Zenon
  <2>. QED BY <2>1, <2>3, Zenon
<1>. QED BY <1>3, <1>4, <1>8, Zenon DEF IsGroup

\* s is p without its first n entries.
IsDrop(p, n, s) ==
    /\ s \in Seq(Entries) /\ Len(s) = Len(p) - n /\ Len(p) \in Nat /\ Len(s) \in Nat
    /\ \A k \in 1..Len(s) : s[k] = p[n + k] /\ n + k \in 1..Len(p) /\ n + k \notin 1..n
    /\ \A k \in 1..Len(p) : k \notin 1..n => k - n \in 1..Len(s) /\ s[k - n] = p[k]

\* The front is drained.
LEMMA Dropped ==
  ASSUME NEW p \in Seq(Entries), NEW n \in Nat, n <= Len(p)
  PROVE  IsDrop(p, n, SubSeq(p, n + 1, Len(p)))
<1>. DEFINE S == Entries
            s == SubSeq(p, n + 1, Len(p))
<1>0. p \in Seq(S)
  OBVIOUS
<1>. HIDE DEF S
<1>1. /\ s \in Seq(S) /\ Len(s) = Len(p) - n /\ Len(p) \in Nat /\ Len(s) \in Nat
      /\ \A k \in 1..Len(p) - n : s[k] = p[n + k]
  BY <1>0
<1>. HIDE DEF s
<1>2. ASSUME NEW k \in 1..Len(s) PROVE s[k] = p[n + k] /\ n + k \in 1..Len(p) /\ n + k \notin 1..n
  <2>1. k \in 1..Len(p) - n /\ n + k \in 1..Len(p) /\ n + k \notin 1..n
    BY <1>1
  <2>. QED BY <1>1, <2>1, Zenon
<1>3. ASSUME NEW k \in 1..Len(p), k \notin 1..n PROVE k - n \in 1..Len(s) /\ s[k - n] = p[k]
  <2>1. k - n \in 1..Len(s) /\ k - n \in 1..Len(p) - n /\ n + (k - n) = k
    BY <1>1, <1>3
  <2>2. s[k - n] = p[n + (k - n)]
    BY <1>1, <2>1, Zenon
  <2>. QED BY <2>1, <2>2, Zenon
<1>. QED BY <1>1, <1>2, <1>3, Zenon DEF IsDrop, S, s

\* What is left when the request at the front is returned.
LEMMA NumberedDrop ==
  ASSUME NEW p \in Seq(Entries), NEW first \in Nat, NEW last \in Nat, Numbered(p, first, last),
         p # <<>>, NEW n, n = p[1].combine, n <= Len(p), NEW s, IsDrop(p, n, s)
  PROVE  Numbered(s, first + 1, last)
<1>. DEFINE L == Len(p)
            M == Len(s)
<1>1. /\ n \in Nat /\ n # 0
      /\ \A i \in 1..n : /\ p[i].id = first + 1 /\ p[i].part = i /\ p[i].combine = n
                         /\ i \in 1..Len(p)
  <2>1. IsGroup(p, n, first + 1)
    BY FrontGroup, Zenon
  <2>. QED BY <2>1, Zenon DEF IsGroup
<1>2. /\ s \in Seq(Entries) /\ M = L - n /\ L \in Nat /\ M \in Nat
      /\ \A k \in 1..M : s[k] = p[n + k] /\ n + k \in 1..L
  BY Zenon DEF IsDrop
<1>3. /\ p[L].id = last /\ p[L].part = p[L].combine
      /\ \A k \in 1..L : p[k].part \in 1..p[k].combine
      /\ \A k \in 1..L - 1 : Follows(p[k], p[k + 1])
      /\ \A j, k \in 1..L : j <= k => p[j].id <= p[k].id
  BY Zenon DEF Numbered
<1>. HIDE DEF L, M
<1>4. ASSUME s = <<>> PROVE first + 1 = last
  <2>1. M = 0
    BY <1>2, <1>4, EmptySeq, Zenon DEF M
  <2>2. L = n /\ n \in 1..n
    BY <1>1, <1>2, <2>1
  <2>. QED BY <1>1, <1>3, <2>2, Zenon
<1>5. ASSUME s # <<>>
      PROVE  /\ s[1].id = (first + 1) + 1 /\ s[1].part = 1
             /\ s[M].id = last /\ s[M].part = s[M].combine
  <2>1. M # 0
    BY <1>2, <1>5, EmptySeq, Zenon DEF M
  <2>2. 1 \in 1..M /\ M \in 1..M /\ n \in 1..L - 1 /\ n + M = L /\ n \in 1..n /\ ~(n < n)
    BY <1>1, <1>2, <2>1, SMTT(20)
  <2>3. Follows(p[n], p[n + 1]) /\ p[n].id = first + 1 /\ p[n].part = n /\ p[n].combine = n
    BY <1>1, <1>3, <2>2, Zenon
  <2>4. p[n + 1].id = (first + 1) + 1 /\ p[n + 1].part = 1
    BY <2>2, <2>3, Zenon DEF Follows
  <2>5. s[1] = p[n + 1] /\ s[M] = p[L]
    BY <1>2, <2>2, Zenon
  <2>. QED BY <1>3, <2>4, <2>5, Zenon
<1>6. ASSUME NEW k \in 1..M PROVE s[k].part \in 1..s[k].combine
  BY <1>2, <1>3, Zenon
<1>7. ASSUME NEW k \in 1..M - 1 PROVE Follows(s[k], s[k + 1])
  <2>0. M = L - n /\ L \in Nat /\ M \in Nat /\ n \in Nat
    BY <1>1, <1>2, Zenon
  <2>1. k \in 1..M /\ k + 1 \in 1..M /\ n + k \in 1..L - 1 /\ n + (k + 1) = (n + k) + 1
    <3>. DEFINE In(l, m, x) == \A j \in 1..m - 1 :
           j \in 1..m /\ j + 1 \in 1..m /\ x + j \in 1..l - 1 /\ x + (j + 1) = (x + j) + 1
    <3>1. \A l, m, x \in Nat : m = l - x => In(l, m, x)
      OBVIOUS
    <3>. HIDE DEF In
    <3>2. In(L, M, n)
      BY <2>0, <3>1, Zenon
    <3>. QED BY <3>2, Zenon DEF In
  <2>2. s[k] = p[n + k] /\ s[k + 1] = p[(n + k) + 1]
    BY <1>2, <2>1, Zenon
  <2>. QED BY <1>3, <2>1, <2>2, Zenon
<1>8. ASSUME NEW j \in 1..M, NEW k \in 1..M, j <= k PROVE s[j].id <= s[k].id
  <2>1. n + j <= n + k
    BY <1>1, <1>2, <1>8
  <2>. QED BY <1>2, <1>3, <2>1, Zenon
<1>. QED BY <1>4, <1>5, <1>6, <1>7, <1>8, Zenon DEF Numbered, M

\* The responses that connections owe are not those of the front.
LEMMA ExactDrop ==
  ASSUME NEW p \in Seq(Entries), NEW n \in Nat, NEW s, IsDrop(p, n, s), NEW d, NEW owed,
         Exact(p, d, owed), \A k \in 1..n : ~IsSent(p[k], d)
  PROVE  Exact(s, d, owed)
<1>1. /\ Len(s) \in Nat /\ \A k \in 1..Len(s) : s[k] = p[n + k] /\ n + k \in 1..Len(p)
      /\ \A k \in 1..Len(p) : k \notin 1..n => k - n \in 1..Len(s) /\ s[k - n] = p[k]
  BY Zenon DEF IsDrop
<1>2. ASSUME NEW k \in 1..Len(s), IsSent(s[k], d)
      PROVE  s[k].index < Len(owed) /\ owed[s[k].index + 1] = Token(s[k])
  <2>. DEFINE l == n + k
  <2>1. s[k] = p[l] /\ l \in 1..Len(p)
    BY <1>1, Zenon
  <2>. HIDE DEF l
  <2>2. IsSent(p[l], d)
    BY <1>2, <2>1, Zenon
  <2>3. p[l].index < Len(owed) /\ owed[p[l].index + 1] = Token(p[l])
    BY <2>1, <2>2, Zenon DEF Exact
  <2>. QED BY <2>1, <2>3, Zenon
<1>3. ASSUME NEW i \in 1..Len(owed)
      PROVE  \E k \in 1..Len(s) : IsSent(s[k], d) /\ s[k].index = i - 1
  <2>1. PICK k \in 1..Len(p) : IsSent(p[k], d) /\ p[k].index = i - 1
    BY Zenon DEF Exact
  <2>2. k \notin 1..n
    BY <2>1, Zenon
  <2>3. k - n \in 1..Len(s) /\ s[k - n] = p[k]
    BY <1>1, <2>2, Zenon
  <2>. QED BY <2>1, <2>3, Zenon
<1>4. ASSUME NEW j \in 1..Len(s), NEW k \in 1..Len(s), IsSent(s[j], d), IsSent(s[k], d),
             s[j].index = s[k].index
      PROVE  j = k
  <2>. DEFINE x == n + j
              y == n + k
  <2>1. s[j] = p[x] /\ x \in 1..Len(p) /\ s[k] = p[y] /\ y \in 1..Len(p)
    BY <1>1, Zenon
  <2>2. x = y => j = k
    BY <1>1
  <2>. HIDE DEF x, y
  <2>3. IsSent(p[x], d) /\ IsSent(p[y], d) /\ p[x].index = p[y].index
    BY <1>4, <2>1, Zenon
  <2>4. x = y
    BY <2>1, <2>3, Zenon DEF Exact
  <2>. QED BY <2>2, <2>4
<1>. QED BY <1>2, <1>3, <1>4, Zenon DEF Exact

\* What holds of the request at the front when all of it is received.
LEMMA FrontFacts ==
  ASSUME KafkaInv, Collected, FrontReceived
  PROVE  /\ pc = "recv" /\ unread = {} /\ errored = {} /\ batch = <<>>
         /\ ~Routing /\ pc # "await" /\ pc # "failed" /\ pc \notin {"sending", "resending"}
         /\ \A d \in Dests : outbox[d] = <<>>
         /\ pending # <<>> /\ pending[1].combine <= Len(pending)
         /\ Numbered(pending, Len(returned), taken - Len(batch))
         /\ IsGroup(pending, pending[1].combine, Len(returned) + 1)
         /\ \A i \in 1..pending[1].combine : pending[i].st = "Received"
<1>. DEFINE n == pending[1].combine
<1>1. pc = "recv" /\ unread = {} /\ errored = {}
  BY Zenon DEF Collected
<1>2. ~Routing /\ pc # "await" /\ pc # "failed" /\ pc \notin {"sending", "resending"}
  BY <1>1 DEF Routing
<1>3. batch = <<>> /\ \A d \in Dests : outbox[d] = <<>>
  BY <1>2, Zenon DEF KafkaInv, Phases
<1>4. /\ pending \in Seq(Entries) /\ Len(returned) \in Nat /\ taken - Len(batch) \in Nat
      /\ Numbered(pending, Len(returned), taken - Len(batch))
  BY <1>2, KafkaFacts, Zenon DEF KafkaInv, InTurn
<1>5. pending # <<>> /\ \A i \in 1..n : i \in DOMAIN pending /\ pending[i].st = "Received"
  BY Zenon DEF FrontReceived
<1>6. n \in Nat /\ n <= Len(pending)
  <2>1. Len(pending) \in Nat /\ Len(pending) # 0 /\ DOMAIN pending = 1..Len(pending)
    BY <1>4, <1>5, EntryFacts, EmptySeq, Zenon
  <2>2. 1 \in 1..Len(pending)
    BY <2>1
  <2>3. n \in Nat
    BY <1>4, <2>2, EntryFacts, Zenon
  <2>. HIDE DEF n
  <2>4. \A x, l \in Nat : (\A i \in 1..x : i \in 1..l) => x <= l
    <3>. SUFFICES ASSUME NEW x \in Nat, NEW l \in Nat, \A i \in 1..x : i \in 1..l PROVE x <= l
      OBVIOUS
    <3>1. x = 0 \/ x \in 1..x
      OBVIOUS
    <3>2. x = 0 \/ x \in 1..l
      BY <3>1
    <3>. QED BY <3>2
  <2>5. n <= Len(pending)
    BY <1>5, <2>1, <2>3, <2>4, Zenon
  <2>. QED BY <2>3, <2>5, Zenon
<1>7. IsGroup(pending, n, Len(returned) + 1)
  BY <1>4, <1>5, <1>6, FrontGroup, Zenon
<1>. QED BY <1>1, <1>2, <1>3, <1>4, <1>5, <1>6, <1>7, Zenon

\* The request at the front is returned.
LEMMA ReturnFrontKeeps ==
  ASSUME KafkaInv, ReturnFront
  PROVE  KafkaInv' /\ (ReturnedInOrder => ReturnedInOrder')
<1>. DEFINE n == pending[1].combine
            m == Len(returned)
            answer == [i \in 1..n |-> pending[i].resp]
            s == SubSeq(pending, n + 1, Len(pending))
<1>1. /\ Collected /\ FrontReceived /\ returned' = Append(returned, answer) /\ pending' = s
      /\ UNCHANGED <<kinds, taken, batch, auth_complete, conns, loopVars, pc, mixed>>
  BY Zenon DEF ReturnFront
<1>2. /\ pc = "recv" /\ unread = {} /\ errored = {} /\ batch = <<>>
      /\ ~Routing /\ pc # "await" /\ pc # "failed" /\ pc \notin {"sending", "resending"}
      /\ \A d \in Dests : outbox[d] = <<>>
      /\ pending # <<>> /\ n <= Len(pending)
      /\ Numbered(pending, m, taken - Len(batch)) /\ IsGroup(pending, n, m + 1)
      /\ \A i \in 1..n : pending[i].st = "Received"
  BY <1>1, FrontFacts, Zenon
<1>3. /\ pending \in Seq(Entries) /\ returned \in Seq(Answers) /\ m \in Nat
      /\ taken - Len(batch) \in Nat /\ Len(pending) \in Nat
  BY KafkaFacts, Zenon
<1>4. /\ n \in Nat /\ n # 0
      /\ \A i \in 1..n : pending[i].id = m + 1 /\ pending[i].part = i /\ i \in 1..Len(pending)
  BY <1>2, Zenon DEF IsGroup
<1>5. IsDrop(pending, n, s)
  BY <1>2, <1>3, <1>4, Dropped, Zenon
<1>6. ASSUME NEW i \in 1..n PROVE answer[i] = <<m + 1, i>> /\ answer[i] \in Tokens
  <2>1. pending[i].resp = Token(pending[i]) /\ Token(pending[i]) \in Tokens
    <3>1. i \in 1..Len(pending) /\ pending[i].st = "Received"
      BY <1>2, <1>4, Zenon
    <3>. QED BY <1>3, <3>1, EntryFacts, Zenon DEF KafkaInv, InTurn, Stored
  <2>2. Token(pending[i]) = <<m + 1, i>>
    BY <1>4, Zenon DEF Token
  <2>3. answer[i] = pending[i].resp
    BY Zenon
  <2>. QED BY <2>1, <2>2, <2>3, Zenon
<1>7. answer \in Answers /\ DOMAIN answer = 1..n
  <2>1. answer \in [1..n -> Tokens \cup {Nothing}]
    BY <1>6, Zenon
  <2>. HIDE DEF answer, n
  <2>2. answer \in Seq(Tokens \cup {Nothing})
    BY <1>4, <2>1
  <2>. QED BY <2>1, <2>2, Zenon DEF Answers
<1>. HIDE DEF s, answer
<1>8. /\ returned' \in Seq(Answers) /\ Len(returned') = m + 1 /\ returned'[m + 1] = answer
      /\ \A i \in 1..m : returned'[i] = returned[i]
      /\ DOMAIN returned = 1..m /\ DOMAIN returned' = 1..m + 1
  <2>. DEFINE A == Answers
  <2>1. returned \in Seq(A) /\ answer \in A
    BY <1>3, <1>7, Zenon
  <2>. HIDE DEF A, m
  <2>2. \A r \in Seq(A) : \A a \in A :
          /\ Append(r, a) \in Seq(A) /\ Len(Append(r, a)) = Len(r) + 1
          /\ Append(r, a)[Len(r) + 1] = a
          /\ \A i \in 1..Len(r) : Append(r, a)[i] = r[i]
          /\ DOMAIN r = 1..Len(r) /\ DOMAIN Append(r, a) = 1..Len(r) + 1
    OBVIOUS
  <2>. QED BY <1>1, <2>1, <2>2, Zenon DEF A, m
<1>9. ReturnedInOrder => ReturnedInOrder'
  <2>. SUFFICES ASSUME ReturnedInOrder, NEW j \in 1..m + 1, NEW i \in DOMAIN returned'[j]
                PROVE  returned'[j][i] = <<j, i>>
    BY <1>8, Zenon DEF ReturnedInOrder
  <2>1. j \in 1..m \/ j = m + 1
    BY <1>3
  <2>2. CASE j \in 1..m
    BY <1>8, <2>2, Zenon DEF ReturnedInOrder
  <2>3. CASE j = m + 1
    BY <1>6, <1>7, <1>8, <2>3, Zenon
  <2>. QED BY <2>1, <2>2, <2>3
<1>10. /\ pending' \in Seq(Entries)
       /\ \A k \in 1..Len(pending') : pending'[k] = pending[n + k] /\ n + k \in 1..Len(pending)
  BY <1>1, <1>5, Zenon DEF IsDrop
<1>11. KafkaTypes'
  BY <1>1, <1>2, <1>8, <1>10, Zenon DEF KafkaInv, KafkaTypes, loopVars
<1>12. ~Routing' /\ pc' # "route"
  BY <1>1, <1>2 DEF Routing
<1>13. Phases'
  BY <1>1, <1>2, <1>12, Zenon DEF Phases, loopVars
<1>14. InTurn'
  <2>1. Numbered(pending', m + 1, taken - Len(batch))
    BY <1>1, <1>2, <1>3, <1>5, NumberedDrop, Zenon
  <2>2. m + 1 <= taken - Len(batch)
    <3>1. 1 \in 1..n
      BY <1>4
    <3>2. pending[1].id = m + 1 /\ 1 \in 1..Len(pending)
      BY <1>4, <3>1, Zenon
    <3>. QED BY <1>2, <3>2, PendingIsLater, Zenon
  <2>3. Stored(pending')
    BY <1>10, Zenon DEF KafkaInv, InTurn, Stored
  <2>. QED BY <1>1, <1>8, <2>1, <2>2, <2>3, Zenon DEF KafkaInv, InTurn
<1>15. Handshake'
  BY <1>1, <1>10, <1>12, Zenon DEF KafkaInv, Handshake, ControlOnly, NoControl
<1>16. OwedExactly'
  <2>1. ASSUME NEW d \in Dests PROVE Exact(pending', d, Owed(conns'[d]) \o outbox'[d])
    <3>1. Exact(pending, d, Owed(conns[d]) \o outbox[d])
      BY <1>2, Zenon DEF KafkaInv, OwedExactly
    <3>2. \A k \in 1..n : ~IsSent(pending[k], d)
      <4>1. "Received" # "Sent"
        OBVIOUS
      <4>. QED BY <1>2, <4>1, Zenon DEF IsSent
    <3>3. Exact(pending', d, Owed(conns[d]) \o outbox[d])
      BY <1>1, <1>3, <1>4, <1>5, <3>1, <3>2, ExactDrop, Zenon
    <3>. QED BY <1>1, <3>3, Zenon DEF loopVars
  <2>. QED BY <1>1, <1>2, <2>1, Zenon DEF OwedExactly
<1>17. (\A d \in Dests : Drained(conns[d]))'
  BY <1>1, Zenon DEF KafkaInv
<1>. QED BY <1>9, <1>11, <1>13, <1>14, <1>15, <1>16, <1>17 DEF KafkaInv

\* The fetch at the front is routed again.
LEMMA RefetchKeeps ==
  ASSUME KafkaInv, Refetch
  PROVE  KafkaInv'
<1>. DEFINE n == pending[1].combine
            L == Len(pending)
            again(e) == [e EXCEPT !.st = "Routed", !.resp = Nothing]
<1>1. /\ Collected /\ FrontReceived /\ pc' = "resend"
      /\ pending' = [k \in DOMAIN pending |->
                       IF k <= n THEN again(pending[k]) ELSE pending[k]]
      /\ UNCHANGED <<clientVars, conns, loopVars, mixed>>
  BY Zenon DEF Refetch
<1>2. /\ unread = {} /\ errored = {} /\ batch = <<>>
      /\ ~Routing /\ pc # "await" /\ pc # "failed"
      /\ \A d \in Dests : outbox[d] = <<>>
      /\ IsGroup(pending, n, Len(returned) + 1)
      /\ \A i \in 1..n : pending[i].st = "Received"
  BY <1>1, FrontFacts, Zenon
<1>3. pending \in Seq(Entries) /\ L \in Nat /\ DOMAIN pending = 1..L /\ n \in Nat
  BY <1>2, KafkaFacts, EntryFacts, Zenon DEF IsGroup
<1>4. ASSUME NEW e \in Entries
      PROVE  /\ again(e) \in Entries /\ again(e).id = e.id /\ again(e).part = e.part
             /\ again(e).combine = e.combine /\ again(e).dest = e.dest
             /\ again(e).st = "Routed"
  BY Zenon DEF Entries
<1>. HIDE DEF again
<1>5. ASSUME NEW k \in 1..L
      PROVE  \/ pending'[k] = pending[k] /\ k \notin 1..n
             \/ pending'[k] = again(pending[k]) /\ pending[k].st = "Received"
  <2>1. k <= n <=> k \in 1..n
    BY <1>3
  <2>. QED BY <1>1, <1>2, <1>3, <2>1, Zenon
<1>6. ASSUME NEW k \in 1..L
      PROVE  /\ pending'[k] \in Entries
             /\ pending'[k].id = pending[k].id /\ pending'[k].part = pending[k].part
             /\ pending'[k].combine = pending[k].combine /\ pending'[k].dest = pending[k].dest
  <2>1. pending[k] \in Entries
    BY <1>3, EntryFacts, Zenon
  <2>. QED BY <1>4, <1>5, <2>1, Zenon
<1>7. pending' \in Seq(Entries) /\ Len(pending') = L
  <2>1. pending' \in [1..L -> Entries]
    BY <1>1, <1>3, <1>6, Zenon
  <2>. HIDE DEF L
  <2>2. L \in Nat
    BY <1>3, Zenon
  <2>. QED BY <2>1, <2>2
<1>8. SameRequests(pending, pending')
  BY <1>6, <1>7, Zenon DEF SameRequests
<1>9. "Routed" # "Received" /\ "Routed" # "Sent" /\ "Received" # "Sent"
  OBVIOUS
<1>10. \A k \in 1..L : pending[k] \in Entries
  BY <1>3, EntryFacts, Zenon
<1>11. Stored(pending')
  <2>1. ASSUME NEW k \in 1..L, pending'[k].st = "Received" PROVE pending'[k] = pending[k]
    BY <1>4, <1>5, <1>9, <1>10, <2>1, Zenon
  <2>. QED BY <1>7, <2>1, Zenon DEF KafkaInv, InTurn, Stored
<1>12. ~Routing' /\ pc' # "await" /\ pc' # "recv" /\ pc' \notin {"sending", "resending"}
       /\ pc' \in Pcs \ {"panic"}
  BY <1>1 DEF Routing, Pcs
<1>13. InTurn' /\ Handshake'
  BY <1>1, <1>2, <1>7, <1>8, <1>11, <1>12, SameRequestsKeep, Zenon
<1>14. KafkaTypes'
  BY <1>1, <1>7, <1>12, Zenon DEF KafkaInv, KafkaTypes, clientVars, loopVars
<1>15. Phases'
  BY <1>1, <1>2, <1>12, Zenon DEF Phases, clientVars, loopVars
<1>16. ASSUME NEW d \in Dests PROVE Exact(pending', d, Owed(conns'[d]) \o outbox'[d])
  <2>1. Exact(pending, d, Owed(conns[d]) \o outbox[d])
    BY <1>2, Zenon DEF KafkaInv, OwedExactly
  <2>2. ASSUME NEW k \in 1..L
        PROVE  /\ IsSent(pending'[k], d) <=> IsSent(pending[k], d)
               /\ IsSent(pending[k], d) => /\ pending'[k].index = pending[k].index
                                           /\ Token(pending'[k]) = Token(pending[k])
    BY <1>4, <1>5, <1>9, <1>10, Zenon DEF IsSent
  <2>3. Exact(pending', d, Owed(conns[d]) \o outbox[d])
    BY <1>7, <2>1, <2>2, ExactSame, Zenon
  <2>. QED BY <1>1, <2>3, Zenon DEF loopVars
<1>17. OwedExactly'
  BY <1>12, <1>16, Zenon DEF OwedExactly
<1>18. (\A d \in Dests : Drained(conns[d]))'
  BY <1>1, Zenon DEF KafkaInv
<1>. QED BY <1>13, <1>14, <1>15, <1>17, <1>18 DEF KafkaInv

-------------------------------------------------------------------------------
(* The brokers. *)

\* b is the connection a with the same requests.
SameQueues(a, b) ==
    /\ b \in Seq(Connection) /\ Len(b) = Len(a)
    /\ \A i \in 1..Len(a) : b[i].q = a[i].q /\ b[i].ready <= Len(b[i].q)

\* Answers that arrive and errors that are noticed leave alone what is owed.
LEMMA SameQueuesOwe ==
  ASSUME NEW a \in Seq(Connection), Drained(a), NEW b, SameQueues(a, b)
  PROVE  Drained(b) /\ Owed(b) = Owed(a) /\ (a # <<>> => b # <<>>)
<1>1. /\ b \in Seq(Connection) /\ Len(b) = Len(a)
      /\ \A i \in 1..Len(a) : b[i].q = a[i].q /\ b[i].ready <= Len(b[i].q)
  BY Zenon DEF SameQueues
<1>2. a = <<>> <=> b = <<>>
  <2>1. (a = <<>> <=> Len(a) = 0) /\ (b = <<>> <=> Len(b) = 0)
    BY <1>1, EmptySeq, Zenon
  <2>. QED BY <1>1, <2>1, Zenon
<1>3. Len(a) \in Nat /\ Len(a) <= 2
  BY LenProperties, Zenon DEF Drained
<1>4. /\ Len(a) = 2 => 1 \in 1..Len(a) /\ 2 \in 1..Len(a)
      /\ Len(a) = 1 => 1 \in 1..Len(a)
      /\ Len(a) # 0 /\ Len(a) # 1 => Len(a) = 2
  <2>1. \A n \in Nat : n <= 2 => /\ n = 2 => 1 \in 1..n /\ 2 \in 1..n
                                 /\ n = 1 => 1 \in 1..n
                                 /\ n # 0 /\ n # 1 => n = 2
    OBVIOUS
  <2>. QED BY <1>3, <2>1, Zenon
<1>5. Drained(b)
  BY <1>1, <1>4, Zenon DEF Drained
<1>6. Owed(b) = Owed(a)
  <2>1. CASE a = <<>>
    BY <1>2, <2>1, Zenon
  <2>2. CASE a # <<>> /\ Len(a) = 1
    BY <1>1, <1>2, <1>4, <2>2, Zenon DEF Owed
  <2>3. CASE a # <<>> /\ Len(a) # 1
    <3>1. Len(a) = 2
      BY <1>4, <2>3, EmptySeq, Zenon
    <3>2. b[1].q = a[1].q /\ b[2].q = a[2].q
      BY <1>1, <1>4, <3>1, Zenon
    <3>. QED BY <1>1, <1>2, <2>3, <3>2, Zenon DEF Owed
  <2>. QED BY <2>1, <2>2, <2>3
<1>. QED BY <1>2, <1>5, <1>6

\* One of the connections changes so.
LEMMA SameQueuesAt ==
  ASSUME NEW a \in Seq(Connection), Drained(a), NEW i \in 1..Len(a), NEW x \in Connection,
         x.q = a[i].q, x.ready <= Len(x.q)
  PROVE  SameQueues(a, [a EXCEPT ![i] = x])
<1>. DEFINE b == [a EXCEPT ![i] = x]
            S == Connection
<1>0. a \in Seq(S) /\ x \in S
  OBVIOUS
<1>. HIDE DEF S
<1>1. b \in Seq(S) /\ Len(b) = Len(a) /\ b[i] = x /\ \A j \in 1..Len(a) : j # i => b[j] = a[j]
  BY <1>0
<1>. HIDE DEF b
<1>2. \A j \in 1..Len(a) : a[j].ready <= Len(a[j].q)
  BY Zenon DEF Drained
<1>3. ASSUME NEW j \in 1..Len(a) PROVE b[j].q = a[j].q /\ b[j].ready <= Len(b[j].q)
  BY <1>1, <1>2, Zenon
<1>. QED BY <1>1, <1>3, Zenon DEF SameQueues, S, b

\* A step of the brokers.
LEMMA BrokerStepKeeps ==
  ASSUME KafkaInv, UNCHANGED <<clientVars, pending, loopVars, pc, mixed>>, DOMAIN conns' = Dests,
         conns' = [d \in Dests |-> conns'[d]],
         \A d \in Dests : conns'[d] = conns[d] \/ SameQueues(conns[d], conns'[d])
  PROVE  KafkaInv'
<1>1. ASSUME NEW d \in Dests
      PROVE  /\ conns'[d] \in Seq(Connection)
             /\ Drained(conns'[d]) /\ Owed(conns'[d]) = Owed(conns[d])
             /\ conns[d] # <<>> => conns'[d] # <<>>
  <2>1. conns[d] \in Seq(Connection) /\ Drained(conns[d])
    BY KafkaFacts, Zenon
  <2>2. CASE conns'[d] = conns[d]
    BY <2>1, <2>2, Zenon
  <2>3. CASE SameQueues(conns[d], conns'[d])
    <3>1. conns'[d] \in Seq(Connection)
      BY <2>3, Zenon DEF SameQueues
    <3>. QED BY <2>1, <2>3, <3>1, SameQueuesOwe, Zenon
  <2>. QED BY <2>2, <2>3, Zenon
<1>2. conns' \in [Dests -> Seq(Connection)]
  BY <1>1, Zenon
<1>. QED BY <1>1, <1>2, BrokersKeep, Zenon

\* An answer arrives, a connection breaks, or a broker goes away.
LEMMA BrokersStepKeeps ==
  ASSUME KafkaInv, BrokerStep
  PROVE  KafkaInv'
<1>0. conns = [d \in Dests |-> conns[d]] /\ DOMAIN conns = Dests
  BY Zenon DEF KafkaInv, KafkaTypes
<1>1. ASSUME NEW d \in Dests, BrokerAnswer(d) PROVE KafkaInv'
  <2>1. PICK i \in DOMAIN conns[d] :
           /\ conns[d][i].ready < Len(conns[d][i].q)
           /\ conns' = [conns EXCEPT ![d][i].ready = @ + 1]
    BY <1>1, Zenon DEF BrokerAnswer
  <2>. DEFINE c == conns[d]
              x == c[i]
              y == [x EXCEPT !.ready = x.ready + 1]
              b == [c EXCEPT ![i] = y]
  <2>2. conns' = [conns EXCEPT ![d] = b]
    BY <2>1
  <2>3. c \in Seq(Connection) /\ Drained(c)
    BY KafkaFacts, Zenon
  <2>4. x \in Connection /\ x.ready < Len(x.q) /\ i \in 1..Len(c)
    <3>1. i \in 1..Len(c) /\ x \in Connection
      BY <2>3, LenProperties, ElementOfSeq, Zenon
    <3>. QED BY <2>1, <3>1, Zenon
  <2>. HIDE DEF x
  <2>5. y \in Connection /\ y.q = x.q /\ y.ready <= Len(x.q)
    <3>1. x.ready \in Nat /\ Len(x.q) \in Nat
      <4>1. x.ready \in Nat /\ x.q \in Seq(Tokens)
        BY <2>4 DEF Connection
      <4>. QED BY <4>1, LenProperties, Zenon
    <3>2. y \in Connection /\ y.q = x.q /\ y.ready = x.ready + 1
      BY <2>4, <3>1 DEF Connection
    <3>3. x.ready + 1 <= Len(x.q)
      BY <2>4, <3>1
    <3>. QED BY <3>2, <3>3, Zenon
  <2>. HIDE DEF y
  <2>6. SameQueues(c, b)
    BY <2>3, <2>4, <2>5, SameQueuesAt, Zenon DEF x
  <2>. HIDE DEF b
  <2>7. /\ conns' = [e \in Dests |-> conns'[e]] /\ DOMAIN conns' = Dests
        /\ \A e \in Dests : conns'[e] = conns[e] \/ SameQueues(conns[e], conns'[e])
    BY <1>0, <2>2, <2>6, Zenon
  <2>8. UNCHANGED <<clientVars, pending, loopVars, pc, mixed>>
    BY <1>1, Zenon DEF BrokerAnswer, Unchanged_Transform
  <2>. QED BY <2>7, <2>8, BrokerStepKeeps, Zenon
<1>2. ASSUME NEW d \in Dests, ConnectionBreaks(d) PROVE KafkaInv'
  <2>1. PICK i \in DOMAIN conns[d] : conns' = [conns EXCEPT ![d][i].err = TRUE]
    BY <1>2, Zenon DEF ConnectionBreaks
  <2>. DEFINE c == conns[d]
              x == c[i]
              y == [x EXCEPT !.err = TRUE]
              b == [c EXCEPT ![i] = y]
  <2>2. conns' = [conns EXCEPT ![d] = b]
    BY <2>1
  <2>3. c \in Seq(Connection) /\ Drained(c)
    BY KafkaFacts, Zenon
  <2>4. x \in Connection /\ x.ready <= Len(x.q) /\ i \in 1..Len(c)
    <3>1. i \in 1..Len(c) /\ x \in Connection
      BY <2>3, LenProperties, ElementOfSeq, Zenon
    <3>. QED BY <2>3, <3>1, Zenon DEF Drained
  <2>. HIDE DEF x
  <2>5. y \in Connection /\ y.q = x.q /\ y.ready <= Len(x.q)
    <3>1. y \in Connection /\ y.q = x.q /\ y.ready = x.ready
      BY <2>4, ZenonT(30) DEF Connection
    <3>. QED BY <2>4, <3>1, Zenon
  <2>. HIDE DEF y
  <2>6. SameQueues(c, b)
    BY <2>3, <2>4, <2>5, SameQueuesAt, Zenon DEF x
  <2>. HIDE DEF b
  <2>7. /\ conns' = [e \in Dests |-> conns'[e]] /\ DOMAIN conns' = Dests
        /\ \A e \in Dests : conns'[e] = conns[e] \/ SameQueues(conns[e], conns'[e])
    BY <1>0, <2>2, <2>6, Zenon
  <2>8. UNCHANGED <<clientVars, pending, loopVars, pc, mixed>>
    BY <1>2, Zenon DEF ConnectionBreaks, Unchanged_Transform
  <2>. QED BY <2>7, <2>8, BrokerStepKeeps, Zenon
<1>3. ASSUME NEW b \in Brokers, BrokerUnreachable(b) PROVE KafkaInv'
  <2>. DEFINE broken(c) == [i \in DOMAIN c |-> [c[i] EXCEPT !.err = TRUE]]
  <2>1. /\ conns' = [d \in Dests |-> IF d = b \/ (d = Control /\ control_addr = b)
                                     THEN broken(conns[d]) ELSE conns[d]]
        /\ UNCHANGED <<clientVars, pending, loopVars, pc, mixed>>
    BY <1>3, Zenon DEF BrokerUnreachable, Unchanged_Transform
  <2>2. ASSUME NEW c \in Seq(Connection), Drained(c) PROVE SameQueues(c, broken(c))
    <3>. DEFINE k == broken(c)
    <3>1. Len(c) \in Nat /\ DOMAIN c = 1..Len(c) /\ \A i \in 1..Len(c) : c[i] \in Connection
      BY LenProperties, ElementOfSeq, Zenon
    <3>2. ASSUME NEW x \in Connection
          PROVE  /\ [x EXCEPT !.err = TRUE] \in Connection /\ [x EXCEPT !.err = TRUE].q = x.q
                 /\ [x EXCEPT !.err = TRUE].ready = x.ready
      BY ZenonT(30) DEF Connection
    <3>3. ASSUME NEW i \in 1..Len(c)
          PROVE  k[i] \in Connection /\ k[i].q = c[i].q /\ k[i].ready = c[i].ready
      <4>1. k[i] = [c[i] EXCEPT !.err = TRUE] /\ c[i] \in Connection
        BY <3>1, Zenon
      <4>. QED BY <3>2, <4>1, Zenon
    <3>4. k \in [1..Len(c) -> Connection]
      BY <3>1, <3>3, Zenon
    <3>. HIDE DEF k
    <3>5. k \in Seq(Connection) /\ Len(k) = Len(c)
      <4>. DEFINE n == Len(c)
                  S == Connection
      <4>1. n \in Nat /\ k \in [1..n -> S]
        BY <3>1, <3>4, Zenon
      <4>. HIDE DEF n, S
      <4>2. k \in Seq(S) /\ Len(k) = n
        BY <4>1
      <4>. QED BY <4>2, Zenon DEF n, S
    <3>6. \A i \in 1..Len(c) : c[i].ready <= Len(c[i].q)
      BY <2>2, Zenon DEF Drained
    <3>7. SameQueues(c, k)
      BY <3>3, <3>5, <3>6, Zenon DEF SameQueues
    <3>. QED BY <3>7, Zenon DEF k
  <2>. HIDE DEF broken
  <2>3. /\ conns' = [e \in Dests |-> conns'[e]] /\ DOMAIN conns' = Dests
        /\ \A e \in Dests : conns'[e] = conns[e] \/ conns'[e] = broken(conns[e])
    BY <2>1, Zenon
  <2>4. \A e \in Dests : conns[e] \in Seq(Connection) /\ Drained(conns[e])
    BY KafkaFacts, Zenon
  <2>5. \A e \in Dests : conns'[e] = conns[e] \/ SameQueues(conns[e], conns'[e])
    BY <2>2, <2>3, <2>4, Zenon
  <2>. QED BY <2>1, <2>3, <2>5, BrokerStepKeeps, Zenon
<1>. QED BY <1>1, <1>2, <1>3, Zenon DEF BrokerStep

-------------------------------------------------------------------------------
(* The theorems. *)

\* Every step keeps the invariant.
LEMMA KafkaStep ==
  ASSUME ~Pipelined, KafkaInv, [Next]_vars
  PROVE  KafkaInv'
<1>1. CASE UNCHANGED vars
  <2>1. UNCHANGED <<clientVars, pending, loopVars, pc, mixed, conns>>
    BY <1>1, Zenon DEF vars
  <2>2. conns' \in [Dests -> Seq(Connection)]
    BY <2>1, Zenon DEF KafkaInv, KafkaTypes
  <2>3. \A d \in Dests : Drained(conns'[d])
    BY <2>1, Zenon DEF KafkaInv
  <2>. QED BY <2>1, <2>2, <2>3, BrokersKeep, Zenon
<1>2. ASSUME NEW n \in 1..Len(kinds), Begin(n) PROVE KafkaInv'
  BY <1>2, BeginKeeps, Zenon
<1>3. CASE TransformStep
  <2>1. CASE RouteHandshake
    BY <2>1, RouteHandshakeKeeps, Zenon
  <2>2. CASE RouteMeta \/ SendDone \/ ForceRun \/ ReturnDone
    BY <2>2, BetweenKeeps, Zenon
  <2>3. CASE ControlSend
    BY <2>3, ControlSendKeeps, Zenon
  <2>4. CASE ControlRecv
    BY <2>4, ControlRecvKeeps, Zenon
  <2>5. CASE RoutePush
    BY <2>5, RoutePushKeeps, Zenon
  <2>6. CASE SendRequests
    BY <2>6, SendRequestsKeeps, Zenon
  <2>7. CASE ReturnFront
    BY <2>7, ReturnFrontKeeps, Zenon
  <2>8. CASE Refetch
    BY <2>8, RefetchKeeps, Zenon
  <2>9. ASSUME NEW d \in Dests, SendTo(d) PROVE KafkaInv'
    BY <2>9, SendToKeeps, Zenon
  <2>10. ASSUME NEW d \in Dests, SendToBroken(d) PROVE KafkaInv'
    <3>1. Fail /\ UNCHANGED <<kinds, taken, returned, mixed>>
      BY <2>10, Zenon DEF SendToBroken
    <3>. QED BY <3>1, FailKeeps, Zenon
  <2>11. ASSUME NEW d \in Dests, RecvFrom(d) PROVE KafkaInv'
    BY <2>11, RecvFromKeeps, Zenon
  <2>12. ASSUME NEW d \in Dests, HandleErrored(d) PROVE KafkaInv'
    BY <2>12, HandleErroredKeeps, Zenon
  <2>. QED BY <1>3, <2>1, <2>2, <2>3, <2>4, <2>5, <2>6, <2>7, <2>8, <2>9, <2>10, <2>11, <2>12, Zenon
           DEF TransformStep
<1>4. CASE BrokerStep
  BY <1>4, BrokersStepKeeps, Zenon
<1>. QED BY <1>1, <1>2, <1>3, <1>4, Zenon DEF Next, Finished

\* The invariant holds of a client that waits for its handshake.
LEMMA KafkaAlways == ASSUME ~Pipelined PROVE Spec => []KafkaInv
<1>1. KafkaInv /\ [Next]_vars => KafkaInv'
  BY KafkaStep
<1>. QED BY <1>1, KafkaInit, PTL DEF Spec

\* The transform never panics over the handshake, and control_send_receive
\* never takes the response to another request for its own: the control
\* connection is handed over from the handshake to the lookups only when the
\* handshake is answered.
THEOREM ControlIsSeparate == ASSUME ~Pipelined PROVE Spec => [](NoPanic /\ ControlNotMixed)
<1>1. KafkaInv => NoPanic /\ ControlNotMixed
  BY DEF KafkaInv, KafkaTypes, NoPanic, ControlNotMixed
<1>. QED BY <1>1, KafkaAlways, PTL

\* What is returned changes only where a request is returned.
LEMMA ReturnedStep ==
  ASSUME KafkaInv, ReturnedInOrder, [Next]_vars
  PROVE  ReturnedInOrder'
<1>1. CASE ReturnFront
  BY <1>1, ReturnFrontKeeps, Zenon
<1>2. CASE returned' = returned
  BY <1>2, Zenon DEF ReturnedInOrder
<1>3. ReturnFront \/ returned' = returned
  <2>1. CASE UNCHANGED vars
    BY <2>1, Zenon DEF vars, clientVars
  <2>2. ASSUME NEW n \in 1..Len(kinds), Begin(n) PROVE returned' = returned
    BY <2>2, Zenon DEF Begin
  <2>3. ASSUME TransformStep PROVE ReturnFront \/ returned' = returned
    <3>1. RouteHandshake \/ RouteMeta \/ ControlSend \/ ControlRecv \/ RoutePush
             => returned' = returned
      BY Zenon DEF RouteHandshake, RouteMeta, ControlSend, ControlRecv, RoutePush, clientVars
    <3>2. SendRequests \/ SendDone \/ ForceRun \/ Refetch \/ ReturnDone => returned' = returned
      BY Zenon DEF SendRequests, SendDone, ForceRun, Refetch, ReturnDone, clientVars
    <3>3. \A d \in Dests : SendTo(d) \/ SendToBroken(d) \/ RecvFrom(d) \/ HandleErrored(d)
             => returned' = returned
      BY Zenon DEF SendTo, SendToBroken, RecvFrom, HandleErrored, clientVars
    <3>. QED BY <2>3, <3>1, <3>2, <3>3, Zenon DEF TransformStep
  <2>4. CASE BrokerStep
    BY <2>4, Zenon DEF BrokerStep, BrokerAnswer, ConnectionBreaks, BrokerUnreachable,
                       Unchanged_Transform, clientVars
  <2>. QED BY <2>1, <2>2, <2>3, <2>4, Zenon DEF Next, Finished
<1>. QED BY <1>1, <1>2, <1>3

\* The n-th response that the client gets answers its n-th request, with all
\* the parts' own responses in the order of the parts, whatever the order in
\* which brokers answer, connections break and fetches are repeated.
THEOREM AnswersInOrder == ASSUME ~Pipelined PROVE Spec => []ReturnedInOrder
<1>1. Init => ReturnedInOrder
  <2>1. DOMAIN <<>> = {}
    OBVIOUS
  <2>. QED BY <2>1, Zenon DEF Init, ReturnedInOrder
<1>2. KafkaInv /\ ReturnedInOrder /\ [Next]_vars => ReturnedInOrder'
  BY ReturnedStep
<1>. QED BY <1>1, <1>2, KafkaAlways, PTL DEF Spec

\* A transform that failed is dropped with its requests.
FailedIsEmpty == pc = "failed" => pending = <<>>

\* A step fails, and drops them, or does not fail.
LEMMA FailedStep ==
  ASSUME FailedIsEmpty, [Next]_vars
  PROVE  FailedIsEmpty'
<1>. DEFINE Kept == pc' = pc /\ pending' = pending
            Ok == pc' # "failed" \/ pending' = <<>> \/ Kept
<1>1. ASSUME Fail PROVE Ok
  BY <1>1, Zenon DEF Fail
<1>2. CASE UNCHANGED vars
  <2>1. Kept
    BY <1>2, Zenon DEF vars
  <2>. QED BY <2>1, Zenon DEF FailedIsEmpty
<1>3. ASSUME Ok PROVE FailedIsEmpty'
  BY <1>3, Zenon DEF FailedIsEmpty
<1>4. ASSUME NEW n \in 1..Len(kinds), Begin(n) PROVE Ok
  BY <1>4 DEF Begin
<1>5. ASSUME BrokerStep PROVE Kept
  BY <1>5, Zenon DEF BrokerStep, BrokerAnswer, ConnectionBreaks, BrokerUnreachable, Unchanged_Transform
<1>6. ASSUME TransformStep PROVE Ok
  <2>1. ASSUME RouteHandshake PROVE Ok
    <3>1. Fail \/ pc' \in {"panic", "meta", "send"}
      BY <2>1, ZenonT(30) DEF RouteHandshake
    <3>. QED BY <1>1, <3>1
  <2>2. ASSUME RouteMeta \/ RoutePush \/ SendRequests \/ SendDone \/ ForceRun \/ Refetch \/ ReturnDone
        PROVE  pc' # "failed"
    BY <2>2, ZenonT(30) DEF RouteMeta, RoutePush, SendRequests, SendDone, ForceRun, Refetch, ReturnDone
  <2>3. ASSUME NEW a, NEW c, ControlErr(a, c) PROVE Fail \/ pc' = "control"
    BY <2>3, Zenon DEF ControlErr
  <2>4. ASSUME ControlSend PROVE Ok
    <3>1. Fail \/ pc' \in {"control", "await"}
      BY <2>3, <2>4, Zenon DEF ControlSend
    <3>. QED BY <1>1, <3>1
  <2>5. ASSUME ControlRecv PROVE Ok
    <3>1. Fail \/ pc' \in {"control", "push"}
      BY <2>3, <2>5, Zenon DEF ControlRecv
    <3>. QED BY <1>1, <3>1
  <2>6. ASSUME ReturnFront PROVE pc' # "failed"
    BY <2>6 DEF ReturnFront, Collected
  <2>7. ASSUME NEW d \in Dests, SendTo(d) \/ SendToBroken(d) \/ RecvFrom(d) \/ HandleErrored(d)
        PROVE  Ok
    <3>1. CASE SendTo(d)
      BY <1>1, <3>1, Zenon DEF SendTo
    <3>2. CASE SendToBroken(d)
      BY <1>1, <3>2, Zenon DEF SendToBroken
    <3>3. CASE RecvFrom(d)
      BY <3>3 DEF RecvFrom
    <3>4. CASE HandleErrored(d)
      BY <1>1, <3>4, Zenon DEF HandleErrored
    <3>. QED BY <2>7, <3>1, <3>2, <3>3, <3>4
  <2>. HIDE DEF Ok
  <2>8. pc' # "failed" => Ok
    BY DEF Ok
  <2>. QED BY <1>6, <2>1, <2>2, <2>4, <2>5, <2>6, <2>7, <2>8, Zenon DEF TransformStep
<1>. QED BY <1>2, <1>3, <1>4, <1>5, <1>6, Zenon DEF Next, Finished

\* The requests of the client that a connection owes are all it owes, except
\* while it owes the answer to a control request.
LEMMA OutstandingIs ==
  ASSUME KafkaInv, FailedIsEmpty, NEW d \in Dests, d \notin errored
  PROVE  Outstanding(d) \in Seq(Tokens) /\ Exact(pending, d, Outstanding(d))
<1>. DEFINE q == Owed(conns[d])
            o == outbox[d]
<1>1. q \in Seq(Tokens) /\ o \in Seq(Tokens) /\ q \o o \in Seq(Tokens) /\ pending \in Seq(Entries)
  BY KafkaFacts, Zenon
<1>2. CASE d = Control /\ pc = "await"
  <2>1. q = <<CtlToken>> /\ Exact(pending, Control, <<>>)
    BY <1>2, Zenon DEF KafkaInv, OwedExactly
  <2>2. o = <<>>
    <3>1. pc \notin {"sending", "resending"}
      BY <1>2
    <3>. QED BY <3>1, Zenon DEF KafkaInv, Phases
  <2>3. WithoutControl(<<CtlToken>>) = <<>>
    BY DEF WithoutControl
  <2>4. <<>> \o <<>> = <<>> /\ <<>> \in Seq(Tokens)
    OBVIOUS
  <2>. QED BY <1>2, <2>1, <2>2, <2>3, <2>4, Zenon DEF Outstanding
<1>3. CASE d # Control \/ pc # "await"
  <2>1. Exact(pending, d, q \o o)
    BY <1>3, Zenon DEF KafkaInv, OwedExactly
  <2>. HIDE DEF q, o
  <2>2. ASSUME q # <<>> PROVE q[Len(q)] # CtlToken
    <3>. DEFINE l == Len(q)
    <3>1. l \in Nat /\ l # 0 /\ l <= Len(q \o o) /\ (q \o o)[l] = q[l] /\ Len(q \o o) \in Nat
      <4>1. \A a, b \in Seq(Tokens) : a # <<>> =>
              /\ Len(a) \in Nat /\ Len(a) # 0 /\ Len(a) <= Len(a \o b)
              /\ (a \o b)[Len(a)] = a[Len(a)] /\ Len(a \o b) \in Nat
        <5>. SUFFICES ASSUME NEW T, NEW a \in Seq(T), NEW b \in Seq(T), a # <<>>
                      PROVE  /\ Len(a) \in Nat /\ Len(a) # 0 /\ Len(a) <= Len(a \o b)
                             /\ (a \o b)[Len(a)] = a[Len(a)] /\ Len(a \o b) \in Nat
          BY Zenon
        <5>. QED OBVIOUS
      <4>. QED BY <1>1, <2>2, <4>1, Zenon
    <3>2. l \in 1..Len(q \o o) /\ (l - 1) + 1 = l
      BY <3>1
    <3>3. PICK k \in 1..Len(pending) : IsSent(pending[k], d) /\ pending[k].index = l - 1
      BY <2>1, <3>2, Zenon DEF Exact
    <3>4. (q \o o)[pending[k].index + 1] = Token(pending[k])
      BY <2>1, <3>3, Zenon DEF Exact
    <3>5. q[l] = Token(pending[k])
      BY <3>1, <3>2, <3>3, <3>4, Zenon
    <3>6. pc # "failed"
      <4>1. pc = "failed" => Len(pending) = 0
        BY <1>1, EmptySeq, Zenon DEF FailedIsEmpty
      <4>2. 1..0 = {}
        OBVIOUS
      <4>. QED BY <4>1, <4>2, Zenon
    <3>7. pending[k].id \in 1..taken /\ taken \in Nat
      BY <3>6, PendingIsLater, KafkaFacts, Zenon
    <3>8. pending[k].id # 0
      BY <3>7
    <3>9. Token(pending[k]) # CtlToken
      BY <3>8 DEF Token, CtlToken
    <3>. QED BY <3>5, <3>9, Zenon
  <2>3. WithoutControl(q) = q
    BY <2>2, Zenon DEF WithoutControl
  <2>. QED BY <1>1, <2>1, <2>3, Zenon DEF Outstanding, q, o
<1>. QED BY <1>2, <1>3, Zenon

\* The index of every sent request is the exact number of responses that its
\* connection owes before the request's own, and no connection owes a response
\* that no request waits for: recv_responses neither panics, drops a response
\* nor stores one with the wrong request.
THEOREM IndicesAreExact == ASSUME ~Pipelined PROVE Spec => []IndexExact
<1>1. Init => FailedIsEmpty
  BY DEF Init, FailedIsEmpty
<1>2. FailedIsEmpty /\ [Next]_vars => FailedIsEmpty'
  BY FailedStep
<1>3. ASSUME KafkaInv, FailedIsEmpty PROVE IndexExact
  <2>. SUFFICES ASSUME NEW d \in Dests \ errored
                PROVE  LET sent == {k \in DOMAIN pending : IsSent(pending[k], d)}
                       IN /\ Cardinality(sent) = Len(Outstanding(d))
                          /\ \A k \in sent :
                                /\ pending[k].index < Len(Outstanding(d))
                                /\ Outstanding(d)[pending[k].index + 1] = Token(pending[k])
    BY Zenon DEF IndexExact
  <2>1. Outstanding(d) \in Seq(Tokens) /\ Exact(pending, d, Outstanding(d))
    BY <1>3, OutstandingIs, Zenon
  <2>2. pending \in Seq(Entries) /\ DOMAIN pending = 1..Len(pending)
    BY <1>3, KafkaFacts, EntryFacts, Zenon
  <2>3. Cardinality({k \in DOMAIN pending : IsSent(pending[k], d)}) = Len(Outstanding(d))
    BY <2>1, <2>2, ExactCount, Zenon
  <2>4. ASSUME NEW k \in DOMAIN pending, IsSent(pending[k], d)
        PROVE  /\ pending[k].index < Len(Outstanding(d))
               /\ Outstanding(d)[pending[k].index + 1] = Token(pending[k])
    BY <2>1, <2>2, <2>4, Zenon DEF Exact
  <2>. QED BY <2>3, <2>4, Zenon
<1>. QED BY <1>1, <1>2, <1>3, KafkaAlways, PTL DEF Spec
===============================================================================
