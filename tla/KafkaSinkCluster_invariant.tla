----------------------- MODULE KafkaSinkCluster_invariant -----------------------
(***************************************************************************)
(* The inductive invariant of KafkaSinkCluster for a client that waits for *)
(* the answers to its handshake (~Pipelined), with any number of brokers,  *)
(* requests, parts, refetches and faults: what the loops and connections   *)
(* do, that the initial states satisfy it, and that route_requests keeps   *)
(* it.  KafkaSinkCluster_proofs has the other steps and the theorems.      *)
(***************************************************************************)
EXTENDS KafkaSinkCluster, SequenceLemmas, FiniteSetTheorems, TLAPS

\* The values of the variables.
Tokens == Nat \X Nat
Entries == [id : Nat, part : Nat, dest : Dests, st : {"Routed", "Sent", "Received"},
            index : Nat, combine : Nat, resp : Tokens \cup {Nothing}]
Connection == [q : Seq(Tokens), ready : Nat, err : BOOLEAN]
Answers == Seq(Tokens \cup {Nothing})

\* route_requests is at work, and has requests of the batch left.
Routing == pc \in {"route", "meta", "control", "await", "push"}

KafkaTypes ==
    /\ kinds \in Seq(KindSet) /\ taken \in 0..Len(kinds)
    /\ batch \in Seq(Nat) /\ pending \in Seq(Entries) /\ returned \in Seq(Answers)
    /\ conns \in [Dests -> Seq(Connection)]
    /\ outbox \in [Dests -> Seq(Tokens)]
    /\ unread \subseteq Dests /\ errored \subseteq Dests
    /\ pc \in Pcs \ {"panic"} /\ mixed = FALSE

\* A connection has at most one predecessor that is still drained, and then
\* it owes something itself: it was opened to send a request.
Drained(c) ==
    /\ Len(c) <= 2
    /\ Len(c) = 2 => c[1].q # <<>>
    /\ \A i \in 1..Len(c) : c[i].ready <= Len(c[i].q)

\* Where the loops are: what is left of them is left in their phase only.
Phases ==
    /\ Routing <=> batch # <<>>
    /\ pc \notin {"sending", "resending"} => \A d \in Dests : outbox[d] = <<>>
    /\ pc # "recv" => errored = {}
    /\ \A d \in unread : pc = "recv" /\ conns[d] # <<>> /\ d \notin errored

\* The entry b follows a: the next part of the request, or the first part of
\* the next request.
Follows(a, b) ==
    IF a.part < a.combine
    THEN b.id = a.id /\ b.part = a.part + 1 /\ b.combine = a.combine
    ELSE b.id = a.id + 1 /\ b.part = 1

\* p holds the parts of the requests first + 1, ..., last, in order.
Numbered(p, first, last) ==
    /\ p = <<>> => first = last
    /\ p # <<>> => /\ p[1].id = first + 1 /\ p[1].part = 1
                   /\ p[Len(p)].id = last /\ p[Len(p)].part = p[Len(p)].combine
    /\ \A k \in 1..Len(p) : p[k].part \in 1..p[k].combine
    /\ \A k \in 1..Len(p) - 1 : Follows(p[k], p[k + 1])
    /\ \A j, k \in 1..Len(p) : j <= k => p[j].id <= p[k].id

\* pending_requests holds the parts of the requests that are routed and not
\* returned; what remains of the batch are the requests after those; and a
\* response is stored with the request that it answers.
IsRest(b, first) == \A i \in 1..Len(b) : b[i] = first + i
Stored(p) == \A k \in 1..Len(p) : p[k].st = "Received" => p[k].resp = Token(p[k])
InTurn ==
    /\ pc # "failed" => Numbered(pending, Len(returned), taken - Len(batch))
    /\ Len(returned) <= taken - Len(batch)
    /\ IsRest(batch, taken - Len(batch))
    /\ Stored(pending)

\* Requests go over the control connection only during the handshake, which
\* is over when the next request comes.
ControlOnly(p) ==
    \A k \in 1..Len(p) : p[k].dest = Control => kinds[p[k].id] = "handshake"
NoControl(p) == \A k \in 1..Len(p) : p[k].dest # Control
Handshake ==
    /\ ControlOnly(pending)
    /\ auth_complete => NoControl(pending)
    /\ Routing /\ pc # "route" => auth_complete
    /\ pc = "route" =>
          \/ \A i \in 1..Len(batch) : kinds[batch[i]] = "handshake"
          \/ /\ \A i \in 1..Len(batch) : kinds[batch[i]] # "handshake"
             /\ ~HandshakeUnanswered

\* The sent requests of p for d are the ones of `owed`, each at its index.
Exact(p, d, owed) ==
    /\ \A k \in 1..Len(p) : IsSent(p[k], d) =>
          p[k].index < Len(owed) /\ owed[p[k].index + 1] = Token(p[k])
    /\ \A i \in 1..Len(owed) :
          \E k \in 1..Len(p) : IsSent(p[k], d) /\ p[k].index = i - 1
    /\ \A j, k \in 1..Len(p) :
          IsSent(p[j], d) /\ IsSent(p[k], d) /\ p[j].index = p[k].index => j = k

\* The connections owe the sent requests, and while control_send_receive waits
\* the control connection owes its request alone.  A connection whose error is
\* not handled may have lost responses, but not if it owes nothing.
OwedExactly ==
    /\ \A d \in Dests :
          /\ d # Control \/ pc # "await"
          /\ d \notin errored \/ Owed(conns[d]) = <<>>
          => Exact(pending, d, Owed(conns[d]) \o outbox[d])
    /\ pc = "await" => /\ Owed(conns[Control]) = <<CtlToken>>
                       /\ Exact(pending, Control, <<>>)

\* The inductive invariant.
KafkaInv ==
    /\ KafkaTypes /\ Phases /\ InTurn /\ Handshake /\ OwedExactly
    /\ \A d \in Dests : Drained(conns[d])

-------------------------------------------------------------------------------
(* The loops of send_requests and recv_responses. *)

\* What the loop over routed requests collects, turn by turn.
IsCollected(u, p, d) ==
    /\ u[0] = <<>>
    /\ \A k \in 0..Len(p) : u[k] \in Seq(Tokens)
    /\ \A k \in 1..Len(p) :
          u[k] = IF IsRouted(p[k], d) THEN Append(u[k - 1], Token(p[k])) ELSE u[k - 1]

\* The fields of an entry of pending_requests.
LEMMA EntryFacts ==
  ASSUME NEW p \in Seq(Entries)
  PROVE  /\ Len(p) \in Nat /\ DOMAIN p = 1..Len(p)
         /\ \A k \in 1..Len(p) : p[k] \in Entries
         /\ \A k \in 1..Len(p) : /\ p[k].id \in Nat /\ p[k].part \in Nat
                                 /\ p[k].index \in Nat /\ p[k].combine \in Nat
                                 /\ p[k].dest \in Dests
                                 /\ p[k].st \in {"Routed", "Sent", "Received"}
                                 /\ Token(p[k]) \in Tokens
<1>1. /\ Len(p) \in Nat /\ DOMAIN p = 1..Len(p)
      /\ \A k \in 1..Len(p) : p[k] \in Entries
  OBVIOUS
<1>2. ASSUME NEW e \in Entries
      PROVE  /\ e.id \in Nat /\ e.part \in Nat /\ e.index \in Nat /\ e.combine \in Nat
             /\ e.dest \in Dests /\ e.st \in {"Routed", "Sent", "Received"}
             /\ Token(e) \in Tokens
  BY DEF Entries, Token, Tokens
<1>. QED BY <1>1, <1>2, Zenon

\* RoutedUpto is well defined.
LEMMA RoutedUptoIs ==
  ASSUME NEW p \in Seq(Entries), NEW d
  PROVE  IsCollected(RoutedUpto(p, d), p, d)
<1>. DEFINE N == Len(p)
            S == Seq(Tokens)
            add(k, s) == IF IsRouted(p[k], d) THEN Append(s, Token(p[k])) ELSE s
            step == [n \in Nat |-> [s \in S |-> IF n < N THEN add(n + 1, s) ELSE s]]
<1>1. N \in Nat /\ \A k \in 1..N : Token(p[k]) \in Tokens
  BY EntryFacts
<1>2. \A k \in 1..N : \A s \in S : add(k, s) \in S
  <2>. SUFFICES ASSUME NEW k \in 1..N, NEW s \in S PROVE add(k, s) \in S
    OBVIOUS
  <2>1. Token(p[k]) \in Tokens
    BY <1>1
  <2>2. Append(s, Token(p[k])) \in S
    BY <2>1
  <2>. QED BY <2>2
<1>. HIDE DEF N, S, add
<1>3. step \in [Nat -> [S -> S]]
  BY <1>1, <1>2
<1>4. <<>> \in S
  BY DEF S
<1>5. ASSUME NEW n \in Nat, n < N, NEW s \in S PROVE step[n][s] = add(n + 1, s)
  BY <1>5
<1>. HIDE DEF step
<1>6. PICK f : IsRecursion(f, S, <<>>, step)
  BY <1>3, <1>4, RecursionExists
<1>7. f[0] = <<>> /\ \A n \in Nat : f[n] \in S
  BY <1>6 DEF IsRecursion
<1>8. ASSUME NEW k \in 1..N PROVE f[k] = add(k, f[k - 1])
  <2>1. k - 1 \in Nat /\ k - 1 < N /\ (k - 1) + 1 = k
    BY <1>1
  <2>2. f[(k - 1) + 1] = step[k - 1][f[k - 1]]
    BY <1>6, <2>1 DEF IsRecursion
  <2>. QED BY <1>5, <1>7, <2>1, <2>2, Zenon
<1>. DEFINE IsRec(h) == h = [k \in 0..N |-> IF k = 0 THEN <<>> ELSE add(k, h[k - 1])]
            g == [k \in 0..N |-> f[k]]
<1>9. IsRec(g)
  <2>1. ASSUME NEW k \in 0..N
        PROVE  f[k] = IF k = 0 THEN <<>> ELSE add(k, g[k - 1])
    <3>1. CASE k = 0
      BY <1>7, <3>1
    <3>2. CASE k # 0
      <4>1. k \in 1..N /\ k - 1 \in 0..N
        BY <1>1, <3>2
      <4>2. g[k - 1] = f[k - 1]
        BY <4>1
      <4>. QED BY <1>8, <3>2, <4>1, <4>2, Zenon
    <3>. QED BY <3>1, <3>2
  <2>. QED BY <2>1, Zenon
<1>10. PICK h : IsRec(h) /\ RoutedUpto(p, d) = h
  BY <1>9, Zenon DEF RoutedUpto, add, N
<1>11. h[0] = <<>> /\ \A k \in 1..N : h[k] = add(k, h[k - 1])
  <2>. DEFINE r == [k \in 0..N |-> IF k = 0 THEN <<>> ELSE add(k, h[k - 1])]
  <2>1. r[0] = <<>> /\ \A k \in 1..N : r[k] = add(k, h[k - 1])
    BY <1>1
  <2>2. h = r
    BY <1>10, Zenon
  <2>. HIDE DEF r
  <2>. QED BY <2>1, <2>2
<1>. DEFINE G == {n \in Nat : n <= N => h[n] \in S}
<1>12. \A n \in Nat : n \in G
  <2>1. 0 \in G
    BY <1>4, <1>11
  <2>2. ASSUME NEW n \in Nat, n \in G PROVE n + 1 \in G
    <3>. SUFFICES ASSUME n + 1 <= N PROVE h[n + 1] \in S
      OBVIOUS
    <3>1. n + 1 \in 1..N /\ (n + 1) - 1 = n /\ h[n] \in S
      BY <1>1, <2>2
    <3>. QED BY <1>2, <1>11, <3>1
  <2>. HIDE DEF G
  <2>. QED BY <2>1, <2>2, SetInduction
<1>13. \A k \in 0..N : h[k] \in S
  BY <1>1, <1>12
<1>. QED BY <1>10, <1>11, <1>13, Zenon DEF IsCollected, add, N, S

\* What is collected first stays in front.
LEMMA CollectedGrows ==
  ASSUME NEW p \in Seq(Entries), NEW d, NEW u, IsCollected(u, p, d)
  PROVE  \A j, k \in 0..Len(p) : j <= k =>
            Len(u[j]) <= Len(u[k]) /\ \A i \in 1..Len(u[j]) : u[k][i] = u[j][i]
<1>. DEFINE N == Len(p)
            Before(s, t) == Len(s) <= Len(t) /\ \A i \in 1..Len(s) : t[i] = s[i]
            G == {n \in Nat : \A j \in 0..N : j + n <= N => Before(u[j], u[j + n])}
<1>1. N \in Nat /\ \A k \in 0..N : u[k] \in Seq(Tokens)
  BY DEF IsCollected
<1>2. ASSUME NEW k \in 0..N, k < N PROVE Before(u[k], u[k + 1])
  <2>1. k + 1 \in 1..N /\ (k + 1) - 1 = k /\ u[k] \in Seq(Tokens)
    BY <1>1, <1>2
  <2>2. \/ u[k + 1] = u[k]
        \/ u[k + 1] = Append(u[k], Token(p[k + 1]))
    BY <2>1, Zenon DEF IsCollected
  <2>3. Before(u[k], u[k])
    BY <2>1
  <2>4. Before(u[k], Append(u[k], Token(p[k + 1])))
    BY <2>1
  <2>. HIDE DEF Before
  <2>. QED BY <2>2, <2>3, <2>4, Zenon
<1>3. ASSUME NEW s \in Seq(Tokens), NEW t \in Seq(Tokens), NEW r \in Seq(Tokens),
             Before(s, t), Before(t, r)
      PROVE  Before(s, r)
  BY <1>3
<1>4. \A n \in Nat : n \in G
  <2>1. 0 \in G
    <3>1. \A j \in 0..N : j + 0 = j /\ Before(u[j], u[j])
      BY <1>1
    <3>. HIDE DEF Before
    <3>. QED BY <3>1
  <2>2. ASSUME NEW n \in Nat, n \in G PROVE n + 1 \in G
    <3>. HIDE DEF Before
    <3>. SUFFICES ASSUME NEW j \in 0..N, j + (n + 1) <= N PROVE Before(u[j], u[j + (n + 1)])
      OBVIOUS
    <3>1. j + n \in 0..N /\ j + n < N /\ (j + n) + 1 = j + (n + 1) /\ j + (n + 1) \in 0..N
      BY <1>1
    <3>2. Before(u[j], u[j + n])
      BY <2>2, <3>1
    <3>3. Before(u[j + n], u[j + (n + 1)])
      BY <1>2, <3>1
    <3>. QED BY <1>1, <1>3, <3>1, <3>2, <3>3
  <2>. HIDE DEF G
  <2>. QED BY <2>1, <2>2, SetInduction
<1>5. ASSUME NEW j \in 0..N, NEW k \in 0..N, j <= k PROVE Before(u[j], u[k])
  <2>. HIDE DEF Before
  <2>1. k - j \in Nat /\ j + (k - j) = k
    BY <1>1, <1>5
  <2>2. k - j \in G
    BY <1>4, <2>1, Zenon
  <2>. QED BY <1>1, <2>1, <2>2
<1>. QED BY <1>5

\* A routed request is collected at the place that its turn gives it, each
\* place is that of one request.
LEMMA CollectedAt ==
  ASSUME NEW p \in Seq(Entries), NEW d, NEW u, IsCollected(u, p, d)
  PROVE  /\ \A k \in 1..Len(p) : IsRouted(p[k], d) =>
              /\ Len(u[k - 1]) < Len(u[Len(p)])
              /\ u[Len(p)][Len(u[k - 1]) + 1] = Token(p[k])
         /\ \A i \in 1..Len(u[Len(p)]) :
              \E k \in 1..Len(p) : IsRouted(p[k], d) /\ Len(u[k - 1]) = i - 1
         /\ \A j, k \in 1..Len(p) :
              IsRouted(p[j], d) /\ j < k => Len(u[j - 1]) < Len(u[k - 1])
<1>. DEFINE N == Len(p)
            G == {n \in Nat : n <= N => \A i \in 1..Len(u[n]) :
                    \E k \in 1..n : IsRouted(p[k], d) /\ Len(u[k - 1]) = i - 1}
<1>1. N \in Nat /\ \A k \in 0..N : u[k] \in Seq(Tokens) /\ Len(u[k]) \in Nat
  BY DEF IsCollected
<1>2. ASSUME NEW k \in 1..N, IsRouted(p[k], d)
      PROVE  Len(u[k]) = Len(u[k - 1]) + 1 /\ u[k][Len(u[k - 1]) + 1] = Token(p[k])
  <2>1. k - 1 \in 0..N /\ u[k - 1] \in Seq(Tokens)
    BY <1>1
  <2>2. u[k] = Append(u[k - 1], Token(p[k]))
    BY <1>2, Zenon DEF IsCollected
  <2>. QED BY <2>1, <2>2
<1>3. ASSUME NEW k \in 1..N, ~IsRouted(p[k], d) PROVE u[k] = u[k - 1]
  BY <1>3 DEF IsCollected
<1>4. \A j, k \in 0..N : j <= k =>
            Len(u[j]) <= Len(u[k]) /\ \A i \in 1..Len(u[j]) : u[k][i] = u[j][i]
  BY CollectedGrows
<1>5. ASSUME NEW k \in 1..N, IsRouted(p[k], d)
      PROVE  Len(u[k - 1]) < Len(u[N]) /\ u[N][Len(u[k - 1]) + 1] = Token(p[k])
  <2>1. /\ k \in 0..N /\ N \in 0..N /\ k <= N /\ k - 1 \in 0..N
    BY <1>1
  <2>2. Len(u[k]) <= Len(u[N]) /\ \A i \in 1..Len(u[k]) : u[N][i] = u[k][i]
    BY <1>4, <2>1
  <2>3. Len(u[k - 1]) \in Nat /\ Len(u[k]) \in Nat /\ Len(u[N]) \in Nat
    BY <1>1, <2>1
  <2>4. Len(u[k]) = Len(u[k - 1]) + 1 /\ u[k][Len(u[k - 1]) + 1] = Token(p[k])
    BY <1>2, <1>5
  <2>5. Len(u[k - 1]) < Len(u[N]) /\ Len(u[k - 1]) + 1 \in 1..Len(u[k])
    BY <2>2, <2>3, <2>4
  <2>. QED BY <2>2, <2>4, <2>5, Zenon
<1>6. \A n \in Nat : n \in G
  <2>1. 0 \in G
    <3>1. u[0] = <<>>
      BY DEF IsCollected
    <3>. QED BY <3>1
  <2>2. ASSUME NEW n \in Nat, n \in G PROVE n + 1 \in G
    <3>. SUFFICES ASSUME n + 1 <= N, NEW i \in 1..Len(u[n + 1])
                  PROVE  \E k \in 1..n + 1 : IsRouted(p[k], d) /\ Len(u[k - 1]) = i - 1
      OBVIOUS
    <3>1. n + 1 \in 1..N /\ (n + 1) - 1 = n /\ n \in 0..N /\ 1..n \subseteq 1..n + 1
      BY <1>1
    <3>2. Len(u[n]) \in Nat
      BY <1>1, <3>1
    <3>3. \A j \in 1..Len(u[n]) : \E k \in 1..n : IsRouted(p[k], d) /\ Len(u[k - 1]) = j - 1
      BY <2>2, <3>1
    <3>4. CASE i \in 1..Len(u[n])
      BY <3>1, <3>3, <3>4
    <3>5. CASE i \notin 1..Len(u[n])
      <4>1. IsRouted(p[n + 1], d)
        <5>. SUFFICES ASSUME ~IsRouted(p[n + 1], d) PROVE FALSE
          OBVIOUS
        <5>1. u[n + 1] = u[n]
          BY <1>3, <3>1
        <5>. QED BY <3>5, <5>1
      <4>2. Len(u[n + 1]) = Len(u[n]) + 1
        BY <1>2, <3>1, <4>1
      <4>3. Len(u[n]) = i - 1
        BY <3>2, <3>5, <4>2
      <4>4. n + 1 \in 1..n + 1
        OBVIOUS
      <4>. QED BY <3>1, <4>1, <4>3, <4>4
    <3>. QED BY <3>4, <3>5
  <2>. HIDE DEF G
  <2>. QED BY <2>1, <2>2, SetInduction
<1>7. \A i \in 1..Len(u[N]) : \E k \in 1..N : IsRouted(p[k], d) /\ Len(u[k - 1]) = i - 1
  <2>1. N \in G
    BY <1>1, <1>6
  <2>. QED BY <1>1, <2>1
<1>8. ASSUME NEW j \in 1..N, NEW k \in 1..N, IsRouted(p[j], d), j < k
      PROVE  Len(u[j - 1]) < Len(u[k - 1])
  <2>1. j \in 0..N /\ k - 1 \in 0..N /\ j <= k - 1 /\ j - 1 \in 0..N
    BY <1>1, <1>8
  <2>2. Len(u[j]) <= Len(u[k - 1])
    BY <1>4, <2>1
  <2>3. Len(u[j]) = Len(u[j - 1]) + 1
    BY <1>2, <1>8
  <2>4. Len(u[j - 1]) \in Nat /\ Len(u[j]) \in Nat /\ Len(u[k - 1]) \in Nat
    BY <1>1, <2>1
  <2>. QED BY <2>2, <2>3, <2>4
<1>. QED BY <1>5, <1>7, <1>8

\* The count of sent requests is the number of responses owed.
LEMMA ExactCount ==
  ASSUME NEW p \in Seq(Entries), NEW d, NEW owed \in Seq(Tokens), Exact(p, d, owed)
  PROVE  Cardinality({k \in DOMAIN p : IsSent(p[k], d)}) = Len(owed)
<1>. DEFINE S == {k \in DOMAIN p : IsSent(p[k], d)}
            T == 1..Len(owed)
            f == [k \in S |-> p[k].index + 1]
<1>1. Len(p) \in Nat /\ DOMAIN p = 1..Len(p) /\ \A k \in 1..Len(p) : p[k].index \in Nat
  BY EntryFacts
<1>2. Len(owed) \in Nat
  OBVIOUS
<1>3. IsFiniteSet(S)
  <2>1. IsFiniteSet(1..Len(p))
    BY <1>1, FS_Interval
  <2>2. S \in SUBSET (1..Len(p))
    BY <1>1
  <2>. HIDE DEF S
  <2>. QED BY <2>1, <2>2, FS_Subset, Zenon
<1>4. \A k \in S : p[k].index + 1 \in T
  BY <1>1, <1>2 DEF Exact
<1>5. \A j, k \in S : f[j] = f[k] => j = k
  <2>. SUFFICES ASSUME NEW j \in S, NEW k \in S, f[j] = f[k] PROVE j = k
    OBVIOUS
  <2>1. p[j].index = p[k].index
    BY <1>1
  <2>. QED BY <1>1, <2>1 DEF Exact
<1>6. \A i \in T : \E k \in S : f[k] = i
  <2>. SUFFICES ASSUME NEW i \in T PROVE \E k \in S : f[k] = i
    OBVIOUS
  <2>1. PICK k \in 1..Len(p) : IsSent(p[k], d) /\ p[k].index = i - 1
    BY DEF Exact
  <2>2. k \in S /\ p[k].index + 1 = i
    BY <1>1, <1>2, <2>1
  <2>. QED BY <2>2
<1>7. f \in [S -> T]
  BY <1>4
<1>. HIDE DEF f, S
<1>8. f \in Bijection(S, T)
  BY <1>5, <1>6, <1>7, Zenon DEF Bijection, Injection, Surjection, IsInjective
<1>9. Cardinality(T) = Cardinality(S)
  BY <1>3, <1>8, FS_Bijection, Zenon DEF ExistsBijection
<1>10. Cardinality(T) = Len(owed)
  <2>1. \A n \in Nat : Cardinality(1..n) = n
    BY FS_Interval
  <2>. QED BY <1>2, <2>1, Zenon
<1>. QED BY <1>9, <1>10 DEF S

\* The first loop of send_requests keeps the indices exact: what it collects
\* comes after what is owed.
LEMMA MarkSentExact ==
  ASSUME NEW p \in Seq(Entries), NEW d \in Dests, NEW owed \in Seq(Tokens), Exact(p, d, owed)
  PROVE  /\ RoutedTokens(p, d) \in Seq(Tokens)
         /\ Exact(MarkSent(p), d, owed \o RoutedTokens(p, d))
<1>. DEFINE u == RoutedUpto(p, d)
            N == Len(p)
            c == Len(owed)
            m == MarkSent(p)
            new == RoutedTokens(p, d)
            all == owed \o new
<1>1. N \in Nat /\ DOMAIN p = 1..N /\ c \in Nat /\ \A k \in 1..N : p[k] \in Entries
  BY EntryFacts
<1>2. IsCollected(u, p, d)
  BY RoutedUptoIs
<1>3. new = u[N] /\ new \in Seq(Tokens) /\ \A k \in 1..N : Len(u[k - 1]) \in Nat
  <2>1. \A k \in 0..N : u[k] \in Seq(Tokens)
    BY <1>2 DEF IsCollected
  <2>2. N \in 0..N /\ \A k \in 1..N : k - 1 \in 0..N
    BY <1>1
  <2>. HIDE DEF u
  <2>3. \A k \in 0..N : Len(u[k]) \in Nat
    BY <2>1
  <2>. QED BY <2>1, <2>2, <2>3, Zenon DEF RoutedTokens, u
<1>4. /\ Len(all) = c + Len(new) /\ Len(new) \in Nat
      /\ \A i \in 1..c : all[i] = owed[i]
      /\ \A i \in 1..Len(new) : all[c + i] = new[i]
  <2>. HIDE DEF new
  <2>. QED BY <1>3
<1>5. /\ DOMAIN m = 1..N /\ Len(m) = N
      /\ \A k \in 1..N : m[k] =
           IF p[k].st = "Routed"
           THEN [p[k] EXCEPT !.st = "Sent", !.index =
                   Len(RoutedUpto(p, p[k].dest)[k - 1])
                   + Cardinality({j \in DOMAIN p : IsSent(p[j], p[k].dest)})]
           ELSE p[k]
  BY <1>1 DEF MarkSent
<1>6. Cardinality({j \in DOMAIN p : IsSent(p[j], d)}) = c
  BY ExactCount
<1>. HIDE DEF new, all, m, u
<1>7. ASSUME NEW k \in 1..N, IsRouted(p[k], d)
      PROVE  IsSent(m[k], d) /\ m[k].index = Len(u[k - 1]) + c /\ Token(m[k]) = Token(p[k])
  <2>1. m[k] = [p[k] EXCEPT !.st = "Sent", !.index = Len(u[k - 1]) + c]
    BY <1>5, <1>6, <1>7, ZenonT(30) DEF IsRouted, u
  <2>2. p[k] \in Entries
    BY <1>1
  <2>. QED BY <1>7, <2>1, <2>2 DEF Entries, IsRouted, IsSent, Token
<1>8. ASSUME NEW k \in 1..N, IsSent(p[k], d) PROVE m[k] = p[k]
  BY <1>5, <1>8, Zenon DEF IsSent
<1>9. ASSUME NEW k \in 1..N, IsSent(m[k], d) PROVE IsSent(p[k], d) \/ IsRouted(p[k], d)
  <2>1. CASE p[k].st = "Routed"
    <3>1. m[k].dest = p[k].dest
      <4>1. p[k] \in Entries
        BY <1>1
      <4>2. m[k] = [p[k] EXCEPT !.st = "Sent", !.index =
                      Len(RoutedUpto(p, p[k].dest)[k - 1])
                      + Cardinality({j \in DOMAIN p : IsSent(p[j], p[k].dest)})]
        BY <1>5, <2>1, Zenon
      <4>. QED BY <4>1, <4>2 DEF Entries
    <3>. QED BY <1>9, <2>1, <3>1, Zenon DEF IsSent, IsRouted
  <2>2. CASE p[k].st # "Routed"
    BY <1>5, <1>9, <2>2, Zenon
  <2>. QED BY <2>1, <2>2
<1>10. /\ \A k \in 1..N : IsRouted(p[k], d) =>
            Len(u[k - 1]) < Len(new) /\ new[Len(u[k - 1]) + 1] = Token(p[k])
       /\ \A i \in 1..Len(new) :
            \E k \in 1..N : IsRouted(p[k], d) /\ Len(u[k - 1]) = i - 1
       /\ \A j, k \in 1..N : IsRouted(p[j], d) /\ j < k => Len(u[j - 1]) < Len(u[k - 1])
  <2>1. /\ \A k \in 1..N : IsRouted(p[k], d) =>
             Len(u[k - 1]) < Len(u[N]) /\ u[N][Len(u[k - 1]) + 1] = Token(p[k])
        /\ \A i \in 1..Len(u[N]) :
             \E k \in 1..N : IsRouted(p[k], d) /\ Len(u[k - 1]) = i - 1
        /\ \A j, k \in 1..N : IsRouted(p[j], d) /\ j < k => Len(u[j - 1]) < Len(u[k - 1])
    BY <1>2, CollectedAt
  <2>. QED BY <1>3, <2>1, Zenon
<1>11. /\ \A k \in 1..N : IsSent(p[k], d) => p[k].index < c /\ owed[p[k].index + 1] = Token(p[k])
       /\ \A i \in 1..c : \E k \in 1..N : IsSent(p[k], d) /\ p[k].index = i - 1
       /\ \A j, k \in 1..N :
            IsSent(p[j], d) /\ IsSent(p[k], d) /\ p[j].index = p[k].index => j = k
  BY Zenon DEF Exact
<1>12. \A k \in 1..N : p[k].index \in Nat
  BY EntryFacts
<1>13. ASSUME NEW k \in 1..N, IsSent(m[k], d)
       PROVE  m[k].index < Len(all) /\ all[m[k].index + 1] = Token(m[k])
  <2>1. CASE IsSent(p[k], d)
    <3>1. m[k] = p[k] /\ p[k].index < c /\ owed[p[k].index + 1] = Token(p[k])
      BY <1>8, <1>11, <2>1, Zenon
    <3>2. p[k].index + 1 \in 1..c /\ p[k].index < Len(all)
      BY <1>1, <1>4, <1>12, <3>1
    <3>. QED BY <1>4, <3>1, <3>2, Zenon
  <2>2. CASE IsRouted(p[k], d)
    <3>1. m[k].index = Len(u[k - 1]) + c /\ Token(m[k]) = Token(p[k])
      BY <1>7, <2>2, Zenon
    <3>2. Len(u[k - 1]) < Len(new) /\ new[Len(u[k - 1]) + 1] = Token(p[k])
      BY <1>10, <2>2, Zenon
    <3>3. Len(u[k - 1]) \in Nat
      BY <1>3
    <3>4. /\ Len(u[k - 1]) + 1 \in 1..Len(new) /\ m[k].index < Len(all)
          /\ m[k].index + 1 = c + (Len(u[k - 1]) + 1)
      BY <1>1, <1>4, <3>1, <3>2, <3>3
    <3>. QED BY <1>4, <3>1, <3>2, <3>4, Zenon
  <2>. QED BY <1>9, <1>13, <2>1, <2>2
<1>14. ASSUME NEW i \in 1..Len(all) PROVE \E k \in 1..N : IsSent(m[k], d) /\ m[k].index = i - 1
  <2>1. CASE i <= c
    <3>1. i \in 1..c
      BY <1>1, <1>4, <2>1
    <3>. QED BY <1>8, <1>11, <3>1, Zenon
  <2>2. CASE ~(i <= c)
    <3>1. i - c \in 1..Len(new)
      BY <1>1, <1>4, <2>2
    <3>2. PICK k \in 1..N : IsRouted(p[k], d) /\ Len(u[k - 1]) = (i - c) - 1
      BY <1>10, <3>1, Zenon
    <3>3. IsSent(m[k], d) /\ m[k].index = Len(u[k - 1]) + c
      BY <1>7, <3>2, Zenon
    <3>4. m[k].index = i - 1
      BY <1>1, <1>4, <3>2, <3>3
    <3>. QED BY <3>3, <3>4
  <2>. QED BY <2>1, <2>2
<1>15. ASSUME NEW j \in 1..N, NEW k \in 1..N, IsSent(m[j], d), IsSent(m[k], d),
              m[j].index = m[k].index
       PROVE  j = k
  <2>1. ASSUME NEW a \in 1..N, NEW b \in 1..N, IsSent(p[a], d), IsRouted(p[b], d)
        PROVE  m[a].index # m[b].index
    <3>1. m[a].index < c
      BY <1>8, <1>11, <2>1, Zenon
    <3>2. m[b].index = Len(u[b - 1]) + c /\ Len(u[b - 1]) \in Nat
      BY <1>3, <1>7, <2>1, Zenon
    <3>3. m[a].index \in Nat
      BY <1>8, <1>12, <2>1, Zenon
    <3>. QED BY <1>1, <3>1, <3>2, <3>3
  <2>2. ASSUME NEW a \in 1..N, NEW b \in 1..N, IsRouted(p[a], d), IsRouted(p[b], d), a < b
        PROVE  m[a].index # m[b].index
    <3>1. m[a].index = Len(u[a - 1]) + c /\ m[b].index = Len(u[b - 1]) + c
      BY <1>7, <2>2, Zenon
    <3>2. Len(u[a - 1]) < Len(u[b - 1])
      BY <1>10, <2>2, Zenon
    <3>3. Len(u[a - 1]) \in Nat /\ Len(u[b - 1]) \in Nat
      BY <1>3, Zenon
    <3>. QED BY <1>1, <3>1, <3>2, <3>3
  <2>3. CASE IsSent(p[j], d) /\ IsSent(p[k], d)
    BY <1>8, <1>11, <1>15, <2>3, Zenon
  <2>4. CASE IsRouted(p[j], d) /\ IsRouted(p[k], d)
    <3>1. ~(j < k) /\ ~(k < j)
      BY <1>15, <2>2, <2>4, Zenon
    <3>. QED BY <3>1
  <2>. QED BY <1>9, <1>15, <2>1, <2>3, <2>4, Zenon
<1>16. Exact(m, d, all)
  BY <1>5, <1>13, <1>14, <1>15, Zenon DEF Exact
<1>. QED BY <1>3, <1>16 DEF new, all, m

\* q holds the requests of p, in whatever state they are.
SameRequests(p, q) ==
    /\ Len(q) = Len(p)
    /\ \A k \in 1..Len(p) : /\ q[k].id = p[k].id /\ q[k].part = p[k].part
                            /\ q[k].combine = p[k].combine /\ q[k].dest = p[k].dest

\* The numbering does not depend on the states.
LEMMA NumberedKept ==
  ASSUME NEW p \in Seq(Entries), NEW q \in Seq(Entries), NEW first, NEW last,
         SameRequests(p, q), Numbered(p, first, last)
  PROVE  Numbered(q, first, last)
<1>. DEFINE N == Len(p)
<1>1. N \in Nat /\ Len(q) = N /\ (p = <<>> <=> N = 0) /\ (q = <<>> <=> N = 0)
  BY DEF SameRequests
<1>2. \A k \in 1..N : q[k].id = p[k].id /\ q[k].part = p[k].part /\ q[k].combine = p[k].combine
  BY DEF SameRequests
<1>. HIDE DEF N
<1>3. p # <<>> => 1 \in 1..N /\ N \in 1..N
  BY <1>1
<1>4. \A k \in 1..N - 1 : k \in 1..N /\ k + 1 \in 1..N
  BY <1>1
<1>5. /\ q = <<>> => first = last
      /\ q # <<>> => /\ q[1].id = first + 1 /\ q[1].part = 1
                     /\ q[N].id = last /\ q[N].part = q[N].combine
  BY <1>1, <1>2, <1>3, Zenon DEF Numbered, N
<1>6. \A k \in 1..N : q[k].part \in 1..q[k].combine
  BY <1>2, Zenon DEF Numbered, N
<1>7. \A k \in 1..N - 1 : Follows(q[k], q[k + 1])
  BY <1>2, <1>4, Zenon DEF Numbered, Follows, N
<1>8. \A j, k \in 1..N : j <= k => q[j].id <= q[k].id
  BY <1>2, Zenon DEF Numbered, N
<1>. QED BY <1>1, <1>5, <1>6, <1>7, <1>8, Zenon DEF Numbered

\* Marking requests as sent changes no more than that.
LEMMA MarkSentType ==
  ASSUME NEW p \in Seq(Entries)
  PROVE  /\ MarkSent(p) \in Seq(Entries) /\ SameRequests(p, MarkSent(p))
         /\ \A k \in 1..Len(p) : MarkSent(p)[k].st = "Received" => MarkSent(p)[k] = p[k]
<1>. DEFINE N == Len(p)
            m == MarkSent(p)
            Index(k) == Len(RoutedUpto(p, p[k].dest)[k - 1])
                        + Cardinality({j \in DOMAIN p : IsSent(p[j], p[k].dest)})
<1>1. N \in Nat /\ DOMAIN p = 1..N /\ \A k \in 1..N : p[k] \in Entries
  BY EntryFacts
<1>2. ASSUME NEW k \in 1..N PROVE Index(k) \in Nat
  <2>. DEFINE S == {j \in DOMAIN p : IsSent(p[j], p[k].dest)}
              u == RoutedUpto(p, p[k].dest)
  <2>1. IsFiniteSet(S)
    <3>1. IsFiniteSet(1..N)
      BY <1>1, FS_Interval
    <3>2. S \in SUBSET (1..N)
      BY <1>1
    <3>. HIDE DEF S
    <3>. QED BY <3>1, <3>2, FS_Subset, Zenon
  <2>. HIDE DEF S
  <2>2. Cardinality(S) \in Nat
    BY <2>1, FS_CardinalityType
  <2>3. IsCollected(u, p, p[k].dest)
    BY RoutedUptoIs
  <2>. HIDE DEF u
  <2>4. u[k - 1] \in Seq(Tokens)
    <3>1. k - 1 \in 0..N
      BY <1>1
    <3>. QED BY <2>3, <3>1 DEF IsCollected
  <2>5. Len(u[k - 1]) \in Nat
    BY <2>4
  <2>6. Len(u[k - 1]) + Cardinality(S) \in Nat
    BY <2>2, <2>5
  <2>. QED BY <2>6 DEF S, u
<1>3. m = [k \in 1..N |-> IF p[k].st = "Routed"
                          THEN [p[k] EXCEPT !.st = "Sent", !.index = Index(k)] ELSE p[k]]
  BY <1>1 DEF MarkSent
<1>. HIDE DEF m, Index
<1>4. ASSUME NEW k \in 1..N
      PROVE  /\ m[k] \in Entries /\ (m[k].st = "Received" => m[k] = p[k])
             /\ m[k].id = p[k].id /\ m[k].part = p[k].part
             /\ m[k].combine = p[k].combine /\ m[k].dest = p[k].dest
  <2>1. CASE p[k].st = "Routed"
    <3>1. m[k] = [p[k] EXCEPT !.st = "Sent", !.index = Index(k)]
      BY <1>3, <2>1, Zenon
    <3>2. p[k] \in Entries /\ Index(k) \in Nat
      BY <1>1, <1>2
    <3>. QED BY <3>1, <3>2, Zenon DEF Entries
  <2>2. CASE p[k].st # "Routed"
    <3>1. m[k] = p[k]
      BY <1>3, <2>2, Zenon
    <3>. QED BY <1>1, <3>1
  <2>. QED BY <2>1, <2>2
<1>5. DOMAIN m = 1..N
  BY <1>3, Zenon
<1>6. m \in Seq(Entries) /\ Len(m) = N
  <2>1. m \in [1..N -> Entries]
    BY <1>3, <1>4, <1>5, Zenon
  <2>. QED BY <1>1, <2>1
<1>. QED BY <1>4, <1>6, Zenon DEF m, SameRequests

\* An entry after i responses of connection d.
DeliveredTo(e, d, msgs, i) ==
    IF ~IsSent(e, d) THEN e
    ELSE IF e.index < i
    THEN [e EXCEPT !.st = "Received", !.index = 0, !.resp = msgs[e.index + 1]]
    ELSE [e EXCEPT !.index = @ - i]

\* One response: the entry whose index is 0 takes it, the others move up.
Takes(f, d, msg, g) ==
    g = IF ~IsSent(f, d) THEN f
        ELSE IF f.index = 0 THEN [f EXCEPT !.st = "Received", !.resp = msg]
        ELSE [f EXCEPT !.index = @ - 1]

\* The i-th response after i - 1 of them.
LEMMA DeliveredStep ==
  ASSUME NEW e \in Entries, NEW d, NEW msgs \in Seq(Tokens), NEW i \in 1..Len(msgs)
  PROVE  Takes(DeliveredTo(e, d, msgs, i - 1), d, msgs[i], DeliveredTo(e, d, msgs, i))
<1>. USE DEF Takes
<1>1. e.index \in Nat /\ i \in Nat /\ i # 0
  BY DEF Entries
<1>2. CASE ~IsSent(e, d)
  BY <1>2 DEF DeliveredTo
<1>3. CASE IsSent(e, d) /\ e.index < i - 1
  <2>1. DeliveredTo(e, d, msgs, i - 1) =
          [e EXCEPT !.st = "Received", !.index = 0, !.resp = msgs[e.index + 1]]
    BY <1>3 DEF DeliveredTo
  <2>2. e.index < i
    BY <1>1, <1>3
  <2>3. DeliveredTo(e, d, msgs, i) = DeliveredTo(e, d, msgs, i - 1)
    BY <1>3, <2>1, <2>2 DEF DeliveredTo
  <2>4. ~IsSent(DeliveredTo(e, d, msgs, i - 1), d)
    BY <2>1, Zenon DEF IsSent, Entries
  <2>. QED BY <2>3, <2>4
<1>4. CASE IsSent(e, d) /\ e.index = i - 1
  <2>1. DeliveredTo(e, d, msgs, i - 1) = [e EXCEPT !.index = 0]
    <3>1. ~(e.index < i - 1) /\ e.index - (i - 1) = 0
      BY <1>1, <1>4
    <3>. QED BY <1>4, <3>1 DEF DeliveredTo
  <2>2. e.index < i /\ e.index + 1 = i
    BY <1>1, <1>4
  <2>3. DeliveredTo(e, d, msgs, i) =
          [e EXCEPT !.st = "Received", !.index = 0, !.resp = msgs[i]]
    BY <1>4, <2>2, Zenon DEF DeliveredTo
  <2>4. IsSent([e EXCEPT !.index = 0], d) /\ [e EXCEPT !.index = 0].index = 0
    BY <1>4 DEF IsSent, Entries
  <2>5. [[e EXCEPT !.index = 0] EXCEPT !.st = "Received", !.resp = msgs[i]] =
          [e EXCEPT !.st = "Received", !.index = 0, !.resp = msgs[i]]
    BY Zenon DEF Entries
  <2>. QED BY <2>1, <2>3, <2>4, <2>5, Zenon
<1>5. CASE IsSent(e, d) /\ e.index > i - 1
  <2>1. ~(e.index < i - 1) /\ ~(e.index < i) /\ e.index - (i - 1) # 0
        /\ (e.index - (i - 1)) - 1 = e.index - i
    BY <1>1, <1>5
  <2>2. DeliveredTo(e, d, msgs, i - 1) = [e EXCEPT !.index = e.index - (i - 1)]
    BY <1>5, <2>1 DEF DeliveredTo
  <2>3. DeliveredTo(e, d, msgs, i) = [e EXCEPT !.index = e.index - i]
    BY <1>5, <2>1 DEF DeliveredTo
  <2>. DEFINE g == [e EXCEPT !.index = e.index - (i - 1)]
  <2>4. IsSent(g, d) /\ g.index = e.index - (i - 1)
    BY <1>5 DEF IsSent, Entries
  <2>5. [g EXCEPT !.index = g.index - 1] = [e EXCEPT !.index = e.index - i]
    BY <2>1, <2>4, Zenon DEF Entries
  <2>. HIDE DEF g
  <2>. QED BY <2>1, <2>2, <2>3, <2>4, <2>5, Zenon DEF g
<1>. QED BY <1>1, <1>2, <1>3, <1>4, <1>5

\* An entry e after n responses: it has taken the one at its index, or waits
\* for one that is n closer.
After(e, d, msgs, n, f) ==
    /\ ~IsSent(e, d) => f = e
    /\ n = 0 => f = e
    /\ IsSent(e, d) /\ e.index < n /\ msgs[e.index + 1] = Token(e) =>
          /\ f \in Entries /\ f.st = "Received" /\ f.resp = Token(f)
          /\ f.id = e.id /\ f.part = e.part /\ f.combine = e.combine /\ f.dest = e.dest
    /\ IsSent(e, d) /\ ~(e.index < n) =>
          /\ f \in Entries /\ IsSent(f, d) /\ f.st = "Sent" /\ f.index = e.index - n
          /\ f.id = e.id /\ f.part = e.part /\ f.combine = e.combine /\ f.dest = e.dest
          /\ Token(f) = Token(e)

\* DeliveredTo is such an entry.
LEMMA DeliveredEntry ==
  ASSUME NEW e \in Entries, NEW d, NEW msgs, NEW n \in Nat
  PROVE  After(e, d, msgs, n, DeliveredTo(e, d, msgs, n))
<1>. DEFINE f == DeliveredTo(e, d, msgs, n)
<1>1. e.index \in Nat /\ e.id \in Nat /\ e.part \in Nat
  BY DEF Entries
<1>2. CASE ~IsSent(e, d)
  BY <1>2 DEF DeliveredTo, After
<1>3. CASE IsSent(e, d) /\ e.index < n
  <2>1. f = [e EXCEPT !.st = "Received", !.index = 0, !.resp = msgs[e.index + 1]]
    BY <1>3 DEF DeliveredTo
  <2>2. n # 0
    BY <1>1, <1>3
  <2>3. ASSUME msgs[e.index + 1] = Token(e)
        PROVE  /\ f \in Entries /\ f.st = "Received" /\ f.resp = Token(f)
               /\ f.id = e.id /\ f.part = e.part /\ f.combine = e.combine /\ f.dest = e.dest
    <3>. DEFINE t == Token(e)
    <3>1. t \in Tokens
      BY <1>1 DEF Token, Tokens
    <3>2. f = [e EXCEPT !.st = "Received", !.index = 0, !.resp = t]
      BY <2>1, <2>3
    <3>. HIDE DEF t, f
    <3>3. /\ f \in Entries /\ f.st = "Received" /\ f.resp = t
          /\ f.id = e.id /\ f.part = e.part /\ f.combine = e.combine /\ f.dest = e.dest
      BY <3>1, <3>2, Zenon DEF Entries
    <3>4. Token(f) = t
      BY <3>3, Zenon DEF Token, t
    <3>. QED BY <3>3, <3>4
  <2>. HIDE DEF f
  <2>. QED BY <1>3, <2>2, <2>3, Zenon DEF f, After
<1>4. CASE IsSent(e, d) /\ ~(e.index < n)
  <2>1. f = [e EXCEPT !.index = e.index - n]
    BY <1>4 DEF DeliveredTo
  <2>2. e.index - n \in Nat /\ (n = 0 => e.index - n = e.index)
    BY <1>1, <1>4
  <2>. HIDE DEF f
  <2>3. n = 0 => f = e
    BY <2>1, <2>2 DEF Entries
  <2>4. /\ f \in Entries /\ IsSent(f, d) /\ f.st = "Sent" /\ f.index = e.index - n
        /\ f.id = e.id /\ f.part = e.part /\ f.combine = e.combine /\ f.dest = e.dest
        /\ Token(f) = Token(e)
    BY <1>4, <2>1, <2>2 DEF Entries, IsSent, Token
  <2>. QED BY <1>4, <2>3, <2>4, Zenon DEF f, After
<1>. QED BY <1>2, <1>3, <1>4

\* All responses of a connection, one after the other.
LEMMA DeliverAllIs ==
  ASSUME NEW p \in Seq(Entries), NEW d, NEW msgs \in Seq(Tokens)
  PROVE  DeliverAll(p, d, msgs) =
           [k \in 1..Len(p) |-> DeliveredTo(p[k], d, msgs, Len(msgs))]
<1>. DEFINE N == Len(p)
            n == Len(msgs)
            At(i) == [k \in 1..N |-> DeliveredTo(p[k], d, msgs, i)]
            next(a, i) == Deliver(a, d, msgs[i])
            IsRec(h) == h = [i \in 0..n |-> IF i = 0 THEN p ELSE next(h[i - 1], i)]
            g == [i \in 0..n |-> At(i)]
<1>1. N \in Nat /\ n \in Nat /\ DOMAIN p = 1..N /\ \A k \in 1..N : p[k] \in Entries
  BY EntryFacts
<1>2. At(0) = p
  <2>1. ASSUME NEW k \in 1..N PROVE DeliveredTo(p[k], d, msgs, 0) = p[k]
    <3>1. p[k] \in Entries /\ 0 \in Nat
      BY <1>1
    <3>2. After(p[k], d, msgs, 0, DeliveredTo(p[k], d, msgs, 0))
      BY <3>1, DeliveredEntry, Zenon
    <3>. QED BY <3>2, Zenon DEF After
  <2>2. p = [k \in 1..N |-> p[k]]
    BY <1>1
  <2>. QED BY <2>1, <2>2, Zenon
<1>3. ASSUME NEW i \in 1..n PROVE At(i) = next(At(i - 1), i)
  <2>. DEFINE a == At(i - 1)
  <2>1. DOMAIN a = 1..N /\ \A k \in 1..N : a[k] = DeliveredTo(p[k], d, msgs, i - 1)
    OBVIOUS
  <2>2. next(a, i) = [k \in 1..N |->
          IF ~IsSent(a[k], d) THEN a[k]
          ELSE IF a[k].index = 0 THEN [a[k] EXCEPT !.st = "Received", !.resp = msgs[i]]
          ELSE [a[k] EXCEPT !.index = @ - 1]]
    <3>. HIDE DEF a
    <3>. QED BY <2>1, Zenon DEF Deliver
  <2>. HIDE DEF a
  <2>3. ASSUME NEW k \in 1..N
        PROVE  DeliveredTo(p[k], d, msgs, i) =
                 IF ~IsSent(a[k], d) THEN a[k]
                 ELSE IF a[k].index = 0 THEN [a[k] EXCEPT !.st = "Received", !.resp = msgs[i]]
                 ELSE [a[k] EXCEPT !.index = @ - 1]
    <3>1. p[k] \in Entries
      BY <1>1
    <3>2. a[k] = DeliveredTo(p[k], d, msgs, i - 1)
      BY <2>1
    <3>3. Takes(a[k], d, msgs[i], DeliveredTo(p[k], d, msgs, i))
      BY <3>1, <3>2, DeliveredStep, Zenon
    <3>. QED BY <3>3, Zenon DEF Takes
  <2>. QED BY <2>2, <2>3, Zenon DEF a
<1>. HIDE DEF At, next, N
<1>4. IsRec(g)
  <2>1. ASSUME NEW i \in 0..n PROVE At(i) = IF i = 0 THEN p ELSE next(g[i - 1], i)
    <3>1. CASE i = 0
      BY <1>2, <3>1
    <3>2. CASE i # 0
      <4>1. i \in 1..n /\ i - 1 \in 0..n
        BY <1>1, <3>2
      <4>2. g[i - 1] = At(i - 1)
        BY <4>1
      <4>. QED BY <1>3, <3>2, <4>1, <4>2, Zenon
    <3>. QED BY <3>1, <3>2
  <2>. QED BY <2>1, Zenon
<1>5. PICK h : IsRec(h) /\ DeliverAll(p, d, msgs) = h[n]
  BY <1>4, Zenon DEF DeliverAll, next
<1>6. h[0] = p /\ \A i \in 1..n : h[i] = next(h[i - 1], i)
  <2>. DEFINE r == [i \in 0..n |-> IF i = 0 THEN p ELSE next(h[i - 1], i)]
  <2>1. r[0] = p /\ \A i \in 1..n : r[i] = next(h[i - 1], i)
    BY <1>1
  <2>2. h = r
    BY <1>5, Zenon
  <2>. HIDE DEF r
  <2>. QED BY <2>1, <2>2
<1>. DEFINE G == {i \in Nat : i <= n => h[i] = At(i)}
<1>7. \A i \in Nat : i \in G
  <2>1. 0 \in G
    BY <1>2, <1>6
  <2>2. ASSUME NEW i \in Nat, i \in G PROVE i + 1 \in G
    <3>. SUFFICES ASSUME i + 1 <= n PROVE h[i + 1] = At(i + 1)
      OBVIOUS
    <3>1. i + 1 \in 1..n /\ (i + 1) - 1 = i /\ h[i] = At(i)
      BY <1>1, <2>2
    <3>2. h[i + 1] = next(h[i], i + 1) /\ At(i + 1) = next(At(i), i + 1)
      BY <1>3, <1>6, <3>1
    <3>. QED BY <3>1, <3>2, Zenon
  <2>. HIDE DEF G
  <2>. QED BY <2>1, <2>2, SetInduction
<1>8. h[n] = At(n)
  <2>1. n \in G
    BY <1>1, <1>7
  <2>. QED BY <1>1, <2>1
<1>. QED BY <1>5, <1>8, Zenon DEF At, N

\* q is p after the responses of d: they are stored, `rest` is still owed, and
\* requests that were not sent to d are not concerned.
AllDelivered(p, d, rest, q) ==
    /\ q \in Seq(Entries) /\ SameRequests(p, q)
    /\ Exact(q, d, rest)
    /\ \A k \in 1..Len(p) :
          /\ q[k].st = "Received" => q[k] = p[k] \/ q[k].resp = Token(q[k])
          /\ ~IsSent(p[k], d) => q[k] = p[k]

\* What a connection has received goes to the requests that it answers, the
\* indices of the others stay exact, and other connections are not concerned.
LEMMA DeliverAllExact ==
  ASSUME NEW p \in Seq(Entries), NEW d \in Dests, NEW msgs \in Seq(Tokens),
         NEW rest \in Seq(Tokens), Exact(p, d, msgs \o rest),
         NEW q, q = DeliverAll(p, d, msgs)
  PROVE  AllDelivered(p, d, rest, q)
<1>. DEFINE N == Len(p)
            n == Len(msgs)
            all == msgs \o rest
<1>1. N \in Nat /\ n \in Nat /\ Len(rest) \in Nat /\ \A k \in 1..N : p[k] \in Entries
  BY EntryFacts
<1>2. /\ Len(all) = n + Len(rest)
      /\ \A i \in 1..n : all[i] = msgs[i]
      /\ \A i \in 1..Len(rest) : all[n + i] = rest[i]
      /\ \A i \in 1..n : msgs[i] \in Tokens
  OBVIOUS
<1>3. q = [k \in 1..N |-> DeliveredTo(p[k], d, msgs, n)]
  BY DeliverAllIs, Zenon
<1>4. /\ \A k \in 1..N : IsSent(p[k], d) => p[k].index < Len(all) /\ all[p[k].index + 1] = Token(p[k])
      /\ \A i \in 1..Len(all) : \E k \in 1..N : IsSent(p[k], d) /\ p[k].index = i - 1
      /\ \A j, k \in 1..N :
           IsSent(p[j], d) /\ IsSent(p[k], d) /\ p[j].index = p[k].index => j = k
  BY Zenon DEF Exact
<1>. HIDE DEF all
<1>5. ASSUME NEW k \in 1..N, ~IsSent(p[k], d) PROVE q[k] = p[k]
  BY <1>3, <1>5, Zenon DEF DeliveredTo
<1>6. ASSUME NEW k \in 1..N, IsSent(p[k], d), p[k].index < n
      PROVE  /\ q[k] \in Entries /\ q[k].st = "Received" /\ q[k].resp = Token(q[k])
             /\ q[k].id = p[k].id /\ q[k].part = p[k].part
             /\ q[k].combine = p[k].combine /\ q[k].dest = p[k].dest
  <2>1. q[k] = DeliveredTo(p[k], d, msgs, n)
    BY <1>3, Zenon
  <2>2. p[k] \in Entries /\ p[k].index \in Nat
    BY EntryFacts, Zenon
  <2>3. p[k].index + 1 \in 1..n
    BY <1>1, <1>6, <2>2
  <2>4. msgs[p[k].index + 1] = Token(p[k]) /\ msgs[p[k].index + 1] \in Tokens
    BY <1>2, <1>4, <1>6, <2>3, Zenon
  <2>5. After(p[k], d, msgs, n, q[k])
    BY <1>1, <2>1, <2>2, DeliveredEntry, Zenon
  <2>. QED BY <1>6, <2>4, <2>5, Zenon DEF After
<1>7. ASSUME NEW k \in 1..N, IsSent(p[k], d), ~(p[k].index < n)
      PROVE  /\ q[k] \in Entries /\ IsSent(q[k], d) /\ q[k].index = p[k].index - n
             /\ q[k].st = "Sent"
             /\ q[k].id = p[k].id /\ q[k].part = p[k].part
             /\ q[k].combine = p[k].combine /\ q[k].dest = p[k].dest
             /\ Token(q[k]) = Token(p[k])
  <2>1. q[k] = DeliveredTo(p[k], d, msgs, n)
    BY <1>3, Zenon
  <2>2. p[k] \in Entries
    BY <1>1
  <2>3. After(p[k], d, msgs, n, q[k])
    BY <1>1, <2>1, <2>2, DeliveredEntry, Zenon
  <2>. QED BY <1>7, <2>3, Zenon DEF After
<1>8. ASSUME NEW k \in 1..N
      PROVE  /\ q[k] \in Entries
             /\ q[k].id = p[k].id /\ q[k].part = p[k].part
             /\ q[k].combine = p[k].combine /\ q[k].dest = p[k].dest
  BY <1>1, <1>5, <1>6, <1>7, Zenon
<1>9. q \in Seq(Entries) /\ Len(q) = N
  <2>1. q \in [1..N -> Entries]
    BY <1>3, <1>8, Zenon
  <2>. QED BY <1>1, <2>1
<1>10. ASSUME NEW k \in 1..N, IsSent(q[k], d)
       PROVE  /\ IsSent(p[k], d) /\ ~(p[k].index < n) /\ q[k].index = p[k].index - n
              /\ Token(q[k]) = Token(p[k])
  <2>1. IsSent(p[k], d)
    BY <1>5, <1>10, Zenon
  <2>2. ~(p[k].index < n)
    <3>1. q[k].st # "Received"
      BY <1>10 DEF IsSent
    <3>. QED BY <1>6, <2>1, <3>1, Zenon
  <2>. QED BY <1>7, <2>1, <2>2, Zenon
<1>11. \A k \in 1..N : p[k].index \in Nat
  BY EntryFacts
<1>12. ASSUME NEW k \in 1..N, IsSent(q[k], d)
       PROVE  q[k].index < Len(rest) /\ rest[q[k].index + 1] = Token(q[k])
  <2>1. /\ IsSent(p[k], d) /\ ~(p[k].index < n) /\ q[k].index = p[k].index - n
        /\ Token(q[k]) = Token(p[k])
    BY <1>10, <1>12, Zenon
  <2>2. p[k].index < Len(all) /\ all[p[k].index + 1] = Token(p[k]) /\ p[k].index \in Nat
    BY <1>4, <1>11, <2>1, Zenon
  <2>3. /\ q[k].index < Len(rest) /\ q[k].index + 1 \in 1..Len(rest)
        /\ n + (q[k].index + 1) = p[k].index + 1
    BY <1>1, <1>2, <2>1, <2>2
  <2>. QED BY <1>2, <2>1, <2>2, <2>3, Zenon
<1>13. ASSUME NEW i \in 1..Len(rest) PROVE \E k \in 1..N : IsSent(q[k], d) /\ q[k].index = i - 1
  <2>1. n + i \in 1..Len(all)
    BY <1>1, <1>2
  <2>2. PICK k \in 1..N : IsSent(p[k], d) /\ p[k].index = (n + i) - 1
    BY <1>4, <2>1, Zenon
  <2>3. ~(p[k].index < n) /\ p[k].index - n = i - 1
    BY <1>1, <2>2
  <2>. QED BY <1>7, <2>2, <2>3, Zenon
<1>14. ASSUME NEW j \in 1..N, NEW k \in 1..N, IsSent(q[j], d), IsSent(q[k], d),
              q[j].index = q[k].index
       PROVE  j = k
  <2>1. /\ IsSent(p[j], d) /\ q[j].index = p[j].index - n
        /\ IsSent(p[k], d) /\ q[k].index = p[k].index - n
    BY <1>10, <1>14, Zenon
  <2>2. p[j].index \in Nat /\ p[k].index \in Nat
    BY <1>11, Zenon
  <2>3. \A x, y \in Nat : x - n = y - n => x = y
    BY <1>1
  <2>4. p[j].index = p[k].index
    BY <1>14, <2>1, <2>2, <2>3, Zenon
  <2>. QED BY <1>4, <2>1, <2>4, Zenon
<1>15. Exact(q, d, rest)
  BY <1>9, <1>12, <1>13, <1>14, Zenon DEF Exact
<1>16. ASSUME NEW k \in 1..N, q[k].st = "Received" PROVE q[k] = p[k] \/ q[k].resp = Token(q[k])
  <2>1. IsSent(p[k], d) => p[k].index < n
    <3>1. "Sent" # "Received"
      OBVIOUS
    <3>. QED BY <1>7, <1>16, <3>1, Zenon
  <2>. QED BY <1>5, <1>6, <2>1, Zenon
<1>17. SameRequests(p, q)
  BY <1>8, <1>9, Zenon DEF SameRequests
<1>. QED BY <1>5, <1>9, <1>15, <1>16, <1>17, Zenon DEF AllDelivered

\* Exact is about the requests sent to d only.
LEMMA ExactSame ==
  ASSUME NEW p, NEW q, NEW d, NEW owed, Len(q) = Len(p), Exact(p, d, owed),
         \A k \in 1..Len(p) : /\ IsSent(q[k], d) <=> IsSent(p[k], d)
                              /\ IsSent(p[k], d) => q[k].index = p[k].index /\ Token(q[k]) = Token(p[k])
  PROVE  Exact(q, d, owed)
<1>1. ASSUME NEW k \in 1..Len(q), IsSent(q[k], d)
      PROVE  q[k].index < Len(owed) /\ owed[q[k].index + 1] = Token(q[k])
  <2>1. k \in 1..Len(p) /\ IsSent(p[k], d) /\ q[k].index = p[k].index /\ Token(q[k]) = Token(p[k])
    BY <1>1, Zenon
  <2>. QED BY <2>1, Zenon DEF Exact
<1>2. ASSUME NEW i \in 1..Len(owed)
      PROVE  \E k \in 1..Len(q) : IsSent(q[k], d) /\ q[k].index = i - 1
  <2>1. PICK k \in 1..Len(p) : IsSent(p[k], d) /\ p[k].index = i - 1
    BY Zenon DEF Exact
  <2>2. k \in 1..Len(q) /\ IsSent(q[k], d) /\ q[k].index = i - 1
    BY <2>1, Zenon
  <2>. QED BY <2>2, Zenon
<1>3. ASSUME NEW j \in 1..Len(q), NEW k \in 1..Len(q), IsSent(q[j], d), IsSent(q[k], d),
             q[j].index = q[k].index
      PROVE  j = k
  <2>1. j \in 1..Len(p) /\ IsSent(p[j], d) /\ q[j].index = p[j].index
    BY <1>3, Zenon
  <2>2. k \in 1..Len(p) /\ IsSent(p[k], d) /\ q[k].index = p[k].index
    BY <1>3, Zenon
  <2>3. p[j].index = p[k].index
    BY <1>3, <2>1, <2>2, Zenon
  <2>. QED BY <2>1, <2>2, <2>3, Zenon DEF Exact
<1>. QED BY <1>1, <1>2, <1>3, Zenon DEF Exact

\* What one connection received is not delivered to the requests of another.
LEMMA DeliverAllOther ==
  ASSUME NEW p \in Seq(Entries), NEW d, NEW e, e # d, NEW owed, Exact(p, e, owed),
         NEW q, SameRequests(p, q), \A k \in 1..Len(p) : ~IsSent(p[k], d) => q[k] = p[k]
  PROVE  Exact(q, e, owed)
<1>1. Len(q) = Len(p)
  BY DEF SameRequests
<1>2. ASSUME NEW k \in 1..Len(p)
      PROVE  /\ IsSent(q[k], e) <=> IsSent(p[k], e)
             /\ IsSent(p[k], e) => q[k].index = p[k].index /\ Token(q[k]) = Token(p[k])
  <2>1. p[k].dest = e => q[k] = p[k]
    <3>1. p[k].dest = e => ~IsSent(p[k], d)
      BY DEF IsSent
    <3>. QED BY <3>1, Zenon
  <2>2. q[k].dest = p[k].dest
    BY Zenon DEF SameRequests
  <2>. QED BY <2>1, <2>2, Zenon DEF IsSent
<1>. QED BY <1>1, <1>2, ExactSame, Zenon

-------------------------------------------------------------------------------
(* Connections and their predecessors. *)

\* What is owed by several, in order.
LEMMA TokensConcat ==
  ASSUME NEW a \in Seq(Tokens), NEW b \in Seq(Tokens)
  PROVE  /\ a \o b \in Seq(Tokens) /\ Len(a \o b) = Len(a) + Len(b)
         /\ (a \o b = <<>> <=> a = <<>> /\ b = <<>>)
         /\ a \o <<>> = a /\ <<>> \o a = a
<1>1. a \o b \in Seq(Tokens) /\ Len(a \o b) = Len(a) + Len(b)
  OBVIOUS
<1>2. a \o b = <<>> <=> a = <<>> /\ b = <<>>
  OBVIOUS
<1>3. a \o <<>> = a /\ <<>> \o a = a
  OBVIOUS
<1>. QED BY <1>1, <1>2, <1>3

\* The three forms of an entry of Connections::connections.
LEMMA ConnectionForms ==
  ASSUME NEW c \in Seq(Connection), Drained(c)
  PROVE  \/ c = <<>>
         \/ Len(c) = 1 /\ c = <<c[1]>> /\ c[1] \in Connection
         \/ Len(c) = 2 /\ c = <<c[1], c[2]>> /\ c[1] \in Connection /\ c[2] \in Connection
<1>1. Len(c) = 0 \/ Len(c) = 1 \/ Len(c) = 2
  <2>1. Len(c) \in Nat /\ Len(c) <= 2
    BY DEF Drained
  <2>2. \A n \in Nat : n <= 2 => n = 0 \/ n = 1 \/ n = 2
    OBVIOUS
  <2>. QED BY <2>1, <2>2, Zenon
<1>2. CASE Len(c) = 0
  BY <1>2
<1>3. CASE Len(c) = 1
  BY <1>3
<1>4. CASE Len(c) = 2
  BY <1>4
<1>. QED BY <1>1, <1>2, <1>3, <1>4, Zenon

\* A connection without a predecessor.
LEMMA Single ==
  ASSUME NEW s \in Connection
  PROVE  /\ <<s>> \in Seq(Connection) /\ Len(<<s>>) = 1 /\ <<s>>[1] = s /\ <<s>> # <<>>
         /\ Owed(<<s>>) = s.q /\ Owed(<<s>>) \in Seq(Tokens)
         /\ Drained(<<s>>) <=> s.ready <= Len(s.q)
<1>1. /\ <<s>> \in Seq(Connection) /\ Len(<<s>>) = 1 /\ <<s>>[1] = s /\ <<s>> # <<>>
  OBVIOUS
<1>2. s.q \in Seq(Tokens)
  BY DEF Connection
<1>3. Owed(<<s>>) = s.q
  BY <1>1, Zenon DEF Owed
<1>4. Drained(<<s>>) <=> s.ready <= Len(s.q)
  BY <1>1 DEF Drained
<1>. QED BY <1>1, <1>2, <1>3, <1>4

\* A connection with a predecessor.
LEMMA Double ==
  ASSUME NEW s \in Connection, NEW o \in Connection
  PROVE  /\ <<s, o>> \in Seq(Connection) /\ Len(<<s, o>>) = 2 /\ <<s, o>> # <<>>
         /\ <<s, o>>[1] = s /\ <<s, o>>[2] = o
         /\ Owed(<<s, o>>) = o.q \o s.q /\ Owed(<<s, o>>) \in Seq(Tokens)
         /\ Drained(<<s, o>>) <=> s.q # <<>> /\ s.ready <= Len(s.q) /\ o.ready <= Len(o.q)
<1>. DEFINE c == <<s, o>>
<1>1. /\ c \in Seq(Connection) /\ Len(c) = 2 /\ c # <<>> /\ c[1] = s /\ c[2] = o
  OBVIOUS
<1>2. s.q \in Seq(Tokens) /\ o.q \in Seq(Tokens)
  BY DEF Connection
<1>. HIDE DEF c
<1>3. Owed(c) = o.q \o s.q
  <2>1. Len(c) # 1
    BY <1>1
  <2>. QED BY <1>1, <2>1, Zenon DEF Owed
<1>4. Drained(c) <=> s.q # <<>> /\ s.ready <= Len(s.q) /\ o.ready <= Len(o.q)
  <2>1. \A i : i \in 1..2 <=> i = 1 \/ i = 2
    OBVIOUS
  <2>. QED BY <1>1, <2>1 DEF Drained
<1>5. Owed(c) \in Seq(Tokens)
  BY <1>2, <1>3
<1>. QED BY <1>1, <1>3, <1>4, <1>5, Zenon DEF c

\* The parts of a connection with a predecessor.
LEMMA DoubleParts ==
  ASSUME NEW c \in Seq(Connection), Drained(c), Len(c) = 2
  PROVE  /\ c[1] \in Connection /\ c[2] \in Connection
         /\ c[1].ready <= Len(c[1].q) /\ c[2].ready <= Len(c[2].q) /\ c[1].q # <<>>
         /\ Owed(c) = c[2].q \o c[1].q /\ Len(c) # 1
<1>1. 1 \in 1..Len(c) /\ 2 \in 1..Len(c) /\ Len(c) # 1 /\ c # <<>>
  OBVIOUS
<1>2. c[1] \in Connection /\ c[2] \in Connection
  BY <1>1, ElementOfSeq, Zenon
<1>. QED BY <1>1, <1>2, Zenon DEF Drained, Owed

\* What a poll of one SinkConnection takes off is what it answered first, and
\* an error is reported when nothing is left to take.
LEMMA SinkTryRecvFacts ==
  ASSUME NEW s \in Connection, s.ready <= Len(s.q), NEW r, r = SinkTryRecv(s)
  PROVE  /\ r.msgs \in Seq(Tokens) /\ r.conn \in Connection /\ r.conn.ready = 0
         /\ s.q = r.msgs \o r.conn.q
         /\ ~r.ok => r.conn.q = s.q
         /\ r.conn.ready <= Len(r.conn.q)
<1>1. s.q \in Seq(Tokens) /\ s.ready \in Nat /\ Len(s.q) \in Nat
  BY DEF Connection
<1>. DEFINE a == SubSeq(s.q, 1, s.ready)
            b == SubSeq(s.q, s.ready + 1, Len(s.q))
<1>2. a \in Seq(Tokens) /\ b \in Seq(Tokens) /\ s.q = a \o b
  <2>. DEFINE q == s.q
              m == s.ready
  <2>1. q \in Seq(Tokens) /\ m \in Nat /\ m <= Len(q)
    BY <1>1
  <2>. HIDE DEF q, m
  <2>2. SubSeq(q, 1, m) \in Seq(Tokens) /\ SubSeq(q, m + 1, Len(q)) \in Seq(Tokens)
    BY <2>1
  <2>3. 1 \in 1..Len(q) + 1 /\ m \in (1 - 1)..Len(q) /\ Len(q) \in m..Len(q)
    BY <2>1
  <2>4. SubSeq(q, 1, m) \o SubSeq(q, m + 1, Len(q)) = SubSeq(q, 1, Len(q))
    BY <2>1, <2>3, ConcatAdjacentSubSeq, Zenon
  <2>5. SubSeq(q, 1, Len(q)) = q
    BY <2>1, SubSeqFull, Zenon
  <2>. QED BY <2>2, <2>4, <2>5, Zenon DEF q, m
<1>3. s.ready = 0 => b = s.q
  BY <1>1
<1>. HIDE DEF a, b
<1>4. r = [ok |-> ~(s.err /\ s.ready = 0), msgs |-> a,
           conn |-> [s EXCEPT !.q = b, !.ready = 0]]
  BY DEF SinkTryRecv, a, b
<1>5. /\ r.msgs = a /\ r.conn \in Connection /\ r.conn.ready = 0 /\ r.conn.q = b
      /\ ~r.ok => s.ready = 0
  <2>1. r.msgs = a /\ r.conn = [s EXCEPT !.q = b, !.ready = 0] /\ (~r.ok => s.ready = 0)
    <3>. DEFINE ok == ~(s.err /\ s.ready = 0)
                conn == [s EXCEPT !.q = b, !.ready = 0]
    <3>1. r = [ok |-> ok, msgs |-> a, conn |-> conn]
      BY <1>4
    <3>2. ~ok => s.ready = 0
      OBVIOUS
    <3>. HIDE DEF ok, conn
    <3>3. r.msgs = a /\ r.conn = conn /\ r.ok = ok
      BY <3>1
    <3>. QED BY <3>2, <3>3, Zenon DEF conn
  <2>. DEFINE S == Seq(Tokens)
  <2>2. b \in S /\ s \in [q : S, ready : Nat, err : BOOLEAN]
    BY <1>2 DEF Connection
  <2>. HIDE DEF S
  <2>3. /\ [s EXCEPT !.q = b, !.ready = 0] \in [q : S, ready : Nat, err : BOOLEAN]
        /\ [s EXCEPT !.q = b, !.ready = 0].q = b /\ [s EXCEPT !.q = b, !.ready = 0].ready = 0
    BY <2>2, Zenon
  <2>. QED BY <2>1, <2>3, Zenon DEF S, Connection
<1>6. Len(b) \in Nat
  BY <1>2
<1>. QED BY <1>2, <1>3, <1>5, <1>6

\* What a poll of a connection and its predecessor may do: what it takes off
\* is what they owe first, and an error leaves what is owed in place.
Polled(c, r) ==
    /\ r.msgs \in Seq(Tokens) /\ r.conn \in Seq(Connection) /\ r.conn # <<>>
    /\ Drained(r.conn)
    /\ r.ok => Owed(c) = r.msgs \o Owed(r.conn)
    /\ ~r.ok /\ Owed(r.conn) = <<>> => Owed(c) = <<>>

\* KafkaConnection::try_recv_into drains the predecessor first.
LEMMA TryRecvIntoFacts ==
  ASSUME NEW c \in Seq(Connection), Drained(c), c # <<>>
  PROVE  Polled(c, TryRecvInto(c))
<1>. DEFINE new == SinkTryRecv(c[1])
            old == SinkTryRecv(c[2])
            r == TryRecvInto(c)
<1>1. CASE Len(c) = 1 /\ c = <<c[1]>> /\ c[1] \in Connection
  <2>1. r = [ok |-> new.ok, msgs |-> new.msgs, conn |-> <<new.conn>>]
    BY <1>1, Zenon DEF TryRecvInto
  <2>2. c[1].ready <= Len(c[1].q) /\ Owed(c) = c[1].q
    BY <1>1, Single, Zenon
  <2>3. /\ new.msgs \in Seq(Tokens) /\ new.conn \in Connection
        /\ c[1].q = new.msgs \o new.conn.q /\ (~new.ok => new.conn.q = c[1].q)
        /\ new.conn.ready <= Len(new.conn.q)
    BY <1>1, <2>2, SinkTryRecvFacts, Zenon
  <2>. HIDE DEF new, r
  <2>4. r.ok = new.ok /\ r.msgs = new.msgs /\ r.conn = <<new.conn>>
    BY <2>1
  <2>5. /\ <<new.conn>> \in Seq(Connection) /\ <<new.conn>> # <<>> /\ Drained(<<new.conn>>)
        /\ Owed(<<new.conn>>) = new.conn.q
    BY <2>3, Single, Zenon
  <2>. QED BY <2>2, <2>3, <2>4, <2>5, Zenon DEF Polled, r
<1>2. CASE Len(c) = 2 /\ c = <<c[1], c[2]>> /\ c[1] \in Connection /\ c[2] \in Connection
  <2>. DEFINE x == c[1]
              y == c[2]
  <2>1. /\ x.ready <= Len(x.q) /\ y.ready <= Len(y.q) /\ x.q # <<>>
        /\ Owed(c) = y.q \o x.q /\ Len(c) # 1
    BY <1>2, DoubleParts, Zenon
  <2>2. /\ new.msgs \in Seq(Tokens) /\ new.conn \in Connection
        /\ x.q = new.msgs \o new.conn.q /\ (~new.ok => new.conn.q = x.q)
        /\ new.conn.ready <= Len(new.conn.q)
    BY <1>2, <2>1, SinkTryRecvFacts, Zenon
  <2>3. /\ old.msgs \in Seq(Tokens) /\ old.conn \in Connection
        /\ y.q = old.msgs \o old.conn.q /\ old.conn.ready <= Len(old.conn.q)
    BY <1>2, <2>1, SinkTryRecvFacts, Zenon
  <2>. DEFINE a == old.msgs
              b == old.conn.q
              m == new.msgs
              n == new.conn.q
  <2>4. a \in Seq(Tokens) /\ b \in Seq(Tokens) /\ m \in Seq(Tokens) /\ n \in Seq(Tokens)
        /\ x.q \in Seq(Tokens)
    BY <1>2, <2>2, <2>3 DEF Connection
  <2>5. CASE old.ok /\ old.conn.q = <<>>
    <3>1. r = [ok |-> new.ok, msgs |-> old.msgs \o new.msgs, conn |-> <<new.conn>>]
      BY <2>1, <2>5, Zenon DEF TryRecvInto
    <3>2. (a \o b) \o (m \o n) = (a \o m) \o n /\ a \o m \in Seq(Tokens)
      <4>1. b = <<>>
        BY <2>5
      <4>. HIDE DEF a, b, m, n
      <4>. QED BY <2>4, <4>1
    <3>3. /\ <<new.conn>> \in Seq(Connection) /\ <<new.conn>> # <<>> /\ Drained(<<new.conn>>)
          /\ Owed(<<new.conn>>) = n
      BY <2>2, Single, Zenon
    <3>. HIDE DEF new, r, old
    <3>4. r.ok = new.ok /\ r.msgs = a \o m /\ r.conn = <<new.conn>>
      BY <3>1, Zenon
    <3>5. Owed(c) = (a \o m) \o n
      BY <2>1, <2>2, <2>3, <3>2, Zenon
    <3>. QED BY <2>1, <2>2, <3>2, <3>3, <3>4, <3>5, Zenon DEF Polled, r
  <2>6. CASE ~(old.ok /\ old.conn.q = <<>>)
    <3>1. r = [ok |-> old.ok, msgs |-> old.msgs, conn |-> <<x, old.conn>>]
      BY <2>1, <2>6, Zenon DEF TryRecvInto
    <3>2. (a \o b) \o x.q = a \o (b \o x.q) /\ b \o x.q # <<>>
      <4>. DEFINE z == x.q
      <4>1. z \in Seq(Tokens) /\ z # <<>>
        BY <2>1, <2>4
      <4>. HIDE DEF a, b, m, n, z
      <4>2. (a \o b) \o z = a \o (b \o z)
        <5>1. Associative(Tokens)
          BY ConcatIsAssociative
        <5>2. a \in Seq(Tokens) /\ b \in Seq(Tokens) /\ z \in Seq(Tokens)
          BY <2>4, <4>1, Zenon
        <5>3. a \o (b \o z) = (a \o b) \o z
          BY <5>1, <5>2, Zenon DEF Associative
        <5>. QED BY <5>3, Zenon
      <4>3. b \o z # <<>>
        BY <2>4, <4>1, TokensConcat, Zenon
      <4>. QED BY <4>2, <4>3 DEF z
    <3>3. /\ <<x, old.conn>> \in Seq(Connection) /\ <<x, old.conn>> # <<>>
          /\ Drained(<<x, old.conn>>) /\ Owed(<<x, old.conn>>) = b \o x.q
      BY <1>2, <2>1, <2>3, Double, Zenon
    <3>. HIDE DEF new, r, old
    <3>4. r.ok = old.ok /\ r.msgs = a /\ r.conn = <<x, old.conn>>
      BY <3>1
    <3>5. Owed(c) = a \o (b \o x.q)
      BY <2>1, <2>3, <3>2, Zenon
    <3>. QED BY <2>4, <3>2, <3>3, <3>4, <3>5, Zenon DEF Polled, r
  <2>. QED BY <2>5, <2>6
<1>. QED BY <1>1, <1>2, ConnectionForms, Zenon

\* What a connection is when something was sent over it.
SentOver(c, tokens, a) ==
    /\ a \in Seq(Connection) /\ a # <<>> /\ Drained(a) /\ Owed(a) = Owed(c) \o tokens

\* A record like this is a connection.
LEMMA NewConnIs == NewConn \in Connection /\ NewConn.q = <<>> /\ NewConn.ready = 0
BY DEF NewConn, Connection

\* Sending over a connection.
LEMMA Append1Facts ==
  ASSUME NEW c \in Seq(Connection), Drained(c), c # <<>>, NEW tokens \in Seq(Tokens)
  PROVE  SentOver(c, tokens, Append1(c, tokens))
<1>. DEFINE x == c[1]
            new == [x EXCEPT !.q = @ \o tokens]
            a == Append1(c, tokens)
<1>1. ASSUME x \in Connection, x.ready <= Len(x.q)
      PROVE  /\ new \in Connection /\ new.q = x.q \o tokens /\ new.ready = x.ready
             /\ new.ready <= Len(new.q) /\ (x.q # <<>> => new.q # <<>>)
  <2>. DEFINE S == Seq(Tokens)
              b == x.q \o tokens
  <2>1. x.q \in S /\ x.ready \in Nat
    BY <1>1 DEF Connection
  <2>2. b \in S /\ x.ready <= Len(b) /\ (x.q # <<>> => b # <<>>)
    <3>. DEFINE z == x.q
    <3>1. z \in Seq(Tokens) /\ Len(z) \in Nat /\ Len(tokens) \in Nat
      BY <2>1
    <3>. HIDE DEF z
    <3>2. z \o tokens \in Seq(Tokens) /\ Len(z \o tokens) = Len(z) + Len(tokens)
          /\ (z # <<>> => z \o tokens # <<>>)
      BY <3>1
    <3>. QED BY <1>1, <2>1, <3>1, <3>2 DEF z
  <2>3. x \in [q : S, ready : Nat, err : BOOLEAN] /\ new = [x EXCEPT !.q = b]
    BY <1>1 DEF Connection
  <2>. HIDE DEF S, b, new
  <2>4. new \in [q : S, ready : Nat, err : BOOLEAN] /\ new.q = b /\ new.ready = x.ready
    BY <2>2, <2>3
  <2>. QED BY <2>2, <2>4, Zenon DEF S, b, Connection
<1>2. CASE Len(c) = 1 /\ c = <<c[1]>> /\ c[1] \in Connection
  <2>1. x \in Connection /\ x.ready <= Len(x.q) /\ Owed(c) = x.q
    BY <1>2, Single, Zenon
  <2>2. a = <<new>>
    <3>1. a = [<<x>> EXCEPT ![1] = new]
      BY <1>2, Zenon DEF Append1
    <3>. HIDE DEF x, new
    <3>. QED BY <3>1
  <2>. HIDE DEF new, a
  <2>3. <<new>> \in Seq(Connection) /\ <<new>> # <<>> /\ Drained(<<new>>) /\ Owed(<<new>>) = new.q
    BY <1>1, <2>1, Single, Zenon
  <2>. QED BY <1>1, <2>1, <2>2, <2>3, Zenon DEF SentOver, a
<1>3. CASE Len(c) = 2 /\ c = <<c[1], c[2]>> /\ c[1] \in Connection /\ c[2] \in Connection
  <2>. DEFINE y == c[2]
  <2>1. /\ x \in Connection /\ y \in Connection /\ x.ready <= Len(x.q) /\ y.ready <= Len(y.q)
        /\ x.q # <<>> /\ Owed(c) = y.q \o x.q
    BY <1>3, DoubleParts, Zenon
  <2>2. a = <<new, y>>
    <3>1. a = [<<x, y>> EXCEPT ![1] = new]
      BY <1>3, ZenonT(30) DEF Append1
    <3>. HIDE DEF x, y, new
    <3>. QED BY <3>1
  <2>3. y.q \o (x.q \o tokens) = (y.q \o x.q) \o tokens
    <3>1. x.q \in Seq(Tokens) /\ y.q \in Seq(Tokens)
      BY <2>1 DEF Connection
    <3>. DEFINE v == x.q
                w == y.q
    <3>. HIDE DEF v, w
    <3>2. w \o (v \o tokens) = (w \o v) \o tokens
      <4>1. Associative(Tokens) /\ v \in Seq(Tokens) /\ w \in Seq(Tokens)
        BY <3>1, ConcatIsAssociative DEF v, w
      <4>. QED BY <4>1, Zenon DEF Associative
    <3>. QED BY <3>2 DEF v, w
  <2>. HIDE DEF new, a
  <2>4. /\ <<new, y>> \in Seq(Connection) /\ <<new, y>> # <<>> /\ Drained(<<new, y>>)
        /\ Owed(<<new, y>>) = y.q \o new.q
    BY <1>1, <2>1, Double, Zenon
  <2>. QED BY <1>1, <2>1, <2>2, <2>3, <2>4, Zenon DEF SentOver, a
<1>. QED BY <1>2, <1>3, ConnectionForms, Zenon

\* No connection owes nothing.
LEMMA NoConnection ==
  /\ <<>> \in Seq(Connection) /\ Drained(<<>>) /\ Owed(<<>>) = <<>> /\ Len(<<>>) < 2
BY DEF Drained, Owed

\* What a connection owes, and that it may be none.
LEMMA OwedType ==
  ASSUME NEW c \in Seq(Connection), Drained(c)
  PROVE  Owed(c) \in Seq(Tokens) /\ (PendingCount(c) = 0 <=> Owed(c) = <<>>)
<1>1. Owed(c) \in Seq(Tokens)
  <2>1. CASE c = <<>>
    <3>1. <<>> \in Seq(Tokens)
      OBVIOUS
    <3>. QED BY <2>1, <3>1, Zenon DEF Owed
  <2>2. CASE Len(c) = 1 /\ c = <<c[1]>> /\ c[1] \in Connection
    BY <2>2, Single, Zenon
  <2>3. CASE Len(c) = 2
    <3>1. Owed(c) = c[2].q \o c[1].q /\ c[1] \in Connection /\ c[2] \in Connection
      BY <2>3, DoubleParts, Zenon
    <3>. DEFINE v == c[1].q
                w == c[2].q
    <3>2. v \in Seq(Tokens) /\ w \in Seq(Tokens)
      BY <3>1 DEF Connection
    <3>. HIDE DEF v, w
    <3>3. w \o v \in Seq(Tokens)
      BY <3>2, TokensConcat, Zenon
    <3>. QED BY <3>1, <3>3, Zenon DEF v, w
  <2>. QED BY <2>1, <2>2, <2>3, ConnectionForms, Zenon
<1>2. ASSUME NEW s \in Seq(Tokens) PROVE Len(s) = 0 <=> s = <<>>
  OBVIOUS
<1>. QED BY <1>1, <1>2, Zenon DEF PendingCount

\* One and two connections.
LEMMA Pairs ==
  ASSUME NEW x, NEW y
  PROVE  /\ <<x>> \o <<>> = <<x>> /\ <<x>> \o <<y>> = <<x, y>> /\ <<x, y>>[1] = x
         /\ \A z : [<<x, y>> EXCEPT ![1] = z] = <<z, y>>
<1>1. <<x>> \o <<>> = <<x>>
  OBVIOUS
<1>2. <<x>> \o <<y>> = <<x, y>>
  <2>. DEFINE T == {x, y}
              s == <<x>> \o <<y>>
  <2>1. <<x>> \in Seq(T) /\ <<y>> \in Seq(T) /\ Len(<<x>>) = 1 /\ Len(<<y>>) = 1
        /\ <<x>>[1] = x /\ <<y>>[1] = y
    OBVIOUS
  <2>2. s \in Seq(T) /\ Len(s) = 2 /\ s[1] = x /\ s[2] = y
    BY <2>1
  <2>. HIDE DEF s, T
  <2>3. s = <<x, y>>
    BY <2>2
  <2>. QED BY <2>3 DEF s
<1>3. <<x, y>>[1] = x
  OBVIOUS
<1>4. ASSUME NEW z PROVE [<<x, y>> EXCEPT ![1] = z] = <<z, y>>
  OBVIOUS
<1>. QED BY <1>1, <1>2, <1>3, <1>4, Zenon

\* A connection that replaces another keeps it as long as that owes something.
LEMMA CreatedFacts ==
  ASSUME NEW old \in Seq(Connection), Drained(old), Len(old) < 2,
         NEW tokens \in Seq(Tokens), tokens # <<>>,
         NEW k, k = <<NewConn>> \o (IF PendingCount(old) = 0 THEN <<>> ELSE old)
  PROVE  SentOver(old, tokens, Append1(k, tokens))
<1>. DEFINE s == <<NewConn>>
<1>1. /\ s \in Seq(Connection) /\ s # <<>> /\ Owed(s) = <<>> /\ Drained(s)
  <2>1. /\ s \in Seq(Connection) /\ s # <<>> /\ Owed(s) = NewConn.q
        /\ Drained(s) <=> NewConn.ready <= Len(NewConn.q)
    BY NewConnIs, Single, Zenon
  <2>2. NewConn.ready <= Len(NewConn.q)
    BY NewConnIs
  <2>. QED BY <2>1, <2>2, NewConnIs, Zenon
<1>2. CASE PendingCount(old) = 0
  <2>1. k = s
    <3>1. k = <<NewConn>> \o <<>>
      BY <1>2, Zenon
    <3>. QED BY <3>1, Pairs, Zenon
  <2>2. Owed(old) = Owed(s)
    BY <1>1, <1>2, OwedType, Zenon
  <2>3. SentOver(s, tokens, Append1(s, tokens))
    BY <1>1, Append1Facts, Zenon
  <2>. QED BY <2>1, <2>2, <2>3, Zenon DEF SentOver
<1>3. CASE PendingCount(old) # 0
  <2>. DEFINE x == old[1]
              new == [NewConn EXCEPT !.q = tokens]
  <2>1. Len(old) = 1 /\ old = <<x>> /\ x \in Connection
    <3>1. old # <<>>
      BY <1>3, OwedType, NoConnection, Zenon
    <3>2. ~(2 < 2)
      OBVIOUS
    <3>. QED BY <3>1, <3>2, ConnectionForms, Zenon
  <2>2. Owed(old) = x.q /\ x.ready <= Len(x.q) /\ x.q \in Seq(Tokens)
    BY <2>1, Single, Zenon
  <2>. HIDE DEF x
  <2>3. k = <<NewConn, x>>
    <3>1. k = <<NewConn>> \o <<x>>
      BY <1>3, <2>1, Zenon
    <3>. QED BY <3>1, Pairs, Zenon
  <2>4. /\ new \in Connection /\ new.q = tokens /\ new.ready = 0
        /\ [NewConn EXCEPT !.q = @ \o tokens] = new
    <3>. DEFINE S == Seq(Tokens)
    <3>1. NewConn \in [q : S, ready : Nat, err : BOOLEAN] /\ tokens \in S
      BY NewConnIs DEF Connection
    <3>2. <<>> \o tokens = tokens
      OBVIOUS
    <3>. HIDE DEF S
    <3>3. new \in [q : S, ready : Nat, err : BOOLEAN] /\ new.q = tokens /\ new.ready = NewConn.ready
      BY <3>1
    <3>4. [NewConn EXCEPT !.q = @ \o tokens] = new
      BY <3>2, NewConnIs, Zenon
    <3>. QED BY <3>3, <3>4, NewConnIs, Zenon DEF S, Connection
  <2>5. Append1(k, tokens) = <<new, x>>
    <3>1. k[1] = NewConn
      BY <2>3, Pairs, Zenon
    <3>2. Append1(k, tokens) = [k EXCEPT ![1] = new]
      BY <2>4, <3>1, Zenon DEF Append1
    <3>. HIDE DEF new
    <3>3. [<<NewConn, x>> EXCEPT ![1] = new] = <<new, x>>
      BY Pairs
    <3>. QED BY <2>3, <3>2, <3>3, Zenon
  <2>. HIDE DEF new
  <2>6. new.ready <= Len(new.q)
    <3>1. Len(tokens) \in Nat
      OBVIOUS
    <3>. QED BY <2>4, <3>1
  <2>7. /\ <<new, x>> \in Seq(Connection) /\ <<new, x>> # <<>> /\ Owed(<<new, x>>) = x.q \o new.q
        /\ Drained(<<new, x>>)
    BY <2>1, <2>2, <2>4, <2>6, Double, Zenon
  <2>. QED BY <2>2, <2>4, <2>5, <2>7, Zenon DEF SentOver
<1>. QED BY <1>2, <1>3

\* get_or_open_connection, followed by the send: whichever connection it
\* gives, what was owed before is still owed first.
LEMMA GetOrOpenFacts ==
  ASSUME NEW d, conns[d] \in Seq(Connection), Drained(conns[d]),
         NEW tokens \in Seq(Tokens), tokens # <<>>, NEW res \in GetOrOpen(d), res.ok
  PROVE  SentOver(conns[d], tokens, Append1(res.conn, tokens))
<1>. DEFINE c == conns[d]
            keep(old) == <<NewConn>> \o (IF PendingCount(old) = 0 THEN <<>> ELSE old)
<1>1. ASSUME NEW old, NEW left, res \in Create(d, old, left)
      PROVE  Len(old) < 2 /\ res.conn = keep(old)
  <2>. HIDE DEF keep
  <2>1. PICK a \in Address(d) : res =
          [ok |-> reach[a] /\ Len(old) < 2, addr |-> a,
           conn |-> IF reach[a] /\ Len(old) < 2 THEN keep(old) ELSE left]
    BY <1>1, Zenon DEF Create, keep
  <2>. DEFINE ok == reach[a] /\ Len(old) < 2
              conn == IF ok THEN keep(old) ELSE left
  <2>2. ok => Len(old) < 2 /\ conn = keep(old)
    BY Zenon
  <2>3. res = [ok |-> ok, addr |-> a, conn |-> conn]
    BY <2>1, Zenon
  <2>. HIDE DEF ok, conn
  <2>4. res.ok = ok /\ res.conn = conn
    BY <2>3
  <2>. QED BY <2>2, <2>4, Zenon
<1>2. ASSUME NEW left, res \in Create(d, <<>>, left), Owed(c) = <<>>
      PROVE  SentOver(c, tokens, Append1(res.conn, tokens))
  <2>1. res.conn = keep(<<>>)
    BY <1>1, <1>2, Zenon
  <2>2. SentOver(<<>>, tokens, Append1(res.conn, tokens))
    BY <2>1, NoConnection, CreatedFacts, Zenon
  <2>. QED BY <1>2, <2>2, NoConnection, Zenon DEF SentOver
<1>3. CASE c = <<>>
  <2>1. res \in Create(d, <<>>, <<>>)
    BY <1>3, Zenon DEF GetOrOpen
  <2>2. Owed(c) = <<>>
    BY <1>3, NoConnection, Zenon
  <2>. QED BY <1>2, <2>1, <2>2, Zenon
<1>4. CASE c # <<>>
  <2>1. \/ res = [ok |-> TRUE, addr |-> control_addr, conn |-> c]
        \/ res = [ok |-> FALSE, addr |-> control_addr, conn |-> c]
        \/ ~(PendingCount(c) > 0) /\ res \in Create(d, <<>>, c)
        \/ res \in Create(d, c, <<>>)
    BY <1>4, Zenon DEF GetOrOpen
  <2>2. CASE res = [ok |-> TRUE, addr |-> control_addr, conn |-> c]
    <3>1. res.conn = c
      BY <2>2, Zenon
    <3>. QED BY <1>4, <3>1, Append1Facts, Zenon
  <2>3. CASE res = [ok |-> FALSE, addr |-> control_addr, conn |-> c]
    BY <2>3
  <2>4. CASE ~(PendingCount(c) > 0) /\ res \in Create(d, <<>>, c)
    <3>1. Owed(c) \in Seq(Tokens)
      BY OwedType, Zenon
    <3>2. PendingCount(c) = 0
      BY <2>4, <3>1 DEF PendingCount
    <3>3. Owed(c) = <<>>
      BY <3>2, OwedType, Zenon
    <3>. QED BY <1>2, <2>4, <3>3, Zenon
  <2>5. CASE res \in Create(d, c, <<>>)
    <3>1. Len(c) < 2 /\ res.conn = keep(c)
      BY <1>1, <2>5, Zenon
    <3>. QED BY <3>1, CreatedFacts, Zenon
  <2>. QED BY <2>1, <2>2, <2>3, <2>4, <2>5, Zenon
<1>. QED BY <1>3, <1>4

-------------------------------------------------------------------------------
(* The invariant: the initial states, and steps that leave most of it alone. *)

\* Before the first request.
LEMMA KafkaInit == Init => KafkaInv
<1>. SUFFICES ASSUME Init PROVE KafkaInv
  OBVIOUS
<1>1. kinds \in Seq(KindSet)
  BY KafkaAssumption, Zenon DEF Init
<1>2. <<>> \in Seq(Nat) /\ <<>> \in Seq(Entries) /\ <<>> \in Seq(Answers)
      /\ <<>> \in Seq(Tokens) /\ <<>> \in Seq(Connection) /\ Len(<<>>) = 0 /\ 1..0 = {}
  OBVIOUS
<1>3. Len(kinds) \in Nat
  BY <1>1
<1>4. KafkaTypes
  <2>1. 0 \in 0..Len(kinds)
    BY <1>3
  <2>2. "idle" \in Pcs \ {"panic"}
    BY DEF Pcs
  <2>3. /\ [d \in Dests |-> <<>>] \in [Dests -> Seq(Connection)]
        /\ [d \in Dests |-> <<>>] \in [Dests -> Seq(Tokens)]
    BY <1>2, Zenon
  <2>. QED BY <1>1, <1>2, <2>1, <2>2, <2>3, Zenon DEF Init, KafkaTypes
<1>5. Phases
  <2>1. pc = "idle" /\ batch = <<>> /\ errored = {} /\ unread = {} /\ \A d \in Dests : outbox[d] = <<>>
    BY Zenon DEF Init
  <2>2. "idle" # "recv" /\ ~Routing
    BY <2>1 DEF Routing
  <2>. QED BY <2>1, <2>2, Zenon DEF Phases
<1>6. InTurn
  <2>1. pending = <<>> /\ returned = <<>> /\ batch = <<>> /\ taken = 0
    BY Zenon DEF Init
  <2>2. Len(returned) = 0 /\ taken - Len(batch) = 0 /\ Len(pending) = 0 /\ Len(batch) = 0
    <3>1. 0 - 0 = 0
      OBVIOUS
    <3>. QED BY <1>2, <2>1, <3>1, Zenon
  <2>3. Numbered(pending, 0, 0)
    BY <2>1, <2>2 DEF Numbered
  <2>4. IsRest(batch, 0) /\ Stored(pending)
    BY <1>2, <2>2, Zenon DEF IsRest, Stored
  <2>. QED BY <2>2, <2>3, <2>4 DEF InTurn
<1>7. Handshake
  <2>1. Len(pending) = 0 /\ pc = "idle"
    BY <1>2, Zenon DEF Init
  <2>2. ~Routing /\ pc # "route"
    BY <2>1 DEF Routing
  <2>. QED BY <1>2, <2>1, <2>2, Zenon DEF Handshake, ControlOnly, NoControl
<1>8. OwedExactly
  <2>1. ASSUME NEW d \in Dests PROVE Exact(pending, d, Owed(conns[d]) \o outbox[d])
    <3>1. conns[d] = <<>> /\ outbox[d] = <<>> /\ Len(pending) = 0
      BY <1>2, Zenon DEF Init
    <3>2. Owed(conns[d]) \o outbox[d] = <<>>
      BY <1>2, <3>1, NoConnection, TokensConcat, Zenon
    <3>. QED BY <1>2, <3>1, <3>2, Zenon DEF Exact
  <2>2. pc # "await"
    BY DEF Init
  <2>. QED BY <2>1, <2>2, Zenon DEF OwedExactly
<1>9. \A d \in Dests : Drained(conns[d])
  BY NoConnection, Zenon DEF Init
<1>. QED BY <1>4, <1>5, <1>6, <1>7, <1>8, <1>9 DEF KafkaInv

\* A step from one phase to the next that changes nothing else.
LEMMA NextPhase ==
  ASSUME KafkaInv, Phases', pc # "await", pc' # "await", pc # "failed",
         pc' \in Pcs \ {"panic"}, pc' # "route",
         (Routing /\ pc # "route")' => auth_complete, unread' \subseteq Dests,
         UNCHANGED <<clientVars, pending, conns, outbox, errored, mixed>>
  PROVE  KafkaInv'
<1>1. KafkaTypes'
  BY Zenon DEF KafkaInv, KafkaTypes, clientVars
<1>2. InTurn'
  BY Zenon DEF KafkaInv, InTurn, clientVars
<1>3. Handshake'
  BY Zenon DEF KafkaInv, Handshake, clientVars, ControlOnly, NoControl
<1>4. OwedExactly'
  BY Zenon DEF KafkaInv, OwedExactly
<1>5. (\A d \in Dests : Drained(conns[d]))'
  BY Zenon DEF KafkaInv
<1>. QED BY <1>1, <1>2, <1>3, <1>4, <1>5 DEF KafkaInv

\* A step that leaves alone what connections owe, as a broker's steps do.
LEMMA BrokersKeep ==
  ASSUME KafkaInv, conns' \in [Dests -> Seq(Connection)],
         \A d \in Dests : /\ Drained(conns'[d]) /\ Owed(conns'[d]) = Owed(conns[d])
                          /\ conns[d] # <<>> => conns'[d] # <<>>,
         UNCHANGED <<clientVars, pending, loopVars, pc, mixed>>
  PROVE  KafkaInv'
<1>1. KafkaTypes'
  BY Zenon DEF KafkaInv, KafkaTypes, clientVars, loopVars
<1>2. InTurn'
  BY Zenon DEF KafkaInv, InTurn, clientVars
<1>3. Handshake'
  BY Zenon DEF KafkaInv, Handshake, clientVars, ControlOnly, NoControl, Routing, HandshakeUnanswered
<1>4. OwedExactly'
  <2>1. Control \in Dests
    BY DEF Dests
  <2>. QED BY <2>1, Zenon DEF KafkaInv, OwedExactly, loopVars
<1>5. Phases'
  <2>1. unread \subseteq Dests
    BY Zenon DEF KafkaInv, KafkaTypes
  <2>. QED BY <2>1, Zenon DEF KafkaInv, Phases, clientVars, loopVars, Routing
<1>6. (\A d \in Dests : Drained(conns[d]))'
  BY Zenon
<1>. QED BY <1>1, <1>2, <1>3, <1>4, <1>5, <1>6 DEF KafkaInv

\* The transform fails.
LEMMA FailKeeps ==
  ASSUME KafkaInv, Fail, UNCHANGED <<kinds, taken, returned, mixed>>
  PROVE  KafkaInv'
<1>1. <<>> \in Seq(Nat) /\ <<>> \in Seq(Entries)
      /\ <<>> \in Seq(Tokens) /\ <<>> \in Seq(Connection) /\ Len(<<>>) = 0 /\ 1..0 = {}
  OBVIOUS
<1>2. /\ pc' = "failed" /\ batch' = <<>> /\ pending' = <<>> /\ errored' = {} /\ unread' = {}
      /\ conns' = [d \in Dests |-> <<>>] /\ outbox' = [d \in Dests |-> <<>>]
  BY Zenon DEF Fail
<1>3. KafkaTypes'
  <2>1. "failed" \in Pcs \ {"panic"}
    BY DEF Pcs
  <2>2. /\ [d \in Dests |-> <<>>] \in [Dests -> Seq(Connection)]
        /\ [d \in Dests |-> <<>>] \in [Dests -> Seq(Tokens)]
    BY <1>1, Zenon
  <2>. QED BY <1>1, <1>2, <2>1, <2>2, Zenon DEF KafkaInv, KafkaTypes
<1>4. Phases'
  <2>1. \A d \in Dests : outbox'[d] = <<>>
    BY <1>2, Zenon
  <2>2. ~Routing'
    BY <1>2 DEF Routing
  <2>. QED BY <1>2, <2>1, <2>2, Zenon DEF Phases
<1>5. InTurn'
  <2>1. Len(returned) \in Nat /\ Len(batch) \in Nat /\ taken \in Nat
        /\ Len(returned) <= taken - Len(batch)
    <3>1. returned \in Seq(Answers) /\ batch \in Seq(Nat) /\ kinds \in Seq(KindSet)
          /\ taken \in 0..Len(kinds)
      BY Zenon DEF KafkaInv, KafkaTypes
    <3>2. Len(returned) <= taken - Len(batch)
      BY Zenon DEF KafkaInv, InTurn
    <3>3. Len(kinds) \in Nat /\ Len(returned) \in Nat /\ Len(batch) \in Nat
      BY <3>1, LenProperties, Zenon
    <3>. QED BY <3>1, <3>2, <3>3
  <2>2. Len(batch') = 0 /\ Len(pending') = 0 /\ Len(returned') <= taken' - Len(batch')
    <3>1. Len(batch') = 0 /\ Len(pending') = 0
      BY <1>1, <1>2, Zenon
    <3>2. \A x, y, z \in Nat : x <= y - z => x <= y - 0
      OBVIOUS
    <3>. QED BY <2>1, <3>1, <3>2, Zenon
  <2>3. IsRest(batch', taken' - Len(batch')) /\ Stored(pending')
    BY <1>1, <2>2, Zenon DEF IsRest, Stored
  <2>. QED BY <1>2, <2>2, <2>3 DEF InTurn
<1>6. Handshake'
  <2>1. ~Routing' /\ pc' # "route"
    BY <1>2 DEF Routing
  <2>2. Len(pending') = 0
    BY <1>1, <1>2, Zenon
  <2>. QED BY <1>1, <2>1, <2>2, Zenon DEF Handshake, ControlOnly, NoControl
<1>7. OwedExactly'
  <2>1. ASSUME NEW d \in Dests PROVE Exact(pending', d, Owed(conns'[d]) \o outbox'[d])
    <3>1. conns'[d] = <<>> /\ outbox'[d] = <<>> /\ Len(pending') = 0
      BY <1>1, <1>2, Zenon
    <3>2. Owed(conns'[d]) \o outbox'[d] = <<>>
      BY <1>1, <3>1, NoConnection, TokensConcat, Zenon
    <3>. QED BY <1>1, <3>1, <3>2, Zenon DEF Exact
  <2>2. pc' # "await"
    BY <1>2
  <2>. QED BY <2>1, <2>2, Zenon DEF OwedExactly
<1>8. (\A d \in Dests : Drained(conns[d]))'
  BY <1>2, NoConnection, Zenon
<1>. QED BY <1>3, <1>4, <1>5, <1>6, <1>7, <1>8 DEF KafkaInv

-------------------------------------------------------------------------------
(* Routing. *)

\* s is p followed by r.
IsJoin(p, r, s) ==
    /\ Len(s) = Len(p) + Len(r) /\ Len(p) \in Nat /\ Len(r) \in Nat
    /\ \A k \in 1..Len(p) : s[k] = p[k] /\ k \in 1..Len(s)
    /\ \A k \in 1..Len(r) : s[Len(p) + k] = r[k] /\ Len(p) + k \in 1..Len(s)
    /\ \A k \in 1..Len(s) : k \notin 1..Len(p) =>
          k - Len(p) \in 1..Len(r) /\ s[k] = r[k - Len(p)]

\* The elements of a concatenation.
LEMMA Joined ==
  ASSUME NEW p \in Seq(Entries), NEW r \in Seq(Entries)
  PROVE  p \o r \in Seq(Entries) /\ IsJoin(p, r, p \o r)
<1>. DEFINE S == Entries
            s == p \o r
<1>0. p \in Seq(S) /\ r \in Seq(S)
  OBVIOUS
<1>. HIDE DEF S
<1>1. /\ s \in Seq(S) /\ Len(s) = Len(p) + Len(r) /\ Len(p) \in Nat /\ Len(r) \in Nat
  BY <1>0
<1>2. \A k \in 1..Len(p) : s[k] = p[k] /\ k \in 1..Len(s)
  BY <1>0
<1>3. \A k \in 1..Len(r) : s[Len(p) + k] = r[k] /\ Len(p) + k \in 1..Len(s)
  BY <1>0
<1>. HIDE DEF s
<1>4. ASSUME NEW k \in 1..Len(s), k \notin 1..Len(p)
      PROVE  k - Len(p) \in 1..Len(r) /\ s[k] = r[k - Len(p)]
  <2>1. k - Len(p) \in 1..Len(r) /\ Len(p) + (k - Len(p)) = k
    BY <1>1, <1>4
  <2>. QED BY <1>3, <2>1, Zenon
<1>. QED BY <1>1, <1>2, <1>3, <1>4, Zenon DEF IsJoin, S, s

\* Requests after requests.
LEMMA NumberedConcat ==
  ASSUME NEW p \in Seq(Entries), NEW r \in Seq(Entries),
         NEW first \in Nat, NEW mid \in Nat, NEW last \in Nat,
         Numbered(p, first, mid), Numbered(r, mid, last), NEW s, s = p \o r
  PROVE  Numbered(s, first, last)
<1>. DEFINE N == Len(p)
            M == Len(r)
<1>1. CASE p = <<>>
  <2>1. s = r /\ first = mid
    BY <1>1 DEF Numbered
  <2>. QED BY <2>1
<1>2. CASE r = <<>>
  <2>1. s = p /\ last = mid
    BY <1>2 DEF Numbered
  <2>. QED BY <2>1
<1>3. CASE p # <<>> /\ r # <<>>
  <2>1. /\ s \in Seq(Entries) /\ Len(s) = N + M /\ N \in Nat /\ M \in Nat
        /\ \A k \in 1..N : s[k] = p[k]
        /\ \A k \in 1..M : s[N + k] = r[k]
        /\ \A k \in 1..Len(s) : k \notin 1..N => k - N \in 1..M /\ s[k] = r[k - N]
    <3>1. s \in Seq(Entries) /\ IsJoin(p, r, s)
      BY Joined, Zenon
    <3>. QED BY <3>1, Zenon DEF IsJoin
  <2>2. N # 0 /\ M # 0
    BY <1>3, EmptySeq, Zenon
  <2>. HIDE DEF N, M
  <2>3. /\ 1 \in 1..N /\ N \in 1..N /\ 1 \in 1..M /\ M \in 1..M /\ N + M # 0 /\ s # <<>>
    <3>1. 1 \in 1..N /\ N \in 1..N /\ 1 \in 1..M /\ M \in 1..M /\ N + M # 0
      BY <2>1, <2>2
    <3>. QED BY <2>1, <3>1, EmptySeq, Zenon
  <2>4. /\ p[1].id = first + 1 /\ p[1].part = 1 /\ p[N].id = mid /\ p[N].part = p[N].combine
        /\ \A k \in 1..N : p[k].part \in 1..p[k].combine
        /\ \A k \in 1..N - 1 : Follows(p[k], p[k + 1])
        /\ \A j, k \in 1..N : j <= k => p[j].id <= p[k].id
    BY <1>3, Zenon DEF Numbered, N
  <2>5. /\ r[1].id = mid + 1 /\ r[1].part = 1 /\ r[M].id = last /\ r[M].part = r[M].combine
        /\ \A k \in 1..M : r[k].part \in 1..r[k].combine
        /\ \A k \in 1..M - 1 : Follows(r[k], r[k + 1])
        /\ \A j, k \in 1..M : j <= k => r[j].id <= r[k].id
    BY <1>3, Zenon DEF Numbered, M
  <2>6. s[1].id = first + 1 /\ s[1].part = 1
    BY <2>1, <2>3, <2>4, Zenon
  <2>7. s[Len(s)].id = last /\ s[Len(s)].part = s[Len(s)].combine
    <3>1. s[Len(s)] = r[M]
      BY <2>1, <2>3, Zenon
    <3>. QED BY <2>5, <3>1, Zenon
  <2>8. ASSUME NEW k \in 1..Len(s) PROVE s[k].part \in 1..s[k].combine
    BY <2>1, <2>4, <2>5, Zenon
  <2>9. ASSUME NEW k \in 1..Len(s) - 1 PROVE Follows(s[k], s[k + 1])
    <3>1. \/ k \in 1..N - 1 /\ k \in 1..N /\ k + 1 \in 1..N
          \/ k = N
          \/ /\ k - N \in 1..M - 1 /\ k - N \in 1..M /\ (k - N) + 1 \in 1..M
             /\ N + (k - N) = k /\ N + ((k - N) + 1) = k + 1
      BY <2>1
    <3>2. CASE k \in 1..N - 1 /\ k \in 1..N /\ k + 1 \in 1..N
      BY <2>1, <2>4, <3>2, Zenon
    <3>3. CASE k = N
      <4>1. s[k] = p[N] /\ s[k + 1] = r[1]
        BY <2>1, <2>3, <3>3, Zenon
      <4>2. p[N].part \in Nat /\ ~(p[N].part < p[N].combine)
        <5>1. p[N].part \in Nat
          BY <2>3, EntryFacts, Zenon DEF N
        <5>2. \A x \in Nat : ~(x < x)
          OBVIOUS
        <5>. QED BY <2>4, <5>1, <5>2, Zenon
      <4>. QED BY <2>4, <2>5, <4>1, <4>2, Zenon DEF Follows
    <3>4. CASE /\ k - N \in 1..M - 1 /\ k - N \in 1..M /\ (k - N) + 1 \in 1..M
               /\ N + (k - N) = k /\ N + ((k - N) + 1) = k + 1
      <4>1. s[k] = r[k - N] /\ s[k + 1] = r[(k - N) + 1]
        BY <2>1, <3>4, Zenon
      <4>. QED BY <2>5, <3>4, <4>1, Zenon
    <3>. QED BY <3>1, <3>2, <3>3, <3>4, Zenon
  <2>10. ASSUME NEW j \in 1..Len(s), NEW k \in 1..Len(s), j <= k PROVE s[j].id <= s[k].id
    <3>1. CASE k \in 1..N
      <4>1. j \in 1..N
        BY <2>1, <2>10, <3>1
      <4>. QED BY <2>1, <2>4, <2>10, <3>1, <4>1, Zenon
    <3>2. CASE k \notin 1..N /\ j \notin 1..N
      <4>1. j - N <= k - N
        BY <2>1, <2>10
      <4>2. j - N \in 1..M /\ s[j] = r[j - N] /\ k - N \in 1..M /\ s[k] = r[k - N]
        BY <2>1, <3>2, Zenon
      <4>. QED BY <2>5, <4>1, <4>2, Zenon
    <3>3. CASE k \notin 1..N /\ j \in 1..N
      <4>1. k - N \in 1..M /\ s[k] = r[k - N] /\ s[j] = p[j]
        BY <2>1, <3>3, Zenon
      <4>2. j <= N /\ 1 <= k - N
        BY <2>1, <3>3, <4>1
      <4>3. p[j].id <= mid
        BY <2>3, <2>4, <3>3, <4>2, Zenon
      <4>4. mid + 1 <= r[k - N].id
        BY <2>3, <2>5, <4>1, <4>2, Zenon
      <4>5. p[j].id \in Nat /\ r[k - N].id \in Nat
        BY <3>3, <4>1, EntryFacts, Zenon DEF N, M
      <4>6. \A x, y \in Nat : x <= mid /\ mid + 1 <= y => x <= y
        OBVIOUS
      <4>. QED BY <4>1, <4>3, <4>4, <4>5, <4>6, Zenon
    <3>. QED BY <3>1, <3>2, <3>3, Zenon
  <2>. QED BY <2>3, <2>6, <2>7, <2>8, <2>9, <2>10, Zenon DEF Numbered
<1>. QED BY <1>1, <1>2, <1>3

\* The requests m + 1, m + 2, ..., none of them split.
LEMMA SinglesNumbered ==
  ASSUME NEW r \in Seq(Entries), NEW m \in Nat,
         \A i \in 1..Len(r) : r[i].id = m + i /\ r[i].part = 1 /\ r[i].combine = 1
  PROVE  Numbered(r, m, m + Len(r))
<1>. DEFINE N == Len(r)
<1>1. N \in Nat
  BY EntryFacts, Zenon
<1>. HIDE DEF N
<1>2. ASSUME r = <<>> PROVE m = m + N
  <2>1. N = 0
    BY <1>2, EmptySeq, Zenon DEF N
  <2>. QED BY <2>1
<1>3. ASSUME r # <<>>
      PROVE  /\ r[1].id = m + 1 /\ r[1].part = 1
             /\ r[N].id = m + N /\ r[N].part = r[N].combine
  <2>1. N # 0
    BY <1>3, EmptySeq, Zenon DEF N
  <2>2. 1 \in 1..N /\ N \in 1..N
    BY <1>1, <2>1
  <2>. QED BY <2>2, Zenon DEF N
<1>4. ASSUME NEW k \in 1..N PROVE r[k].part \in 1..r[k].combine
  <2>1. 1 \in 1..1
    OBVIOUS
  <2>. QED BY <2>1, Zenon DEF N
<1>5. ASSUME NEW k \in 1..N - 1 PROVE Follows(r[k], r[k + 1])
  <2>1. k \in 1..N /\ k + 1 \in 1..N /\ m + (k + 1) = (m + k) + 1 /\ ~(1 < 1)
    BY <1>1
  <2>. QED BY <2>1, Zenon DEF Follows, N
<1>6. ASSUME NEW j \in 1..N, NEW k \in 1..N, j <= k PROVE r[j].id <= r[k].id
  <2>1. m + j <= m + k
    BY <1>1, <1>6
  <2>. QED BY <2>1, Zenon DEF N
<1>. QED BY <1>2, <1>3, <1>4, <1>5, <1>6, Zenon DEF Numbered, N

\* The parts of one request.
LEMMA GroupNumbered ==
  ASSUME NEW r \in Seq(Entries), NEW m \in Nat, r # <<>>,
         \A i \in 1..Len(r) : r[i].id = m + 1 /\ r[i].part = i /\ r[i].combine = Len(r)
  PROVE  Numbered(r, m, m + 1)
<1>. DEFINE N == Len(r)
<1>1. N \in Nat /\ N # 0
  BY EntryFacts, EmptySeq, Zenon
<1>. HIDE DEF N
<1>2. 1 \in 1..N /\ N \in 1..N
  BY <1>1
<1>3. ASSUME NEW k \in 1..N PROVE r[k].part \in 1..r[k].combine
  BY Zenon DEF N
<1>4. ASSUME NEW k \in 1..N - 1 PROVE Follows(r[k], r[k + 1])
  <2>1. k \in 1..N /\ k + 1 \in 1..N /\ k < N
    BY <1>1
  <2>. QED BY <2>1, Zenon DEF Follows, N
<1>5. ASSUME NEW j \in 1..N, NEW k \in 1..N PROVE r[j].id <= r[k].id
  <2>1. m + 1 <= m + 1
    OBVIOUS
  <2>. QED BY <2>1, Zenon DEF N
<1>. QED BY <1>2, <1>3, <1>4, <1>5, Zenon DEF Numbered, N

\* Routed requests change nothing for the connections.
LEMMA RoutedKeeps ==
  ASSUME NEW p \in Seq(Entries), NEW r \in Seq(Entries), NEW s, s = p \o r,
         \A k \in 1..Len(r) : r[k].st = "Routed"
  PROVE  /\ Stored(p) => Stored(s)
         /\ \A d, owed : Exact(p, d, owed) => Exact(s, d, owed)
<1>1. /\ \A k \in 1..Len(p) : s[k] = p[k] /\ k \in 1..Len(s)
      /\ \A k \in 1..Len(s) : k \notin 1..Len(p) =>
            k - Len(p) \in 1..Len(r) /\ s[k] = r[k - Len(p)]
  <2>1. IsJoin(p, r, s)
    BY Joined, Zenon
  <2>. QED BY <2>1, Zenon DEF IsJoin
<1>2. ASSUME NEW k \in 1..Len(s), s[k].st # "Routed" PROVE k \in 1..Len(p) /\ s[k] = p[k]
  BY <1>1, <1>2, Zenon
<1>3. "Received" # "Routed" /\ \A e, d : IsSent(e, d) => e.st # "Routed"
  BY DEF IsSent
<1>4. Stored(p) => Stored(s)
  BY <1>2, <1>3, Zenon DEF Stored
<1>5. ASSUME NEW d, NEW owed, Exact(p, d, owed) PROVE Exact(s, d, owed)
  <2>1. ASSUME NEW k \in 1..Len(s), IsSent(s[k], d) PROVE k \in 1..Len(p) /\ s[k] = p[k] /\ IsSent(p[k], d)
    BY <1>2, <1>3, <2>1, Zenon
  <2>2. ASSUME NEW k \in 1..Len(s), IsSent(s[k], d)
        PROVE  s[k].index < Len(owed) /\ owed[s[k].index + 1] = Token(s[k])
    BY <1>5, <2>1, <2>2, Zenon DEF Exact
  <2>3. ASSUME NEW i \in 1..Len(owed)
        PROVE  \E k \in 1..Len(s) : IsSent(s[k], d) /\ s[k].index = i - 1
    BY <1>1, <1>5, Zenon DEF Exact
  <2>4. ASSUME NEW j \in 1..Len(s), NEW k \in 1..Len(s), IsSent(s[j], d), IsSent(s[k], d),
               s[j].index = s[k].index
        PROVE  j = k
    BY <1>5, <2>1, <2>4, Zenon DEF Exact
  <2>. QED BY <2>2, <2>3, <2>4, Zenon DEF Exact
<1>. QED BY <1>4, <1>5

\* What the invariant says of the types.
LEMMA KafkaFacts ==
  ASSUME KafkaInv
  PROVE  /\ pending \in Seq(Entries) /\ batch \in Seq(Nat) /\ returned \in Seq(Answers)
         /\ kinds \in Seq(KindSet) /\ Len(kinds) \in Nat
         /\ taken \in Nat /\ taken <= Len(kinds) /\ taken \in 0..Len(kinds)
         /\ Len(batch) \in Nat /\ Len(returned) \in Nat /\ Len(pending) \in Nat
         /\ taken - Len(batch) \in Nat /\ Len(returned) <= taken - Len(batch)
         /\ Control \in Dests
         /\ \A d \in Dests : /\ conns[d] \in Seq(Connection) /\ Drained(conns[d])
                             /\ outbox[d] \in Seq(Tokens) /\ Owed(conns[d]) \in Seq(Tokens)
                             /\ Owed(conns[d]) \o outbox[d] \in Seq(Tokens)
<1>1. /\ pending \in Seq(Entries) /\ batch \in Seq(Nat) /\ returned \in Seq(Answers)
      /\ kinds \in Seq(KindSet) /\ taken \in 0..Len(kinds)
  BY Zenon DEF KafkaInv, KafkaTypes
<1>2. Len(batch) \in Nat /\ Len(returned) \in Nat /\ Len(pending) \in Nat /\ Len(kinds) \in Nat
  BY <1>1, LenProperties, Zenon
<1>3. Len(returned) <= taken - Len(batch)
  BY Zenon DEF KafkaInv, InTurn
<1>4. \A k, t, b, r \in Nat : t \in 0..k /\ r <= t - b => t - b \in Nat /\ t <= k
  OBVIOUS
<1>5. taken \in Nat
  <2>1. \A n \in Nat : \A t \in 0..n : t \in Nat
    OBVIOUS
  <2>. QED BY <1>1, <1>2, <2>1, Zenon
<1>6. taken - Len(batch) \in Nat /\ taken <= Len(kinds)
  BY <1>1, <1>2, <1>3, <1>4, <1>5, Zenon
<1>7. Control \in Dests
  BY DEF Dests
<1>8. ASSUME NEW d \in Dests
      PROVE  /\ conns[d] \in Seq(Connection) /\ Drained(conns[d])
             /\ outbox[d] \in Seq(Tokens) /\ Owed(conns[d]) \in Seq(Tokens)
             /\ Owed(conns[d]) \o outbox[d] \in Seq(Tokens)
  <2>1. conns[d] \in Seq(Connection) /\ Drained(conns[d]) /\ outbox[d] \in Seq(Tokens)
    BY Zenon DEF KafkaInv, KafkaTypes
  <2>2. Owed(conns[d]) \in Seq(Tokens)
    BY <2>1, OwedType, Zenon
  <2>. QED BY <2>1, <2>2, TokensConcat, Zenon
<1>. QED BY <1>1, <1>2, <1>3, <1>5, <1>6, <1>7, <1>8, Zenon

\* transform is called with requests of the client.
LEMMA BeginKeeps ==
  ASSUME KafkaInv, ~Pipelined, NEW n \in 1..Len(kinds), Begin(n)
  PROVE  KafkaInv'
<1>1. /\ pc = "idle" /\ taken + n <= Len(kinds) /\ taken' = taken + n
      /\ batch' = [i \in 1..n |-> taken + i] /\ pc' = "route"
      /\ \/ \A i \in taken + 1..taken + n : kinds[i] = "handshake"
         \/ /\ ~HandshakeUnanswered
            /\ \A i \in taken + 1..taken + n : kinds[i] # "handshake"
      /\ UNCHANGED <<kinds, returned, auth_complete, pending, conns, outbox, unread, errored, mixed>>
  BY Zenon DEF Begin, loopVars
<1>2. /\ Len(kinds) \in Nat /\ taken \in Nat /\ Len(batch) \in Nat /\ Len(returned) \in Nat
      /\ Len(returned) <= taken - Len(batch) /\ n \in Nat /\ n # 0
  <2>1. Len(kinds) \in Nat
    BY KafkaFacts, Zenon
  <2>2. n \in Nat /\ n # 0
    BY <2>1
  <2>. QED BY <2>2, KafkaFacts, Zenon
<1>3. batch = <<>> /\ Len(batch) = 0 /\ errored = {} /\ unread = {} /\ \A d \in Dests : outbox[d] = <<>>
  <2>1. ~Routing /\ pc \notin {"sending", "resending"} /\ pc # "recv"
    BY <1>1 DEF Routing
  <2>2. batch = <<>> /\ errored = {} /\ unread = {} /\ \A d \in Dests : outbox[d] = <<>>
    BY <2>1, Zenon DEF KafkaInv, Phases
  <2>3. Len(<<>>) = 0
    OBVIOUS
  <2>. QED BY <2>2, <2>3, Zenon
<1>4. batch' \in Seq(Nat) /\ Len(batch') = n /\ batch' # <<>> /\ \A i \in 1..n : batch'[i] = taken + i
  <2>1. batch' \in Seq(Nat) /\ Len(batch') = n /\ \A i \in 1..n : batch'[i] = taken + i
    BY <1>1, <1>2
  <2>. QED BY <1>2, <2>1, EmptySeq, Zenon
<1>5. taken' \in 0..Len(kinds) /\ taken' - Len(batch') = taken - Len(batch) /\ taken - Len(batch) = taken
  BY <1>1, <1>2, <1>3, <1>4
<1>6. KafkaTypes'
  <2>1. "route" \in Pcs \ {"panic"}
    BY DEF Pcs
  <2>. QED BY <1>1, <1>4, <1>5, <2>1, Zenon DEF KafkaInv, KafkaTypes
<1>7. Phases'
  <2>1. Routing' /\ "route" \notin {"sending", "resending"} /\ "route" # "recv"
    BY <1>1 DEF Routing
  <2>. QED BY <1>1, <1>3, <1>4, <2>1, Zenon DEF Phases
<1>8. InTurn'
  <2>1. IsRest(batch', taken' - Len(batch'))
    BY <1>4, <1>5, Zenon DEF IsRest
  <2>2. pc # "failed"
    BY <1>1
  <2>. QED BY <1>1, <1>5, <2>1, <2>2, Zenon DEF KafkaInv, InTurn
<1>9. Handshake'
  <2>1. ASSUME NEW i \in 1..n PROVE batch'[i] = taken + i /\ taken + i \in taken + 1..taken + n
    <3>1. taken + i \in taken + 1..taken + n
      BY <1>2
    <3>. QED BY <1>4, <3>1, Zenon
  <2>2. \/ \A i \in 1..Len(batch') : kinds'[batch'[i]] = "handshake"
        \/ /\ \A i \in 1..Len(batch') : kinds'[batch'[i]] # "handshake"
           /\ ~HandshakeUnanswered'
    <3>1. CASE \A i \in taken + 1..taken + n : kinds[i] = "handshake"
      BY <1>1, <1>4, <2>1, <3>1, Zenon
    <3>2. CASE /\ ~HandshakeUnanswered
               /\ \A i \in taken + 1..taken + n : kinds[i] # "handshake"
      <4>1. \A i \in 1..Len(batch') : kinds'[batch'[i]] # "handshake"
        BY <1>1, <1>4, <2>1, <3>2, Zenon
      <4>2. ASSUME NEW m \in 1..taken', kinds'[m] = "handshake" PROVE ~(m > Len(returned'))
        <5>1. m \in 1..taken \/ m \in taken + 1..taken + n
          BY <1>1, <1>2
        <5>2. m \in 1..taken
          BY <1>1, <3>2, <4>2, <5>1, Zenon
        <5>. QED BY <1>1, <3>2, <4>2, <5>2, Zenon DEF HandshakeUnanswered
      <4>. QED BY <4>1, <4>2, Zenon DEF HandshakeUnanswered
    <3>. QED BY <1>1, <3>1, <3>2, Zenon
  <2>. QED BY <1>1, <2>2, Zenon DEF KafkaInv, Handshake, ControlOnly, NoControl
<1>10. OwedExactly'
  <2>1. pc # "await" /\ pc' # "await"
    BY <1>1
  <2>. QED BY <1>1, <2>1, Zenon DEF KafkaInv, OwedExactly
<1>11. (\A d \in Dests : Drained(conns[d]))'
  BY <1>1, Zenon DEF KafkaInv
<1>. QED BY <1>6, <1>7, <1>8, <1>9, <1>10, <1>11 DEF KafkaInv

\* What is left of pending_requests is younger than what was returned.
LEMMA PendingIsLater ==
  ASSUME KafkaInv, pc # "failed", NEW k \in 1..Len(pending)
  PROVE  /\ pending[k].id \in Nat /\ pending[k].id > Len(returned)
         /\ pending[k].id <= taken - Len(batch) /\ pending[k].id \in 1..taken
<1>. DEFINE L == Len(pending)
            r == Len(returned)
            b == Len(batch)
<1>1. /\ pending \in Seq(Entries) /\ L \in Nat /\ r \in Nat /\ b \in Nat /\ taken \in Nat
      /\ Numbered(pending, r, taken - b)
  BY KafkaFacts, Zenon DEF KafkaInv, InTurn
<1>2. k \in 1..L /\ 1 \in 1..L /\ L \in 1..L /\ 1 <= k /\ k <= L /\ pending # <<>>
  <2>1. k \in 1..L /\ 1 \in 1..L /\ L \in 1..L /\ 1 <= k /\ k <= L /\ L # 0
    BY <1>1
  <2>. QED BY <1>1, <2>1, EmptySeq, Zenon
<1>3. pending[1].id = r + 1 /\ pending[L].id = taken - b
      /\ pending[1].id <= pending[k].id /\ pending[k].id <= pending[L].id
  BY <1>1, <1>2, Zenon DEF Numbered
<1>4. pending[k].id \in Nat
  BY <1>1, EntryFacts, Zenon
<1>. HIDE DEF L, r, b
<1>5. \A x, y, z, t \in Nat : y + 1 <= x /\ x <= t - z => x > y /\ x <= t - z /\ x \in 1..t
  OBVIOUS
<1>. QED BY <1>1, <1>3, <1>4, <1>5, Zenon DEF L, r, b

\* Routed requests are added to pending_requests.
LEMMA RoutedMore ==
  ASSUME KafkaInv, pc # "await", pc' # "await", NEW r \in Seq(Entries),
         \A k \in 1..Len(r) : r[k].st = "Routed", pending' = pending \o r,
         UNCHANGED <<conns, outbox, errored>>
  PROVE  /\ pending' \in Seq(Entries) /\ Stored(pending') /\ OwedExactly'
         /\ (\A d \in Dests : Drained(conns[d]))'
<1>1. pending \in Seq(Entries)
  BY KafkaFacts, Zenon
<1>2. pending' \in Seq(Entries)
  BY <1>1, Joined, Zenon
<1>3. /\ Stored(pending) => Stored(pending')
      /\ \A d, owed : Exact(pending, d, owed) => Exact(pending', d, owed)
  BY <1>1, RoutedKeeps, Zenon
<1>4. OwedExactly'
  BY <1>3, Zenon DEF KafkaInv, OwedExactly
<1>. QED BY <1>2, <1>3, <1>4, Zenon DEF KafkaInv, InTurn

\* What HandshakePrefix is for a batch that is all handshake or none.
LEMMA PrefixIs ==
  ASSUME NEW n \in Nat, batch \in Seq(Nat), Len(batch) = n, n # 0
  PROVE  /\ (\A i \in 1..n : kinds[batch[i]] = "handshake") => HandshakePrefix = n
         /\ (\A i \in 1..n : kinds[batch[i]] # "handshake") => HandshakePrefix = 0
<1>1. DOMAIN batch = 1..n
  OBVIOUS
<1>. DEFINE later == {i \in 1..n : kinds[batch[i]] # "handshake"}
<1>2. HandshakePrefix = IF later = {} THEN n ELSE Min(later) - 1
  BY <1>1, Zenon DEF HandshakePrefix
<1>3. ASSUME \A i \in 1..n : kinds[batch[i]] = "handshake" PROVE HandshakePrefix = n
  BY <1>2, <1>3, Zenon
<1>4. ASSUME \A i \in 1..n : kinds[batch[i]] # "handshake" PROVE HandshakePrefix = 0
  <2>1. later = 1..n
    BY <1>4, Zenon
  <2>2. 1 \in 1..n
    OBVIOUS
  <2>3. Min(1..n) = 1
    <3>. DEFINE P(x) == x \in 1..n /\ \A y \in 1..n : x <= y
    <3>1. P(1) /\ \A x : P(x) => x = 1
      OBVIOUS
    <3>. QED BY <3>1 DEF Min
  <2>4. 1 - 1 = 0
    OBVIOUS
  <2>. QED BY <1>2, <2>1, <2>2, <2>3, <2>4, Zenon
<1>. QED BY <1>3, <1>4

\* The first requests of a connection are those of its handshake, and the
\* first batch that is not begins when they are answered.
LEMMA RouteHandshakeKeeps ==
  ASSUME KafkaInv, RouteHandshake
  PROVE  KafkaInv'
<1>. DEFINE n == Len(batch)
<1>1. pc = "route"
  BY Zenon DEF RouteHandshake
<1>2. batch # <<>> /\ errored = {} /\ unread = {} /\ \A d \in Dests : outbox[d] = <<>>
  <2>1. Routing /\ pc \notin {"sending", "resending"} /\ pc # "recv"
    BY <1>1 DEF Routing
  <2>. QED BY <2>1, Zenon DEF KafkaInv, Phases
<1>3. /\ batch \in Seq(Nat) /\ n \in Nat /\ n # 0 /\ taken \in Nat /\ taken - n \in Nat
      /\ Len(returned) \in Nat /\ pending \in Seq(Entries) /\ Control \in Dests
  BY <1>2, KafkaFacts, EmptySeq, Zenon
<1>4. CASE auth_complete
  <2>1. /\ pc' = "meta"
        /\ UNCHANGED <<clientVars, pending, nodeVars, conns, loopVars, ctlVars, mixed, wake, boundVars>>
    BY <1>4, Zenon DEF RouteHandshake
  <2>2. /\ pc # "await" /\ pc' # "await" /\ pc # "failed" /\ pc' \in Pcs \ {"panic"} /\ pc' # "route"
    BY <1>1, <2>1 DEF Pcs
  <2>3. UNCHANGED <<clientVars, pending, conns, outbox, errored, mixed>> /\ unread' \subseteq Dests
        /\ batch' = batch /\ unread' = unread
    BY <2>1, Zenon DEF loopVars, clientVars, KafkaInv, KafkaTypes
  <2>4. Phases'
    <3>1. Routing' /\ pc' \notin {"sending", "resending"} /\ pc' # "recv"
      BY <2>1 DEF Routing
    <3>. QED BY <1>2, <2>3, <3>1, Zenon DEF Phases
  <2>. QED BY <1>4, <2>2, <2>3, <2>4, NextPhase, Zenon
<1>5. CASE ~auth_complete /\ HandshakePrefix < n /\ Scram /\ ~AuthSuccess
  <2>1. Fail /\ UNCHANGED <<kinds, taken, returned, mixed>>
    BY <1>5, Zenon DEF RouteHandshake
  <2>. QED BY <2>1, FailKeeps, Zenon
<1>6. CASE ~auth_complete /\ ~(HandshakePrefix < n /\ Scram /\ ~AuthSuccess)
  <2>. DEFINE h == HandshakePrefix
              r == [i \in 1..h |-> Entry(batch[i], 1, Control, 1)]
  <2>1. /\ auth_complete' = (h < n)
        /\ pc' = IF h < n /\ h > 0 THEN "panic" ELSE IF h < n THEN "meta" ELSE "send"
        /\ pending' = pending \o r
        /\ batch' = SubSeq(batch, h + 1, n)
        /\ UNCHANGED <<kinds, taken, returned, conns, outbox, unread, errored, mixed>>
    BY <1>6, Zenon DEF RouteHandshake, loopVars
  <2>2. CASE \A i \in 1..n : kinds[batch[i]] = "handshake"
    <3>1. h = n
      BY <1>3, <2>2, PrefixIs, Zenon
    <3>2. (n < n) = FALSE
      BY <1>3
    <3>3. auth_complete' = FALSE /\ pc' = "send"
      <4>1. /\ auth_complete' = (n < n)
            /\ pc' = IF (n < n) /\ n > 0 THEN "panic" ELSE IF n < n THEN "meta" ELSE "send"
        BY <2>1, <3>1, Zenon
      <4>2. auth_complete' = FALSE
        BY <3>2, <4>1, Zenon
      <4>3. pc' = "send"
        BY <3>2, <4>1, Zenon
      <4>. QED BY <4>2, <4>3
    <3>4. batch' = <<>> /\ Len(batch') = 0 /\ taken' - Len(batch') = taken
      <4>1. batch' = SubSeq(batch, n + 1, n)
        BY <2>1, <3>1, Zenon
      <4>2. n \in Int /\ n + 1 \in Int /\ n < n + 1
        BY <1>3
      <4>3. batch' = <<>>
        BY <4>1, <4>2, SubSeqEmpty, Zenon
      <4>4. Len(<<>>) = 0 /\ taken - 0 = taken
        BY <1>3
      <4>. QED BY <2>1, <4>3, <4>4, Zenon
    <3>5. ASSUME NEW i \in 1..n
          PROVE  /\ batch[i] = (taken - n) + i /\ batch[i] \in Nat
                 /\ r[i] \in Entries /\ r[i].id = (taken - n) + i /\ r[i].part = 1 /\ r[i].combine = 1
                 /\ r[i].st = "Routed" /\ r[i].dest = Control
      <4>1. batch[i] = (taken - n) + i
        BY Zenon DEF KafkaInv, InTurn, IsRest
      <4>2. batch[i] \in Nat
        BY <1>3, ElementOfSeq, Zenon
      <4>3. r[i] = Entry(batch[i], 1, Control, 1)
        BY <3>1, Zenon
      <4>4. 1 \in Nat
        OBVIOUS
      <4>. HIDE DEF r
      <4>5. /\ r[i] \in Entries /\ r[i].id = batch[i] /\ r[i].part = 1 /\ r[i].dest = Control
            /\ r[i].combine = 1 /\ r[i].st = "Routed"
        <5>. DEFINE e == r[i]
        <5>1. e = Entry(batch[i], 1, Control, 1) /\ Control \in Dests
          BY <1>3, <4>3, Zenon
        <5>. HIDE DEF e
        <5>2. /\ e \in Entries /\ e.id = batch[i] /\ e.part = 1 /\ e.dest = Control
              /\ e.combine = 1 /\ e.st = "Routed"
          BY <4>2, <5>1 DEF Entry, Entries
        <5>. QED BY <5>2, Zenon DEF e
      <4>. QED BY <4>1, <4>2, <4>5, Zenon
    <3>6. r \in Seq(Entries) /\ Len(r) = n
      <4>1. r \in [1..n -> Entries]
        BY <3>1, <3>5, Zenon
      <4>. HIDE DEF r
      <4>. QED BY <1>3, <4>1
    <3>. HIDE DEF r
    <3>7. Numbered(pending', Len(returned), taken)
      <4>1. Numbered(r, taken - n, (taken - n) + n)
        BY <1>3, <3>5, <3>6, SinglesNumbered, Zenon
      <4>2. (taken - n) + n = taken
        BY <1>3
      <4>3. Numbered(pending, Len(returned), taken - n)
        <5>1. pc # "failed"
          BY <1>1
        <5>. QED BY <5>1, Zenon DEF KafkaInv, InTurn
      <4>. QED BY <1>3, <2>1, <3>6, <4>1, <4>2, <4>3, NumberedConcat, Zenon
    <3>8. pc # "await" /\ pc' # "await" /\ pc' # "failed" /\ pc' # "route"
          /\ ~Routing' /\ pc' \notin {"sending", "resending"} /\ pc' # "recv" /\ pc' \in Pcs \ {"panic"}
      BY <1>1, <3>3 DEF Routing, Pcs
    <3>9. /\ pending' \in Seq(Entries) /\ Stored(pending') /\ OwedExactly'
          /\ (\A d \in Dests : Drained(conns[d]))'
      BY <2>1, <3>5, <3>6, <3>8, RoutedMore, Zenon
    <3>10. KafkaTypes'
      <4>1. <<>> \in Seq(Nat)
        OBVIOUS
      <4>. QED BY <2>1, <3>4, <3>8, <3>9, <4>1, Zenon DEF KafkaInv, KafkaTypes
    <3>11. Phases'
      BY <1>2, <2>1, <3>4, <3>8, Zenon DEF Phases
    <3>12. InTurn'
      <4>1. IsRest(batch', taken' - Len(batch'))
        <5>1. 1..0 = {}
          OBVIOUS
        <5>. QED BY <3>4, <5>1, Zenon DEF IsRest
      <4>2. Len(returned) <= taken
        <5>1. Len(returned) <= taken - n
          BY KafkaFacts, Zenon
        <5>. QED BY <1>3, <5>1
      <4>. QED BY <2>1, <3>4, <3>7, <3>9, <4>1, <4>2, Zenon DEF InTurn
    <3>13. ControlOnly(pending)'
      <4>1. IsJoin(pending, r, pending')
        BY <1>3, <2>1, <3>6, Joined, Zenon
      <4>2. ASSUME NEW k \in 1..Len(pending'), pending'[k].dest = Control
            PROVE  kinds[pending'[k].id] = "handshake"
        <5>1. CASE k \in 1..Len(pending)
          <6>1. pending'[k] = pending[k]
            BY <4>1, <5>1, Zenon DEF IsJoin
          <6>. QED BY <4>2, <5>1, <6>1, Zenon DEF KafkaInv, Handshake, ControlOnly
        <5>2. CASE k \notin 1..Len(pending)
          <6>. DEFINE i == k - Len(pending)
          <6>1. i \in 1..n /\ pending'[k] = r[i]
            BY <3>6, <4>1, <5>2, Zenon DEF IsJoin
          <6>. HIDE DEF i
          <6>. QED BY <2>2, <3>5, <6>1, Zenon
        <5>. QED BY <5>1, <5>2
      <4>. QED BY <2>1, <4>2, Zenon DEF ControlOnly
    <3>14. Handshake'
      BY <3>3, <3>8, <3>13, Zenon DEF Handshake
    <3>. QED BY <3>9, <3>10, <3>11, <3>12, <3>14 DEF KafkaInv
  <2>3. CASE /\ \A i \in 1..n : kinds[batch[i]] # "handshake"
             /\ ~HandshakeUnanswered
    <3>1. h = 0
      BY <1>3, <2>3, PrefixIs, Zenon
    <3>2. 0 < n /\ ~(0 > 0) /\ 0 + 1 = 1 /\ 1..0 = {}
      BY <1>3
    <3>3. auth_complete' = TRUE /\ pc' = "meta" /\ batch' = SubSeq(batch, 1, n)
      BY <2>1, <3>1, <3>2, Zenon
    <3>4. batch' = batch
      BY <1>3, <3>3, SubSeqFull, Zenon
    <3>5. pending' = pending
      <4>1. r = <<>>
        <5>1. r = [i \in {} |-> Entry(batch[i], 1, Control, 1)]
          BY <3>1, <3>2, Zenon
        <5>. HIDE DEF r
        <5>. QED BY <5>1
      <4>. HIDE DEF r
      <4>2. pending \o <<>> = pending
        BY <1>3, ConcatEmptySeq, Zenon
      <4>. QED BY <2>1, <4>1, <4>2, Zenon
    <3>. HIDE DEF r, h
    <3>6. NoControl(pending)
      <4>1. ASSUME NEW k \in 1..Len(pending), pending[k].dest = Control PROVE FALSE
        <5>1. kinds[pending[k].id] = "handshake"
          BY <4>1, Zenon DEF KafkaInv, Handshake, ControlOnly
        <5>2. pending[k].id > Len(returned) /\ pending[k].id \in 1..taken
          <6>1. pc # "failed"
            BY <1>1
          <6>. QED BY <6>1, PendingIsLater, Zenon
        <5>. QED BY <2>3, <5>1, <5>2, Zenon DEF HandshakeUnanswered
      <4>. QED BY <4>1, Zenon DEF NoControl
    <3>7. pc # "await" /\ pc' # "await" /\ pc # "failed" /\ pc' # "route"
          /\ Routing' /\ pc' \notin {"sending", "resending"} /\ pc' # "recv" /\ pc' \in Pcs \ {"panic"}
      BY <1>1, <3>3 DEF Routing, Pcs
    <3>8. KafkaTypes'
      BY <2>1, <3>4, <3>5, <3>7, Zenon DEF KafkaInv, KafkaTypes
    <3>9. Phases'
      BY <1>2, <2>1, <3>4, <3>7, Zenon DEF Phases
    <3>10. InTurn'
      BY <2>1, <3>4, <3>5, <3>7, Zenon DEF KafkaInv, InTurn
    <3>11. Handshake'
      BY <2>1, <3>3, <3>5, <3>6, <3>7, Zenon DEF KafkaInv, Handshake, ControlOnly, NoControl
    <3>12. OwedExactly'
      BY <2>1, <3>5, <3>7, Zenon DEF KafkaInv, OwedExactly
    <3>13. (\A d \in Dests : Drained(conns[d]))'
      BY <2>1, Zenon DEF KafkaInv
    <3>. QED BY <3>8, <3>9, <3>10, <3>11, <3>12, <3>13 DEF KafkaInv
  <2>. QED BY <1>1, <2>2, <2>3, Zenon DEF KafkaInv, Handshake
<1>. QED BY <1>4, <1>5, <1>6, Zenon

\* The steps between the loops.
LEMMA BetweenKeeps ==
  ASSUME KafkaInv, RouteMeta \/ SendDone \/ ForceRun \/ ReturnDone
  PROVE  KafkaInv'
<1>1. CASE RouteMeta
  <2>1. /\ pc = "meta" /\ pc' \in {"push", "control"}
        /\ UNCHANGED <<clientVars, pending, conns, outbox, unread, errored, mixed>>
    BY <1>1, Zenon DEF RouteMeta, loopVars
  <2>2. /\ Routing /\ pc # "route" /\ Routing' /\ pc # "await" /\ pc' # "await" /\ pc # "failed"
        /\ pc' \in Pcs \ {"panic"} /\ pc' # "route" /\ pc # "recv" /\ pc' # "recv"
        /\ pc \notin {"sending", "resending"}
    BY <2>1 DEF Routing, Pcs
  <2>3. auth_complete
    BY <2>2, Zenon DEF KafkaInv, Handshake
  <2>4. batch' = batch /\ unread' \subseteq Dests
    BY <2>1, Zenon DEF clientVars, KafkaInv, KafkaTypes
  <2>5. Phases'
    BY <2>1, <2>2, <2>4, Zenon DEF Phases, KafkaInv
  <2>. QED BY <2>1, <2>2, <2>3, <2>4, <2>5, NextPhase, Zenon
<1>2. CASE SendDone
  <2>1. /\ pc \in {"sending", "resending"} /\ pc' \in {"recv", "idle"}
        /\ \A d \in Dests : outbox[d] = <<>>
        /\ \/ unread' = {d \in Dests : conns[d] # <<>>} /\ pc' = "recv"
           \/ unread' = unread
        /\ UNCHANGED <<clientVars, pending, conns, outbox, errored, mixed>>
    BY <1>2, Zenon DEF SendDone, loopVars
  <2>2. /\ ~Routing /\ ~Routing' /\ pc # "await" /\ pc' # "await" /\ pc # "failed"
        /\ pc' \in Pcs \ {"panic"} /\ pc' # "route" /\ pc # "recv"
    BY <2>1 DEF Routing, Pcs
  <2>3. errored = {} /\ unread = {} /\ batch = <<>>
    BY <2>2, Zenon DEF KafkaInv, Phases
  <2>4. batch' = batch /\ unread' \subseteq Dests
    BY <2>1, <2>3, Zenon DEF clientVars
  <2>5. Phases'
    BY <2>1, <2>2, <2>3, <2>4, Zenon DEF Phases
  <2>. QED BY <2>1, <2>2, <2>4, <2>5, NextPhase, Zenon
<1>3. CASE ForceRun
  <2>1. /\ pc = "idle" /\ pc' = "recv" /\ unread' = {d \in Dests : conns[d] # <<>>}
        /\ UNCHANGED <<clientVars, pending, conns, outbox, errored, mixed>>
    BY <1>3, Zenon DEF ForceRun
  <2>2. /\ ~Routing /\ ~Routing' /\ pc # "await" /\ pc' # "await" /\ pc # "failed"
        /\ pc' \in Pcs \ {"panic"} /\ pc' # "route" /\ pc \notin {"sending", "resending"}
    BY <2>1 DEF Routing, Pcs
  <2>3. batch' = batch /\ unread' \subseteq Dests
    BY <2>1, Zenon DEF clientVars
  <2>4. Phases'
    BY <2>1, <2>2, <2>3, Zenon DEF Phases, KafkaInv
  <2>. QED BY <2>1, <2>2, <2>3, <2>4, NextPhase, Zenon
<1>4. CASE ReturnDone
  <2>1. /\ pc = "recv" /\ unread = {} /\ errored = {} /\ pc' = "resend"
        /\ UNCHANGED <<clientVars, pending, conns, outbox, unread, errored, mixed>>
    BY <1>4, Zenon DEF ReturnDone, Collected, loopVars
  <2>2. /\ ~Routing /\ ~Routing' /\ pc # "await" /\ pc' # "await" /\ pc # "failed"
        /\ pc' \in Pcs \ {"panic"} /\ pc' # "route" /\ pc \notin {"sending", "resending"}
    BY <2>1 DEF Routing, Pcs
  <2>3. batch' = batch /\ unread' \subseteq Dests
    BY <2>1, Zenon DEF clientVars
  <2>4. Phases'
    BY <2>1, <2>2, <2>3, Zenon DEF Phases, KafkaInv
  <2>. QED BY <2>1, <2>2, <2>3, <2>4, NextPhase, Zenon
<1>. QED BY <1>1, <1>2, <1>3, <1>4

\* One request is routed, to one broker or to several.
LEMMA RoutePushKeeps ==
  ASSUME KafkaInv, RoutePush
  PROVE  KafkaInv'
<1>. DEFINE n == Len(batch)
            h == Head(batch)
<1>1. pc = "push" /\ batch' = Tail(batch) /\ pc' = (IF n = 1 THEN "send" ELSE "push")
      /\ UNCHANGED <<kinds, taken, returned, auth_complete, conns, outbox, unread, errored, mixed>>
  BY Zenon DEF RoutePush, loopVars
<1>2. /\ Routing /\ pc # "route" /\ pc # "recv" /\ pc # "await" /\ pc # "failed"
      /\ pc \notin {"sending", "resending"}
  BY <1>1 DEF Routing
<1>3. batch # <<>> /\ errored = {} /\ unread = {} /\ (\A d \in Dests : outbox[d] = <<>>) /\ auth_complete
  BY <1>2, Zenon DEF KafkaInv, Phases, Handshake
<1>4. /\ batch \in Seq(Nat) /\ n \in Nat /\ n # 0 /\ taken \in Nat /\ taken - n \in Nat
      /\ Len(returned) \in Nat /\ Len(returned) <= taken - n /\ pending \in Seq(Entries)
  BY <1>3, KafkaFacts, EmptySeq, Zenon
<1>5. /\ batch' \in Seq(Nat) /\ Len(batch') = n - 1 /\ h = batch[1]
      /\ \A i \in 1..n - 1 : batch'[i] = batch[i + 1]
  <2>1. \A b \in Seq(Nat) : b # <<>> =>
          /\ Tail(b) \in Seq(Nat) /\ Len(Tail(b)) = Len(b) - 1 /\ Head(b) = b[1]
          /\ \A i \in 1..Len(b) - 1 : Tail(b)[i] = b[i + 1]
    OBVIOUS
  <2>. QED BY <1>1, <1>3, <1>4, <2>1, Zenon
<1>6. h = (taken - n) + 1 /\ \A i \in 1..n - 1 : batch'[i] = (taken - n) + (i + 1)
  <2>1. 1 \in 1..n /\ \A i \in 1..n - 1 : i + 1 \in 1..n
    BY <1>4
  <2>. QED BY <1>5, <2>1, Zenon DEF KafkaInv, InTurn, IsRest
<1>. HIDE DEF h
<1>a. PICK p \in 1..MaxParts : \E to \in [1..p -> Brokers] :
         pending' = pending \o [i \in 1..p |-> Entry(h, i, to[i], p)]
  BY Zenon DEF RoutePush, h
<1>7. PICK to \in [1..p -> Brokers] :
         pending' = pending \o [i \in 1..p |-> Entry(h, i, to[i], p)]
  BY <1>a, Zenon
<1>. DEFINE r == [i \in 1..p |-> Entry(h, i, to[i], p)]
<1>8. p \in Nat /\ p # 0 /\ h \in Nat /\ taken' - Len(batch') = (taken - n) + 1
  <2>1. MaxParts \in Nat
    BY KafkaAssumption
  <2>. QED BY <1>1, <1>4, <1>5, <1>6, <2>1
<1>9. ASSUME NEW i \in 1..p
      PROVE  /\ r[i] \in Entries /\ r[i].id = h /\ r[i].part = i /\ r[i].combine = p
             /\ r[i].st = "Routed" /\ r[i].dest # Control
  <2>. DEFINE e == r[i]
              b == to[i]
  <2>1. e = Entry(h, i, b, p) /\ b \in Brokers
    BY Zenon
  <2>2. i \in Nat
    BY <1>8
  <2>3. b \in Dests /\ b # Control
    BY <2>1, KafkaAssumption DEF Dests
  <2>. HIDE DEF e, b
  <2>4. /\ e \in Entries /\ e.id = h /\ e.part = i /\ e.combine = p
        /\ e.st = "Routed" /\ e.dest = b
    BY <1>8, <2>1, <2>2, <2>3 DEF Entry, Entries
  <2>. QED BY <2>3, <2>4, Zenon DEF e
<1>10. r \in Seq(Entries) /\ Len(r) = p /\ r # <<>>
  <2>1. r \in [1..p -> Entries]
    BY <1>9, Zenon
  <2>. HIDE DEF r
  <2>2. r \in Seq(Entries) /\ Len(r) = p
    BY <1>8, <2>1
  <2>. QED BY <1>8, <2>2, EmptySeq, Zenon
<1>11. pending' = pending \o r
  BY <1>7
<1>. HIDE DEF r
<1>12. Numbered(pending', Len(returned), (taken - n) + 1)
  <2>1. Numbered(r, taken - n, (taken - n) + 1)
    BY <1>4, <1>6, <1>9, <1>10, GroupNumbered, Zenon
  <2>2. Numbered(pending, Len(returned), taken - n)
    BY <1>2, Zenon DEF KafkaInv, InTurn
  <2>3. (taken - n) + 1 \in Nat
    BY <1>4
  <2>. QED BY <1>4, <1>10, <1>11, <2>1, <2>2, <2>3, NumberedConcat, Zenon
<1>13. /\ pc' # "await" /\ pc' # "failed" /\ pc' # "route" /\ pc' # "recv"
       /\ pc' \notin {"sending", "resending"} /\ pc' \in Pcs \ {"panic"}
       /\ (Routing' <=> n # 1)
  BY <1>1 DEF Routing, Pcs
<1>14. /\ pending' \in Seq(Entries) /\ Stored(pending') /\ OwedExactly'
       /\ (\A d \in Dests : Drained(conns[d]))'
  BY <1>1, <1>2, <1>9, <1>10, <1>11, <1>13, RoutedMore, Zenon
<1>15. KafkaTypes'
  BY <1>1, <1>5, <1>13, <1>14, Zenon DEF KafkaInv, KafkaTypes
<1>16. Phases'
  <2>1. batch' = <<>> <=> n = 1
    <3>1. Len(batch') = 0 <=> n = 1
      BY <1>4, <1>5
    <3>. QED BY <1>5, <3>1, EmptySeq, Zenon
  <2>. QED BY <1>1, <1>3, <1>13, <2>1, Zenon DEF Phases
<1>17. InTurn'
  <2>1. ASSUME NEW i \in 1..Len(batch') PROVE batch'[i] = ((taken - n) + 1) + i
    <3>1. i \in 1..n - 1 /\ ((taken - n) + 1) + i = (taken - n) + (i + 1)
      BY <1>4, <1>5
    <3>. QED BY <1>6, <3>1, Zenon
  <2>2. Len(returned) <= (taken - n) + 1
    BY <1>4
  <2>. QED BY <1>1, <1>8, <1>12, <1>14, <2>1, <2>2, Zenon DEF InTurn, IsRest
<1>18. NoControl(pending')
  <2>1. IsJoin(pending, r, pending')
    BY <1>4, <1>10, <1>11, Joined, Zenon
  <2>2. ASSUME NEW k \in 1..Len(pending') PROVE pending'[k].dest # Control
    <3>1. CASE k \in 1..Len(pending)
      <4>1. pending'[k] = pending[k]
        BY <2>1, <3>1, Zenon DEF IsJoin
      <4>. QED BY <1>3, <3>1, <4>1, Zenon DEF KafkaInv, Handshake, NoControl
    <3>2. CASE k \notin 1..Len(pending)
      <4>. DEFINE i == k - Len(pending)
      <4>1. i \in 1..p /\ pending'[k] = r[i]
        BY <1>10, <2>1, <3>2, Zenon DEF IsJoin
      <4>. HIDE DEF i
      <4>. QED BY <1>9, <4>1, Zenon
    <3>. QED BY <3>1, <3>2
  <2>. QED BY <2>2, Zenon DEF NoControl
<1>19. Handshake'
  BY <1>1, <1>3, <1>13, <1>18, Zenon DEF Handshake, NoControl, ControlOnly
<1>. QED BY <1>14, <1>15, <1>16, <1>17, <1>19 DEF KafkaInv
===============================================================================
