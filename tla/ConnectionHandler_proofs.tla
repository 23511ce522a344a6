------------------------ MODULE ConnectionHandler_proofs ------------------------
(***************************************************************************)
(* Proofs about one client connection (module ConnectionHandler): its      *)
(* pending requests are exact and it implements RequestStream, for any     *)
(* number of requests, any capacity of `in_` and every protocol.           *)
(***************************************************************************)
EXTENDS ConnectionHandler, SequenceLemmas, FiniteSetTheorems, TLAPS

-------------------------------------------------------------------------------
(* The content of a channel of batches. *)

\* Two sequences, one after the other.
LEMMA ConcatProperties ==
  ASSUME NEW T, NEW p \in Seq(T), NEW q \in Seq(T)
  PROVE  /\ p \o q \in Seq(T) /\ Len(p \o q) = Len(p) + Len(q)
         /\ \A i \in 1..Len(p) : (p \o q)[i] = p[i]
         /\ \A i \in 1..Len(q) : (p \o q)[Len(p) + i] = q[i]
OBVIOUS

\* The elements of q mapped by f.
MapSeq(f, q) == [i \in DOMAIN q |-> f[q[i]]]

\* Mapping keeps the length and acts on each element.
LEMMA MapType ==
  ASSUME NEW S, NEW R, NEW f \in [S -> R], NEW q \in Seq(S)
  PROVE  /\ MapSeq(f, q) \in Seq(R) /\ Len(MapSeq(f, q)) = Len(q)
         /\ \A i \in 1..Len(q) : MapSeq(f, q)[i] = f[q[i]]
BY DEF MapSeq

\* Mapping a sequence that has grown by x adds the image of x.
LEMMA MapAppend ==
  ASSUME NEW S, NEW R, NEW f \in [S -> R], NEW q \in Seq(S), NEW x \in S
  PROVE  MapSeq(f, Append(q, x)) = Append(MapSeq(f, q), f[x])
BY DEF MapSeq

\* Mapping commutes with taking the head off.
LEMMA MapHeadTail ==
  ASSUME NEW S, NEW R, NEW f \in [S -> R], NEW q \in Seq(S), q # <<>>
  PROVE  /\ MapSeq(f, q) # <<>> /\ Head(MapSeq(f, q)) = f[Head(q)]
         /\ Tail(MapSeq(f, q)) = MapSeq(f, Tail(q))
BY DEF MapSeq

\* There is a function that gives the concatenation of the first n elements of q.
LEMMA FlattenRecursion ==
  ASSUME NEW T, NEW q \in Seq(Seq(T))
  PROVE  \E f \in [Nat -> Seq(T)] :
            /\ f[0] = <<>>
            /\ \A n \in 0..Len(q)-1 : f[n + 1] = f[n] \o q[n + 1]
<1>. DEFINE step == [n \in Nat |-> [s \in Seq(T) |->
                       IF n < Len(q) THEN s \o q[n + 1] ELSE s]]
<1>1. ASSUME NEW n \in Nat, NEW s \in Seq(T), n < Len(q) PROVE s \o q[n + 1] \in Seq(T)
  <2>1. q[n + 1] \in Seq(T)
    BY <1>1, ElementOfSeq
  <2>. QED BY <2>1, ConcatProperties
<1>2. step \in [Nat -> [Seq(T) -> Seq(T)]]
  BY <1>1
<1>3. ASSUME NEW n \in 0..Len(q)-1, NEW s \in Seq(T)
      PROVE  step[n][s] = s \o q[n + 1]
  OBVIOUS
<1>. HIDE DEF step
<1>4. <<>> \in Seq(T)
  OBVIOUS
<1>5. \E f : IsRecursion(f, Seq(T), <<>>, step)
  BY <1>2, <1>4, RecursionExists, Zenon
<1>6. PICK f : IsRecursion(f, Seq(T), <<>>, step)
  BY <1>5
<1>7. ASSUME NEW n \in 0..Len(q)-1 PROVE f[n + 1] = f[n] \o q[n + 1]
  <2>1. n \in Nat /\ f[n] \in Seq(T)
    BY <1>6 DEF IsRecursion
  <2>2. f[n + 1] = step[n][f[n]]
    BY <1>6, <2>1 DEF IsRecursion
  <2>. QED BY <1>3, <2>1, <2>2, Zenon
<1>. QED BY <1>6, <1>7, Zenon DEF IsRecursion

\* Flatten(q) is the last value of any such function.
LEMMA FlattenUnique ==
  ASSUME NEW T, NEW q \in Seq(Seq(T)), NEW f \in [Nat -> Seq(T)], f[0] = <<>>,
         \A n \in 0..Len(q)-1 : f[n + 1] = f[n] \o q[n + 1]
  PROVE  Flatten(q) = f[Len(q)]
<1>. DEFINE L == Len(q)
            IsRec(h) == h = [i \in 0..L |-> IF i = 0 THEN <<>> ELSE h[i-1] \o q[i]]
            g == [i \in 0..L |-> f[i]]
<1>1. L \in Nat
  OBVIOUS
<1>2. ASSUME NEW i \in 0..L PROVE f[i] = IF i = 0 THEN <<>> ELSE g[i-1] \o q[i]
  <2>1. CASE i = 0
    BY <2>1
  <2>2. CASE i # 0
    <3>1. i - 1 \in 0..L /\ i - 1 \in 0..L-1 /\ (i - 1) + 1 = i
      BY <1>1, <2>2
    <3>2. g[i-1] = f[i-1]
      BY <3>1, Zenon
    <3>3. f[(i - 1) + 1] = f[i - 1] \o q[(i - 1) + 1]
      BY <3>1, Zenon
    <3>. QED BY <2>2, <3>1, <3>2, <3>3, Zenon
  <2>. QED BY <2>1, <2>2, Zenon
<1>3. IsRec(g)
  BY <1>2, Zenon
<1>4. PICK h : IsRec(h) /\ Flatten(q) = h[L]
  BY <1>3, Zenon DEF Flatten
<1>5. ASSUME NEW i \in 0..L PROVE h[i] = IF i = 0 THEN <<>> ELSE h[i-1] \o q[i]
  <2>. DEFINE rec == [j \in 0..L |-> IF j = 0 THEN <<>> ELSE h[j-1] \o q[j]]
  <2>1. rec[i] = IF i = 0 THEN <<>> ELSE h[i-1] \o q[i]
    BY Zenon
  <2>2. h = rec
    BY <1>4, Zenon
  <2>. HIDE DEF rec
  <2>. QED BY <2>1, <2>2, Zenon
<1>. DEFINE G == {n \in Nat : n <= L => h[n] = f[n]}
<1>6. 0 \in G
  <2>1. 0 \in 0..L
    BY <1>1
  <2>. QED BY <1>5, <2>1
<1>7. ASSUME NEW n \in Nat, n \in G PROVE n + 1 \in G
  <2>. SUFFICES ASSUME n + 1 <= L PROVE h[n + 1] = f[n + 1]
    OBVIOUS
  <2>1. n <= L /\ n \in 0..L-1 /\ n + 1 \in 0..L /\ n + 1 # 0 /\ (n + 1) - 1 = n
    <3>1. \A x, y \in Nat : y + 1 <= x =>
             y <= x /\ y \in 0..x-1 /\ y + 1 \in 0..x /\ y + 1 # 0 /\ (y + 1) - 1 = y
      OBVIOUS
    <3>. QED BY <1>1, <3>1, Zenon
  <2>2. h[n] = f[n]
    BY <1>7, <2>1
  <2>3. h[n + 1] = h[(n + 1) - 1] \o q[n + 1]
    BY <1>5, <2>1, Zenon
  <2>4. f[n + 1] = f[n] \o q[n + 1]
    BY <2>1, Zenon
  <2>. QED BY <2>1, <2>2, <2>3, <2>4, Zenon
<1>8. L \in G
  <2>. HIDE DEF G
  <2>. QED BY <1>1, <1>6, <1>7, SetInduction, Zenon
<1>9. L <= L
  BY <1>1
<1>. QED BY <1>4, <1>8, <1>9, Zenon

\* Nothing flattens to nothing.
LEMMA FlattenEmpty == Flatten(<<>>) = <<>>
<1>. DEFINE T == {}
            q == <<>>
<1>1. q \in Seq(Seq(T)) /\ Len(q) = 0
  OBVIOUS
<1>. HIDE DEF q, T
<1>2. PICK f \in [Nat -> Seq(T)] :
        f[0] = <<>> /\ \A n \in 0..Len(q)-1 : f[n + 1] = f[n] \o q[n + 1]
  BY <1>1, FlattenRecursion, ZenonT(30)
<1>3. Flatten(q) = f[Len(q)]
  BY <1>1, <1>2, FlattenUnique, Zenon
<1>4. Flatten(q) = <<>>
  BY <1>1, <1>2, <1>3, Zenon
<1>. QED BY <1>4 DEF q

\* Flattening sequences over T gives a sequence over T.
LEMMA FlattenType ==
  ASSUME NEW T, NEW q \in Seq(Seq(T))
  PROVE  Flatten(q) \in Seq(T)
<1>1. PICK f \in [Nat -> Seq(T)] :
        f[0] = <<>> /\ \A n \in 0..Len(q)-1 : f[n + 1] = f[n] \o q[n + 1]
  BY FlattenRecursion, Zenon
<1>2. Flatten(q) = f[Len(q)]
  BY <1>1, FlattenUnique, Zenon
<1>. QED BY <1>2

\* A channel of batches that gets one more: its content grows by that batch.
LEMMA FlattenAppend ==
  ASSUME NEW T, NEW q \in Seq(Seq(T)), NEW x \in Seq(T)
  PROVE  Flatten(Append(q, x)) = Flatten(q) \o x
<1>. DEFINE r == Append(q, x)
<1>1. r \in Seq(Seq(T)) /\ Len(r) = Len(q) + 1 /\ r[Len(q) + 1] = x
  OBVIOUS
<1>2. ASSUME NEW n \in 1..Len(q) PROVE r[n] = q[n]
  OBVIOUS
<1>. HIDE DEF r
<1>3. PICK f \in [Nat -> Seq(T)] :
        f[0] = <<>> /\ \A n \in 0..Len(r)-1 : f[n + 1] = f[n] \o r[n + 1]
  BY <1>1, FlattenRecursion, Zenon
<1>4. ASSUME NEW n \in 0..Len(q)-1 PROVE f[n + 1] = f[n] \o q[n + 1]
  <2>1. n \in 0..Len(r)-1 /\ n + 1 \in 1..Len(q)
    BY <1>1
  <2>2. f[n + 1] = f[n] \o r[n + 1]
    BY <1>3, <2>1, Zenon
  <2>. QED BY <1>2, <2>1, <2>2, Zenon
<1>5. Flatten(q) = f[Len(q)]
  BY <1>3, <1>4, FlattenUnique, Zenon
<1>6. Flatten(r) = f[Len(r)]
  BY <1>1, <1>3, FlattenUnique, Zenon
<1>7. f[Len(q) + 1] = f[Len(q)] \o x
  <2>1. Len(q) \in 0..Len(r)-1
    BY <1>1
  <2>. QED BY <1>1, <1>3, <2>1, Zenon
<1>. QED BY <1>1, <1>5, <1>6, <1>7 DEF r

\* A channel of batches from which one is taken: its content was that batch
\* followed by the rest.
LEMMA FlattenHeadTail ==
  ASSUME NEW T, NEW q \in Seq(Seq(T)), q # <<>>
  PROVE  Flatten(q) = Head(q) \o Flatten(Tail(q))
<1>1. Head(q) \in Seq(T) /\ Head(q) = q[1] /\ Tail(q) \in Seq(Seq(T)) /\ Len(Tail(q)) = Len(q) - 1
  OBVIOUS
<1>2. \A n \in 1..Len(q)-1 : Tail(q)[n] = q[n + 1]
  OBVIOUS
<1>3. PICK g \in [Nat -> Seq(T)] :
        g[0] = <<>> /\ \A n \in 0..Len(Tail(q))-1 : g[n + 1] = g[n] \o Tail(q)[n + 1]
  BY <1>1, FlattenRecursion, Zenon
<1>. DEFINE f == [n \in Nat |-> IF n = 0 THEN <<>> ELSE Head(q) \o g[n - 1]]
<1>4. f[0] = <<>>
  OBVIOUS
<1>5. ASSUME NEW n \in Nat, n # 0 PROVE f[n] = Head(q) \o g[n - 1] /\ g[n - 1] \in Seq(T)
  <2>1. f[n] = Head(q) \o g[n - 1]
    BY <1>5, Zenon
  <2>2. n - 1 \in Nat
    BY <1>5
  <2>. QED BY <2>1, <2>2, Zenon
<1>a. f = [n \in Nat |-> f[n]]
  BY Zenon
<1>. HIDE DEF f
<1>b. f \in [Nat -> Seq(T)]
  <2>1. ASSUME NEW n \in Nat PROVE f[n] \in Seq(T)
    <3>0. <<>> \in Seq(T)
      OBVIOUS
    <3>1. CASE n = 0
      BY <1>4, <3>0, <3>1, Zenon
    <3>2. CASE n # 0
      <4>1. f[n] = Head(q) \o g[n - 1] /\ g[n - 1] \in Seq(T)
        BY <1>5, <3>2, Zenon
      <4>. QED BY <1>1, <4>1, ConcatProperties, Zenon
    <3>. QED BY <3>1, <3>2
  <2>. QED BY <1>a, <2>1, Zenon
<1>c. ASSUME NEW n \in 0..Len(q)-1 PROVE f[n + 1] = f[n] \o q[n + 1]
  <2>1. f[n + 1] = Head(q) \o g[n]
    <3>1. n + 1 \in Nat /\ n + 1 # 0 /\ (n + 1) - 1 = n
      OBVIOUS
    <3>2. f[n + 1] = Head(q) \o g[(n + 1) - 1]
      BY <1>5, <3>1, Zenon
    <3>. QED BY <3>1, <3>2, Zenon
  <2>2. CASE n = 0
    <3>1. Head(q) \o <<>> = Head(q) /\ <<>> \o q[1] = q[1]
      BY <1>1, ConcatEmptySeq
    <3>2. n + 1 = 1
      BY <2>2
    <3>. QED BY <1>1, <1>3, <1>4, <2>1, <2>2, <3>1, <3>2, Zenon
  <2>3. CASE n # 0
    <3>1. g[n] = g[n - 1] \o q[n + 1]
      <4>1. n - 1 \in 0..Len(Tail(q))-1 /\ n - 1 + 1 = n
        BY <1>1, <2>3
      <4>2. Tail(q)[n] = q[n + 1]
        BY <1>2, <2>3
      <4>. QED BY <1>3, <4>1, <4>2, Zenon
    <3>2. f[n] = Head(q) \o g[n - 1] /\ g[n - 1] \in Seq(T)
      <4>1. n \in Nat
        OBVIOUS
      <4>. QED BY <1>5, <2>3, <4>1, Zenon
    <3>3. q[n + 1] \in Seq(T)
      BY ElementOfSeq
    <3>4. Head(q) \o (g[n - 1] \o q[n + 1]) = (Head(q) \o g[n - 1]) \o q[n + 1]
      <4>1. Associative(T)
        BY ConcatIsAssociative
      <4>. QED BY <1>1, <3>2, <3>3, <4>1, Zenon DEF Associative
    <3>. QED BY <2>1, <3>1, <3>2, <3>4, Zenon
  <2>. QED BY <2>2, <2>3, Zenon
<1>d. Len(q) \in Nat /\ Len(q) # 0
  OBVIOUS
<1>6. Flatten(q) = f[Len(q)]
  BY <1>4, <1>b, <1>c, FlattenUnique, Zenon
<1>7. Flatten(Tail(q)) = g[Len(q) - 1]
  BY <1>1, <1>3, FlattenUnique, Zenon
<1>. QED BY <1>5, <1>6, <1>7, <1>d, Zenon

-------------------------------------------------------------------------------
(* The inductive invariant. *)

\* A response: the request it answers, and whether it is an error of Shotover.
Responses == [id : Nat, err : BOOLEAN]
\* The main task of the connection has not returned.
Running == main \in {"select", "chain"}

\* The types of the variables.  A batch is being written only in "send", and
\* the writer outlives the main task unless the client is gone.
HandlerTypes ==
    /\ protocol \in {"Ordered", "Unordered", "Unsupported"}
    /\ sent \in Nat /\ accepted \in Nat
    /\ wire_in \in Seq(Nat) /\ read_batch \in Seq(Nat) /\ in_q \in Seq(Seq(Nat))
    /\ chain \subseteq Nat /\ ready \in Seq(Nat)
    /\ protocol = "Unordered" => pending_requests \in SUBSET (1..accepted)
    /\ protocol # "Unordered" => pending_requests \in Seq(Nat)
    /\ protocol = "Unsupported" => pending_requests = <<>>
    /\ written \in Seq(Responses) /\ write_batch \in Seq(Responses)
    /\ out_q \in Seq(Seq(Responses))
    /\ writer # "send" => write_batch = <<>>
    /\ writer = "done" => client # "open" \/ ~Running

\* The requests on their way to the chain are the ones that follow the
\* accepted ones, in order and without gaps: first those in `in_`, then, as
\* long as the reader runs, those it has read and those it has not.
RequestsInTurn ==
    LET queued == Flatten(in_q)
    IN /\ \A i \in 1..Len(queued) : queued[i] = accepted + i
       /\ accepted + Len(queued) <= sent
       /\ reader # "push" => read_batch = <<>>
       /\ reader # "done" =>
            /\ \A i \in 1..Len(read_batch) : read_batch[i] = accepted + Len(queued) + i
            /\ \A i \in 1..Len(wire_in) :
                  wire_in[i] = accepted + Len(queued) + Len(read_batch) + i
            /\ accepted + Len(queued) + Len(read_batch) + Len(wire_in) = sent

\* The requests that a sequence of responses answers.
Answered(D) == {D[i].id : i \in 1..Len(D)}

\* Each response answers an accepted request of its own, for an in order
\* protocol the i-th one the i-th request.
AnsweredOnce(D) ==
    /\ \A i \in 1..Len(D) : D[i].id \in 1..accepted
    /\ \A i, j \in 1..Len(D) : D[i].id = D[j].id => i = j
    /\ protocol # "Unordered" => \A i \in 1..Len(D) : D[i].id = i

\* The chain holds what is not answered, what it can answer is part of that,
\* for an in order protocol the next of it, and PendingRequests has the same.
HeldExactly(D) ==
    /\ chain = (1..accepted) \ Answered(D)
    /\ \A i \in 1..Len(ready) : ready[i] \in chain
    /\ \A i, j \in 1..Len(ready) : ready[i] = ready[j] => i = j
    /\ protocol # "Unordered" => \A i \in 1..Len(ready) : ready[i] = Len(D) + i
    /\ protocol = "Unordered" => pending_requests = chain
    /\ protocol = "Ordered" =>
          /\ Len(pending_requests) = accepted - Len(D)
          /\ \A i \in 1..Len(pending_requests) : pending_requests[i] = Len(D) + i

\* What is true of the responses as long as the client is there to get them.
ResponsesInTurn ==
    client = "open" => AnsweredOnce(Delivered) /\ (Running => HeldExactly(Delivered))

\* The inductive invariant.
HandlerInv == HandlerTypes /\ RequestsInTurn /\ ResponsesInTurn

-------------------------------------------------------------------------------
(* The operators of the model. *)

\* What `out_` holds is its batches, each without a farewell, one after the other.
Out(q) == Flatten([i \in DOMAIN q |-> AnswersIn(q[i])])
\* AnswersIn as a function on batches.
Strip == [b \in Seq(Responses) |-> AnswersIn(b)]

\* What is left of a batch without a farewell is a batch.
LEMMA StripType ==
  /\ Strip \in [Seq(Responses) -> Seq(Responses)]
  /\ \A b \in Seq(Responses) : Strip[b] = AnswersIn(b) /\ AnswersIn(b) \in Seq(Responses)
<1>1. ASSUME NEW b \in Seq(Responses) PROVE AnswersIn(b) \in Seq(Responses)
  BY DEF AnswersIn
<1>. QED BY <1>1, Zenon DEF Strip

\* The content of `out_` is its stripped batches, flattened.
LEMMA OutIsMapped ==
  ASSUME NEW q \in Seq(Seq(Responses))
  PROVE  Out(q) = Flatten(MapSeq(Strip, q))
<1>1. \A i \in DOMAIN q : q[i] \in Seq(Responses)
  BY ElementOfSeq
<1>2. \A i \in DOMAIN q : Strip[q[i]] = AnswersIn(q[i])
  BY <1>1, StripType, Zenon
<1>3. [i \in DOMAIN q |-> AnswersIn(q[i])] = [i \in DOMAIN q |-> Strip[q[i]]]
  BY <1>2, Zenon
<1>. QED BY <1>3, Zenon DEF Out, MapSeq

\* The content of `out_` is a sequence of responses.
LEMMA OutType ==
  ASSUME NEW q \in Seq(Seq(Responses))
  PROVE  Out(q) \in Seq(Responses)
<1>1. MapSeq(Strip, q) \in Seq(Seq(Responses))
  BY StripType, MapType
<1>. QED BY <1>1, OutIsMapped, FlattenType

\* An empty `out_` holds no response.
LEMMA OutEmpty == Out(<<>>) = <<>>
<1>1. [i \in DOMAIN <<>> |-> AnswersIn(<<>>[i])] = <<>>
  OBVIOUS
<1>. QED BY <1>1, FlattenEmpty DEF Out

\* Sending a batch adds its answers at the end.
LEMMA OutAppend ==
  ASSUME NEW q \in Seq(Seq(Responses)), NEW b \in Seq(Responses)
  PROVE  Out(Append(q, b)) = Out(q) \o AnswersIn(b)
<1>1. Append(q, b) \in Seq(Seq(Responses))
  OBVIOUS
<1>2. MapSeq(Strip, Append(q, b)) = Append(MapSeq(Strip, q), AnswersIn(b))
  <2>. DEFINE S == Seq(Responses)
  <2>2. Strip \in [S -> S] /\ q \in Seq(S) /\ b \in S
    BY StripType
  <2>. HIDE DEF S
  <2>1. MapSeq(Strip, Append(q, b)) = Append(MapSeq(Strip, q), Strip[b])
    BY <2>2, MapAppend, ZenonT(30)
  <2>. QED BY <2>1, StripType, Zenon
<1>3. MapSeq(Strip, q) \in Seq(Seq(Responses)) /\ AnswersIn(b) \in Seq(Responses)
  BY StripType, MapType
<1>. QED BY <1>1, <1>2, <1>3, OutIsMapped, FlattenAppend, Zenon

\* Stripping the batches of a channel commutes with taking its head off.
LEMMA StripHeadTail ==
  \A q \in Seq(Seq(Responses)) : q # <<>> =>
     /\ MapSeq(Strip, q) # <<>> /\ Head(MapSeq(Strip, q)) = Strip[Head(q)]
     /\ Tail(MapSeq(Strip, q)) = MapSeq(Strip, Tail(q))
<1>. DEFINE S == Seq(Responses)
<1>1. Strip \in [S -> S]
  BY StripType
<1>. HIDE DEF S
<1>2. \A q \in Seq(S) : q # <<>> =>
        /\ MapSeq(Strip, q) # <<>> /\ Head(MapSeq(Strip, q)) = Strip[Head(q)]
        /\ Tail(MapSeq(Strip, q)) = MapSeq(Strip, Tail(q))
  BY <1>1, MapHeadTail, ZenonT(30)
<1>. QED BY <1>2 DEF S

\* The first batch of `out_` holds the first answers.
LEMMA OutHeadTail ==
  ASSUME NEW q \in Seq(Seq(Responses)), q # <<>>
  PROVE  Out(q) = AnswersIn(Head(q)) \o Out(Tail(q))
<1>1. Tail(q) \in Seq(Seq(Responses)) /\ Head(q) \in Seq(Responses)
  OBVIOUS
<1>. DEFINE m == MapSeq(Strip, q)
<1>2. m \in Seq(Seq(Responses))
  BY StripType, MapType, Zenon
<1>3. /\ m # <<>> /\ Head(m) = Strip[Head(q)]
      /\ Tail(m) = MapSeq(Strip, Tail(q))
  BY StripHeadTail, Zenon
<1>. HIDE DEF m
<1>4. Flatten(m) = Head(m) \o Flatten(Tail(m))
  BY <1>2, <1>3, FlattenHeadTail
<1>5. Out(q) = Flatten(m) /\ Out(Tail(q)) = Flatten(Tail(m))
  BY <1>1, <1>3, OutIsMapped, Zenon DEF m
<1>6. Head(m) = AnswersIn(Head(q))
  BY <1>1, <1>3, StripType, Zenon
<1>. QED BY <1>4, <1>5, <1>6, Zenon

\* A sequence over S that gets one more element of S stays one.
LEMMA AppendType ==
  ASSUME NEW S, NEW q \in Seq(S), NEW x \in S
  PROVE  Append(q, x) \in Seq(S)
OBVIOUS

\* Cutting a sequence in two: the lengths and the elements of both parts.
LEMMA SubSeqFacts ==
  ASSUME NEW S, NEW q \in Seq(S), NEW n \in 0..Len(q)
  PROVE  /\ SubSeq(q, 1, n) \in Seq(S) /\ Len(SubSeq(q, 1, n)) = n
         /\ \A i \in 1..n : SubSeq(q, 1, n)[i] = q[i]
         /\ SubSeq(q, n + 1, Len(q)) \in Seq(S) /\ Len(SubSeq(q, n + 1, Len(q))) = Len(q) - n
         /\ \A i \in 1..Len(q) - n : SubSeq(q, n + 1, Len(q))[i] = q[n + i]
<1>1. Len(q) \in Nat /\ n \in Nat /\ n <= Len(q)
  OBVIOUS
<1>2. /\ SubSeq(q, 1, n) \in Seq(S) /\ Len(SubSeq(q, 1, n)) = n
      /\ \A i \in 1..n : SubSeq(q, 1, n)[i] = q[i]
  BY <1>1
<1>3. /\ SubSeq(q, n + 1, Len(q)) \in Seq(S) /\ Len(SubSeq(q, n + 1, Len(q))) = Len(q) - n
      /\ \A i \in 1..Len(q) - n : SubSeq(q, n + 1, Len(q))[i] = q[n + i]
  BY <1>1, SMTT(30)
<1>. QED BY <1>2, <1>3

\* The batch of responses to the requests `ids`.
LEMMA BatchFor ==
  ASSUME NEW ids \in Seq(Nat), NEW e \in BOOLEAN,
         NEW b, b = [i \in DOMAIN ids |-> [id |-> ids[i], err |-> e]]
  PROVE  /\ b \in Seq(Responses) /\ Len(b) = Len(ids)
         /\ \A i \in 1..Len(ids) : b[i].id = ids[i]
         /\ (\A i \in 1..Len(ids) : ids[i] # 0) => AnswersIn(b) = b
<1>. DEFINE F(i) == [id |-> ids[i], err |-> e]
<1>1. \A i \in 1..Len(ids) : F(i) \in Responses /\ F(i).id = ids[i]
  BY DEF Responses
<1>2. b = [i \in 1..Len(ids) |-> F(i)] /\ Len(ids) \in Nat
  OBVIOUS
<1>. HIDE DEF F
<1>3. b \in Seq(Responses) /\ Len(b) = Len(ids) /\ \A i \in 1..Len(ids) : b[i] = F(i)
  BY <1>1, <1>2
<1>4. \A i \in 1..Len(ids) : b[i].id = ids[i]
  BY <1>1, <1>3, Zenon
<1>5. ASSUME \A i \in 1..Len(ids) : ids[i] # 0 PROVE AnswersIn(b) = b
  <2>1. b # <<Farewell>>
    <3>. SUFFICES ASSUME b = <<Farewell>> PROVE FALSE
      OBVIOUS
    <3>1. Len(b) = 1 /\ b[1] = Farewell
      OBVIOUS
    <3>2. b[1].id = 0
      BY <3>1 DEF Farewell
    <3>3. 1 \in 1..Len(ids)
      BY <1>3, <3>1
    <3>. QED BY <1>4, <1>5, <3>2, <3>3, Zenon
  <2>. QED BY <2>1, Zenon DEF AnswersIn
<1>. QED BY <1>3, <1>4, <1>5, Zenon

\* What is on its way to the client: written, being written, and in `out_`.
LEMMA DeliveredIs ==
  Delivered = (written \o AnswersIn(write_batch)) \o Out(out_q)
BY DEF Delivered, Out

\* It is a sequence of responses.
LEMMA DeliveredType == HandlerTypes => Delivered \in Seq(Responses)
<1>. SUFFICES ASSUME HandlerTypes PROVE Delivered \in Seq(Responses)
  OBVIOUS
<1>1. /\ written \in Seq(Responses) /\ AnswersIn(write_batch) \in Seq(Responses)
      /\ Out(out_q) \in Seq(Responses)
  BY StripType, OutType, Zenon DEF HandlerTypes
<1>. QED BY <1>1, DeliveredIs

\* A batch that goes into `out_` is added to what is delivered.
LEMMA PushDelivers ==
  ASSUME HandlerTypes, NEW b \in Seq(Responses),
         written' = written, write_batch' = write_batch, out_q' = Append(out_q, b)
  PROVE  Delivered' = Delivered \o AnswersIn(b)
<1>1. /\ written \in Seq(Responses) /\ AnswersIn(write_batch) \in Seq(Responses)
      /\ Out(out_q) \in Seq(Responses) /\ AnswersIn(b) \in Seq(Responses)
      /\ out_q \in Seq(Seq(Responses))
  BY StripType, OutType, Zenon DEF HandlerTypes
<1>2. Delivered' = (written' \o AnswersIn(write_batch')) \o Out(out_q')
  BY DEF Delivered, Out, AnswersIn
<1>3. Out(out_q') = Out(out_q) \o AnswersIn(b)
  BY <1>1, OutAppend, Zenon
<1>. DEFINE w == written \o AnswersIn(write_batch)
<1>4. w \in Seq(Responses)
  BY <1>1
<1>5. Delivered' = w \o (Out(out_q) \o AnswersIn(b)) /\ Delivered = w \o Out(out_q)
  BY <1>2, <1>3, DeliveredIs, Zenon
<1>. HIDE DEF w
<1>6. w \o (Out(out_q) \o AnswersIn(b)) = (w \o Out(out_q)) \o AnswersIn(b)
  <2>1. Associative(Responses)
    BY ConcatIsAssociative, Zenon
  <2>. QED BY <1>1, <1>4, <2>1, ZenonT(30) DEF Associative
<1>. QED BY <1>5, <1>6, Zenon

\* Taking a batch out of `out_`, and handing it to the encoder, moves it only.
LEMMA TakeDelivers ==
  HandlerTypes /\ (WriterTake \/ WriterSend) => Delivered' = Delivered
<1>. SUFFICES ASSUME HandlerTypes, WriterTake \/ WriterSend PROVE Delivered' = Delivered
  OBVIOUS
<1>1. /\ written \in Seq(Responses) /\ AnswersIn(write_batch) \in Seq(Responses)
      /\ Out(out_q) \in Seq(Responses) /\ out_q \in Seq(Seq(Responses))
  BY StripType, OutType, Zenon DEF HandlerTypes
<1>2. Delivered' = (written' \o AnswersIn(write_batch')) \o Out(out_q')
  BY DEF Delivered, Out, AnswersIn
<1>3. AnswersIn(<<>>) = <<>>
  BY DEF AnswersIn
<1>4. CASE WriterTake
  <2>1. /\ written' = written /\ write_batch = <<>> /\ out_q # <<>>
        /\ write_batch' = Head(out_q) /\ out_q' = Tail(out_q)
    BY <1>4, Zenon DEF WriterTake, HandlerTypes
  <2>2. /\ Tail(out_q) \in Seq(Seq(Responses)) /\ Head(out_q) \in Seq(Responses)
    BY <1>1, <2>1
  <2>3. AnswersIn(Head(out_q)) \in Seq(Responses) /\ Out(Tail(out_q)) \in Seq(Responses)
    BY <2>2, StripType, OutType, Zenon
  <2>4. Out(out_q) = AnswersIn(Head(out_q)) \o Out(Tail(out_q))
    BY <1>1, <2>1, OutHeadTail, Zenon
  <2>5. Delivered' = (written \o AnswersIn(Head(out_q))) \o Out(Tail(out_q))
    BY <1>2, <2>1, Zenon
  <2>6. written \o <<>> = written
    BY <1>1
  <2>7. Delivered = written \o (AnswersIn(Head(out_q)) \o Out(Tail(out_q)))
    BY <1>3, <2>1, <2>4, <2>6, DeliveredIs, Zenon
  <2>8. Associative(Responses)
    BY ConcatIsAssociative, Zenon
  <2>. QED BY <1>1, <2>3, <2>5, <2>7, <2>8, ZenonT(30) DEF Associative
<1>5. CASE WriterSend
  <2>1. /\ written' = written \o AnswersIn(write_batch) /\ write_batch' = <<>> /\ out_q' = out_q
    BY <1>5, Zenon DEF WriterSend
  <2>2. written' \o <<>> = written'
    BY <1>1, <2>1
  <2>. QED BY <1>2, <1>3, <2>1, <2>2, DeliveredIs, Zenon
<1>. QED BY <1>4, <1>5

-------------------------------------------------------------------------------
(* The invariant. *)

\* to_errors names pending requests only, each at most once, and for an in
\* order protocol all of them in their order.
LEMMA ErrorIds ==
  ASSUME HandlerTypes, NEW ids \in ToErrors
  PROVE  /\ ids \in Seq(Nat)
         /\ protocol = "Unordered" =>
              /\ \A i \in 1..Len(ids) : ids[i] \in pending_requests
              /\ \A i, j \in 1..Len(ids) : ids[i] = ids[j] => i = j
         /\ protocol # "Unordered" => ids = pending_requests
<1>1. CASE protocol # "Unordered"
  BY <1>1 DEF HandlerTypes, ToErrors
<1>2. CASE protocol = "Unordered"
  <2>1. pending_requests \subseteq 1..accepted /\ accepted \in Nat
    BY <1>2 DEF HandlerTypes
  <2>2. IsFiniteSet(pending_requests)
    <3>1. IsFiniteSet(1..accepted)
      BY <2>1, FS_Interval
    <3>. QED BY <2>1, <3>1, FS_Subset, Zenon
  <2>3. Cardinality(pending_requests) \in Nat
    BY <2>2, FS_CardinalityType
  <2>4. PICK n \in 0..Cardinality(pending_requests) : ids \in Injection(1..n, pending_requests)
    BY <1>2, Zenon DEF ToErrors
  <2>5. n \in Nat
    BY <2>3
  <2>6. ids \in [1..n -> pending_requests] /\ \A i, j \in 1..n : ids[i] = ids[j] => i = j
    <3>1. ids \in [1..n -> pending_requests] /\ IsInjective(ids)
      BY <2>4, Zenon DEF Injection
    <3>2. DOMAIN ids = 1..n
      BY <3>1, Zenon
    <3>. QED BY <3>1, <3>2, Zenon DEF IsInjective
  <2>7. ids \in Seq(Nat) /\ Len(ids) = n
    <3>1. pending_requests \subseteq Nat
      BY <2>1
    <3>2. ids \in [1..n -> Nat]
      BY <2>6, <3>1, Zenon
    <3>. QED BY <2>5, <3>2
  <2>. QED BY <1>2, <2>6, <2>7, Zenon
<1>. QED BY <1>1, <1>2

\* A new connection satisfies the invariant.
LEMMA HandlerInit == Init => HandlerInv
<1>. SUFFICES ASSUME Init PROVE HandlerInv
  OBVIOUS
<1>1. HandlerTypes
  BY HandlerAssumption DEF Init, HandlerTypes, Responses
<1>2. RequestsInTurn
  BY FlattenEmpty DEF Init, RequestsInTurn
<1>3. Delivered = <<>>
  <2>1. Out(out_q) = <<>> /\ written = <<>> /\ AnswersIn(write_batch) = <<>>
    BY OutEmpty DEF Init, AnswersIn
  <2>. QED BY <2>1, DeliveredIs
<1>4. ResponsesInTurn
  <2>1. AnsweredOnce(<<>>)
    BY DEF AnsweredOnce
  <2>2. HeldExactly(<<>>)
    <3>1. Answered(<<>>) = {} /\ 1..accepted = {}
      BY DEF Init, Answered
    <3>2. Len(ready) = 0 /\ accepted = 0 /\ Len(<<>>) = 0 /\ chain = {}
      BY DEF Init
    <3>3. /\ protocol = "Unordered" => pending_requests = {}
          /\ protocol = "Ordered" => Len(pending_requests) = 0
      BY DEF Init
    <3>4. \A i \in 1..0 : FALSE
      OBVIOUS
    <3>5. chain = (1..accepted) \ Answered(<<>>)
      BY <3>1, <3>2
    <3>6. protocol = "Ordered" => Len(pending_requests) = accepted - Len(<<>>)
      BY <3>2, <3>3
    <3>. QED BY <3>2, <3>3, <3>4, <3>5, <3>6, Zenon DEF HeldExactly
  <2>. QED BY <1>3, <2>1, <2>2, Zenon DEF ResponsesInTurn
<1>. QED BY <1>1, <1>2, <1>4 DEF HandlerInv

\* The content of `in_` is a sequence of requests.
LEMMA QueuedType == HandlerTypes => Flatten(in_q) \in Seq(Nat)
BY FlattenType, Zenon DEF HandlerTypes

\* What a chain run takes from `in_` are the requests that follow the accepted ones.
LEMMA QueuedNext ==
  ASSUME HandlerTypes, RequestsInTurn, NEW requests, requests = Flatten(in_q)
  PROVE  /\ requests \in Seq(Nat)
         /\ \A i \in 1..Len(requests) : requests[i] = accepted + i
         /\ Range(requests) = (accepted + 1)..(accepted + Len(requests))
         /\ Range(requests) \subseteq Nat
<1>1. requests \in Seq(Nat)
  BY QueuedType, Zenon
<1>2. \A i \in 1..Len(requests) : requests[i] = accepted + i
  BY Zenon DEF RequestsInTurn
<1>3. accepted \in Nat
  BY DEF HandlerTypes
<1>4. Range(requests) = {requests[i] : i \in 1..Len(requests)}
  BY <1>1 DEF Range
<1>5. \A x \in (accepted + 1)..(accepted + Len(requests)) :
        x - accepted \in 1..Len(requests) /\ requests[x - accepted] = x
  BY <1>1, <1>2, <1>3
<1>6. Range(requests) = (accepted + 1)..(accepted + Len(requests))
  BY <1>1, <1>2, <1>3, <1>4, <1>5
<1>. QED BY <1>1, <1>2, <1>3, <1>6

\* Every step keeps the types.
LEMMA TypesKept ==
  HandlerTypes /\ RequestsInTurn /\ [Next]_vars => HandlerTypes'
<1>. SUFFICES ASSUME HandlerTypes, RequestsInTurn, [Next]_vars PROVE HandlerTypes'
  OBVIOUS
<1>. USE DEF clientVars, readerVars, mainVars, chainVars, writerVars
<1>1. CASE UNCHANGED vars
  BY <1>1 DEF HandlerTypes, Running, vars
<1>2. CASE ReaderNext
  <2>1. wire_in' \in Seq(Nat) /\ read_batch' \in Seq(Nat)
    <3>1. PICK n \in 1..Len(wire_in) : /\ read_batch' = SubSeq(wire_in, 1, n)
                                       /\ wire_in' = SubSeq(wire_in, n + 1, Len(wire_in))
      BY <1>2 DEF ReaderNext
    <3>2. wire_in \in Seq(Nat) /\ n \in 0..Len(wire_in)
      BY DEF HandlerTypes
    <3>. QED BY <3>1, <3>2, SubSeqFacts, Zenon
  <2>. QED BY <1>2, <2>1, Zenon DEF ReaderNext, HandlerTypes, Running
<1>3. CASE ReaderPush
  <2>1. in_q' \in Seq(Seq(Nat)) /\ read_batch' \in Seq(Nat)
    BY <1>3 DEF ReaderPush, HandlerTypes
  <2>. QED BY <1>3, <2>1, Zenon DEF ReaderPush, HandlerTypes, Running
<1>4. CASE ReaderMainGone \/ ReaderDecodeErr \/ ReaderEof
  <2>1. ReaderReturn /\ (out_q' = out_q \/ out_q' = Append(out_q, <<Farewell>>))
    BY <1>4 DEF ReaderMainGone, ReaderDecodeErr, ReaderEof
  <2>2. <<Farewell>> \in Seq(Responses)
    BY DEF Farewell, Responses
  <2>3. out_q' \in Seq(Seq(Responses)) /\ read_batch' \in Seq(Nat)
    <3>1. read_batch' \in Seq(Nat)
      BY <2>1 DEF ReaderReturn
    <3>. QED BY <2>1, <2>2, <3>1, AppendType, Zenon DEF HandlerTypes
  <2>. QED BY <2>1, <2>3, Zenon DEF ReaderReturn, HandlerTypes, Running
<1>5. CASE MainShutdown \/ MainReceiveNone
  BY <1>5, Zenon DEF MainShutdown, MainReceiveNone, HandlerTypes, Running
<1>6. CASE MainForceRun \/ MainReceive
  <2>. DEFINE requests == Flatten(in_q)
  <2>1. /\ StartChain(requests) /\ main = "select"
        /\ UNCHANGED <<protocol, clientVars, reader, read_batch, ready, writerVars>>
    BY <1>6 DEF MainForceRun, MainReceive
  <2>2. /\ requests \in Seq(Nat) /\ Range(requests) \subseteq Nat
        /\ Range(requests) = (accepted + 1)..(accepted + Len(requests))
    BY QueuedNext
  <2>. HIDE DEF requests
  <2>3. in_q' \in Seq(Seq(Nat)) /\ accepted' \in Nat /\ chain' \subseteq Nat
    <3>1. in_q' \in Seq(Seq(Nat))
      BY <2>1 DEF StartChain, ProcessRequests
    <3>2. accepted' \in Nat /\ chain' \subseteq Nat
      <4>1. accepted \in Nat /\ chain \subseteq Nat
        BY DEF HandlerTypes
      <4>. QED BY <2>1, <2>2, <4>1 DEF StartChain, ProcessRequests
    <3>. QED BY <3>1, <3>2
  <2>4. /\ protocol = "Unordered" => pending_requests' \in SUBSET (1..accepted')
        /\ protocol # "Unordered" => pending_requests' \in Seq(Nat)
        /\ protocol = "Unsupported" => pending_requests' = <<>>
    BY <2>1, <2>2 DEF StartChain, ProcessRequests, HandlerTypes
  <2>. QED BY <2>1, <2>3, <2>4, Zenon DEF StartChain, ProcessRequests, HandlerTypes, Running
<1>7. ASSUME NEW close \in BOOLEAN, ChainOk(close) PROVE HandlerTypes'
  <2>. DEFINE responses == [i \in DOMAIN ready |-> Response(ready[i])]
  <2>1. responses \in Seq(Responses)
    <3>1. ready \in Seq(Nat) /\ FALSE \in BOOLEAN
      BY DEF HandlerTypes
    <3>2. responses = [i \in DOMAIN ready |-> [id |-> ready[i], err |-> FALSE]]
      BY Zenon DEF Response
    <3>. QED BY <3>1, <3>2, BatchFor, Zenon
  <2>. HIDE DEF responses
  <2>2. /\ pending_requests' = Settle(responses) /\ main = "chain"
        /\ chain' \subseteq chain /\ ready' = <<>>
        /\ out_q' = out_q \/ out_q' = Append(out_q, responses)
        /\ UNCHANGED <<protocol, clientVars, readerVars, accepted, writer, write_batch, written>>
    BY <1>7 DEF ChainOk, responses
  <2>3. chain' \subseteq Nat /\ ready' \in Seq(Nat)
    BY <2>2 DEF HandlerTypes
  <2>4. /\ protocol = "Unordered" => pending_requests' \in SUBSET (1..accepted)
        /\ protocol # "Unordered" => pending_requests' \in Seq(Nat)
        /\ protocol = "Unsupported" => pending_requests' = <<>>
    <3>1. Len(responses) \in Nat
      BY <2>1
    <3>2. CASE protocol = "Unordered"
      BY <2>2, <3>2 DEF Settle, HandlerTypes
    <3>3. CASE protocol # "Unordered"
      <4>1. pending_requests' = SubSeq(pending_requests, Len(responses) + 1, Len(pending_requests))
        BY <2>2, <3>3 DEF Settle
      <4>2. pending_requests \in Seq(Nat) /\ (protocol = "Unsupported" => pending_requests = <<>>)
        BY <3>3 DEF HandlerTypes
      <4>. QED BY <3>1, <3>3, <4>1, <4>2, SMTT(20)
    <3>. QED BY <3>2, <3>3
  <2>5. out_q' \in Seq(Seq(Responses))
    BY <2>1, <2>2, AppendType, Zenon DEF HandlerTypes
  <2>. QED BY <2>2, <2>3, <2>4, <2>5, Zenon DEF HandlerTypes, Running
<1>8. CASE ChainErr
  <2>1. PICK ids \in ToErrors :
          out_q' = IF writer = "done" THEN out_q
                   ELSE Append(out_q, [i \in DOMAIN ids |-> ErrorResponse(ids[i])])
    BY <1>8, Zenon DEF ChainErr
  <2>2. ids \in Seq(Nat)
    BY ErrorIds
  <2>3. [i \in DOMAIN ids |-> ErrorResponse(ids[i])] \in Seq(Responses)
    <3>1. TRUE \in BOOLEAN
      OBVIOUS
    <3>. QED BY <2>2, <3>1, BatchFor, Zenon DEF ErrorResponse
  <2>4. out_q' \in Seq(Seq(Responses)) /\ {} \subseteq Nat /\ <<>> \in Seq(Nat)
    <3>1. {} \subseteq Nat /\ <<>> \in Seq(Nat)
      OBVIOUS
    <3>. QED BY <2>1, <2>3, <3>1, AppendType, Zenon DEF HandlerTypes
  <2>. QED BY <1>8, <2>4, Zenon DEF ChainErr, HandlerTypes, Running
<1>9. CASE MainFlush
  <2>1. {} \subseteq Nat /\ <<>> \in Seq(Nat)
    OBVIOUS
  <2>. QED BY <1>9, <2>1, Zenon DEF MainFlush, HandlerTypes, Running
<1>10. CASE WriterTake
  <2>1. out_q' \in Seq(Seq(Responses)) /\ write_batch' \in Seq(Responses)
    <3>1. /\ out_q \in Seq(Seq(Responses)) /\ out_q # <<>>
          /\ write_batch' = Head(out_q) /\ out_q' = Tail(out_q)
      BY <1>10, Zenon DEF WriterTake, HandlerTypes
    <3>. QED BY <3>1
  <2>. QED BY <1>10, <2>1, Zenon DEF WriterTake, HandlerTypes, Running
<1>11. CASE WriterSend
  <2>1. AnswersIn(write_batch) \in Seq(Responses) /\ written \in Seq(Responses)
    BY StripType, Zenon DEF HandlerTypes
  <2>2. written' \in Seq(Responses) /\ write_batch' \in Seq(Responses)
    BY <1>11, <2>1 DEF WriterSend
  <2>. QED BY <1>11, <2>2, Zenon DEF WriterSend, HandlerTypes, Running
<1>12. CASE WriterIoErr
  <2>1. out_q' \in Seq(Seq(Responses)) /\ write_batch' \in Seq(Responses)
    <3>1. <<>> \in Seq(Seq(Responses)) /\ <<>> \in Seq(Responses)
      OBVIOUS
    <3>. QED BY <1>12, <3>1, Zenon DEF WriterIoErr, HandlerTypes
  <2>2. "closed" # "open"
    OBVIOUS
  <2>. QED BY <1>12, <2>1, <2>2, Zenon DEF WriterIoErr, HandlerTypes, Running
<1>13. CASE WriterNone
  <2>1. ~Running
    BY <1>13 DEF WriterNone, MainReturned, Running
  <2>2. ~Running'
    BY <1>13, <2>1, Zenon DEF WriterNone, Running
  <2>. QED BY <1>13, <2>2 DEF WriterNone, HandlerTypes
<1>14. CASE DestAnswer
  <2>1. ready' \in Seq(Nat)
    BY <1>14 DEF DestAnswer, HandlerTypes
  <2>. QED BY <1>14, <2>1, Zenon DEF DestAnswer, HandlerTypes, Running
<1>15. CASE ClientSend
  <2>1. sent' \in Nat /\ wire_in' \in Seq(Nat)
    BY <1>15 DEF ClientSend, HandlerTypes
  <2>. QED BY <1>15, <2>1, Zenon DEF ClientSend, HandlerTypes, Running
<1>16. CASE ClientClose
  BY <1>16 DEF ClientClose, HandlerTypes, Running
<1>17. CASE TriggerShutdown
  BY <1>17, Zenon DEF TriggerShutdown, HandlerTypes, Running
<1>. QED
  BY <1>1, <1>2, <1>3, <1>4, <1>5, <1>6, <1>7, <1>8, <1>9, <1>10, <1>11, <1>12, <1>13,
     <1>14, <1>15, <1>16, <1>17
  DEF Next, ReaderStep, MainStep, ChainReturns, WriterStep, Finished

\* Requests move to the chain in turn: the reader takes them from the wire, the
\* channel keeps their order, and the main task takes all that is queued.
LEMMA RequestsKept ==
  HandlerTypes /\ RequestsInTurn /\ [Next]_vars => RequestsInTurn'
<1>. SUFFICES ASSUME HandlerTypes, RequestsInTurn, [Next]_vars PROVE RequestsInTurn'
  OBVIOUS
<1>. USE DEF clientVars, readerVars, mainVars, chainVars, writerVars
<1>. DEFINE queued == Flatten(in_q)
            p == accepted + Len(queued)
<1>0. /\ queued \in Seq(Nat) /\ wire_in \in Seq(Nat) /\ read_batch \in Seq(Nat)
      /\ accepted \in Nat /\ sent \in Nat
  BY QueuedType, Zenon DEF HandlerTypes
<1>1. ASSUME in_q' = in_q, accepted' = accepted, sent' = sent,
             \/ UNCHANGED <<reader, read_batch, wire_in>>
             \/ reader' = "done" /\ read_batch' = <<>>
      PROVE  RequestsInTurn'
  BY <1>1 DEF RequestsInTurn
<1>2. CASE ReaderNext
  <2>1. PICK n \in 1..Len(wire_in) : /\ read_batch' = SubSeq(wire_in, 1, n)
                                     /\ wire_in' = SubSeq(wire_in, n + 1, Len(wire_in))
    BY <1>2 DEF ReaderNext
  <2>2. /\ reader = "select" /\ reader' = "push"
        /\ in_q' = in_q /\ accepted' = accepted /\ sent' = sent
    BY <1>2 DEF ReaderNext
  <2>3. n \in 0..Len(wire_in) /\ Len(wire_in) \in Nat /\ n \in Nat
    BY <1>0
  <2>4. /\ Len(read_batch') = n /\ \A i \in 1..n : read_batch'[i] = wire_in[i]
        /\ Len(wire_in') = Len(wire_in) - n
        /\ \A i \in 1..Len(wire_in) - n : wire_in'[i] = wire_in[n + i]
    BY <1>0, <2>1, <2>3, SubSeqFacts, ZenonT(30)
  <2>5. /\ \A i \in 1..Len(queued) : queued[i] = accepted + i
        /\ accepted + Len(queued) <= sent /\ Len(read_batch) = 0
        /\ \A i \in 1..Len(wire_in) : wire_in[i] = accepted + Len(queued) + i
        /\ accepted + Len(queued) + Len(wire_in) = sent
    BY <1>0, <2>2 DEF RequestsInTurn
  <2>. HIDE DEF queued
  <2>6. /\ \A i \in 1..n : read_batch'[i] = accepted + Len(queued) + i
        /\ \A i \in 1..Len(wire_in) - n : wire_in'[i] = accepted + Len(queued) + n + i
        /\ accepted + Len(queued) + n + (Len(wire_in) - n) = sent
    <3>1. Len(queued) \in Nat
      BY <1>0
    <3>2. ASSUME NEW i \in 1..n PROVE read_batch'[i] = accepted + Len(queued) + i
      <4>1. i \in 1..Len(wire_in)
        BY <2>3
      <4>. QED BY <2>4, <2>5, <4>1, Zenon
    <3>3. ASSUME NEW i \in 1..Len(wire_in) - n
          PROVE  wire_in'[i] = accepted + Len(queued) + n + i
      <4>1. n + i \in 1..Len(wire_in) /\ i \in Nat
        BY <2>3
      <4>2. wire_in'[i] = accepted + Len(queued) + (n + i)
        BY <2>4, <2>5, <4>1, Zenon
      <4>. QED BY <1>0, <2>3, <3>1, <4>1, <4>2
    <3>4. accepted + Len(queued) + n + (Len(wire_in) - n) = sent
      <4>1. /\ accepted \in Nat /\ sent \in Nat
            /\ accepted + Len(queued) + Len(wire_in) = sent
        BY <1>0, <2>5, Zenon
      <4>. QED BY <2>3, <3>1, <4>1
    <3>. QED BY <3>2, <3>3, <3>4, Zenon
  <2>. QED BY <2>2, <2>4, <2>5, <2>6 DEF RequestsInTurn, queued
<1>3. CASE ReaderPush
  <2>1. /\ reader = "push" /\ reader' = "select" /\ read_batch' = <<>> /\ wire_in' = wire_in
        /\ in_q' = Append(in_q, read_batch) /\ accepted' = accepted /\ sent' = sent
    BY <1>3 DEF ReaderPush
  <2>2. Flatten(in_q') = queued \o read_batch
    BY <1>0, <2>1, FlattenAppend, Zenon DEF HandlerTypes
  <2>3. /\ \A i \in 1..Len(queued) : queued[i] = accepted + i
        /\ \A i \in 1..Len(read_batch) : read_batch[i] = accepted + Len(queued) + i
        /\ \A i \in 1..Len(wire_in) :
              wire_in[i] = accepted + Len(queued) + Len(read_batch) + i
        /\ accepted + Len(queued) + Len(read_batch) + Len(wire_in) = sent
    BY <1>0, <2>1 DEF RequestsInTurn
  <2>. DEFINE q == queued \o read_batch
  <2>. HIDE DEF queued
  <2>4. q \in Seq(Nat) /\ Len(q) = Len(queued) + Len(read_batch)
    BY <1>0
  <2>5. \A i \in 1..Len(q) : q[i] = accepted + i
    BY <1>0, <2>3
  <2>6. /\ \A i \in 1..Len(wire_in) : wire_in[i] = accepted + Len(q) + Len(<<>>) + i
        /\ accepted + Len(q) + Len(<<>>) + Len(wire_in) = sent /\ accepted + Len(q) <= sent
        /\ \A i \in 1..Len(<<>>) : <<>>[i] = accepted + Len(q) + i
    BY <1>0, <2>3, <2>4
  <2>. HIDE DEF q
  <2>. QED BY <2>1, <2>2, <2>5, <2>6, Zenon DEF RequestsInTurn, q
<1>4. CASE MainForceRun \/ MainReceive
  <2>1. /\ accepted' = accepted + Len(queued) /\ in_q' = <<>>
        /\ UNCHANGED <<sent, wire_in, reader, read_batch>>
    BY <1>4 DEF MainForceRun, MainReceive, StartChain, ProcessRequests
  <2>2. Flatten(in_q') = <<>>
    BY <2>1, FlattenEmpty, Zenon
  <2>3. Len(<<>>) = 0 /\ accepted' + 0 = accepted' /\ \A i \in 1..0 : FALSE
    BY <1>0, <2>1
  <2>4. /\ accepted' + Len(<<>>) <= sent
        /\ \A i \in 1..Len(<<>>) : <<>>[i] = accepted' + i
    BY <1>0, <2>1 DEF RequestsInTurn
  <2>5. accepted' + Len(<<>>) = p
    BY <1>0, <2>1
  <2>. HIDE DEF queued
  <2>. QED BY <2>1, <2>2, <2>4, <2>5, Zenon DEF RequestsInTurn, queued
<1>5. CASE ClientSend
  <2>1. /\ reader # "done" /\ sent' = sent + 1 /\ wire_in' = Append(wire_in, sent + 1)
        /\ in_q' = in_q /\ accepted' = accepted /\ UNCHANGED <<reader, read_batch>>
    BY <1>5 DEF ClientSend
  <2>2. /\ \A i \in 1..Len(queued) : queued[i] = accepted + i
        /\ reader # "push" => read_batch = <<>>
        /\ accepted + Len(queued) <= sent
        /\ \A i \in 1..Len(read_batch) : read_batch[i] = accepted + Len(queued) + i
        /\ \A i \in 1..Len(wire_in) :
              wire_in[i] = accepted + Len(queued) + Len(read_batch) + i
        /\ accepted + Len(queued) + Len(read_batch) + Len(wire_in) = sent
    BY <1>0, <2>1 DEF RequestsInTurn
  <2>. HIDE DEF queued
  <2>3. /\ \A i \in 1..Len(wire_in') :
              wire_in'[i] = accepted + Len(queued) + Len(read_batch) + i
        /\ accepted + Len(queued) + Len(read_batch) + Len(wire_in') = sent'
        /\ accepted + Len(queued) <= sent'
    <3>1. /\ Len(queued) \in Nat /\ Len(read_batch) \in Nat /\ Len(wire_in) \in Nat
          /\ accepted \in Nat /\ sent \in Nat
          /\ accepted + Len(queued) + Len(read_batch) + Len(wire_in) = sent
      BY <1>0, <2>2
    <3>2. /\ Len(wire_in') = Len(wire_in) + 1 /\ wire_in'[Len(wire_in) + 1] = sent + 1
          /\ \A i \in 1..Len(wire_in) : wire_in'[i] = wire_in[i]
      BY <1>0, <2>1
    <3>3. ASSUME NEW i \in 1..Len(wire_in')
          PROVE  wire_in'[i] = accepted + Len(queued) + Len(read_batch) + i
      <4>1. CASE i = Len(wire_in) + 1
        <5>1. sent + 1 = accepted + Len(queued) + Len(read_batch) + (Len(wire_in) + 1)
          BY <3>1
        <5>. QED BY <3>2, <4>1, <5>1, Zenon
      <4>2. CASE i # Len(wire_in) + 1
        <5>1. i \in 1..Len(wire_in)
          BY <3>1, <3>2, <4>2
        <5>. QED BY <2>2, <3>2, <5>1, Zenon
      <4>. QED BY <4>1, <4>2
    <3>4. /\ accepted + Len(queued) + Len(read_batch) + (Len(wire_in) + 1) = sent + 1
          /\ accepted + Len(queued) <= sent + 1
      BY <3>1
    <3>. QED BY <2>1, <3>2, <3>3, <3>4, Zenon
  <2>. QED BY <2>1, <2>2, <2>3, Zenon DEF RequestsInTurn, queued
<1>6. CASE UNCHANGED vars
  BY <1>1, <1>6 DEF vars
<1>7. CASE ReaderMainGone \/ ReaderDecodeErr \/ ReaderEof
  BY <1>1, <1>7 DEF ReaderMainGone, ReaderDecodeErr, ReaderEof, ReaderReturn
<1>8. CASE MainShutdown \/ MainReceiveNone \/ MainFlush
  BY <1>1, <1>8 DEF MainShutdown, MainReceiveNone, MainFlush
<1>9. CASE ChainReturns
  BY <1>1, <1>9, Zenon DEF ChainReturns, ChainOk, ChainErr
<1>10. CASE WriterStep \/ WriterSend
  BY <1>1, <1>10 DEF WriterStep, WriterTake, WriterIoErr, WriterNone, WriterSend
<1>11. CASE DestAnswer \/ ClientClose \/ TriggerShutdown
  BY <1>1, <1>11 DEF DestAnswer, ClientClose, TriggerShutdown
<1>. QED
  BY <1>2, <1>3, <1>4, <1>5, <1>6, <1>7, <1>8, <1>9, <1>10, <1>11
  DEF Next, ReaderStep, MainStep, Finished

\* The elements of a concatenation.
LEMMA ConcatFacts ==
  ASSUME NEW S, NEW a \in Seq(S), NEW b \in Seq(S)
  PROVE  /\ a \o b \in Seq(S) /\ Len(a \o b) = Len(a) + Len(b)
         /\ \A i \in 1..Len(a) : (a \o b)[i] = a[i]
         /\ \A i \in 1..Len(b) : (a \o b)[Len(a) + i] = b[i]
OBVIOUS

\* What a concatenation answers.
LEMMA AnsweredConcat ==
  ASSUME NEW D \in Seq(Responses), NEW r \in Seq(Responses)
  PROVE  Answered(D \o r) = Answered(D) \cup Answered(r)
<1>. DEFINE d == D \o r
<1>1. /\ Len(d) = Len(D) + Len(r) /\ Len(D) \in Nat /\ Len(r) \in Nat
      /\ \A i \in 1..Len(D) : d[i] = D[i]
      /\ \A i \in 1..Len(r) : d[Len(D) + i] = r[i]
  BY ConcatFacts
<1>. HIDE DEF d
<1>2. ASSUME NEW i \in 1..Len(d) PROVE d[i].id \in Answered(D) \cup Answered(r)
  <2>1. CASE i <= Len(D)
    <3>1. i \in 1..Len(D)
      BY <1>1, <2>1
    <3>. QED BY <1>1, <3>1, Zenon DEF Answered
  <2>2. CASE i > Len(D)
    <3>1. i - Len(D) \in 1..Len(r) /\ Len(D) + (i - Len(D)) = i
      BY <1>1, <2>2
    <3>. QED BY <1>1, <3>1, Zenon DEF Answered
  <2>. QED BY <1>1, <2>1, <2>2
<1>3. ASSUME NEW i \in 1..Len(D) PROVE D[i].id \in Answered(d)
  <2>1. i \in 1..Len(d)
    BY <1>1
  <2>. QED BY <1>1, <2>1, Zenon DEF Answered
<1>4. ASSUME NEW i \in 1..Len(r) PROVE r[i].id \in Answered(d)
  <2>1. Len(D) + i \in 1..Len(d)
    BY <1>1
  <2>. QED BY <1>1, <2>1, Zenon DEF Answered
<1>5. Answered(d) \subseteq Answered(D) \cup Answered(r)
  BY <1>2, Zenon DEF Answered
<1>6. Answered(D) \subseteq Answered(d) /\ Answered(r) \subseteq Answered(d)
  BY <1>3, <1>4, Zenon DEF Answered
<1>. QED BY <1>5, <1>6, Zenon DEF d

\* Responses to requests that had none, each to another one, keep AnsweredOnce.
LEMMA AnswerMore ==
  ASSUME NEW D \in Seq(Responses), NEW r \in Seq(Responses), AnsweredOnce(D),
         \A i \in 1..Len(r) : r[i].id \in 1..accepted /\ r[i].id \notin Answered(D),
         \A i, j \in 1..Len(r) : r[i].id = r[j].id => i = j,
         protocol # "Unordered" => \A i \in 1..Len(r) : r[i].id = Len(D) + i
  PROVE  AnsweredOnce(D \o r)
<1>. DEFINE d == D \o r
<1>1. /\ Len(d) = Len(D) + Len(r) /\ Len(D) \in Nat /\ Len(r) \in Nat
      /\ \A i \in 1..Len(D) : d[i] = D[i]
      /\ \A i \in 1..Len(r) : d[Len(D) + i] = r[i]
  BY ConcatFacts
<1>. HIDE DEF d
<1>2. ASSUME NEW i \in 1..Len(d)
      PROVE  \/ i \in 1..Len(D) /\ d[i] = D[i]
             \/ \E k \in 1..Len(r) : i = Len(D) + k /\ d[i] = r[k]
  <2>1. CASE i <= Len(D)
    <3>1. i \in 1..Len(D)
      BY <1>1, <2>1
    <3>. QED BY <1>1, <3>1, Zenon
  <2>2. CASE i > Len(D)
    <3>1. i - Len(D) \in 1..Len(r) /\ Len(D) + (i - Len(D)) = i
      BY <1>1, <2>2
    <3>2. d[i] = r[i - Len(D)]
      BY <1>1, <3>1, Zenon
    <3>. QED BY <3>1, <3>2, Zenon
  <2>. QED BY <1>1, <2>1, <2>2
<1>3. ASSUME NEW i \in 1..Len(d) PROVE d[i].id \in 1..accepted
  BY <1>2, Zenon DEF AnsweredOnce
<1>4. ASSUME NEW i \in 1..Len(d), NEW j \in 1..Len(d), d[i].id = d[j].id PROVE i = j
  <2>1. CASE d[i] = D[i] /\ i \in 1..Len(D) /\ d[j] = D[j] /\ j \in 1..Len(D)
    BY <1>4, <2>1, Zenon DEF AnsweredOnce
  <2>2. ASSUME i \in 1..Len(D), d[i] = D[i], NEW k \in 1..Len(r), d[j] = r[k] PROVE FALSE
    <3>1. r[k].id \in Answered(D)
      BY <1>4, <2>2, Zenon DEF Answered
    <3>. QED BY <3>1, Zenon
  <2>3. ASSUME j \in 1..Len(D), d[j] = D[j], NEW k \in 1..Len(r), d[i] = r[k] PROVE FALSE
    <3>1. r[k].id \in Answered(D)
      BY <1>4, <2>3, Zenon DEF Answered
    <3>. QED BY <3>1, Zenon
  <2>4. ASSUME NEW k \in 1..Len(r), i = Len(D) + k, d[i] = r[k],
               NEW m \in 1..Len(r), j = Len(D) + m, d[j] = r[m]
        PROVE  i = j
    BY <1>4, <2>4, Zenon
  <2>. QED BY <1>2, <2>1, <2>2, <2>3, <2>4, Zenon
<1>5. ASSUME protocol # "Unordered", NEW i \in 1..Len(d) PROVE d[i].id = i
  <2>1. CASE i \in 1..Len(D) /\ d[i] = D[i]
    BY <1>5, <2>1, Zenon DEF AnsweredOnce
  <2>2. ASSUME NEW k \in 1..Len(r), i = Len(D) + k, d[i] = r[k] PROVE d[i].id = i
    BY <1>5, <2>2, Zenon
  <2>. QED BY <1>2, <2>1, <2>2, Zenon
<1>. QED BY <1>3, <1>4, <1>5, Zenon DEF AnsweredOnce, d

\* A chain run takes the queued requests: they are held, and pending.
LEMMA StartKeepsResponses ==
  ASSUME HandlerTypes, RequestsInTurn, ResponsesInTurn, MainForceRun \/ MainReceive
  PROVE  ResponsesInTurn'
<1>. DEFINE requests == Flatten(in_q)
            D == Delivered
            k == Len(requests)
<1>1. /\ StartChain(requests) /\ main = "select"
      /\ UNCHANGED <<protocol, client, ready, written, write_batch, out_q>>
  BY DEF MainForceRun, MainReceive, clientVars, writerVars
<1>2. D' = D
  BY <1>1, Zenon DEF Delivered
<1>3. /\ requests \in Seq(Nat) /\ \A i \in 1..k : requests[i] = accepted + i
      /\ Range(requests) = (accepted + 1)..(accepted + k)
  BY QueuedNext
<1>4. D \in Seq(Responses) /\ accepted \in Nat /\ ready \in Seq(Nat)
  BY DeliveredType DEF HandlerTypes
<1>5. /\ accepted' = accepted + k /\ k \in Nat /\ Len(D) \in Nat
      /\ chain' = chain \cup ((accepted + 1)..(accepted + k))
  BY <1>1, <1>3, <1>4 DEF StartChain, ProcessRequests
<1>. HIDE DEF requests, D, k
<1>. SUFFICES ASSUME client' = "open" PROVE AnsweredOnce(D)' /\ HeldExactly(D)'
  BY Zenon DEF ResponsesInTurn, D
<1>6. AnsweredOnce(D) /\ HeldExactly(D)
  BY <1>1 DEF ResponsesInTurn, Running, D
<1>7. (1..accepted) \subseteq (1..accepted')
  BY <1>4, <1>5
<1>8. AnsweredOnce(D)'
  BY <1>1, <1>2, <1>6, <1>7, Zenon DEF AnsweredOnce
<1>9. Answered(D) \subseteq 1..accepted
  BY <1>6, Zenon DEF AnsweredOnce, Answered
<1>10. chain' = (1..accepted') \ Answered(D)
  <2>1. chain = (1..accepted) \ Answered(D)
    BY <1>6, Zenon DEF HeldExactly
  <2>2. /\ 1..accepted' = (1..accepted) \cup ((accepted + 1)..(accepted + k))
        /\ \A x \in (accepted + 1)..(accepted + k) : x \notin 1..accepted
    BY <1>4, <1>5
  <2>. QED BY <1>5, <1>9, <2>1, <2>2, Zenon
<1>11. protocol = "Unordered" => pending_requests' = chain'
  BY <1>1, <1>6, Zenon DEF StartChain, ProcessRequests, HeldExactly
<1>12. ASSUME protocol = "Ordered"
       PROVE  /\ Len(pending_requests') = accepted' - Len(D)
              /\ \A i \in 1..Len(pending_requests') : pending_requests'[i] = Len(D) + i
  <2>1. /\ pending_requests' = pending_requests \o requests
        /\ pending_requests \in Seq(Nat) /\ Len(pending_requests) = accepted - Len(D)
        /\ \A i \in 1..Len(pending_requests) : pending_requests[i] = Len(D) + i
    BY <1>1, <1>6, <1>12, Zenon DEF StartChain, ProcessRequests, HeldExactly, HandlerTypes
  <2>. DEFINE p == pending_requests
              q == pending_requests'
              n == Len(pending_requests)
  <2>2. /\ Len(q) = n + k /\ n \in Nat
        /\ \A i \in 1..n : q[i] = p[i]
        /\ \A i \in 1..k : q[n + i] = requests[i]
    <3>1. Len(pending_requests) \in Nat
      BY <2>1
    <3>. DEFINE c == pending_requests \o requests
    <3>2. /\ Len(c) = Len(pending_requests) + Len(requests)
          /\ \A i \in 1..Len(pending_requests) : c[i] = pending_requests[i]
          /\ \A i \in 1..Len(requests) : c[Len(pending_requests) + i] = requests[i]
      <4>1. requests \in Seq(Nat) /\ pending_requests \in Seq(Nat)
        BY <1>3, <2>1, Zenon
      <4>. QED BY <4>1
    <3>3. q = c
      BY <2>1
    <3>. HIDE DEF c, q
    <3>. QED BY <3>1, <3>2, <3>3, Zenon DEF k
  <2>3. n = accepted - Len(D)
    BY <2>1
  <2>. HIDE DEF q, n
  <2>4. ASSUME NEW i \in 1..Len(q) PROVE q[i] = Len(D) + i
    <3>1. CASE i <= n
      <4>1. i \in 1..n
        BY <2>2, <3>1
      <4>. QED BY <2>1, <2>2, <4>1, Zenon DEF n
    <3>2. CASE i > n
      <4>1. i - n \in 1..k /\ n + (i - n) = i
        BY <1>5, <2>2, <3>2
      <4>2. q[i] = accepted + (i - n)
        BY <1>3, <2>2, <4>1, Zenon
      <4>. QED BY <1>4, <1>5, <2>2, <2>3, <4>2
    <3>. QED BY <2>2, <3>1, <3>2
  <2>5. Len(q) = accepted' - Len(D)
    BY <1>4, <1>5, <2>2, <2>3
  <2>. QED BY <2>4, <2>5 DEF q
<1>13. HeldExactly(D)'
  <2>1. \A i \in 1..Len(ready) : ready[i] \in chain'
    BY <1>5, <1>6, Zenon DEF HeldExactly
  <2>. QED BY <1>1, <1>2, <1>6, <1>10, <1>11, <1>12, <2>1, ZenonT(30) DEF HeldExactly, Answered
<1>. QED BY <1>8, <1>13

\* What the chain returns are responses to requests that it holds.
LEMMA OkKeepsResponses ==
  ASSUME HandlerTypes, ResponsesInTurn, NEW close \in BOOLEAN, ChainOk(close)
  PROVE  ResponsesInTurn'
<1>. DEFINE r == [i \in DOMAIN ready |-> Response(ready[i])]
            D == Delivered
            k == Len(ready)
<1>1. /\ main = "chain" /\ pending_requests' = Settle(r)
      /\ chain' = chain \ Range(ready) /\ ready' = <<>>
      /\ out_q' = IF r = <<>> \/ (r # <<>> /\ writer = "done") THEN out_q ELSE Append(out_q, r)
      /\ UNCHANGED <<protocol, client, accepted, writer, write_batch, written>>
  BY DEF ChainOk, clientVars
<1>2. D \in Seq(Responses) /\ accepted \in Nat /\ ready \in Seq(Nat) /\ k \in Nat /\ Len(D) \in Nat
  BY DeliveredType DEF HandlerTypes
<1>3. /\ r \in Seq(Responses) /\ Len(r) = k /\ \A i \in 1..k : r[i].id = ready[i]
      /\ (\A i \in 1..k : ready[i] # 0) => AnswersIn(r) = r
  <2>1. r = [i \in DOMAIN ready |-> [id |-> ready[i], err |-> FALSE]] /\ FALSE \in BOOLEAN
    BY DEF Response
  <2>. QED BY <1>2, <2>1, BatchFor, ZenonT(30)
<1>. HIDE DEF r, D
<1>. SUFFICES ASSUME client' = "open" PROVE AnsweredOnce(D)' /\ HeldExactly(D)'
  BY Zenon DEF ResponsesInTurn, D
<1>4. AnsweredOnce(D) /\ HeldExactly(D) /\ client = "open"
  BY <1>1 DEF ResponsesInTurn, Running, D
<1>5. writer # "done"
  BY <1>1, <1>4 DEF HandlerTypes, Running
<1>6. /\ chain = (1..accepted) \ Answered(D) /\ \A i \in 1..k : ready[i] \in chain
      /\ \A i, j \in 1..k : ready[i] = ready[j] => i = j
      /\ protocol # "Unordered" => \A i \in 1..k : ready[i] = Len(D) + i
  BY <1>4, Zenon DEF HeldExactly
<1>. HIDE DEF k
<1>7. D' = D \o r
  <2>1. CASE r = <<>>
    <3>1. D' = D
      BY <1>1, <2>1, Zenon DEF D, Delivered
    <3>. QED BY <1>2, <2>1, <3>1
  <2>2. CASE r # <<>>
    <3>1. AnswersIn(r) = r
      <4>1. \A x \in 1..accepted : x # 0
        BY <1>2
      <4>. QED BY <1>3, <1>6, <4>1, Zenon
    <3>2. out_q' = Append(out_q, r)
      BY <1>1, <1>5, <2>2, Zenon
    <3>. QED BY <1>1, <1>3, <3>1, <3>2, PushDelivers, Zenon DEF D
  <2>. QED BY <2>1, <2>2
<1>8. AnsweredOnce(D \o r)
  <2>1. /\ \A i \in 1..Len(r) : r[i].id \in 1..accepted /\ r[i].id \notin Answered(D)
        /\ \A i, j \in 1..Len(r) : r[i].id = r[j].id => i = j
        /\ protocol # "Unordered" => \A i \in 1..Len(r) : r[i].id = Len(D) + i
    <3>1. ASSUME NEW i \in 1..Len(r)
          PROVE  /\ r[i].id \in 1..accepted /\ r[i].id \notin Answered(D)
                 /\ protocol # "Unordered" => r[i].id = Len(D) + i
      <4>1. i \in 1..k /\ r[i].id = ready[i]
        BY <1>3, Zenon
      <4>. QED BY <1>6, <4>1, Zenon
    <3>2. ASSUME NEW i \in 1..Len(r), NEW j \in 1..Len(r), r[i].id = r[j].id PROVE i = j
      <4>1. i \in 1..k /\ r[i].id = ready[i] /\ j \in 1..k /\ r[j].id = ready[j]
        BY <1>3, Zenon
      <4>. QED BY <1>6, <3>2, <4>1, Zenon
    <3>. QED BY <3>1, <3>2, Zenon
  <2>. QED BY <1>2, <1>3, <1>4, <2>1, AnswerMore, Zenon
<1>9. AnsweredOnce(D)'
  BY <1>1, <1>7, <1>8, Zenon DEF AnsweredOnce
<1>10. Answered(r) = Range(ready) /\ IdsOf(r) = Range(ready)
  <2>1. DOMAIN ready = 1..k /\ DOMAIN r = 1..k
    BY <1>2, <1>3 DEF k
  <2>. QED BY <1>3, <2>1, Zenon DEF Answered, IdsOf, Range
<1>11. chain' = (1..accepted) \ Answered(D \o r)
  <2>1. Answered(D \o r) = Answered(D) \cup Answered(r)
    BY <1>2, <1>3, AnsweredConcat, Zenon
  <2>. QED BY <1>1, <1>6, <1>10, <2>1, Zenon
<1>12. protocol = "Unordered" => pending_requests' = chain'
  BY <1>1, <1>4, <1>10, Zenon DEF Settle, HeldExactly
<1>13. ASSUME protocol = "Ordered"
       PROVE  /\ Len(pending_requests') = accepted - Len(D \o r)
              /\ \A i \in 1..Len(pending_requests') : pending_requests'[i] = Len(D \o r) + i
  <2>. DEFINE p == pending_requests
              n == Len(pending_requests)
  <2>1. /\ p \in Seq(Nat) /\ n = accepted - Len(D) /\ n \in Nat
        /\ \A i \in 1..n : p[i] = Len(D) + i
    BY <1>4, <1>13 DEF HandlerTypes, HeldExactly
  <2>2. pending_requests' = SubSeq(p, k + 1, n)
    BY <1>1, <1>3, <1>13 DEF Settle
  <2>3. k \in 0..n
    <3>1. CASE k = 0
      BY <2>1, <3>1
    <3>2. CASE k # 0
      <4>1. k \in 1..k
        BY <1>2, <3>2
      <4>2. Len(D) + k \in 1..accepted
        BY <1>6, <1>13, <4>1, Zenon
      <4>. QED BY <1>2, <2>1, <4>2
    <3>. QED BY <3>1, <3>2
  <2>4. /\ Len(pending_requests') = n - k
        /\ \A i \in 1..n - k : pending_requests'[i] = p[k + i]
    BY <2>1, <2>2, <2>3, SubSeqFacts, ZenonT(30)
  <2>5. Len(D \o r) = Len(D) + k
    BY <1>2, <1>3, ConcatFacts, Zenon
  <2>. HIDE DEF n
  <2>6. ASSUME NEW i \in 1..n - k PROVE pending_requests'[i] = (Len(D) + k) + i
    <3>1. k + i \in 1..n /\ i \in Nat /\ k \in Nat
      BY <2>1, <2>3
    <3>2. pending_requests'[i] = Len(D) + (k + i)
      BY <2>1, <2>4, <3>1, Zenon
    <3>. QED BY <1>2, <3>1, <3>2
  <2>7. n - k = accepted - (Len(D) + k)
    BY <1>2, <2>1, <2>3
  <2>. QED BY <2>4, <2>5, <2>6, <2>7, Zenon
<1>14. HeldExactly(D)'
  <2>1. Len(ready') = 0 /\ \A i \in 1..0 : FALSE
    BY <1>1
  <2>. QED BY <1>1, <1>7, <1>11, <1>12, <1>13, <2>1, Zenon DEF HeldExactly, Answered
<1>. QED BY <1>9, <1>14

\* The errors are for requests that have no response.
LEMMA ErrKeepsResponses ==
  ASSUME HandlerTypes, ResponsesInTurn, ChainErr
  PROVE  ResponsesInTurn'
<1>. DEFINE D == Delivered
<1>1. PICK ids \in ToErrors :
        out_q' = IF writer = "done" THEN out_q
                 ELSE Append(out_q, [i \in DOMAIN ids |-> ErrorResponse(ids[i])])
  BY Zenon DEF ChainErr
<1>. DEFINE r == [i \in DOMAIN ids |-> ErrorResponse(ids[i])]
            k == Len(ids)
<1>2. /\ main = "chain" /\ main' = "done"
      /\ UNCHANGED <<protocol, client, accepted, writer, write_batch, written>>
  BY DEF ChainErr, clientVars
<1>3. /\ ids \in Seq(Nat)
      /\ protocol = "Unordered" =>
           /\ \A i \in 1..k : ids[i] \in pending_requests
           /\ \A i, j \in 1..k : ids[i] = ids[j] => i = j
      /\ protocol # "Unordered" => ids = pending_requests
  BY ErrorIds
<1>4. D \in Seq(Responses) /\ accepted \in Nat /\ k \in Nat /\ Len(D) \in Nat
  BY <1>3, DeliveredType DEF HandlerTypes
<1>5. /\ r \in Seq(Responses) /\ Len(r) = k /\ \A i \in 1..k : r[i].id = ids[i]
      /\ (\A i \in 1..k : ids[i] # 0) => AnswersIn(r) = r
  <2>1. r = [i \in DOMAIN ids |-> [id |-> ids[i], err |-> TRUE]] /\ TRUE \in BOOLEAN
    BY DEF ErrorResponse
  <2>. QED BY <1>3, <2>1, BatchFor, Zenon
<1>6. out_q' = IF writer = "done" THEN out_q ELSE Append(out_q, r)
  BY <1>1
<1>. HIDE DEF r, D
<1>. SUFFICES ASSUME client' = "open" PROVE AnsweredOnce(D)'
  BY <1>2 DEF ResponsesInTurn, Running, D
<1>7. AnsweredOnce(D) /\ HeldExactly(D) /\ client = "open"
  BY <1>2 DEF ResponsesInTurn, Running, D
<1>8. writer # "done"
  BY <1>2, <1>7 DEF HandlerTypes, Running
<1>9. /\ \A i \in 1..k : ids[i] \in 1..accepted /\ ids[i] \notin Answered(D)
      /\ \A i, j \in 1..k : ids[i] = ids[j] => i = j
      /\ protocol # "Unordered" => \A i \in 1..k : ids[i] = Len(D) + i
  <2>1. CASE protocol = "Unordered"
    BY <1>3, <1>7, <2>1, Zenon DEF HeldExactly
  <2>2. CASE protocol = "Ordered"
    <3>1. /\ ids = pending_requests /\ k = accepted - Len(D)
          /\ \A i \in 1..k : ids[i] = Len(D) + i
      BY <1>3, <1>7, <2>2 DEF HeldExactly
    <3>2. ASSUME NEW i \in 1..k PROVE ids[i] \in 1..accepted /\ ids[i] > Len(D)
      <4>1. ids[i] = Len(D) + i
        BY <3>1
      <4>. QED BY <1>4, <3>1, <4>1
    <3>3. ASSUME NEW i \in 1..k, NEW j \in 1..k, ids[i] = ids[j] PROVE i = j
      <4>1. Len(D) + i = Len(D) + j
        BY <3>1, <3>3, Zenon
      <4>. QED BY <1>4, <4>1
    <3>4. \A x \in Answered(D) : x <= Len(D)
      <4>1. \A i \in 1..Len(D) : D[i].id = i /\ i <= Len(D)
        BY <1>7, <2>2 DEF AnsweredOnce
      <4>. QED BY <4>1, Zenon DEF Answered
    <3>5. \A x \in 1..accepted : x > Len(D) => ~(x <= Len(D))
      BY <1>4
    <3>. QED BY <3>1, <3>2, <3>3, <3>4, <3>5, Zenon
  <2>3. CASE protocol = "Unsupported"
    <3>1. k = 0 /\ \A i \in 1..0 : FALSE
      BY <1>3, <2>3 DEF HandlerTypes
    <3>. QED BY <3>1, Zenon
  <2>. QED BY <2>1, <2>2, <2>3 DEF HandlerTypes
<1>10. D' = D \o r
  <2>1. AnswersIn(r) = r
    <3>1. \A x \in 1..accepted : x # 0
      BY <1>4
    <3>. QED BY <1>5, <1>9, <3>1, Zenon
  <2>. QED BY <1>2, <1>5, <1>6, <1>8, <2>1, PushDelivers, Zenon DEF D
<1>. HIDE DEF k
<1>11. AnsweredOnce(D \o r)
  <2>1. ASSUME NEW i \in 1..Len(r)
        PROVE  /\ r[i].id \in 1..accepted /\ r[i].id \notin Answered(D)
               /\ protocol # "Unordered" => r[i].id = Len(D) + i
    <3>1. i \in 1..k /\ r[i].id = ids[i]
      BY <1>5, Zenon
    <3>. QED BY <1>9, <3>1, Zenon
  <2>2. ASSUME NEW i \in 1..Len(r), NEW j \in 1..Len(r), r[i].id = r[j].id PROVE i = j
    <3>1. i \in 1..k /\ r[i].id = ids[i] /\ j \in 1..k /\ r[j].id = ids[j]
      BY <1>5, Zenon
    <3>. QED BY <1>9, <2>2, <3>1, Zenon
  <2>. QED BY <1>4, <1>5, <1>7, <2>1, <2>2, AnswerMore, Zenon
<1>. QED BY <1>2, <1>10, <1>11, Zenon DEF AnsweredOnce

\* A response arrives for a request that is held, and for an in order protocol
\* for the next one.
LEMMA ArrivalKeepsResponses ==
  ASSUME HandlerTypes, ResponsesInTurn, DestAnswer
  PROVE  ResponsesInTurn'
<1>. DEFINE D == Delivered
            k == Len(ready)
<1>1. PICK id \in chain \ Range(ready) :
        /\ protocol # "Unordered" => \A j \in chain \ Range(ready) : id <= j
        /\ ready' = Append(ready, id)
  BY DEF DestAnswer
<1>2. /\ Running
      /\ UNCHANGED <<protocol, client, accepted, chain, pending_requests,
                     writer, write_batch, written, out_q>>
  BY DEF DestAnswer, Running, clientVars, mainVars, writerVars
<1>3. D' = D
  BY <1>2, Zenon DEF D, Delivered
<1>4. /\ D \in Seq(Responses) /\ accepted \in Nat /\ ready \in Seq(Nat) /\ id \in Nat
      /\ k \in Nat /\ Len(D) \in Nat
  BY DeliveredType DEF HandlerTypes
<1>. HIDE DEF D
<1>. SUFFICES ASSUME client' = "open" PROVE AnsweredOnce(D)' /\ HeldExactly(D)'
  BY Zenon DEF ResponsesInTurn, D
<1>5. AnsweredOnce(D) /\ HeldExactly(D)
  BY <1>2 DEF ResponsesInTurn, D
<1>6. AnsweredOnce(D)'
  BY <1>2, <1>3, <1>5, Zenon DEF AnsweredOnce
<1>7. /\ chain = (1..accepted) \ Answered(D) /\ \A i \in 1..k : ready[i] \in chain
      /\ \A i, j \in 1..k : ready[i] = ready[j] => i = j
      /\ protocol # "Unordered" => \A i \in 1..k : ready[i] = Len(D) + i
  BY <1>5, Zenon DEF HeldExactly
<1>8. Range(ready) = {ready[i] : i \in 1..k}
  BY <1>4 DEF Range
<1>9. /\ Len(ready') = k + 1 /\ ready'[k + 1] = id
      /\ \A i \in 1..k : ready'[i] = ready[i]
      /\ \A i \in 1..k + 1 : i = k + 1 \/ i \in 1..k
  BY <1>1, <1>4
<1>. HIDE DEF k
<1>10. ASSUME protocol # "Unordered" PROVE id = Len(D) + (k + 1)
  <2>. DEFINE m == Len(D) + (k + 1)
  <2>1. \A i \in 1..Len(D) : D[i].id = i
    BY <1>5, <1>10, Zenon DEF AnsweredOnce
  <2>2. Answered(D) = 1..Len(D)
    BY <2>1, Zenon DEF Answered
  <2>3. id \in Nat /\ id \in 1..accepted /\ ~(id \in 1..Len(D))
    BY <1>4, <1>7, <2>2, Zenon
  <2>4. ~(id <= Len(D) + k)
    <3>. SUFFICES ASSUME id <= Len(D) + k PROVE FALSE
      OBVIOUS
    <3>1. id - Len(D) \in 1..k /\ Len(D) + (id - Len(D)) = id
      BY <1>4, <2>3
    <3>2. ready[id - Len(D)] = id
      BY <1>7, <1>10, <3>1, Zenon
    <3>. QED BY <1>8, <3>1, <3>2, Zenon
  <2>5. m \in 1..accepted /\ ~(m \in 1..Len(D)) /\ \A i \in 1..k : m # Len(D) + i
    BY <1>4, <2>3, <2>4
  <2>6. m \in chain \ Range(ready)
    <3>1. m \in chain
      BY <1>7, <2>2, <2>5, Zenon
    <3>2. ASSUME NEW i \in 1..k PROVE m # ready[i]
      BY <1>7, <1>10, <2>5, Zenon
    <3>. QED BY <1>8, <3>1, <3>2, Zenon
  <2>7. id <= m
    BY <1>1, <1>10, <2>6, Zenon
  <2>. QED BY <1>4, <2>3, <2>4, <2>7
<1>11. ASSUME NEW i \in 1..k + 1
       PROVE  /\ ready'[i] \in chain
              /\ protocol # "Unordered" => ready'[i] = Len(D) + i
  BY <1>7, <1>9, <1>10, Zenon
<1>12. ASSUME NEW i \in 1..k + 1, NEW j \in 1..k + 1, ready'[i] = ready'[j] PROVE i = j
  <2>1. ASSUME NEW x \in 1..k PROVE ready'[x] # id
    BY <1>8, <1>9, Zenon
  <2>. QED BY <1>7, <1>9, <1>12, <2>1, Zenon
<1>13. HeldExactly(D)'
  <2>1. /\ \A i \in 1..Len(ready') : ready'[i] \in chain'
        /\ \A i, j \in 1..Len(ready') : ready'[i] = ready'[j] => i = j
        /\ protocol' # "Unordered" => \A i \in 1..Len(ready') : ready'[i] = Len(D') + i
    <3>1. Len(ready') = k + 1 /\ protocol' = protocol /\ chain' = chain /\ D' = D
      BY <1>2, <1>3, <1>9, Zenon
    <3>. QED BY <1>11, <1>12, <3>1, Zenon
  <2>2. /\ chain' = (1..accepted') \ {D'[i].id : i \in 1..Len(D')}
        /\ protocol' = "Unordered" => pending_requests' = chain'
    <3>1. {D'[i].id : i \in 1..Len(D')} = Answered(D)
      BY <1>3, Zenon DEF Answered
    <3>2. chain' = chain /\ accepted' = accepted
      BY <1>2
    <3>3. protocol' = "Unordered" => pending_requests' = chain'
      BY <1>2, <1>5, Zenon DEF HeldExactly
    <3>. QED BY <1>7, <3>1, <3>2, <3>3, Zenon
  <2>3. protocol' = "Ordered" =>
          /\ Len(pending_requests') = accepted' - Len(D')
          /\ \A i \in 1..Len(pending_requests') : pending_requests'[i] = Len(D') + i
    BY <1>2, <1>3, <1>5, Zenon DEF HeldExactly
  <2>. QED BY <2>1, <2>2, <2>3, Zenon DEF HeldExactly, Answered
<1>. QED BY <1>6, <1>13

\* Every step keeps the responses in turn.
LEMMA ResponsesKept ==
  HandlerTypes /\ RequestsInTurn /\ ResponsesInTurn /\ [Next]_vars => ResponsesInTurn'
<1>. SUFFICES ASSUME HandlerTypes, RequestsInTurn, ResponsesInTurn, [Next]_vars
              PROVE  ResponsesInTurn'
  OBVIOUS
<1>. USE DEF clientVars, readerVars, mainVars, chainVars, writerVars
<1>1. ASSUME Delivered' = Delivered, UNCHANGED <<protocol, accepted>>,
             client' = "open" => client = "open",
             Running' => Running /\ UNCHANGED <<chain, ready, pending_requests>>
      PROVE  ResponsesInTurn'
  <2>. SUFFICES ASSUME client' = "open"
                PROVE  AnsweredOnce(Delivered)' /\ (Running' => HeldExactly(Delivered)')
    BY Zenon DEF ResponsesInTurn
  <2>1. AnsweredOnce(Delivered)'
    BY <1>1, Zenon DEF ResponsesInTurn, AnsweredOnce
  <2>2. Running' => HeldExactly(Delivered)'
    BY <1>1, Zenon DEF ResponsesInTurn, HeldExactly, Answered
  <2>. QED BY <2>1, <2>2
<1>2. ASSUME UNCHANGED <<written, write_batch, out_q>> PROVE Delivered' = Delivered
  BY <1>2, Zenon DEF Delivered
<1>3. CASE MainForceRun \/ MainReceive
  BY <1>3, StartKeepsResponses
<1>4. CASE ChainReturns
  BY <1>4, OkKeepsResponses, ErrKeepsResponses DEF ChainReturns
<1>5. CASE DestAnswer
  BY <1>5, ArrivalKeepsResponses
<1>6. CASE UNCHANGED vars
  BY <1>1, <1>2, <1>6 DEF vars, Running
<1>7. CASE ReaderNext \/ ReaderPush
  BY <1>1, <1>2, <1>7 DEF ReaderNext, ReaderPush, Running
<1>8. CASE ReaderMainGone \/ ReaderDecodeErr \/ ReaderEof
  <2>1. ReaderReturn /\ (out_q' = out_q \/ out_q' = Append(out_q, <<Farewell>>))
    BY <1>8 DEF ReaderMainGone, ReaderDecodeErr, ReaderEof
  <2>2. Delivered' = Delivered
    <3>1. CASE out_q' = out_q
      BY <1>2, <2>1, <3>1 DEF ReaderReturn
    <3>2. CASE out_q' = Append(out_q, <<Farewell>>)
      <4>1. <<Farewell>> \in Seq(Responses) /\ AnswersIn(<<Farewell>>) = <<>>
        BY DEF Farewell, Responses, AnswersIn
      <4>2. Delivered' = Delivered \o <<>>
        <5>1. written' = written /\ write_batch' = write_batch
          BY <2>1 DEF ReaderReturn
        <5>. QED BY <3>2, <4>1, <5>1, PushDelivers, Zenon
      <4>3. Delivered \in Seq(Responses)
        BY DeliveredType
      <4>. QED BY <4>2, <4>3
    <3>. QED BY <2>1, <3>1, <3>2
  <2>. QED BY <1>1, <2>1, <2>2 DEF ReaderReturn, Running
<1>9. CASE MainShutdown \/ MainReceiveNone \/ MainFlush
  BY <1>1, <1>2, <1>9 DEF MainShutdown, MainReceiveNone, MainFlush, Running
<1>10. CASE WriterTake \/ WriterSend
  <2>1. Delivered' = Delivered
    BY <1>10, TakeDelivers
  <2>. QED BY <1>1, <1>10, <2>1 DEF WriterTake, WriterSend, Running
<1>11. CASE WriterIoErr
  BY <1>11 DEF WriterIoErr, ResponsesInTurn
<1>12. CASE WriterNone
  BY <1>1, <1>2, <1>12 DEF WriterNone, Running
<1>13. CASE ClientSend \/ ClientClose \/ TriggerShutdown
  BY <1>1, <1>2, <1>13 DEF ClientSend, ClientClose, TriggerShutdown, Running
<1>. QED
  BY <1>3, <1>4, <1>5, <1>6, <1>7, <1>8, <1>9, <1>10, <1>11, <1>12, <1>13
  DEF Next, ReaderStep, MainStep, WriterStep, Finished

\* Every reachable state of the connection satisfies the invariant.
LEMMA HandlerInvariant == Spec => []HandlerInv
<1>1. HandlerInv /\ [Next]_vars => HandlerInv'
  BY TypesKept, RequestsKept, ResponsesKept DEF HandlerInv
<1>. QED BY <1>1, HandlerInit, PTL DEF Spec

-------------------------------------------------------------------------------
(* The theorems. *)

\* PendingRequests::process_requests and process_responses keep pending_requests
\* exact, whatever order the three tasks run in, so that to_errors answers each
\* unanswered request once.
THEOREM PendingIsExact == Spec => []PendingExact
<1>1. HandlerInv => PendingExact
  <2>. SUFFICES ASSUME HandlerInv, main \in {"select", "chain"}, client = "open",
                       protocol # "Unsupported"
                PROVE  /\ Pending = (1..accepted) \ IdsOf(Delivered)
                       /\ Pending = chain
                       /\ protocol = "Ordered" => IsInjective(pending_requests)
    BY Zenon DEF PendingExact
  <2>. DEFINE D == Delivered
  <2>1. AnsweredOnce(D) /\ HeldExactly(D) /\ HandlerTypes
    BY DEF HandlerInv, ResponsesInTurn, Running
  <2>2. D \in Seq(Responses) /\ accepted \in Nat /\ Len(D) \in Nat
    BY <2>1, DeliveredType DEF HandlerTypes
  <2>3. IdsOf(D) = Answered(D)
    <3>1. DOMAIN D = 1..Len(D)
      BY <2>2
    <3>. QED BY <3>1, Zenon DEF IdsOf, Answered
  <2>. HIDE DEF D
  <2>4. chain = (1..accepted) \ Answered(D)
    BY <2>1, Zenon DEF HeldExactly
  <2>5. CASE protocol = "Unordered"
    BY <2>1, <2>3, <2>4, <2>5 DEF HeldExactly, Pending, D
  <2>6. CASE protocol = "Ordered"
    <3>. DEFINE p == pending_requests
                n == Len(pending_requests)
    <3>1. p \in Seq(Nat) /\ n = accepted - Len(D) /\ \A i \in 1..n : p[i] = Len(D) + i
      BY <2>1, <2>6 DEF HeldExactly, HandlerTypes
    <3>2. DOMAIN p = 1..n /\ n \in Nat
      BY <3>1
    <3>3. Answered(D) = 1..Len(D)
      <4>1. \A i \in 1..Len(D) : D[i].id = i
        BY <2>1, <2>6 DEF AnsweredOnce
      <4>. QED BY <4>1, Zenon DEF Answered
    <3>. HIDE DEF p, n
    <3>4. IsInjective(p)
      <4>1. ASSUME NEW i \in 1..n, NEW j \in 1..n, p[i] = p[j] PROVE i = j
        <5>1. Len(D) + i = Len(D) + j
          BY <3>1, <4>1, Zenon
        <5>. QED BY <2>2, <5>1
      <4>. QED BY <3>2, <4>1, Zenon DEF IsInjective
    <3>5. Range(p) = (1..accepted) \ (1..Len(D))
      <4>1. ASSUME NEW i \in 1..n PROVE p[i] \in (1..accepted) \ (1..Len(D))
        <5>1. Len(D) + i \in (1..accepted) \ (1..Len(D))
          BY <2>2, <3>1, <3>2
        <5>. QED BY <3>1, <5>1, Zenon
      <4>2. ASSUME NEW x \in (1..accepted) \ (1..Len(D)) PROVE \E i \in 1..n : p[i] = x
        <5>1. x - Len(D) \in 1..n /\ Len(D) + (x - Len(D)) = x
          BY <2>2, <3>1
        <5>. QED BY <3>1, <5>1, Zenon
      <4>3. Range(p) = {p[i] : i \in 1..n}
        BY <3>2, Zenon DEF Range
      <4>. QED BY <4>1, <4>2, <4>3
    <3>6. Pending = Range(p)
      BY <2>6 DEF Pending, p
    <3>. QED BY <2>3, <2>4, <3>3, <3>4, <3>5, <3>6, ZenonT(30) DEF p, D
  <2>. QED BY <2>1, <2>5, <2>6 DEF HandlerTypes
<1>. QED BY <1>1, HandlerInvariant, PTL

\* The requests of a batch of responses, as a sequence.
LEMMA IdsAsSeq ==
  ASSUME NEW q \in Seq(Responses), NEW b, b = [i \in DOMAIN q |-> q[i].id]
  PROVE  b \in Seq(Nat) /\ Len(b) = Len(q) /\ \A i \in 1..Len(q) : b[i] = q[i].id
<1>. DEFINE F(i) == q[i].id
<1>1. DOMAIN q = 1..Len(q) /\ Len(q) \in Nat /\ \A i \in 1..Len(q) : F(i) \in Nat
  <2>1. DOMAIN q = 1..Len(q) /\ Len(q) \in Nat /\ \A i \in 1..Len(q) : q[i] \in Responses
    OBVIOUS
  <2>2. \A x \in Responses : x.id \in Nat
    BY DEF Responses
  <2>. QED BY <2>1, <2>2, Zenon
<1>2. b = [i \in 1..Len(q) |-> F(i)]
  BY <1>1
<1>. HIDE DEF F
<1>3. b \in Seq(Nat) /\ Len(b) = Len(q) /\ \A i \in 1..Len(q) : b[i] = F(i)
  BY <1>1, <1>2, SMTT(20)
<1>. QED BY <1>3 DEF F

\* Handing a batch to the encoder answers requests that were issued and have no
\* answer, and for an in order protocol the next of them.
LEMMA SendAnswers ==
  ASSUME HandlerInv, WriterSend
  PROVE  [Stream!Next]_(Stream!streamVars)
<1>. DEFINE a == AnswersIn(write_batch)
            w == written \o a
            D == Delivered
            before == [i \in DOMAIN written |-> written[i].id]
            after == [i \in DOMAIN w |-> w[i].id]
<1>1. client = "open" /\ written' = w /\ UNCHANGED <<protocol, sent>>
  BY DEF WriterSend, clientVars
<1>2. HandlerTypes /\ RequestsInTurn /\ AnsweredOnce(D)
  BY <1>1 DEF HandlerInv, ResponsesInTurn
<1>3. /\ written \in Seq(Responses) /\ a \in Seq(Responses) /\ Out(out_q) \in Seq(Responses)
      /\ accepted \in Nat /\ sent \in Nat
  BY <1>2, StripType, OutType, Zenon DEF HandlerTypes
<1>4. D = w \o Out(out_q)
  BY DeliveredIs
<1>5. accepted <= sent
  <2>. DEFINE q == Flatten(in_q)
  <2>1. q \in Seq(Nat) /\ accepted + Len(q) <= sent
    BY <1>2, QueuedType DEF RequestsInTurn
  <2>. HIDE DEF q
  <2>. QED BY <1>3, <2>1
<1>. HIDE DEF a, D
<1>6. /\ w \in Seq(Responses) /\ Len(w) = Len(written) + Len(a)
      /\ Len(written) \in Nat /\ Len(a) \in Nat
      /\ \A i \in 1..Len(written) : w[i] = written[i]
  BY <1>3
<1>. HIDE DEF w
<1>7. /\ Len(D) = Len(w) + Len(Out(out_q)) /\ Len(Out(out_q)) \in Nat
      /\ \A i \in 1..Len(w) : D[i] = w[i]
  <2>. DEFINE o == Out(out_q)
  <2>1. o \in Seq(Responses) /\ D = w \o o
    BY <1>3, <1>4
  <2>. HIDE DEF o
  <2>2. /\ Len(w \o o) = Len(w) + Len(o) /\ Len(o) \in Nat
        /\ \A i \in 1..Len(w) : (w \o o)[i] = w[i]
    <3>1. Len(o) \in Nat
      BY <2>1
    <3>. QED BY <1>6, <2>1, <3>1, ConcatFacts, Zenon
  <2>. QED BY <2>1, <2>2, Zenon DEF o
<1>8. ASSUME NEW i \in 1..Len(w)
      PROVE  /\ w[i].id \in 1..sent
             /\ protocol # "Unordered" => w[i].id = i
             /\ \A j \in 1..Len(w) : w[i].id = w[j].id => i = j
  <2>1. \A j \in 1..Len(w) : j \in 1..Len(D)
    BY <1>6, <1>7
  <2>2. /\ w[i].id \in 1..accepted
        /\ protocol # "Unordered" => w[i].id = i
        /\ \A j \in 1..Len(w) : w[i].id = w[j].id => i = j
    BY <1>2, <1>7, <2>1, Zenon DEF AnsweredOnce
  <2>3. \A x \in 1..accepted : x \in 1..sent
    BY <1>3, <1>5
  <2>. QED BY <2>2, <2>3, Zenon
<1>9. /\ before \in Seq(Nat) /\ Len(before) = Len(written)
      /\ \A i \in 1..Len(written) : before[i] = written[i].id
      /\ after \in Seq(Nat) /\ Len(after) = Len(w)
      /\ \A i \in 1..Len(w) : after[i] = w[i].id
  <2>1. /\ before = [i \in DOMAIN written |-> written[i].id]
        /\ after = [i \in DOMAIN w |-> w[i].id]
    OBVIOUS
  <2>. HIDE DEF before, after
  <2>. QED BY <1>3, <1>6, <2>1, IdsAsSeq, ZenonT(30)
<1>10. CASE a = <<>>
  <2>1. w = written
    BY <1>3, <1>10 DEF w
  <2>. QED BY <1>1, <2>1, Zenon DEF Stream!streamVars
<1>11. CASE a # <<>>
  <2>1. Len(a) > 0
    BY <1>3, <1>11
  <2>. HIDE DEF before, after
  <2>3. /\ before \in Seq(Nat) /\ after \in Seq(Nat)
        /\ Len(before) = Len(written) /\ Len(after) = Len(w)
    BY <1>9, Zenon
  <2>4. Len(before) < Len(after)
    BY <1>6, <2>1, <2>3
  <2>5. \A i \in 1..Len(before) : before[i] = after[i]
    <3>1. \A i \in 1..Len(written) : i \in 1..Len(w)
      BY <1>6
    <3>. QED BY <1>6, <1>9, <2>3, <3>1, Zenon
  <2>6. before = SubSeq(after, 1, Len(before))
    BY <2>3, <2>4, <2>5
  <2>7. ASSUME NEW i \in Len(before) + 1..Len(after)
        PROVE  /\ after[i] \in 1..sent
               /\ \A j \in 1..i - 1 : after[j] # after[i]
               /\ protocol # "Unordered" => after[i] = i
    <3>1. i \in 1..Len(w) /\ \A j \in 1..i - 1 : j \in 1..Len(w) /\ i # j
      BY <1>6, <2>3
    <3>. QED BY <1>8, <1>9, <3>1, Zenon
  <2>8. Stream!Answer
    <3>1. /\ [i \in DOMAIN written |-> written[i].id] = before
          /\ [i \in DOMAIN written |-> written[i].id]' = after
      BY <1>1, Zenon DEF before, after
    <3>2. UNCHANGED <<protocol # "Unordered", sent>>
      BY <1>1
    <3>. QED BY <2>4, <2>6, <2>7, <3>1, <3>2 DEF Stream!Answer
  <2>. QED BY <2>8, Zenon DEF Stream!Next
<1>. QED BY <1>10, <1>11

\* The handler implements RequestStream: the client's send is Issue, the writer's
\* is Answer, all else stutters.
THEOREM HandlerImplementsStream == Spec => ImplementsRequestStream
<1>1. Init => Stream!Init
  <2>. SUFFICES ASSUME Init PROVE Stream!Init
    OBVIOUS
  <2>1. [i \in DOMAIN written |-> written[i].id] = <<>> /\ sent = 0
    BY DEF Init
  <2>2. (protocol # "Unordered") \in BOOLEAN
    OBVIOUS
  <2>. QED BY <2>1, <2>2, Zenon DEF Stream!Init
<1>2. HandlerInv /\ [Next]_vars => [Stream!Next]_(Stream!streamVars)
  <2>. SUFFICES ASSUME HandlerInv, [Next]_vars PROVE [Stream!Next]_(Stream!streamVars)
    OBVIOUS
  <2>. USE DEF clientVars, readerVars, mainVars, chainVars, writerVars
  <2>1. ASSUME UNCHANGED <<protocol, sent, written>>
        PROVE  [Stream!Next]_(Stream!streamVars)
    BY <2>1, Zenon DEF Stream!streamVars
  <2>2. CASE ClientSend
    <3>1. sent' = sent + 1 /\ UNCHANGED <<protocol, written>>
      BY <2>2 DEF ClientSend
    <3>2. sent' \in Nat /\ sent' > sent
      BY <3>1 DEF HandlerInv, HandlerTypes
    <3>. QED BY <3>1, <3>2, Zenon DEF Stream!Next, Stream!Issue
  <2>3. CASE WriterSend
    BY <2>3, SendAnswers
  <2>4. CASE UNCHANGED vars
    BY <2>1, <2>4 DEF vars
  <2>5. CASE ReaderStep \/ ReaderDecodeErr
    BY <2>1, <2>5 DEF ReaderStep, ReaderNext, ReaderPush, ReaderMainGone, ReaderEof,
                      ReaderDecodeErr, ReaderReturn
  <2>6. CASE MainStep \/ MainReceiveNone
    BY <2>1, <2>6 DEF MainStep, MainShutdown, MainForceRun, MainReceive, MainReceiveNone,
                      MainFlush
  <2>7. CASE ChainReturns
    BY <2>1, <2>7, Zenon DEF ChainReturns, ChainOk, ChainErr
  <2>8. CASE WriterStep
    BY <2>1, <2>8 DEF WriterStep, WriterTake, WriterIoErr, WriterNone
  <2>9. CASE DestAnswer \/ ClientClose \/ TriggerShutdown
    BY <2>1, <2>9 DEF DestAnswer, ClientClose, TriggerShutdown
  <2>. QED BY <2>2, <2>3, <2>4, <2>5, <2>6, <2>7, <2>8, <2>9 DEF Next, Finished
<1>. QED BY <1>1, <1>2, HandlerInvariant, PTL DEF Spec, ImplementsRequestStream, Stream!Spec

=================================================================================
