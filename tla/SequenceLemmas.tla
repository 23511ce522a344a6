---------------------------- MODULE SequenceLemmas ----------------------------
(***************************************************************************)
(* Facts about numbers and sequences that the proofs about the components  *)
(* rest on: induction on the naturals for a set, and the existence of      *)
(* recursively defined functions.  NatInduction and the recursion theorems *)
(* of the library take an operator as a parameter; here it is a set or a   *)
(* function, of which a first-order prover can use an instance.            *)
(***************************************************************************)
EXTENDS Integers, Sequences, WellFoundedInduction, TLAPS

-------------------------------------------------------------------------------
(* Basic facts, to be cited where a leaf is left to a prover that does not  *)
(* know sequences.                                                          *)

\* The empty sequence, and what it is not.
LEMMA EmptySeq ==
  ASSUME NEW T
  PROVE  <<>> \in Seq(T) /\ Len(<<>>) = 0 /\ \A q \in Seq(T) : q # <<>> => Len(q) \in Nat \ {0}
OBVIOUS

\* A sequence is a function on the numbers up to its length ...
LEMMA LenProperties ==
  ASSUME NEW T, NEW q \in Seq(T)
  PROVE  Len(q) \in Nat /\ DOMAIN q = 1..Len(q) /\ q \in [1..Len(q) -> T]
OBVIOUS

\* ... with its elements as values.
LEMMA ElementOfSeq ==
  ASSUME NEW T, NEW q \in Seq(T), NEW i \in 1..Len(q)
  PROVE  q[i] \in T
OBVIOUS

\* The empty sequence adds nothing.
LEMMA ConcatEmptySeq ==
  ASSUME NEW T, NEW q \in Seq(T)
  PROVE  q \o <<>> = q /\ <<>> \o q = q
OBVIOUS

\* Nothing of a sequence ...
LEMMA SubSeqEmpty ==
  ASSUME NEW q, NEW i \in Int, NEW j \in Int, j < i
  PROVE  SubSeq(q, i, j) = <<>>
OBVIOUS

\* ... all of it ...
LEMMA SubSeqFull ==
  ASSUME NEW T, NEW q \in Seq(T)
  PROVE  SubSeq(q, 1, Len(q)) = q
OBVIOUS

\* ... and two adjacent parts.
LEMMA ConcatAdjacentSubSeq ==
  ASSUME NEW T, NEW q \in Seq(T), NEW i \in 1..Len(q) + 1,
         NEW j \in i - 1..Len(q), NEW k \in j..Len(q)
  PROVE  SubSeq(q, i, j) \o SubSeq(q, j + 1, k) = SubSeq(q, i, k)
OBVIOUS

-------------------------------------------------------------------------------
(* Induction and recursion. *)

\* A non-empty set of naturals has a least element.
LEMMA LeastNat ==
  ASSUME NEW T \in SUBSET Nat, T # {}
  PROVE  \E n \in T : \A m \in T : n <= m
<1>. DEFINE R == {ss \in Nat \X Nat : ss[1] < ss[2]}
<1>1. IsWellFoundedOn(R, Nat)
  BY NatLessThanWellFounded DEF OpToRel
<1>. HIDE DEF R
<1>2. PICK n \in T : \A m \in T : <<m, n>> \notin R
  BY <1>1, WFMin
<1>3. \A m \in T : ~(m < n)
  <2>. SUFFICES ASSUME NEW m \in T, m < n PROVE FALSE
    OBVIOUS
  <2>1. <<m, n>> \in Nat \X Nat
    OBVIOUS
  <2>2. <<m, n>>[1] < <<m, n>>[2]
    OBVIOUS
  <2>3. <<m, n>> \in R
    BY <2>1, <2>2 DEF R
  <2>. QED BY <1>2, <2>3
<1>. QED BY <1>3

\* A set that holds 0 and, with every natural, the next one, holds all naturals.
LEMMA SetInduction ==
  ASSUME NEW G, 0 \in G, \A n \in Nat : n \in G => n + 1 \in G
  PROVE  \A n \in Nat : n \in G
<1>. SUFFICES ASSUME Nat \ G # {} PROVE FALSE
  OBVIOUS
<1>. DEFINE T == Nat \ G
<1>1. PICK n \in T : \A m \in T : n <= m
  BY LeastNat
<1>2. n # 0 /\ n - 1 \in Nat /\ n - 1 \notin T
  BY <1>1
<1>. QED BY <1>2

\* f is the function on the naturals that step generates from first.
IsRecursion(f, S, first, step) ==
  /\ f \in [Nat -> S]
  /\ f[0] = first
  /\ \A n \in Nat : f[n + 1] = step[n][f[n]]

\* Every first value and step function generate such a function: the finite
\* approximations exist and agree, by induction on their length.
LEMMA RecursionExists ==
  ASSUME NEW S, NEW first \in S, NEW step \in [Nat -> [S -> S]]
  PROVE  \E f : IsRecursion(f, S, first, step)
<1>. DEFINE IsUpto(n, g) == /\ g \in [0..n -> S] /\ g[0] = first
                            /\ \A i \in 0..n-1 : g[i + 1] = step[i][g[i]]
            Cut(n, g) == [i \in 0..n |-> g[i]]
            G == {n \in Nat : \E g : IsUpto(n, g)}
            U == {n \in Nat : \A g, h : IsUpto(n, g) /\ IsUpto(n, h) => g = h}
<1>1. ASSUME NEW n \in Nat, NEW g, IsUpto(n + 1, g) PROVE IsUpto(n, Cut(n, g))
  BY <1>1
<1>2. 0 \in G
  <2>1. IsUpto(0, [i \in 0..0 |-> first])
    OBVIOUS
  <2>. QED BY <2>1
<1>3. ASSUME NEW n \in Nat, n \in G PROVE n + 1 \in G
  <2>1. PICK g : IsUpto(n, g)
    BY <1>3
  <2>. DEFINE h == [i \in 0..n+1 |-> IF i = n + 1 THEN step[n][g[n]] ELSE g[i]]
  <2>2. h \in [0..n+1 -> S] /\ h[0] = first
    BY <2>1
  <2>3. ASSUME NEW i \in 0..n PROVE h[i + 1] = step[i][h[i]]
    <3>1. h[i] = g[i]
      OBVIOUS
    <3>2. CASE i = n
      <4>1. h[n + 1] = step[n][g[n]]
        OBVIOUS
      <4>. HIDE DEF h
      <4>. QED BY <3>1, <3>2, <4>1
    <3>3. CASE i # n
      <4>1. i \in 0..n-1 /\ h[i + 1] = g[i + 1]
        BY <3>3
      <4>2. g[i + 1] = step[i][g[i]]
        BY <2>1, <4>1
      <4>. HIDE DEF h
      <4>. QED BY <3>1, <4>1, <4>2
    <3>. QED BY <3>2, <3>3
  <2>4. IsUpto(n + 1, h)
    <3>. HIDE DEF h
    <3>. QED BY <2>2, <2>3
  <2>. HIDE DEF IsUpto, h
  <2>. QED BY <2>4
<1>4. 0 \in U
  OBVIOUS
<1>5. ASSUME NEW n \in Nat, n \in U PROVE n + 1 \in U
  <2>. SUFFICES ASSUME NEW g, NEW h, IsUpto(n + 1, g), IsUpto(n + 1, h) PROVE g = h
    <3>. HIDE DEF IsUpto
    <3>. QED OBVIOUS
  <2>1. Cut(n, g) = Cut(n, h)
    <3>1. IsUpto(n, Cut(n, g)) /\ IsUpto(n, Cut(n, h))
      <4>. HIDE DEF IsUpto, Cut
      <4>. QED BY <1>1
    <3>2. \A a, b : IsUpto(n, a) /\ IsUpto(n, b) => a = b
      <4>. HIDE DEF IsUpto
      <4>. QED BY <1>5
    <3>. HIDE DEF IsUpto, Cut
    <3>. QED BY <3>1, <3>2
  <2>2. ASSUME NEW i \in 0..n PROVE g[i] = h[i]
    <3>1. Cut(n, g)[i] = g[i] /\ Cut(n, h)[i] = h[i]
      OBVIOUS
    <3>. HIDE DEF Cut
    <3>. QED BY <2>1, <3>1
  <2>3. g[n + 1] = step[n][g[n]] /\ h[n + 1] = step[n][h[n]]
    OBVIOUS
  <2>4. \A i \in 0..n+1 : g[i] = h[i]
    <3>. HIDE DEF IsUpto
    <3>1. g[n + 1] = h[n + 1]
      BY <2>2, <2>3
    <3>. QED BY <2>2, <3>1
  <2>. QED BY <2>4
<1>6. \A n \in Nat : n \in G /\ n \in U
  <2>. HIDE DEF G, U
  <2>. QED BY <1>2, <1>3, <1>4, <1>5, SetInduction
<1>. DEFINE At(n) == CHOOSE g : IsUpto(n, g)
<1>7. ASSUME NEW n \in Nat PROVE IsUpto(n, At(n))
  <2>. HIDE DEF IsUpto
  <2>. QED BY <1>6
<1>8. ASSUME NEW n \in Nat PROVE Cut(n, At(n + 1)) = At(n)
  <2>. HIDE DEF IsUpto, At, Cut
  <2>1. IsUpto(n, Cut(n, At(n + 1))) /\ IsUpto(n, At(n))
    BY <1>1, <1>7
  <2>2. \A a, b : IsUpto(n, a) /\ IsUpto(n, b) => a = b
    BY <1>6
  <2>. QED BY <2>1, <2>2
<1>. DEFINE f == [n \in Nat |-> At(n)[n]]
<1>. HIDE DEF At
<1>9. f \in [Nat -> S] /\ f[0] = first
  BY <1>7
<1>10. ASSUME NEW n \in Nat PROVE f[n + 1] = step[n][f[n]]
  <2>1. At(n + 1)[n] = At(n)[n]
    <3>1. Cut(n, At(n + 1))[n] = At(n + 1)[n]
      OBVIOUS
    <3>. HIDE DEF Cut
    <3>. QED BY <1>8, <3>1
  <2>2. At(n + 1)[n + 1] = step[n][At(n + 1)[n]]
    BY <1>7
  <2>. QED BY <2>1, <2>2
<1>. HIDE DEF f
<1>11. IsRecursion(f, S, first, step)
  BY <1>9, <1>10 DEF IsRecursion
<1>. QED BY <1>11

-------------------------------------------------------------------------------
\* Concatenation over T is associative.
Associative(T) == \A a, b, c \in Seq(T) : a \o (b \o c) = (a \o b) \o c

\* Associativity, stated so that an instance can be cited as one fact.
LEMMA ConcatIsAssociative == \A T : Associative(T)
<1>. SUFFICES ASSUME NEW T, NEW a \in Seq(T), NEW b \in Seq(T), NEW c \in Seq(T)
              PROVE  a \o (b \o c) = (a \o b) \o c
  BY Zenon DEF Associative
<1>. QED OBVIOUS
===============================================================================
