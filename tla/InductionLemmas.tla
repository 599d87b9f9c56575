--------------------------- MODULE InductionLemmas ----------------------------
(***************************************************************************)
(* Induction over the natural numbers in terms of sets, which the provers  *)
(* can instantiate, and what the recursion in FlattenSeq computes.         *)
(***************************************************************************)
EXTENDS Integers, SequencesExt, SequenceTheorems, WellFoundedInduction, TLAPS

-----------------------------------------------------------------------------
(* Induction                                                               *)

\* A set of natural numbers that is not empty has a least one.
LEMMA LeastOfASet ==
  ASSUME NEW S \in SUBSET Nat, S # {}
  PROVE  \E n \in S : \A k \in S : n <= k
<1> DEFINE R == OpToRel(<, Nat)
<1>1. IsWellFoundedOn(R, Nat)
  BY NatLessThanWellFounded
<1>2. \A x, y \in Nat : <<y, x>> \in R <=> y < x
  BY DEF OpToRel
<1> HIDE DEF R
<1>3. PICK n \in S : \A k \in S : ~ (<<k, n>> \in R)
  BY <1>1, WFMin
<1>4. \A k \in S : ~ (k < n)
  BY <1>2, <1>3
<1> QED
  BY <1>4

\* A set that has zero, and with every number the next one, has them all.
LEMMA Induction ==
  ASSUME NEW S, 0 \in S, \A n \in Nat : n \in S => n + 1 \in S
  PROVE  Nat \subseteq S
<1> SUFFICES ASSUME ~ (Nat \subseteq S) PROVE FALSE
  OBVIOUS
<1>1. PICK n \in Nat \ S : \A k \in Nat \ S : n <= k
  BY LeastOfASet
<1>2. n - 1 \in Nat /\ n - 1 \in S
  BY <1>1
<1> QED
  BY <1>1, <1>2

-----------------------------------------------------------------------------
(* Sequences of sequences                                                  *)

\* f is the function that FlattenSeq(ss) defines by recursion, up to k.
Unfolds(f, ss, k) ==
    f = [i \in 1..k |-> IF i = 1 THEN ss[i] ELSE f[i - 1] \o ss[i]]

\* There is such a function: the definition by recursion defines one.
LEMMA UnfoldsExists ==
  ASSUME NEW ss, NEW n \in Nat
  PROVE  \E f : Unfolds(f, ss, n)
<1> DEFINE Good == {k \in Nat : \E f : Unfolds(f, ss, k)}
<1>1. 0 \in Good
  <2>1. Unfolds([i \in 1..0 |-> 0], ss, 0)
    BY DEF Unfolds
  <2> QED
    BY <2>1
<1>2. ASSUME NEW k \in Nat, k \in Good PROVE k + 1 \in Good
  <2>1. PICK g : Unfolds(g, ss, k)
    BY <1>2
  <2> DEFINE f == [i \in 1..(k + 1) |-> IF i = 1 THEN ss[i] ELSE g[i - 1] \o ss[i]]
  <2>2. \A i \in 1..k : g[i] = IF i = 1 THEN ss[i] ELSE g[i - 1] \o ss[i]
    BY <2>1, Zenon DEF Unfolds
  <2>3. \A i \in 1..k : f[i] = g[i]
    BY <2>2
  <2>4. \A i \in 1..(k + 1) : i # 1 => f[i - 1] = g[i - 1]
    <3> SUFFICES ASSUME NEW i \in 1..(k + 1), i # 1 PROVE f[i - 1] = g[i - 1]
      OBVIOUS
    <3>1. i - 1 \in 1..k
      OBVIOUS
    <3> HIDE DEF f
    <3> QED
      BY <2>3, <3>1
  <2>5. f = [i \in 1..(k + 1) |-> IF i = 1 THEN ss[i] ELSE f[i - 1] \o ss[i]]
    <3>1. \A i \in 1..(k + 1) : (IF i = 1 THEN ss[i] ELSE g[i - 1] \o ss[i]) = (IF i = 1 THEN ss[i] ELSE f[i - 1] \o ss[i])
      <4> HIDE DEF f
      <4> QED
        BY <2>4, Zenon
    <3> DEFINE F(i) == IF i = 1 THEN ss[i] ELSE f[i - 1] \o ss[i]
               G(i) == IF i = 1 THEN ss[i] ELSE g[i - 1] \o ss[i]
    <3>2. \A i \in 1..(k + 1) : G(i) = F(i)
      BY <3>1, Zenon
    <3>3. f = [i \in 1..(k + 1) |-> G(i)]
      OBVIOUS
    <3> HIDE DEF F, G, f
    <3>4. f = [i \in 1..(k + 1) |-> F(i)]
      BY <3>2, <3>3
    <3> QED
      BY <3>4, Zenon DEF F
  <2> HIDE DEF f
  <2>6. Unfolds(f, ss, k + 1)
    BY <2>5, Zenon DEF Unfolds
  <2> QED
    BY <2>6
<1> HIDE DEF Good
<1>3. n \in Good
  BY <1>1, <1>2, Induction
<1> QED
  BY <1>3, Zenon DEF Good

\* Sequences over a set flatten to one over that set.
LEMMA FlattenSeqType ==
  ASSUME NEW S, NEW ss \in Seq(Seq(S))
  PROVE  FlattenSeq(ss) \in Seq(S)
<1> DEFINE n == Len(ss)
           flatten == CHOOSE f : Unfolds(f, ss, n)
<1>1. n = 0 => FlattenSeq(ss) = ss /\ ss = <<>>
  BY DEF FlattenSeq
<1>2. n # 0 => FlattenSeq(ss) = flatten[n]
  BY DEF FlattenSeq, Unfolds
<1>3. n \in Nat /\ \A i \in 1..n : ss[i] \in Seq(S)
  OBVIOUS
<1> HIDE DEF n
<1>4. Unfolds(flatten, ss, n)
  BY <1>3, UnfoldsExists
<1> HIDE DEF flatten
<1>5. \A i \in 1..n : flatten[i] = IF i = 1 THEN ss[i] ELSE flatten[i - 1] \o ss[i]
  BY <1>4, Zenon DEF Unfolds
<1> DEFINE Typed == {k \in Nat : k \in 1..n => flatten[k] \in Seq(S)}
<1>6. 0 \in Typed
  OBVIOUS
<1>7. ASSUME NEW k \in Nat, k \in Typed PROVE k + 1 \in Typed
  <2>1. CASE k = 0 /\ k + 1 <= n
    <3>1. 1 \in 1..n
      BY <2>1, <1>3
    <3>2. flatten[1] = ss[1]
      BY <3>1, <1>5
    <3> QED
      BY <2>1, <3>1, <3>2, <1>3
  <2>2. CASE k > 0 /\ k + 1 <= n
    <3>1. k \in 1..n /\ k + 1 \in 1..n /\ k + 1 # 1 /\ (k + 1) - 1 = k
      BY <2>2, <1>3
    <3>2. flatten[k] \in Seq(S) /\ ss[k + 1] \in Seq(S)
      BY <1>7, <3>1, <1>3
    <3>3. flatten[k + 1] = flatten[k] \o ss[k + 1]
      <4>1. flatten[k + 1] = flatten[(k + 1) - 1] \o ss[k + 1]
        BY <1>5, <3>1, Zenon
      <4> QED
        BY <4>1, <3>1
    <3>4. flatten[k + 1] \in Seq(S)
      BY <3>2, <3>3, ConcatProperties
    <3> QED
      BY <3>4
  <2>3. k + 1 > n => k + 1 \in Typed
    BY <1>3
  <2> QED
    BY <2>1, <2>2, <2>3, <1>3
<1>8. n \in Typed
  <2> HIDE DEF Typed
  <2> QED
    BY <1>6, <1>7, <1>3, Induction
<1>9. n # 0 => flatten[n] \in Seq(S)
  <2>1. n # 0 => n \in 1..n
    BY <1>3
  <2> QED
    BY <1>8, <2>1
<1> QED
  BY <1>1, <1>2, <1>9

=============================================================================
