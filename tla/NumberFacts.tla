---------------------------- MODULE NumberFacts ----------------------------
(***************************************************************************)
(* Facts about sets of numbers that proofs about queues and histories      *)
(* need: the least and the greatest number of a set, a set that is closed  *)
(* under successor, and a function that is defined by recursion.           *)
(***************************************************************************)
EXTENDS Naturals, FiniteSets, WellFoundedInduction, FiniteSetTheorems, TLAPS

\* A set of numbers that is not empty has a least one.
LEMMA LeastNumber ==
  ASSUME NEW S, S \subseteq Nat, S # {}
  PROVE  \E n \in S : \A m \in S : n <= m
<1> DEFINE Below(n) == 1..n
           Intervals == {Below(n) : n \in S}
<1>1. Intervals \subseteq FiniteSubsetsOf(Nat)
  <2> SUFFICES ASSUME NEW n \in S PROVE Below(n) \in FiniteSubsetsOf(Nat)
    OBVIOUS
  <2>1. IsFiniteSet(Below(n))
    BY FS_Interval
  <2> QED
    BY <2>1 DEF FiniteSubsetsOf
<1>2. PICK x \in Intervals : \A y \in Intervals : <<y, x>> \notin StrictSubsetOrdering(Nat)
  <2>1. IsWellFoundedOn(StrictSubsetOrdering(Nat), FiniteSubsetsOf(Nat))
    BY FS_StrictSubsetOrderingWellFounded
  <2>2. Intervals # {}
    OBVIOUS
  <2> HIDE DEF Intervals
  <2> QED
    BY <1>1, <2>1, <2>2, WFMin
<1>3. PICK n \in S : x = Below(n)
  BY <1>2
<1>4. ASSUME NEW m \in S, m < n PROVE FALSE
  <2>1. Below(m) \subseteq Nat /\ Below(n) \subseteq Nat /\ Below(m) \subseteq Below(n)
    BY <1>4
  <2>2. n \in Below(n) /\ n \notin Below(m)
    BY <1>4
  <2>3. <<Below(m), Below(n)>> \in StrictSubsetOrdering(Nat)
    BY <2>1, <2>2 DEF StrictSubsetOrdering
  <2> QED
    BY <1>2, <1>3, <2>3
<1> QED
  BY <1>4

\* One that is bounded has a greatest.
LEMMA GreatestNumber ==
  ASSUME NEW S, S \subseteq Nat, S # {}, NEW b \in Nat, \A n \in S : n <= b
  PROVE  \E n \in S : \A m \in S : m <= n
<1> DEFINE D == {b - n : n \in S}
<1>1. D \subseteq Nat /\ D # {}
  <2>1. ASSUME NEW n \in S PROVE b - n \in Nat
    BY <2>1
  <2>2. D \subseteq Nat
    BY <2>1
  <2>3. D # {}
    OBVIOUS
  <2> QED
    BY <2>2, <2>3
<1>2. PICK d \in D : \A c \in D : d <= c
  <2> HIDE DEF D
  <2> QED
    BY <1>1, LeastNumber
<1>3. PICK n \in S : d = b - n
  BY <1>2
<1>4. ASSUME NEW m \in S PROVE m <= n
  <2>1. b - m \in D
    BY <1>4
  <2>2. b - n <= b - m
    BY <1>2, <1>3, <2>1
  <2>3. m \in Nat /\ n \in Nat
    BY <1>3, <1>4
  <2> QED
    BY <2>2, <2>3
<1> QED
  BY <1>4

\* A set that holds 0, and with a number the next, holds all of them.
LEMMA EveryNumber ==
  ASSUME NEW S, 0 \in S, \A n \in Nat : n \in S => n + 1 \in S
  PROVE  Nat \subseteq S
<1> SUFFICES ASSUME Nat \ S # {} PROVE FALSE
  OBVIOUS
<1>1. PICK n \in Nat \ S : \A m \in Nat \ S : n <= m
  BY LeastNumber
<1>2. n # 0 /\ n - 1 \in Nat /\ (n - 1) + 1 = n
  BY <1>1
<1>3. n - 1 \in S
  BY <1>1, <1>2
<1> QED
  BY <1>1, <1>2, <1>3

\* f is what repeating the steps, one for each number, makes of v0.
Repeats(f, v0, step) == f[0] = v0 /\ \A k \in Nat : f[k + 1] = step[k][f[k]]

\* Any step can be repeated: there is the function that every number takes from
\* its result before to the next.
LEMMA Repeated ==
  ASSUME NEW V, NEW v0 \in V, NEW step \in [Nat -> [V -> V]]
  PROVE  \E f \in [Nat -> V] : Repeats(f, v0, step)
<1> DEFINE Upto(m) == {f \in [Nat -> V] : /\ f[0] = v0
                                           /\ \A k \in Nat : k < m => f[k + 1] = step[k][f[k]]}
           First(m) == CHOOSE f : f \in Upto(m)
<1>1. \A m \in Nat : \E f : f \in Upto(m)
  <2> DEFINE S == {m \in Nat : \E f : f \in Upto(m)}
  <2>1. 0 \in S
    <3>1. [k \in Nat |-> v0] \in Upto(0)
      OBVIOUS
    <3> QED
      BY <3>1
  <2>2. ASSUME NEW m \in Nat, m \in S PROVE m + 1 \in S
    <3>1. PICK f : f \in Upto(m)
      BY <2>2
    <3> DEFINE g == [f EXCEPT ![m + 1] = step[m][f[m]]]
    <3>2. g \in [Nat -> V] /\ g[0] = v0
      BY <3>1
    <3>3. ASSUME NEW k \in Nat, k < m + 1 PROVE g[k + 1] = step[k][g[k]]
      BY <3>1, <3>3
    <3>4. g \in Upto(m + 1)
      BY <3>2, <3>3
    <3> HIDE DEF Upto, g
    <3> QED
      BY <3>4
  <2>3. Nat \subseteq S
    <3> HIDE DEF S
    <3> QED
      BY <2>1, <2>2, EveryNumber
  <2> QED
    BY <2>3
<1>2. ASSUME NEW m \in Nat, NEW n \in Nat, NEW f \in Upto(m), NEW g \in Upto(n)
      PROVE  \A k \in Nat : k <= m /\ k <= n => f[k] = g[k]
  <2> DEFINE S == {k \in Nat : k <= m /\ k <= n => f[k] = g[k]}
  <2>1. 0 \in S
    OBVIOUS
  <2>2. ASSUME NEW k \in Nat, k \in S PROVE k + 1 \in S
    BY <2>2
  <2>3. Nat \subseteq S
    <3> HIDE DEF S
    <3> QED
      BY <2>1, <2>2, EveryNumber
  <2> QED
    BY <2>3
<1>3. \A m \in Nat : First(m) \in Upto(m)
  BY <1>1
<1> DEFINE h == [k \in Nat |-> First(k)[k]]
<1>4. h \in [Nat -> V] /\ h[0] = v0
  <2>1. ASSUME NEW k \in Nat PROVE First(k) \in [Nat -> V] /\ First(k)[0] = v0
    <3> HIDE DEF First
    <3>1. First(k) \in Upto(k)
      <4> HIDE DEF Upto
      <4> QED
        BY <1>3
    <3> QED
      BY <3>1
  <2> HIDE DEF First
  <2> QED
    BY <2>1
<1>5. ASSUME NEW k \in Nat PROVE h[k + 1] = step[k][h[k]]
  <2> HIDE DEF First
  <2>1. First(k) \in Upto(k) /\ First(k + 1) \in Upto(k + 1)
    <3> HIDE DEF Upto
    <3> QED
      BY <1>3
  <2>2. First(k)[k] = First(k + 1)[k]
    <3> HIDE DEF Upto
    <3> QED
      BY <2>1, <1>2
  <2>3. First(k + 1)[k + 1] = step[k][First(k + 1)[k]]
    BY <2>1
  <2> QED
    BY <2>2, <2>3
<1> QED
  <2> HIDE DEF h
  <2> QED
    BY <1>4, <1>5 DEF Repeats
=============================================================================
