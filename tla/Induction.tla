------------------------------- MODULE Induction -------------------------------
(***************************************************************************)
(* Induction up to a number, for the recursive functions of the models.  It *)
(* is stated of a set instead of a predicate, which the provers can         *)
(* instantiate, and rests on the order of finite sets being well-founded.   *)
(***************************************************************************)
EXTENDS Integers, WellFoundedInduction, FiniteSetTheorems, TLAPS

\* A set that holds 0 and with every number below n the next one holds all up to n.
LEMMA UpTo ==
  ASSUME NEW n \in Nat, NEW S, 0 \in S, \A i \in 0..(n - 1) : i \in S => i + 1 \in S
  PROVE  0..n \subseteq S
<1> DEFINE Bad == {A \in FiniteSubsetsOf(0..n) : \E i \in 0..n : A = 0..i /\ i \notin S}
<1>1. SUFFICES ASSUME NEW b \in 0..n, b \notin S
               PROVE  FALSE
  OBVIOUS
<1>2. 0..b \in Bad
  <2>1. 0..b \subseteq 0..n
    OBVIOUS
  <2>2. IsFiniteSet(0..b)
    BY FS_Interval
  <2>3. QED
    BY <1>1, <2>1, <2>2 DEF FiniteSubsetsOf
<1>3. PICK A \in Bad : \A B \in Bad : <<B, A>> \notin StrictSubsetOrdering(0..n)
  <2>1. IsWellFoundedOn(StrictSubsetOrdering(0..n), FiniteSubsetsOf(0..n))
    BY FS_StrictSubsetOrderingWellFounded
  <2>2. Bad \subseteq FiniteSubsetsOf(0..n)
    OBVIOUS
  <2> HIDE DEF Bad
  <2>3. QED
    BY <1>2, <2>1, <2>2, WFMin
<1>4. PICK i \in 0..n : A = 0..i /\ i \notin S
  BY <1>3
<1>5. i # 0 /\ i - 1 \in 0..(n - 1) /\ i - 1 \in 0..n /\ (i - 1) + 1 = i
  BY <1>4
<1>6. i - 1 \notin S
  BY <1>4, <1>5
<1>7. 0..(i - 1) \in Bad
  <2>1. 0..(i - 1) \subseteq 0..n
    BY <1>5
  <2>2. IsFiniteSet(0..(i - 1))
    BY <1>5, FS_Interval
  <2>3. QED
    BY <1>5, <1>6, <2>1, <2>2 DEF FiniteSubsetsOf
<1>8. <<0..(i - 1), A>> \in StrictSubsetOrdering(0..n)
  <2>1. 0..(i - 1) \subseteq 0..i /\ i \in 0..i /\ i \notin 0..(i - 1)
    BY <1>5
  <2>2. 0..i \subseteq 0..n
    BY <1>5
  <2>3. QED
    BY <1>4, <2>1, <2>2 DEF StrictSubsetOrdering
<1>9. QED
  BY <1>3, <1>7, <1>8

\* Every value of g is that of its step from the value one below.
Follows(g, n, first, step) == g[0] = first /\ \A i \in 1..n : g[i] = step[i][g[i - 1]]

\* A function that is defined from its value one below exists, if the steps stay
\* within a set.
LEMMA RecursionUpTo ==
  ASSUME NEW n \in Nat, NEW T, NEW first \in T, NEW step \in [1..n -> [T -> T]]
  PROVE  \E g \in [0..n -> T] : Follows(g, n, first, step)
<1> DEFINE Steps(g, k) == g[0] = first /\ \A i \in 1..k : g[i] = step[i][g[i - 1]]
           S == {k \in 0..n : \E g \in [0..k -> T] : Steps(g, k)}
<1>1. 0 \in S
  <2> DEFINE g == [i \in 0..0 |-> first]
  <2>1. g \in [0..0 -> T] /\ Steps(g, 0)
    OBVIOUS
  <2> HIDE DEF g
  <2>2. QED
    BY <2>1
<1>2. ASSUME NEW k \in 0..(n - 1), k \in S
      PROVE  k + 1 \in S
  <2>1. PICK g \in [0..k -> T] : Steps(g, k)
    BY <1>2
  <2> DEFINE h == [i \in 0..(k + 1) |-> IF i <= k THEN g[i] ELSE step[k + 1][g[k]]]
  <2>2. h \in [0..(k + 1) -> T]
    <3>1. g[k] \in T /\ k + 1 \in 1..n
      BY <2>1
    <3>2. step[k + 1][g[k]] \in T
      BY <3>1
    <3>3. QED
      BY <2>1, <3>2
  <2>3. ASSUME NEW i \in 1..(k + 1)
        PROVE  h[i] = step[i][h[i - 1]]
    <3>1. CASE i <= k
      BY <2>1, <3>1
    <3>2. CASE i = k + 1
      BY <2>1, <3>2
    <3>3. QED
      BY <3>1, <3>2
  <2>4. Steps(h, k + 1)
    <3>1. h[0] = first
      BY <2>1
    <3> HIDE DEF h
    <3>2. QED
      BY <2>3, <3>1
  <2>5. k + 1 \in 0..n
    OBVIOUS
  <2> HIDE DEF h
  <2>6. QED
    BY <2>2, <2>4, <2>5
<1> HIDE DEF S
<1>3. 0..n \subseteq S
  BY <1>1, <1>2, UpTo
<1>4. n \in S
  BY <1>3
<1>5. QED
  BY <1>4 DEF S, Follows
=============================================================================
