------------------------------- MODULE Loops -------------------------------
(***************************************************************************)
(* Loops over numbered turns, as the recursive functions of the modules    *)
(* describe them: that the function which records the outcome of each turn *)
(* exists, and what holds of it.                                           *)
(***************************************************************************)
EXTENDS Integers, NaturalsInduction, WellFoundedInduction, TLAPS

\* A set of numbers that is not empty has a least one.
LEMMA Least ==
    ASSUME NEW T \in SUBSET Nat, T # {}
    PROVE  \E x \in T : \A y \in T : x <= y
<1>1. \E x \in T : \A y \in T : ~ (<<y, x>> \in OpToRel(<, Nat))
  BY NatLessThanWellFounded, WFMin, Zenon
<1>2. ASSUME NEW x \in T, NEW y \in T, ~ (<<y, x>> \in OpToRel(<, Nat)) PROVE x <= y
  <2>1. ~ (y < x)
    BY <1>2, Zenon DEF OpToRel
  <2> QED
    BY <2>1
<1> QED
  BY <1>1, <1>2, Zenon

\* What holds at first, and after a turn if it held before it, holds at last.
LEMMA EveryTurn ==
    ASSUME NEW m \in Nat, NEW T \in SUBSET (0..m), 0 \in T,
           \A n \in 1..m : n - 1 \in T => n \in T
    PROVE  T = 0..m
<1> SUFFICES ASSUME T # 0..m PROVE FALSE
  OBVIOUS
<1> DEFINE Missing == (0..m) \ T
<1>1. Missing # {}
  OBVIOUS
<1>0. Missing \in SUBSET Nat
  OBVIOUS
<1>2. PICK x \in Missing : \A y \in Missing : x <= y
  BY <1>0, <1>1, Least
<1>3. x \in 1..m /\ x - 1 \in 0..m /\ ~(x <= x - 1)
  BY <1>2
<1>4. x - 1 \notin Missing
  BY <1>2, <1>3
<1> QED
  BY <1>2, <1>3, <1>4

\* A loop of m turns, turn n of which leads from good[n - 1] to good[n].
Leads(m, good, base, turn) ==
    base \in good[0] /\ \A n \in 1..m : \A x \in good[n - 1] : turn[n][x] \in good[n]

Recorded(m, good, base, turn, f) ==
    /\ f = [n \in 0..m |-> IF n = 0 THEN base ELSE turn[n][f[n - 1]]]
    /\ \A n \in 0..m : f[n] \in good[n]

\* Such a loop has an outcome after each turn: the function that records them
\* exists.
LEMMA LoopExists ==
    ASSUME NEW m \in Nat, NEW good, NEW base, NEW turn, Leads(m, good, base, turn)
    PROVE  \E f : Recorded(m, good, base, turn, f)
<1> USE DEF Leads
<1> DEFINE Until(f, k) == /\ f = [n \in 0..k |-> IF n = 0 THEN base ELSE turn[n][f[n - 1]]]
                          /\ \A n \in 0..k : f[n] \in good[n]
           T == { k \in 0..m : \E f : Until(f, k) }
<1>0. \A f, k : /\ f = [n \in 0..k |-> IF n = 0 THEN base ELSE turn[n][f[n - 1]]]
                /\ \A n \in 0..k : f[n] \in good[n]
                => Until(f, k)
  OBVIOUS
<1>1. 0 \in T
  <2> DEFINE f == [n \in 0..0 |-> base]
  <2>1. f = [n \in 0..0 |-> IF n = 0 THEN base ELSE turn[n][f[n - 1]]]
    OBVIOUS
  <2>2. \A n \in 0..0 : f[n] \in good[n]
    OBVIOUS
  <2> HIDE DEF f
  <2>3. Until(f, 0)
    BY <2>1, <2>2, <1>0, Zenon
  <2> HIDE DEF Until
  <2>4. 0 \in 0..m
    OBVIOUS
  <2> QED
    BY <2>3, <2>4, Zenon
<1>2. ASSUME NEW k \in 1..m, k - 1 \in T PROVE k \in T
  <2>1. PICK f : Until(f, k - 1)
    BY <1>2
  <2> DEFINE g == [n \in 0..k |-> IF n = k THEN turn[k][f[k - 1]] ELSE f[n]]
  <2>2. k - 1 \in 0..(k - 1) /\ f[k - 1] \in good[k - 1]
    BY <2>1
  <2>3. turn[k][f[k - 1]] \in good[k]
    BY <2>2
  <2>4. \A n \in 0..k : g[n] = IF n = 0 THEN base ELSE turn[n][g[n - 1]]
    <3> SUFFICES ASSUME NEW n \in 0..k PROVE g[n] = IF n = 0 THEN base ELSE turn[n][g[n - 1]]
      OBVIOUS
    <3>1. CASE n = k
      BY <3>1
    <3>2. CASE n # k
      <4>1. n \in 0..(k - 1) /\ (n # 0 => n - 1 \in 0..k /\ n - 1 # k)
        BY <3>2
      <4>2. f[n] = IF n = 0 THEN base ELSE turn[n][f[n - 1]]
        BY <2>1, <4>1
      <4>3. g[n] = f[n] /\ (n # 0 => g[n - 1] = f[n - 1])
        BY <3>2, <4>1
      <4> QED
        BY <4>2, <4>3
    <3> QED
      BY <3>1, <3>2
  <2>5. \A n \in 0..k : g[n] \in good[n]
    <3> SUFFICES ASSUME NEW n \in 0..k PROVE g[n] \in good[n]
      OBVIOUS
    <3>1. n = k \/ n \in 0..(k - 1)
      OBVIOUS
    <3> QED
      BY <3>1, <2>1, <2>3
  <2>6. g = [n \in 0..k |-> IF n = 0 THEN base ELSE turn[n][g[n - 1]]]
    <3> DEFINE h == [n \in 0..k |-> IF n = 0 THEN base ELSE turn[n][g[n - 1]]]
    <3>1. \A n \in 0..k : g[n] = h[n]
      BY <2>4
    <3> HIDE DEF h
    <3>2. g = [n \in 0..k |-> g[n]] /\ h = [n \in 0..k |-> h[n]]
      BY DEF h
    <3> QED
      BY <3>1, <3>2 DEF h
  <2> HIDE DEF g
  <2>7. Until(g, k)
    BY <2>5, <2>6, <1>0, Zenon
  <2> HIDE DEF Until
  <2>8. k \in 0..m
    OBVIOUS
  <2> QED
    BY <2>7, <2>8, Zenon
<1>3. T = 0..m
  <2> HIDE DEF T
  <2>1. T \in SUBSET (0..m)
    BY DEF T
  <2> QED
    BY <1>1, <1>2, <2>1, EveryTurn
<1>4. m \in T
  BY <1>3
<1>5. PICK f : Until(f, m)
  BY <1>4
<1> QED
  BY <1>5 DEF Recorded

\* Every record of the loop stays in what its turns keep.
LEMMA LoopKeeps ==
    ASSUME NEW m \in Nat, NEW good, NEW f, f[0] \in good[0],
           \A n \in 1..m : f[n - 1] \in good[n - 1] => f[n] \in good[n]
    PROVE  f[m] \in good[m]
<1> DEFINE T == { n \in 0..m : f[n] \in good[n] }
<1>1. T \in SUBSET (0..m) /\ 0 \in T
  OBVIOUS
<1>2. \A n \in 1..m : n - 1 \in T => n \in T
  OBVIOUS
<1> HIDE DEF T
<1>3. T = 0..m
  BY <1>1, <1>2, EveryTurn
<1> QED
  BY <1>3 DEF T

\* The same for turns that stay in one set.
Records(m, S, base, turn, f) ==
    /\ f = [n \in 0..m |-> IF n = 0 THEN base ELSE turn[n][f[n - 1]]]
    /\ f[0] = base
    /\ \A n \in 1..m : f[n] = turn[n][f[n - 1]]
    /\ \A n \in 0..m : f[n] \in S

LEMMA LoopRecords ==
    ASSUME NEW m \in Nat, NEW S, NEW base \in S, NEW turn,
           \A n \in 1..m : \A x \in S : turn[n][x] \in S
    PROVE  \E f : Records(m, S, base, turn, f)
<1> DEFINE good == [n \in 0..m |-> S]
<1>1. Leads(m, good, base, turn)
  BY DEF Leads
<1>2. PICK f : Recorded(m, good, base, turn, f)
  BY <1>1, LoopExists
<1>3. f = [n \in 0..m |-> IF n = 0 THEN base ELSE turn[n][f[n - 1]]] /\ \A n \in 0..m : f[n] \in S
  BY <1>2 DEF Recorded
<1>4. f[0] = base /\ \A n \in 1..m : f[n] = turn[n][f[n - 1]]
  BY <1>3
<1> QED
  BY <1>3, <1>4 DEF Records

LEMMA LoopStays ==
    ASSUME NEW m \in Nat, NEW S, NEW f, f[0] \in S,
           \A n \in 1..m : f[n - 1] \in S => f[n] \in S
    PROVE  \A n \in 0..m : f[n] \in S
<1> DEFINE T == { n \in 0..m : f[n] \in S }
<1>1. T \in SUBSET (0..m) /\ 0 \in T /\ \A n \in 1..m : n - 1 \in T => n \in T
  OBVIOUS
<1> HIDE DEF T
<1>2. T = 0..m
  BY <1>1, EveryTurn
<1> QED
  BY <1>2 DEF T
============================================================================
