------------------------------ MODULE Numbers ------------------------------
(***************************************************************************)
(* Induction over the natural numbers, for what is defined by recursion:   *)
(* sequences laid end to end (RecorderProofs), the steps of a plan         *)
(* (SessionProofs), what a queue holds for one remote (RemotesProofs), the *)
(* clauses of a line and the children of a parse (ReaderProofs).           *)
(***************************************************************************)
EXTENDS Naturals, WellFoundedInduction, TLAPS

\* A set of numbers has a least one.
LEMMA LeastOf ==
    ASSUME NEW T, T \subseteq Nat, T # {}
    PROVE  \E n \in T : \A m \in T : ~(m < n)
<1>1. \E n \in T : \A m \in T : ~(<<m, n>> \in OpToRel(<, Nat))
  BY NatLessThanWellFounded, WFMin
<1>2. \A m, n \in Nat : m < n => <<m, n>> \in OpToRel(<, Nat)
  BY DEF OpToRel
<1> QED
  BY <1>1, <1>2

\* And so a set that holds 0, and with a number the next one, holds all of them.
LEMMA AllNumbers ==
    ASSUME NEW T, 0 \in T, \A n \in Nat : n \in T => n + 1 \in T
    PROVE  Nat \subseteq T
<1> DEFINE Others == {n \in Nat : n \notin T}
<1> SUFFICES ASSUME Others # {} PROVE FALSE
  OBVIOUS
<1>1. PICK n \in Others : \A m \in Others : ~(m < n)
  BY LeastOf
<1>2. n # 0 /\ n - 1 \in Nat /\ n - 1 < n /\ n = (n - 1) + 1
  BY <1>1
<1> QED
  BY <1>1, <1>2

\* What is defined step by step, each from the one before, is there: a function on 0 .. n, of
\* which first is the first and next, of a number and of what there is before it, all others.
LEMMA Recursion ==
    ASSUME NEW V, NEW first \in V, NEW n \in Nat, NEW next \in [1 .. n -> [V -> V]]
    PROVE  \E f \in [0 .. n -> V] : f[0] = first /\ \A k \in 1 .. n : f[k] = next[k][f[k - 1]]
<1> DEFINE Good(f, m) == f[0] = first /\ \A k \in 1 .. m : f[k] = next[k][f[k - 1]]
           T == {m \in Nat : m <= n => \E f \in [0 .. m -> V] : Good(f, m)}
<1>1. 0 \in T
  <2>1. [k \in 0 .. 0 |-> first] \in [0 .. 0 -> V] /\ Good([k \in 0 .. 0 |-> first], 0)
    OBVIOUS
  <2> QED
    BY <2>1
<1>2. ASSUME NEW m \in Nat, m \in T PROVE m + 1 \in T
  <2> SUFFICES ASSUME m + 1 <= n PROVE \E f \in [0 .. m + 1 -> V] : Good(f, m + 1)
    OBVIOUS
  <2>1. PICK f \in [0 .. m -> V] : Good(f, m)
    BY <1>2
  <2> DEFINE g == [k \in 0 .. m + 1 |-> IF k = m + 1 THEN next[m + 1][f[m]] ELSE f[k]]
  <2>2. m + 1 \in 1 .. n /\ m \in 0 .. m /\ f[m] \in V
    BY <2>1
  <2>3. next[m + 1][f[m]] \in V
    BY <2>2
  <2>4. g \in [0 .. m + 1 -> V]
    BY <2>1, <2>3
  <2>5. g[m + 1] = next[m + 1][f[m]] /\ \A k \in 0 .. m : g[k] = f[k]
    OBVIOUS
  <2> HIDE DEF g
  <2>6. g[0] = first
    BY <2>1, <2>5
  <2>7. ASSUME NEW k \in 1 .. m + 1 PROVE g[k] = next[k][g[k - 1]]
    <3>1. CASE k = m + 1
      <4>1. k - 1 = m /\ m \in 0 .. m
        BY <3>1
      <4> QED
        BY <3>1, <4>1, <2>5
    <3>2. CASE k # m + 1
      <4>1. k \in 1 .. m /\ k - 1 \in 0 .. m /\ k \in 0 .. m
        BY <3>2
      <4> QED
        BY <4>1, <2>1, <2>5
    <3> QED
      BY <3>1, <3>2
  <2> QED
    BY <2>4, <2>6, <2>7
<1> HIDE DEF T
<1>3. n \in T
  BY <1>1, <1>2, AllNumbers
<1> QED
  BY <1>3 DEF T
=============================================================================
