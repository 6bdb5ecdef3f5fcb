---------------------------- MODULE SetInduction ----------------------------
(***************************************************************************)
(* Induction over numbers for what the models define by recursion: sums,   *)
(* chains of links, the replies in a stream.  What is proved of all        *)
(* numbers is given as a set, so that the provers need no operator.        *)
(***************************************************************************)
EXTENDS Integers, WellFoundedInduction, TLAPS

\* A set that has every number whose predecessors it has contains all numbers.
LEMMA AllNumbers ==
  ASSUME NEW S, \A n \in Nat : (\A m \in Nat : m < n => m \in S) => n \in S
  PROVE  Nat \subseteq S
<1> DEFINE below == {p \in Nat \X Nat : p[1] < p[2]}
           missing == Nat \ S
<1>1. IsWellFoundedOn(below, Nat)
  BY NatLessThanWellFounded DEF OpToRel
<1>2. \A x, y \in Nat : <<x, y>> \in below <=> x < y
  OBVIOUS
<1> SUFFICES ASSUME missing # {} PROVE FALSE
  OBVIOUS
<1>3. missing \subseteq Nat
  OBVIOUS
<1>4. PICK x \in missing : \A y \in missing : ~(<<y, x>> \in below)
  <2> HIDE DEF below, missing
  <2> QED BY <1>1, <1>3, WFMin, Zenon
<1> QED BY <1>2, <1>4

\* The same for the numbers up to n, step by step.
LEMMA UpTo ==
  ASSUME NEW n \in Nat, NEW S, 0 \in S, \A i \in 1..n : i - 1 \in S => i \in S
  PROVE  0..n \subseteq S
<1> DEFINE T == {i \in Nat : i <= n => i \in S}
<1>1. ASSUME NEW i \in Nat, \A m \in Nat : m < i => m \in T PROVE i \in T
  <2>1. CASE i = 0 \/ i > n BY <2>1
  <2>2. CASE i \in 1..n BY <1>1, <2>2
  <2> QED BY <2>1, <2>2
<1>2. Nat \subseteq T
  <2> HIDE DEF T
  <2> QED BY <1>1, AllNumbers
<1> QED BY <1>2

\* f is what comes of taking a step n times, from a on.
IsIteration(f, S, a, n, step) ==
  /\ f \in [0..n -> S] /\ f[0] = a
  /\ \A i \in 1..n : f[i] = step[<<f[i - 1], i>>]

\* A step can be taken n times.
LEMMA Iterates ==
  ASSUME NEW S, NEW a \in S, NEW n \in Nat, NEW step \in [S \X (1..n) -> S]
  PROVE  \E f : IsIteration(f, S, a, n, step)
<1> DEFINE Taken(m) == {f \in [0..m -> S] : IsIteration(f, S, a, m, step)}
           T == {m \in 0..n : Taken(m) # {}}
<1>1. 0 \in T
  <2>1. [i \in 0..0 |-> a] \in Taken(0)
    BY DEF IsIteration
  <2> QED BY <2>1
<1>2. ASSUME NEW m \in 1..n, m - 1 \in T PROVE m \in T
  <2>1. PICK f : f \in Taken(m - 1)
    BY <1>2
  <2> DEFINE g == [i \in 0..m |-> IF i < m THEN f[i] ELSE step[<<f[m - 1], m>>]]
  <2>2. /\ f \in [0..m - 1 -> S] /\ f[0] = a
        /\ \A i \in 1..m - 1 : f[i] = step[<<f[i - 1], i>>]
    BY <2>1 DEF IsIteration
  <2>3. g \in [0..m -> S] /\ g[0] = a
    BY <2>2
  <2>4. ASSUME NEW i \in 1..m PROVE g[i] = step[<<g[i - 1], i>>]
    <3>1. CASE i = m
      <4>1. g[m] = step[<<f[m - 1], m>>] /\ g[m - 1] = f[m - 1]
        OBVIOUS
      <4> HIDE DEF g
      <4> QED BY <3>1, <4>1
    <3>2. CASE i \in 1..m - 1
      BY <2>2, <3>2
    <3> QED BY <3>1, <3>2
  <2>5. g \in Taken(m)
    <3> HIDE DEF g
    <3> QED BY <2>3, <2>4 DEF IsIteration
  <2> HIDE DEF g, Taken
  <2> QED BY <2>5
<1>3. 0..n \subseteq T
  <2> HIDE DEF T
  <2> QED BY <1>1, <1>2, UpTo
<1>4. n \in T
  BY <1>3
<1> QED BY <1>4

\* A set of numbers that is not empty has a smallest one.
LEMMA Smallest ==
  ASSUME NEW M, M \subseteq Nat, M # {}
  PROVE  \E m \in M : \A n \in M : m <= n
<1> SUFFICES ASSUME \A m \in M : \E n \in M : ~(m <= n) PROVE FALSE
  OBVIOUS
<1> DEFINE S == {n \in Nat : n \notin M}
<1>1. ASSUME NEW n \in Nat, \A m \in Nat : m < n => m \in S PROVE n \in S
  BY <1>1
<1>2. Nat \subseteq S
  <2> HIDE DEF S
  <2> QED BY <1>1, AllNumbers
<1> QED BY <1>2

\* And a largest one, if there is a bound.
LEMMA Largest ==
  ASSUME NEW M, NEW b \in Nat, M \subseteq 0..b, M # {}
  PROVE  \E m \in M : \A n \in M : n <= m
<1> DEFINE T == {b - m : m \in M}
<1>0. \A m \in M : m \in 0..b
  OBVIOUS
<1>1. T \subseteq Nat /\ T # {}
  <2>1. \A m \in 0..b : b - m \in Nat
    OBVIOUS
  <2>2. \A m \in M : b - m \in Nat
    BY <1>0, <2>1
  <2> QED BY <2>2
<1>2. PICK t \in T : \A u \in T : t <= u
  <2> HIDE DEF T
  <2> QED BY <1>1, Smallest
<1>3. PICK m \in M : t = b - m
  OBVIOUS
<1>4. \A n \in M : n <= m
  BY <1>2, <1>3
<1> QED BY <1>4
=============================================================================
