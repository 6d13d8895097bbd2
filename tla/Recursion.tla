----------------------------- MODULE Recursion ------------------------------
(***************************************************************************)
(* Induction over numbers, for sets: the library's theorems take an        *)
(* operator as their parameter, which the provers cannot instantiate. And  *)
(* with it what recursive functions over the numbers rest on, that there   *)
(* is a function as their definition says.                                 *)
(***************************************************************************)
EXTENDS Integers, Sequences, WellFoundedInduction, TLAPS

-----------------------------------------------------------------------------
(* Induction.                                                              *)

LEMMA LeastOf ==
  ASSUME NEW R, NEW S \in SUBSET Nat, S # {}, IsWellFoundedOn(R, Nat),
         \A x \in Nat, y \in Nat : <<y, x>> \in R <=> y < x
  PROVE  \E x \in S : \A y \in S : ~ (y < x)
<1>1. \E x \in S : \A y \in S : ~ (<<y, x>> \in R)
  BY WFMin
<1> QED BY <1>1, Zenon

\* A set of numbers has a least one.
LEMMA Least ==
  ASSUME NEW S \in SUBSET Nat, S # {}
  PROVE  \E x \in S : \A y \in S : x <= y
<1>1. \A x \in Nat, y \in Nat : <<y, x>> \in OpToRel(<, Nat) <=> y < x
  BY DEF OpToRel
<1>2. \E x \in S : \A y \in S : ~ (y < x)
  BY <1>1, NatLessThanWellFounded, LeastOf, Zenon
<1> QED BY <1>2

\* A set that has 0 and with every number the next one has all up to n.
LEMMA Induction ==
  ASSUME NEW n \in Nat, NEW Good, 0 \in Good,
         \A k \in 1 .. n : k - 1 \in Good => k \in Good
  PROVE  \A k \in 0 .. n : k \in Good
<1> DEFINE Bad == {k \in 0 .. n : k \notin Good}
<1> SUFFICES ASSUME Bad # {} PROVE FALSE
  OBVIOUS
<1>1. Bad \in SUBSET Nat
  OBVIOUS
<1> HIDE DEF Bad
<1>2. PICK k \in Bad : \A y \in Bad : k <= y
  BY <1>1, Least
<1> USE DEF Bad
<1>3. k \in 1 .. n /\ k - 1 \in 0 .. n /\ k - 1 \notin Bad
  BY <1>2
<1> QED BY <1>2, <1>3

-----------------------------------------------------------------------------
(* Flattening.                                                             *)

\* The recursion of FlattenSeq defines a function.
IsFlatten(f, seqs, n) ==
  f = [i \in 1 .. n |-> IF i = 1 THEN seqs[i] ELSE f[i - 1] \o seqs[i]]

LEMMA FlattenRecursion ==
  ASSUME NEW seqs, NEW n \in Nat
  PROVE  \E f : IsFlatten(f, seqs, n)
<1> DEFINE Is(f, m) == IsFlatten(f, seqs, m)
           Bad == {m \in Nat : ~ \E f : Is(f, m)}
<1> SUFFICES ASSUME Bad # {} PROVE FALSE
  OBVIOUS
<1>0. Bad \in SUBSET Nat
  OBVIOUS
<1> HIDE DEF Bad
<1>1. PICK m \in Bad : \A y \in Bad : m <= y
  BY <1>0, Least
<1> USE DEF Bad
<1>2. m # 0
  <2> DEFINE g == [i \in 1 .. 0 |-> seqs[i]]
  <2>1. Is(g, 0)
    BY DEF IsFlatten
  <2> QED BY <2>1
<1>3. m \in Nat /\ m - 1 \in Nat /\ m - 1 \notin Bad
  BY <1>1, <1>2
<1>4. PICK f : Is(f, m - 1)
  BY <1>3
<1>10. \A i \in 1 .. m - 1 : f[i] = IF i = 1 THEN seqs[i] ELSE f[i - 1] \o seqs[i]
  BY <1>4 DEF IsFlatten
<1> DEFINE top == IF m = 1 THEN seqs[m] ELSE f[m - 1] \o seqs[m]
           g == [i \in 1 .. m |-> IF i = m THEN top ELSE f[i]]
<1>5. \A i \in 1 .. m - 1 : g[i] = f[i] /\ f[i] = IF i = 1 THEN seqs[i] ELSE f[i - 1] \o seqs[i]
  <2>1. \A i \in 1 .. m - 1 : i \in 1 .. m /\ i # m
    BY <1>3
  <2> HIDE DEF top
  <2> QED BY <1>10, <2>1
<1>6. \A i \in 1 .. m : g[i] = IF i = 1 THEN seqs[i] ELSE g[i - 1] \o seqs[i]
  <2> TAKE i \in 1 .. m
  <2>1. CASE i = m /\ i # 1
    <3>1. g[m] = f[m - 1] \o seqs[m]
      BY <1>3, <2>1
    <3>2. m - 1 \in 1 .. m - 1
      BY <1>3, <2>1
    <3>3. g[m - 1] = f[m - 1]
      BY <1>5, <3>2
    <3> QED BY <2>1, <3>1, <3>3
  <2>2. CASE i # m /\ i # 1
    <3>1. i \in 1 .. m - 1 /\ i - 1 \in 1 .. m - 1
      BY <1>3, <2>2
    <3>2. g[i - 1] = f[i - 1]
      BY <1>5, <3>1
    <3> QED BY <1>5, <2>2, <3>1, <3>2
  <2>3. CASE i # m /\ i = 1
    <3>1. i \in 1 .. m - 1
      BY <1>3, <2>3
    <3> QED BY <1>5, <2>3, <3>1
  <2>4. CASE i = m /\ i = 1
    BY <1>3, <2>4
  <2> QED BY <2>1, <2>2, <2>3, <2>4
<1>7. Is(g, m)
  <2>1. g = [i \in 1 .. m |-> g[i]]
    OBVIOUS
  <2> HIDE DEF g
  <2>2. [i \in 1 .. m |-> g[i]] = [i \in 1 .. m |-> IF i = 1 THEN seqs[i] ELSE g[i - 1] \o seqs[i]]
    BY <1>6, Zenon
  <2> QED BY <2>1, <2>2 DEF IsFlatten
<1> QED BY <1>3, <1>7, Zenon
=============================================================================
