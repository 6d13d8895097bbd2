----------------------------- MODULE FoldSteps -----------------------------
(***************************************************************************)
(* What a fold over a sequence computes: there are states from the base to *)
(* the result, each the Step of the one before it, so that what every step *)
(* keeps holds of the result.  A module that folds instantiates this one   *)
(* with its operator, and with what it keeps: Inv of the number of steps   *)
(* and the state.  c stands for what both are given besides these, such as *)
(* a benchmark.                                                            *)
(***************************************************************************)
EXTENDS Recursion

CONSTANTS Step(_, _, _), Inv(_, _, _)

-----------------------------------------------------------------------------
(* Folds.                                                                  *)

Greatest(s) == CHOOSE m \in s : \A y \in s : m >= y

\* The recursion of FoldLeft, over the positions of a sequence.
IsFold(f, c, base, seq) ==
  f = [s \in SUBSET DOMAIN seq |->
         IF s = {} THEN base ELSE Step(c, f[s \ {Greatest(s)}], seq[Greatest(s)])]

Folded(c, base, seq) == (CHOOSE f : IsFold(f, c, base, seq))[DOMAIN seq]

\* The states of a fold over the first n elements.
Folds(state, c, base, seq, n) ==
  /\ state[0] = base
  /\ \A k \in 1 .. n : state[k] = Step(c, state[k - 1], seq[k])

LEMMA GreatestOf ==
  ASSUME NEW n \in Nat, NEW s \in SUBSET (1 .. n), n \in s
  PROVE  Greatest(s) = n
<1>1. n \in s /\ \A y \in s : n >= y
  OBVIOUS
<1>2. Greatest(s) \in s /\ \A y \in s : Greatest(s) >= y
  BY <1>1, Zenon DEF Greatest
<1>3. Greatest(s) \in 1 .. n /\ Greatest(s) >= n
  BY <1>1, <1>2
<1> QED BY <1>3

\* A fold over the positions up to n.
FoldTo(f, c, base, seq, n) ==
  f = [s \in SUBSET (1 .. n) |->
         IF s = {} THEN base ELSE Step(c, f[s \ {Greatest(s)}], seq[Greatest(s)])]

LEMMA FoldsFurther ==
  ASSUME NEW c, NEW base, NEW seq, NEW n \in Nat, NEW f, FoldTo(f, c, base, seq, n)
  PROVE  \E g : FoldTo(g, c, base, seq, n + 1)
<1> DEFINE top(s) == Step(c, f[s \ {n + 1}], seq[n + 1])
           g == [s \in SUBSET (1 .. n + 1) |-> IF n + 1 \in s THEN top(s) ELSE f[s]]
<1> HIDE DEF top
<1>1. \A s \in SUBSET (1 .. n) : s \in SUBSET (1 .. n + 1) /\ n + 1 \notin s
  OBVIOUS
<1>2. \A s \in SUBSET (1 .. n) : g[s] = f[s]
  BY <1>1
<1>3. ASSUME NEW s \in SUBSET (1 .. n + 1)
      PROVE  g[s] = IF s = {} THEN base ELSE Step(c, g[s \ {Greatest(s)}], seq[Greatest(s)])
  <2>1. CASE n + 1 \in s
    <3>1. Greatest(s) = n + 1
      BY <2>1, GreatestOf
    <3>2. s \ {n + 1} \in SUBSET (1 .. n) /\ s # {}
      BY <2>1
    <3>3. g[s \ {n + 1}] = f[s \ {n + 1}]
      BY <1>2, <3>2
    <3>4. g[s] = top(s)
      BY <2>1
    <3> QED BY <3>1, <3>2, <3>3, <3>4, Zenon DEF top
  <2>2. CASE n + 1 \notin s /\ s # {}
    <3>1. s \in SUBSET (1 .. n)
      BY <2>2
    <3>4. s \ {Greatest(s)} \in SUBSET (1 .. n)
      BY <3>1, Zenon
    <3>2. f[s] = Step(c, f[s \ {Greatest(s)}], seq[Greatest(s)])
      BY <2>2, <3>1, Zenon DEF FoldTo
    <3> QED BY <1>2, <2>2, <3>1, <3>2, <3>4, Zenon
  <2>3. CASE s = {}
    <3>1. s \in SUBSET (1 .. n)
      BY <2>3
    <3>2. f[s] = base
      BY <2>3, <3>1, Zenon DEF FoldTo
    <3> QED BY <1>2, <2>3, <3>1, <3>2, Zenon
  <2> QED BY <2>1, <2>2, <2>3
<1>4. g = [s \in SUBSET (1 .. n + 1) |-> g[s]]
  OBVIOUS
<1> HIDE DEF g
<1>5. [s \in SUBSET (1 .. n + 1) |-> g[s]]
        = [s \in SUBSET (1 .. n + 1) |->
             IF s = {} THEN base ELSE Step(c, g[s \ {Greatest(s)}], seq[Greatest(s)])]
  BY <1>3, Zenon
<1>6. FoldTo(g, c, base, seq, n + 1)
  BY <1>4, <1>5, Zenon DEF FoldTo
<1> QED BY <1>6

LEMMA FoldExists ==
  ASSUME NEW c, NEW base, NEW seq, NEW n \in Nat
  PROVE  \E f : FoldTo(f, c, base, seq, n)
<1> DEFINE Good == {k \in 0 .. n : \E f : FoldTo(f, c, base, seq, k)}
<1>1. 0 \in Good
  <2> DEFINE f == [s \in SUBSET (1 .. 0) |-> base]
  <2>1. \A s \in SUBSET (1 .. 0) :
          base = IF s = {} THEN base ELSE Step(c, f[s \ {Greatest(s)}], seq[Greatest(s)])
    <3>1. \A s \in SUBSET (1 .. 0) : s = {}
      OBVIOUS
    <3> HIDE DEF f
    <3> QED BY <3>1, Zenon
  <2> HIDE DEF f
  <2>2. [s \in SUBSET (1 .. 0) |-> base]
          = [s \in SUBSET (1 .. 0) |->
               IF s = {} THEN base ELSE Step(c, f[s \ {Greatest(s)}], seq[Greatest(s)])]
    BY <2>1, Zenon
  <2>3. FoldTo(f, c, base, seq, 0)
    BY <2>2, Zenon DEF FoldTo, f
  <2> QED BY <2>3
<1>2. ASSUME NEW k \in 1 .. n, k - 1 \in Good
      PROVE  k \in Good
  <2>1. PICK f : FoldTo(f, c, base, seq, k - 1)
    BY <1>2
  <2>2. k - 1 \in Nat /\ (k - 1) + 1 = k
    OBVIOUS
  <2>3. \E g : FoldTo(g, c, base, seq, (k - 1) + 1)
    BY <2>1, <2>2, FoldsFurther, Zenon
  <2> QED BY <2>2, <2>3
<1> HIDE DEF Good
<1>3. \A k \in 0 .. n : k \in Good
  BY <1>1, <1>2, Induction
<1>4. n \in Good
  BY <1>3
<1> QED BY <1>4 DEF Good

\* A fold goes through its states.
LEMMA StepByStep ==
  \A c, base, seq, n :
    n \in Nat /\ DOMAIN seq = 1 .. n
      => \E state : Folds(state, c, base, seq, n) /\ state[n] = Folded(c, base, seq)
<1> SUFFICES ASSUME NEW c, NEW base, NEW seq, NEW n, n \in Nat, DOMAIN seq = 1 .. n
             PROVE  \E state : Folds(state, c, base, seq, n)
                               /\ state[n] = Folded(c, base, seq)
  OBVIOUS
<1> DEFINE f == CHOOSE f : IsFold(f, c, base, seq)
           state == [k \in 0 .. n |-> f[1 .. k]]
<1>1. \E g : IsFold(g, c, base, seq)
  <2>1. \E g : FoldTo(g, c, base, seq, n)
    BY FoldExists, Zenon
  <2> QED BY <2>1, Zenon DEF FoldTo, IsFold
<1>2. IsFold(f, c, base, seq)
  BY <1>1, Zenon
<1>3. Folded(c, base, seq) = f[1 .. n]
  BY Zenon DEF Folded
<1> HIDE DEF f
<1>4. \A s \in SUBSET (1 .. n) :
        f[s] = IF s = {} THEN base ELSE Step(c, f[s \ {Greatest(s)}], seq[Greatest(s)])
  BY <1>2, Zenon DEF IsFold
<1>5. state[0] = base
  <2>1. 1 .. 0 = {} /\ 0 \in 0 .. n
    OBVIOUS
  <2>2. f[{}] = base
    BY <1>4, Zenon
  <2> QED BY <2>1, <2>2, Zenon
<1>6. ASSUME NEW k \in 1 .. n
      PROVE  state[k] = Step(c, state[k - 1], seq[k])
  <2>1. k \in 0 .. n /\ k - 1 \in 0 .. n /\ k \in Nat /\ k \in 1 .. k
    OBVIOUS
  <2>4. 1 .. k \in SUBSET (1 .. n) /\ 1 .. k # {}
    <3>1. \A x \in 1 .. k : x \in 1 .. n
      OBVIOUS
    <3> QED BY <2>1, <3>1, Zenon
  <2>5. (1 .. k) \ {k} = 1 .. k - 1
    <3>1. \A x \in Int : x \in 1 .. k /\ x # k <=> x \in 1 .. k - 1
      OBVIOUS
    <3> QED BY <3>1
  <2>2. Greatest(1 .. k) = k
    BY <2>1, GreatestOf
  <2>3. f[1 .. k] = Step(c, f[1 .. k - 1], seq[k])
    BY <1>4, <2>2, <2>4, <2>5, Zenon
  <2> QED BY <2>1, <2>3, Zenon
<1>7. Folds(state, c, base, seq, n)
  BY <1>5, <1>6, Zenon DEF Folds
<1>8. state[n] = Folded(c, base, seq)
  BY <1>3
<1> QED BY <1>7, <1>8, Zenon

\* What every step keeps holds of the result.
LEMMA Kept ==
  \A c, base, seq, n :
       /\ n \in Nat /\ DOMAIN seq = 1 .. n
       /\ Inv(c, 0, base)
       /\ \A k \in 1 .. n : \A x : Inv(c, k - 1, x) => Inv(c, k, Step(c, x, seq[k]))
    => Inv(c, n, Folded(c, base, seq))
<1> SUFFICES ASSUME NEW c, NEW base, NEW seq, NEW n, n \in Nat, DOMAIN seq = 1 .. n,
                    Inv(c, 0, base),
                    \A k \in 1 .. n : \A x : Inv(c, k - 1, x) => Inv(c, k, Step(c, x, seq[k]))
             PROVE  Inv(c, n, Folded(c, base, seq))
  OBVIOUS
<1>1. PICK state : Folds(state, c, base, seq, n) /\ state[n] = Folded(c, base, seq)
  BY StepByStep, Zenon
<1> DEFINE Good == {k \in 0 .. n : Inv(c, k, state[k])}
<1>2. 0 \in Good
  <2>1. 0 \in 0 .. n
    OBVIOUS
  <2> QED BY <1>1, <2>1, Zenon DEF Folds
<1>3. ASSUME NEW k \in 1 .. n, k - 1 \in Good
      PROVE  k \in Good
  <2>1. Inv(c, k - 1, state[k - 1]) /\ k \in 0 .. n
    BY <1>3
  <2>2. state[k] = Step(c, state[k - 1], seq[k])
    BY <1>1, Zenon DEF Folds
  <2>3. Inv(c, k, state[k])
    BY <2>1, <2>2, Zenon
  <2> QED BY <2>1, <2>3, Zenon
<1> HIDE DEF Good
<1>4. \A k \in 0 .. n : k \in Good
  BY <1>2, <1>3, Induction
<1>5. n \in Good
  BY <1>4
<1>6. Inv(c, n, state[n])
  BY <1>5, Zenon DEF Good
<1> QED BY <1>1, <1>6, Zenon

LEMMA FoldedNone ==
  \A c, base : Folded(c, base, <<>>) = base
<1> SUFFICES ASSUME NEW c, NEW base PROVE Folded(c, base, <<>>) = base
  OBVIOUS
<1>1. 0 \in Nat /\ DOMAIN <<>> = 1 .. 0
  OBVIOUS
<1>2. PICK state : Folds(state, c, base, <<>>, 0) /\ state[0] = Folded(c, base, <<>>)
  BY <1>1, StepByStep, Zenon
<1> QED BY <1>2, Zenon DEF Folds

\* The sequence less has the first n elements of seq, which has one more.
Begins(less, seq, n) ==
  /\ n \in Nat /\ DOMAIN seq = 1 .. n + 1 /\ DOMAIN less = 1 .. n
  /\ \A k \in 1 .. n : less[k] = seq[k]

LEMMA FoldedNext ==
  \A c, base, seq, n, less :
    Begins(less, seq, n) => Folded(c, base, seq) = Step(c, Folded(c, base, less), seq[n + 1])
<1> SUFFICES ASSUME NEW c, NEW base, NEW seq, NEW n, NEW less, Begins(less, seq, n)
             PROVE  Folded(c, base, seq) = Step(c, Folded(c, base, less), seq[n + 1])
  BY Zenon
<1>0. /\ n \in Nat /\ DOMAIN seq = 1 .. n + 1 /\ DOMAIN less = 1 .. n
      /\ \A k \in 1 .. n : less[k] = seq[k]
  BY DEF Begins
<1>1. PICK state : Folds(state, c, base, seq, n + 1) /\ state[n + 1] = Folded(c, base, seq)
  <2>1. n + 1 \in Nat
    BY <1>0
  <2> QED BY <1>0, <2>1, StepByStep, Zenon
<1>2. PICK part : Folds(part, c, base, less, n) /\ part[n] = Folded(c, base, less)
  BY <1>0, StepByStep, Zenon
<1> DEFINE Good == {k \in 0 .. n : state[k] = part[k]}
<1>3. 0 \in Good
  <2>1. 0 \in 0 .. n
    BY <1>0
  <2> QED BY <1>1, <1>2, <2>1, Zenon DEF Folds
<1>4. ASSUME NEW k \in 1 .. n, k - 1 \in Good
      PROVE  k \in Good
  <2>1. k \in 0 .. n /\ k \in 1 .. n + 1
    BY <1>0
  <2>2. state[k] = Step(c, state[k - 1], seq[k])
    BY <1>1, <2>1, Zenon DEF Folds
  <2>3. part[k] = Step(c, part[k - 1], less[k])
    BY <1>2, Zenon DEF Folds
  <2>4. state[k - 1] = part[k - 1] /\ less[k] = seq[k]
    BY <1>0, <1>4
  <2>5. state[k] = part[k]
    BY <2>2, <2>3, <2>4, Zenon
  <2> QED BY <2>1, <2>5, Zenon
<1> HIDE DEF Good
<1>5. \A k \in 0 .. n : k \in Good
  BY <1>0, <1>3, <1>4, Induction
<1>6. n \in Good
  BY <1>0, <1>5
<1>7. state[n] = part[n]
  BY <1>6, Zenon DEF Good
<1>8. state[n + 1] = Step(c, state[n], seq[n + 1])
  <2>1. n + 1 \in 1 .. n + 1 /\ (n + 1) - 1 = n
    BY <1>0
  <2>2. state[n + 1] = Step(c, state[(n + 1) - 1], seq[n + 1])
    BY <1>1, <2>1, Zenon DEF Folds
  <2> QED BY <2>1, <2>2, Zenon
<1> QED BY <1>1, <1>2, <1>7, <1>8, Zenon
=============================================================================
