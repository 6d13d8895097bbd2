---------------------------- MODULE MemoryProofs ----------------------------
(***************************************************************************)
(* What is proved of the memory, in two parts.                             *)
(*                                                                         *)
(* The parts of the threads for every number of threads and every extent:  *)
(* they lie in their arrays and share no element, for kernels whose        *)
(* threads share the first dimension.                                      *)
(*                                                                         *)
(* The theorems of LifecycleProofs, on what main allocates, frees, writes  *)
(* and loads, for the behaviours of MCMemory, where Lifecycle and          *)
(* StreamPartition stand side by side.                                     *)
(***************************************************************************)
EXTENDS MCMemory, FiniteSetTheorems, TLAPS

-----------------------------------------------------------------------------
(* Products and offsets of up to three dimensions.                         *)

LEMMA Modulo ==
  /\ Modulus \in Nat \ {0}
  /\ \A n \in Nat : Wrap(n) \in Nat /\ Wrap(n) <= n /\ Wrap(n) < Modulus
                    /\ (n < Modulus => Wrap(n) = n)
BY StreamPartitionAssumption DEF Wrap

LEMMA Products ==
  ASSUME NEW s
  PROVE  /\ Len(s) = 1 => Product(s) = Wrap(1 * s[1])
         /\ Len(s) = 2 => Product(s) = Wrap(Wrap(1 * s[1]) * s[2])
         /\ Len(s) = 3 => Product(s) = Wrap(Wrap(Wrap(1 * s[1]) * s[2]) * s[3])
<1> SUFFICES ASSUME Len(s) \in 1 .. 3
             PROVE  Product(s) = IF Len(s) = 1 THEN Wrap(1 * s[1])
                                 ELSE IF Len(s) = 2 THEN Wrap(Wrap(1 * s[1]) * s[2])
                                 ELSE Wrap(Wrap(Wrap(1 * s[1]) * s[2]) * s[3])
  OBVIOUS
<1> DEFINE total[d \in 0 .. Len(s)] == IF d = 0 THEN 1 ELSE Wrap(total[d - 1] * s[d])
           a == Wrap(1 * s[1])
           b == Wrap(a * s[2])
           c == Wrap(b * s[3])
           g == [d \in 0 .. Len(s) |-> IF d = 0 THEN 1 ELSE IF d = 1 THEN a
                                       ELSE IF d = 2 THEN b ELSE c]
<1>1. Product(s) = total[Len(s)]
  BY DEF Product
<1>2. g = [d \in 0 .. Len(s) |-> IF d = 0 THEN 1 ELSE Wrap(g[d - 1] * s[d])]
  OBVIOUS
<1>3. total = [d \in 0 .. Len(s) |-> IF d = 0 THEN 1 ELSE Wrap(total[d - 1] * s[d])]
  <2> HIDE DEF g
  <2> QED BY <1>2
<1> HIDE DEF total
<1>4. total[0] = 1 /\ total[1] = a
  BY <1>3
<1>5. Len(s) >= 2 => total[2] = b
  BY <1>3, <1>4
<1>6. Len(s) = 3 => total[3] = c
  BY <1>3, <1>5
<1>7. CASE Len(s) = 1
  BY <1>1, <1>4, <1>7
<1>8. CASE Len(s) = 2
  BY <1>1, <1>5, <1>8
<1>9. CASE Len(s) = 3
  BY <1>1, <1>6, <1>9
<1> QED BY <1>7, <1>8, <1>9

LEMMA Offsets ==
  ASSUME NEW i, NEW e
  PROVE  /\ Len(i) = 1 => _linear_offset(i, e) = 0 * e[1] + i[1]
         /\ Len(i) = 2 => _linear_offset(i, e) = (0 * e[1] + i[1]) * e[2] + i[2]
         /\ Len(i) = 3 =>
              _linear_offset(i, e) = ((0 * e[1] + i[1]) * e[2] + i[2]) * e[3] + i[3]
<1> SUFFICES ASSUME Len(i) \in 1 .. 3
             PROVE  _linear_offset(i, e) =
                      IF Len(i) = 1 THEN 0 * e[1] + i[1]
                      ELSE IF Len(i) = 2 THEN (0 * e[1] + i[1]) * e[2] + i[2]
                      ELSE ((0 * e[1] + i[1]) * e[2] + i[2]) * e[3] + i[3]
  OBVIOUS
<1> DEFINE off[d \in 0 .. Len(i)] == IF d = 0 THEN 0 ELSE off[d - 1] * e[d] + i[d]
           a == 0 * e[1] + i[1]
           b == a * e[2] + i[2]
           c == b * e[3] + i[3]
           g == [d \in 0 .. Len(i) |-> IF d = 0 THEN 0 ELSE IF d = 1 THEN a
                                       ELSE IF d = 2 THEN b ELSE c]
<1>1. _linear_offset(i, e) = off[Len(i)]
  BY DEF _linear_offset
<1>2. g = [d \in 0 .. Len(i) |-> IF d = 0 THEN 0 ELSE g[d - 1] * e[d] + i[d]]
  OBVIOUS
<1>3. off = [d \in 0 .. Len(i) |-> IF d = 0 THEN 0 ELSE off[d - 1] * e[d] + i[d]]
  <2> HIDE DEF g
  <2> QED BY <1>2
<1> HIDE DEF off
<1>4. off[0] = 0 /\ off[1] = a
  BY <1>3
<1>5. Len(i) >= 2 => off[2] = b
  BY <1>3, <1>4
<1>6. Len(i) = 3 => off[3] = c
  BY <1>3, <1>5
<1>7. CASE Len(i) = 1
  BY <1>1, <1>4, <1>7
<1>8. CASE Len(i) = 2
  BY <1>1, <1>5, <1>8
<1>9. CASE Len(i) = 3
  BY <1>1, <1>6, <1>9
<1> QED BY <1>7, <1>8, <1>9

\* The largest of up to three sizes is one of them.
LEMMA LargestSize ==
  ASSUME NEW n \in 1 .. 3, NEW f \in [1 .. n -> Int]
  PROVE  Max(Range(f)) \in Int
<1>1. Range(f) = {f[d] : d \in 1 .. n}
  BY DEF Range
<1>2. \E x \in Range(f) : \A y \in Range(f) : x >= y
  <2>1. CASE n = 1
    BY <1>1, <2>1
  <2>2. CASE n = 2
    BY <1>1, <2>2
  <2>3. CASE n = 3
    BY <1>1, <2>3
  <2> QED BY <2>1, <2>2, <2>3
<1>3. Max(Range(f)) \in Range(f)
  BY <1>2 DEF Max
<1> QED BY <1>1, <1>3

-----------------------------------------------------------------------------
(* Cuts to integers.                                                       *)

LEMMA Multiples ==
  ASSUME NEW n \in Nat \ {0}, NEW a \in Int, NEW b \in Int, n * a < n * b + n
  PROVE  a <= b
<1> SUFFICES ASSUME a > b PROVE FALSE
  OBVIOUS
<1> DEFINE k == a - b - 1
<1>1. k \in Nat /\ a = b + 1 + k
  OBVIOUS
<1> HIDE DEF k
<1>2. n * a = n * b + n + n * k
  BY <1>1
<1>3. n * k \in Nat
  BY <1>1
<1> QED BY <1>2, <1>3

LEMMA Remainder ==
  ASSUME NEW a \in Int, NEW n \in Int, n > 0
  PROVE  a - (a % n) = n * (a \div n)
BY SMTT(60)

LEMMA Division ==
  ASSUME NEW a \in Nat, NEW n \in Nat \ {0}
  PROVE  /\ a \div n \in Nat /\ a % n \in 0 .. n - 1
         /\ a = n * (a \div n) + (a % n)
<1>1. a - (a % n) = n * (a \div n)
  BY Remainder
<1>2. a % n \in 0 .. n - 1
  OBVIOUS
<1>3. a \div n \in Nat
  OBVIOUS
<1> DEFINE q == a \div n
           r == a % n
<1>4. q \in Nat /\ r \in 0 .. n - 1 /\ a - r = n * q
  BY <1>1, <1>2, <1>3
<1> HIDE DEF q, r
<1>5. a = n * q + r
  BY <1>4
<1> QED BY <1>4, <1>5 DEF q, r

LEMMA Larger ==
  ASSUME NEW m \in Nat, NEW t \in Nat, NEW u \in Nat, t < u
  PROVE  t * m + m <= u * m
<1> DEFINE k == u - t - 1
<1>1. k \in Nat /\ u = t + 1 + k
  OBVIOUS
<1> HIDE DEF k
<1>2. u * m = t * m + m + k * m
  BY <1>1
<1>3. k * m \in Nat
  BY <1>1
<1> QED BY <1>2, <1>3

\* Where threads t and u start, and what each of them gets: m elements cut
\* into n shares.
LEMMA CutsApart ==
  ASSUME NEW n \in Nat \ {0}, NEW m \in Nat, NEW t \in Nat, NEW u \in Nat, t < u
  PROVE  /\ (t * m) \div n + m \div n <= (u * m) \div n
         /\ (u * m) % n = 0 /\ m % n > 0 =>
              (t * m) \div n + m \div n <= (u * m) \div n - 1
<1> DEFINE a == m \div n
           b == m % n
           T == t * m
           U == u * m
           p == T \div n
           q == U \div n
           r == T % n
           s == U % n
<1>1. T \in Nat /\ U \in Nat /\ T + m <= U
  BY Larger
<1> HIDE DEF T, U
<1>2. a \in Nat /\ b \in 0 .. n - 1 /\ m = n * a + b
  BY Division
<1>3. p \in Nat /\ r \in 0 .. n - 1 /\ T = n * p + r
  BY <1>1, Division
<1>4. q \in Nat /\ s \in 0 .. n - 1 /\ U = n * q + s
  BY <1>1, Division
<1> HIDE DEF a, b, p, q, r, s
<1>5. n * (p + a) = n * p + n * a /\ n * (q - 1) = n * q - n
  BY <1>2, <1>3, <1>4
<1>6. n * p \in Nat /\ n * a \in Nat /\ n * q \in Nat
  BY <1>2, <1>3, <1>4
<1> DEFINE A == n * a
           P == n * p
           Q == n * q
<1>7. P + r + A + b <= Q + s
  BY <1>1, <1>2, <1>3, <1>4
<1>8. P + A < Q + n
  BY <1>2, <1>3, <1>4, <1>6, <1>7
<1>9. s = 0 /\ b > 0 => P + A < (Q - n) + n
  BY <1>2, <1>3, <1>4, <1>6, <1>7
<1> HIDE DEF A, P, Q
<1>10. n * (p + a) < n * q + n
  BY <1>5, <1>8 DEF A, P, Q
<1>11. p + a <= q
  BY <1>2, <1>3, <1>4, <1>10, Multiples
<1>12. ASSUME s = 0, b > 0 PROVE p + a <= q - 1
  <2>1. n * (p + a) < n * (q - 1) + n
    BY <1>5, <1>9, <1>12 DEF A, P, Q
  <2> QED BY <1>2, <1>3, <1>4, <2>1, Multiples
<1> QED BY <1>11, <1>12 DEF a, b, p, q, r, s, T, U

LEMMA WholeCut ==
  ASSUME NEW n \in Nat \ {0}, NEW m \in Nat
  PROVE  (n * m) \div n = m
<1> DEFINE q == (n * m) \div n
           r == (n * m) % n
<1>1. n * m \in Nat
  OBVIOUS
<1>2. q \in Nat /\ r \in 0 .. n - 1 /\ n * m = n * q + r
  BY <1>1, Division
<1> HIDE DEF q, r
<1>3. n * q \in Int /\ n * q < n * m + n /\ n * m < n * q + n
  BY <1>1, <1>2
<1>4. q <= m /\ m <= q
  BY <1>2, <1>3, Multiples
<1> QED BY <1>2, <1>4 DEF q

\* Where thread t may start and the next threads, for the two formulas that
\* cut the first dimension.
LEMMA StartsApart ==
  ASSUME NEW n \in Nat \ {0}, NEW m \in Nat, NEW t \in 0 .. n - 1, NEW u \in 0 .. n - 1, t < u,
         NEW f \in {"start", "next"},
         NEW x \in Formula(f, m, n, t), NEW y \in Formula(f, m, n, u)
  PROVE  x + m \div n <= y
<1>1. m \div n \in Nat
  BY Division
<1>2. CASE f = "start"
  <2> DEFINE a == m \div n
             b == m % n
             p == (t * m) \div n
             q == (u * m) \div n
             s == (u * m) % n
  <2>1. p + a <= q /\ (s = 0 /\ b > 0 => p + a <= q - 1)
    BY CutsApart
  <2>2. x \in {p, p - 1}
    BY <1>2 DEF Formula
  <2>3. y = q \/ (y = q - 1 /\ s = 0 /\ b > 0)
    BY <1>2 DEF Formula
  <2>4. t * m \in Nat /\ u * m \in Nat
    OBVIOUS
  <2>5. p \in Nat /\ q \in Nat /\ a \in Nat
    BY <1>1, <2>4, Division
  <2> HIDE DEF a, b, p, q, s
  <2>6. x + a <= y
    BY <2>1, <2>2, <2>3, <2>5
  <2> QED BY <2>6 DEF a
<1>3. CASE f = "next"
  <2>1. x = ((t + 1) * m) \div n /\ y = ((u + 1) * m) \div n
    BY <1>3 DEF Formula
  <2>2. t + 1 \in Nat /\ u + 1 \in Nat /\ t + 1 < u + 1
    OBVIOUS
  <2> QED BY <2>1, <2>2, CutsApart
<1> QED BY <1>2, <1>3

\* What the formulas give for thread t of n.
LEMMA Cuts ==
  ASSUME NEW n \in Nat \ {0}, NEW m \in Nat, NEW t \in 0 .. n - 1
  PROVE  /\ \A f \in Formulas : Formula(f, m, n, t) \subseteq Int
         /\ Formula("whole", m, n, t) = {m} /\ Formula("zero", m, n, t) = {0}
         /\ Formula("share", m, n, t) = {m \div n} /\ m \div n \in 0 .. m
         /\ \A x \in Formula("start", m, n, t) : x + m \div n <= m
         /\ \A x \in Formula("next", m, n, t) : x = m \/ x + m \div n <= m
<1> DEFINE a == m \div n
           p == (t * m) \div n
           q == ((t + 1) * m) \div n
<1>1. t * m \in Nat /\ (t + 1) * m \in Nat /\ t \in Nat /\ t + 1 \in Nat /\ t < n
  OBVIOUS
<1>2. a \in Nat /\ p \in Nat /\ q \in Nat
  BY <1>1, Division
<1>3. p + a <= m
  BY <1>1, CutsApart, WholeCut
<1>4. a <= m
  BY <1>2, <1>3
<1>5. q = m \/ q + a <= m
  <2>1. CASE t + 1 = n
    BY <2>1, WholeCut
  <2>2. CASE t + 1 < n
    BY <1>1, <2>2, CutsApart, WholeCut
  <2> QED BY <1>1, <2>1, <2>2
<1> HIDE DEF a, p, q
<1>6. /\ Formula("whole", m, n, t) = {m} /\ Formula("zero", m, n, t) = {0}
      /\ Formula("share", m, n, t) = {a} /\ Formula("next", m, n, t) = {q}
  BY DEF Formula, a, q
<1>7. Formula("start", m, n, t) \subseteq {p, p - 1}
  BY DEF Formula, p
<1>8. \A f \in Formulas : Formula(f, m, n, t) \subseteq Int
  BY <1>2, <1>6, <1>7 DEF Formulas
<1>9. \A x \in Formula("start", m, n, t) : x + a <= m
  BY <1>2, <1>3, <1>7
<1>10. \A x \in Formula("next", m, n, t) : x = m \/ x + a <= m
  BY <1>5, <1>6
<1> QED BY <1>2, <1>4, <1>6, <1>8, <1>9, <1>10 DEF a

LEMMA LeastOf ==
  ASSUME NEW R, NEW S \in SUBSET Nat, S # {}, IsWellFoundedOn(R, Nat),
         \A x \in Nat, y \in Nat : <<y, x>> \in R <=> y < x
  PROVE  \E x \in S : \A y \in S : ~ (y < x)
<1>1. \E x \in S : \A y \in S : ~ (<<y, x>> \in R)
  BY WFMin
<1> QED BY <1>1, Zenon

LEMMA LeastStream ==
  ASSUME NEW S \in SUBSET Nat, S # {}
  PROVE  Min(S) \in S
<1>1. \A x \in Nat, y \in Nat : <<y, x>> \in OpToRel(<, Nat) <=> y < x
  BY DEF OpToRel
<1>2. \E x \in S : \A y \in S : ~ (y < x)
  BY <1>1, NatLessThanWellFounded, LeastOf, Zenon
<1>3. \E x \in S : \A y \in S : x =< y
  BY <1>2
<1> QED BY <1>3 DEF Min

-----------------------------------------------------------------------------
(* Parts that are rows.                                                    *)

LEMMA Extents ==
  ASSUME NEW str, Typed(str), Allocatable(str)
  PROVE  /\ Len(str.dims) \in 1 .. 3
         /\ SizeOf[str.type] \in Nat \ {0}
         /\ Extent(str) \in [1 .. Len(str.dims) -> Nat]
         /\ \A d \in 1 .. Len(str.dims) : str.offsets[d] \in Nat
<1>1. Len(str.dims) \in 1 .. 3 /\ SizeOf[str.type] \in Nat \ {0}
  BY StreamPartitionAssumption DEF Typed, Allocatable
<1>2. \A d \in 1 .. Len(str.dims) : str.dims[d] \in Nat
  BY DEF Typed
<1>3. \A d \in 1 .. Len(str.dims) : str.dims[d] \div SizeOf[str.type] \in Nat
  BY <1>1, <1>2, Division
<1>4. \A d \in 1 .. Len(str.dims) : str.offsets[d] \in Nat
  BY <1>2 DEF Allocatable, Index
<1> QED BY <1>1, <1>3, <1>4 DEF Extent, Index

LEMMA PartOf ==
  ASSUME NEW k, k.threads \in Nat \ {0}, NEW t \in ThreadsOf(k), NEW s,
         Usual(k.streams[s]), Allocatable(k.streams[s]),
         NEW part \in Parts(k, t, s)
  PROVE  LET str == k.streams[s]
             n == Len(str.dims)
             e == Extent(str)
         IN  /\ part.sizes \in [1 .. n -> Int] /\ part.offsets \in [1 .. n -> Int]
             /\ part.start = _linear_offset(part.offsets, part.sizes)
             /\ part.sizes[1] \in Formula(str.sizes[1], e[1], k.threads, t)
             /\ part.offsets[1] \in Formula(str.toffsets[1], e[1], k.threads, t)
             /\ \A d \in 2 .. n : part.sizes[d] = e[d] /\ part.offsets[d] = 0
<1> DEFINE str == k.streams[s]
           n == Len(str.dims)
           e == Extent(str)
           Result(f, d) == Formula(f[d], e[d], k.threads, t)
           Results(f) == {r \in [Index(str.dims) -> UNION {Result(f, d) : d \in Index(str.dims)}] :
                            \A d \in Index(str.dims) : r[d] \in Result(f, d)}
<1>1. /\ n \in 1 .. 3 /\ e \in [1 .. n -> Nat] /\ Index(str.dims) = 1 .. n
      /\ k.threads \in Nat \ {0} /\ t \in 0 .. k.threads - 1
  BY Extents DEF Index, ThreadsOf, Usual
<1>2. PICK sizes \in Results(str.sizes), offsets \in Results(str.toffsets) :
        part = Part(sizes, offsets)
  <2>1. Parts(k, t, s) = {Part(sizes, offsets) :
                            sizes \in Results(str.sizes), offsets \in Results(str.toffsets)}
    BY DEF Parts
  <2> HIDE DEF Results, str
  <2> QED BY <2>1
<1>3. part.sizes = sizes /\ part.offsets = offsets
      /\ part.start = _linear_offset(part.offsets, part.sizes)
  BY <1>2 DEF Part
<1>4. /\ \A d \in 1 .. n : sizes[d] \in Formula(str.sizes[d], e[d], k.threads, t)
      /\ \A d \in 1 .. n : offsets[d] \in Formula(str.toffsets[d], e[d], k.threads, t)
      /\ sizes = [d \in 1 .. n |-> sizes[d]] /\ offsets = [d \in 1 .. n |-> offsets[d]]
  BY <1>1, <1>2
<1> HIDE DEF n, e, str
<1>5. \A d \in 2 .. n : sizes[d] = e[d] /\ offsets[d] = 0
  <2> SUFFICES ASSUME NEW d \in 2 .. n PROVE sizes[d] = e[d] /\ offsets[d] = 0
    OBVIOUS
  <2>1. d \in 1 .. n /\ e[d] \in Nat
    BY <1>1
  <2>2. str.sizes[d] = "whole" /\ str.toffsets[d] = "zero"
    BY DEF Usual, RowWise, str, n
  <2>3. sizes[d] \in Formula("whole", e[d], k.threads, t)
        /\ offsets[d] \in Formula("zero", e[d], k.threads, t)
    BY <1>4, <2>1, <2>2
  <2>4. Formula("whole", e[d], k.threads, t) = {e[d]}
        /\ Formula("zero", e[d], k.threads, t) = {0}
    BY DEF Formula
  <2> QED BY <2>3, <2>4
<1>6. sizes[1] \in Int /\ offsets[1] \in Int
  <2>1. str.sizes[1] \in Formulas /\ str.toffsets[1] \in Formulas
    BY DEF Usual, RowWise, str
  <2>2. 1 \in 1 .. n /\ e[1] \in Nat
    BY <1>1
  <2>3. /\ Formula(str.sizes[1], e[1], k.threads, t) \subseteq Int
        /\ Formula(str.toffsets[1], e[1], k.threads, t) \subseteq Int
    BY <1>1, <2>1, <2>2, Cuts
  <2> QED BY <1>4, <2>2, <2>3
<1>7. \A d \in 1 .. n : sizes[d] \in Int /\ offsets[d] \in Int
  <2> SUFFICES ASSUME NEW d \in 1 .. n PROVE sizes[d] \in Int /\ offsets[d] \in Int
    OBVIOUS
  <2>1. CASE d = 1
    BY <1>6, <2>1
  <2>2. CASE d \in 2 .. n
    BY <1>1, <1>5, <2>2
  <2> QED BY <1>1, <2>1, <2>2
<1>8. sizes \in [1 .. n -> Int] /\ offsets \in [1 .. n -> Int]
  BY <1>4, <1>7
<1>9. sizes[1] \in Formula(str.sizes[1], e[1], k.threads, t)
      /\ offsets[1] \in Formula(str.toffsets[1], e[1], k.threads, t)
  <2>1. 1 \in 1 .. n
    BY <1>1
  <2> QED BY <1>4, <2>1
<1> QED BY <1>3, <1>5, <1>8, <1>9 DEF n, e, str

LEMMA Scaled ==
  ASSUME NEW a \in Int, NEW b \in Int, a <= b, NEW c \in Nat
  PROVE  a * c <= b * c
<1> DEFINE k == b - a
<1>1. k \in Nat /\ b = a + k
  OBVIOUS
<1> HIDE DEF k
<1>2. b * c = a * c + k * c /\ k * c \in Nat
  BY <1>1
<1> QED BY <1>2

\* Three dimensions seen as rows.
LEMMA Cube ==
  ASSUME NEW w \in Int, NEW o \in Int, NEW a \in Nat, NEW b \in Nat, NEW c \in Nat,
         NEW q \in Nat, NEW r \in Nat, b < q, c < r
  PROVE  LET T == q * r
             j == b * r + c
         IN  /\ T \in Nat /\ j \in Nat /\ j < T
             /\ ((0 * w + o) * q + 0) * r + 0 = o * T
             /\ o * T + (((0 * w + a) * q + b) * r + c) = (o + a) * T + j
<1>1. q * r \in Nat /\ b * r \in Nat
  OBVIOUS
<1>2. (b + 1) * r <= q * r
  BY Scaled
<1>3. (b + 1) * r = b * r + r
  OBVIOUS
<1>4. b * r + c < q * r
  BY <1>1, <1>2, <1>3
<1>5. 0 * w + o = o /\ 0 * w + a = a
  OBVIOUS
<1>6. (o * q + 0) * r + 0 = o * (q * r)
  OBVIOUS
<1>7. (a * q + b) * r + c = a * (q * r) + (b * r + c)
  OBVIOUS
<1>8. o * (q * r) + (a * (q * r) + (b * r + c)) = (o + a) * (q * r) + (b * r + c)
  OBVIOUS
<1> QED BY <1>1, <1>4, <1>5, <1>6, <1>7, <1>8

\* An element of a part is in one of its rows.
LEMMA ElementOf ==
  ASSUME NEW n \in 1 .. 3, NEW part,
         part.sizes \in [1 .. n -> Int], part.offsets \in [1 .. n -> Int],
         part.start = _linear_offset(part.offsets, part.sizes),
         \A d \in 2 .. n : part.sizes[d] \in Nat /\ part.offsets[d] = 0,
         NEW x \in Elements(part)
  PROVE  LET T == RowLength(n, part.sizes)
         IN  /\ T \in Nat
             /\ \E i \in Nat, j \in Nat : /\ i < part.sizes[1] /\ j < T
                                          /\ x = (part.offsets[1] + i) * T + j
             /\ part.start = part.offsets[1] * T
<1> DEFINE s == part.sizes
           o == part.offsets
           M == Max(Range(s)) - 1
<1>1. Len(s) = n /\ Len(o) = n /\ M \in Int
  <2>1. Max(Range(s)) \in Int
    BY LargestSize
  <2> HIDE DEF s
  <2>2. M \in Int
    BY <2>1
  <2> QED BY <2>2 DEF s
<1>2. PICK i \in [1 .. n -> 0 .. M] : /\ \A d \in 1 .. n : i[d] < s[d]
                                      /\ x = part.start + _linear_offset(i, s)
  BY <1>1 DEF Elements
<1>3. \A d \in 1 .. n : i[d] \in Nat /\ i[d] < s[d] /\ s[d] \in Int /\ o[d] \in Int
  BY <1>1, <1>2
<1>4. Len(i) = n
  BY <1>2
<1> HIDE DEF s, o, M
<1>5. CASE n = 1
  <2>1. part.start = 0 * s[1] + o[1] /\ _linear_offset(i, s) = 0 * s[1] + i[1]
    BY <1>1, <1>4, <1>5, Offsets DEF s, o
  <2>2. i[1] \in Nat /\ i[1] < s[1] /\ s[1] \in Int /\ o[1] \in Int
    BY <1>3, <1>5
  <2>3. x = (o[1] + i[1]) * 1 + 0 /\ part.start = o[1] * 1
    BY <1>2, <2>1, <2>2
  <2> QED BY <1>5, <2>2, <2>3 DEF RowLength, s, o
<1>6. CASE n = 2
  <2>1. part.start = (0 * s[1] + o[1]) * s[2] + o[2]
        /\ _linear_offset(i, s) = (0 * s[1] + i[1]) * s[2] + i[2]
    BY <1>1, <1>4, <1>6, Offsets DEF s, o
  <2>2. /\ i[1] \in Nat /\ i[1] < s[1] /\ s[1] \in Int /\ o[1] \in Int
        /\ i[2] \in Nat /\ i[2] < s[2] /\ s[2] \in Nat /\ o[2] = 0
    BY <1>3, <1>6 DEF s, o
  <2>3. x = (o[1] + i[1]) * s[2] + i[2] /\ part.start = o[1] * s[2]
    BY SMTT(30), <1>2, <2>1, <2>2
  <2> QED BY <1>6, <2>2, <2>3 DEF RowLength, s, o
<1>7. CASE n = 3
  <2>1. part.start = ((0 * s[1] + o[1]) * s[2] + o[2]) * s[3] + o[3]
        /\ _linear_offset(i, s) = ((0 * s[1] + i[1]) * s[2] + i[2]) * s[3] + i[3]
    BY <1>1, <1>4, <1>7, Offsets DEF s, o
  <2>2. /\ i[1] \in Nat /\ i[1] < s[1] /\ s[1] \in Int /\ o[1] \in Int
        /\ i[2] \in Nat /\ i[2] < s[2] /\ s[2] \in Nat /\ o[2] = 0
        /\ i[3] \in Nat /\ i[3] < s[3] /\ s[3] \in Nat /\ o[3] = 0
    BY <1>3, <1>7 DEF s, o
  <2> DEFINE T == s[2] * s[3]
             j == i[2] * s[3] + i[3]
  <2>3. /\ T \in Nat /\ j \in Nat /\ j < T
        /\ part.start = o[1] * T
        /\ x = (o[1] + i[1]) * T + j
    <3>1. LET p == ((0 * s[1] + o[1]) * s[2] + 0) * s[3] + 0
              y == ((0 * s[1] + i[1]) * s[2] + i[2]) * s[3] + i[3]
          IN  T \in Nat /\ j \in Nat /\ j < T /\ p = o[1] * T
              /\ o[1] * T + y = (o[1] + i[1]) * T + j
      <4> DEFINE w == s[1]
                 u == o[1]
                 a == i[1]
                 b == i[2]
                 c == i[3]
                 q == s[2]
                 r == s[3]
      <4>1. /\ w \in Int /\ u \in Int /\ a \in Nat /\ b \in Nat /\ c \in Nat
            /\ q \in Nat /\ r \in Nat /\ b < q /\ c < r
        BY <2>2
      <4> HIDE DEF w, u, a, b, c, q, r
      <4>2. /\ q * r \in Nat /\ b * r + c \in Nat /\ b * r + c < q * r
            /\ ((0 * w + u) * q + 0) * r + 0 = u * (q * r)
            /\ u * (q * r) + (((0 * w + a) * q + b) * r + c) = (u + a) * (q * r) + (b * r + c)
        BY <4>1, Cube
      <4> QED BY <4>2 DEF w, u, a, b, c, q, r
    <3> HIDE DEF T, j
    <3>2. part.start = o[1] * T
      BY <2>1, <2>2, <3>1
    <3>3. x = o[1] * T + (((0 * s[1] + i[1]) * s[2] + i[2]) * s[3] + i[3])
      BY <1>2, <2>1, <3>2
    <3> QED BY <3>1, <3>2, <3>3
  <2>9. T = RowLength(n, s)
    BY <1>7 DEF RowLength
  <2> HIDE DEF T, j
  <2> QED BY <2>2, <2>3, <2>9 DEF s, o
<1> QED BY <1>5, <1>6, <1>7

-----------------------------------------------------------------------------
(* What holds between the steps.                                           *)

\* every array is the one of its stream, and there is one for every stream
ArraysInv ==
  /\ arrays \in Seq({Allocated(kernel.streams[s]) : s \in Nat})
  /\ \A s \in 1 .. Len(arrays) : /\ Allocatable(kernel.streams[s])
                                 /\ arrays[s] = Allocated(kernel.streams[s])
  /\ pc \in {"update", "validate", "run"} => Len(arrays) = Len(kernel.streams)

\* every thread has a part of every stream, a valid one once threads run
ChunkInv ==
  pc \in {"validate", "run"} =>
    /\ DOMAIN chunk = ThreadsOf(kernel) \X StreamsOf(kernel)
    /\ \A t \in ThreadsOf(kernel), s \in StreamsOf(kernel) :
         /\ chunk[<<t, s>>] \in Parts(kernel, t, s)
         /\ pc = "run" => Valid(kernel, chunk[<<t, s>>], s)

\* threads write in their own parts
WrittenInv ==
  /\ todo \in [ThreadsOf(kernel) -> SUBSET StreamsOf(kernel)]
  /\ written # {} => pc = "run"
  /\ \A x \in written : /\ x.stream \in StreamsOf(kernel) /\ x.thread \in ThreadsOf(kernel)
                        /\ x.element \in Elements(chunk[<<x.thread, x.stream>>])

PartsInv == kernel \in Kernels /\ ArraysInv /\ ChunkInv /\ WrittenInv

LEMMA PartsStep ==
  ASSUME Listed, PartsInv, [Next]_vars
  PROVE  PartsInv'
<1> USE DEF PartsInv
<1>1. CASE allocate_arrays
  <2>1. /\ UNCHANGED <<kernel, chunk, written, todo>>
        /\ pc = "allocate" /\ pc' \in {"allocate", "update", "refused"}
    BY <1>1 DEF allocate_arrays
  <2>2. CASE UNCHANGED arrays /\ pc' = "refused"
    BY <2>1, <2>2 DEF ArraysInv, ChunkInv, WrittenInv
  <2>3. CASE ~ (UNCHANGED arrays /\ pc' = "refused")
    <3> DEFINE s == kernel.streams[Len(arrays) + 1]
               V == {Allocated(kernel.streams[i]) : i \in Nat}
               v == Allocated(s)
    <3>1. Allocatable(s) /\ arrays' = Append(arrays, v)
          /\ pc' = IF Len(arrays') = Len(kernel.streams) THEN "update" ELSE pc
      BY <1>1, <2>3 DEF allocate_arrays
    <3>2. arrays \in Seq(V) /\ Len(arrays) \in Nat
      BY DEF ArraysInv
    <3>3. v \in V
      BY <3>2
    <3> HIDE DEF V, v
    <3>4. /\ arrays' \in Seq(V) /\ Len(arrays') = Len(arrays) + 1
          /\ arrays'[Len(arrays) + 1] = v
          /\ \A i \in 1 .. Len(arrays) : arrays'[i] = arrays[i]
      BY <3>1, <3>2, <3>3
    <3>5. \A i \in 1 .. Len(arrays') : /\ Allocatable(kernel.streams[i])
                                       /\ arrays'[i] = Allocated(kernel.streams[i])
      BY <3>1, <3>2, <3>4 DEF ArraysInv, v
    <3>6. pc' \in {"update", "validate", "run"} => Len(arrays') = Len(kernel.streams)
      BY <2>1, <3>1
    <3>7. ArraysInv'
      BY <2>1, <3>4, <3>5, <3>6 DEF ArraysInv, V
    <3>8. pc' \notin {"validate", "run"}
      BY <2>1
    <3> QED BY <2>1, <3>7, <3>8 DEF ChunkInv, WrittenInv
  <2> QED BY <2>2, <2>3
<1>2. CASE update_threads
  <2>1. /\ UNCHANGED <<kernel, arrays, written, todo>>
        /\ pc = "update" /\ pc' = "validate"
    BY <1>2 DEF update_threads
  <2>2. ArraysInv' /\ WrittenInv'
    BY <2>1 DEF ArraysInv, WrittenInv
  <2>3. /\ DOMAIN chunk' = ThreadsOf(kernel) \X StreamsOf(kernel)
        /\ \A x \in DOMAIN chunk' : chunk'[x] \in Parts(kernel, x[1], x[2])
    BY <1>2 DEF update_threads
  <2>4. \A t \in ThreadsOf(kernel), s \in StreamsOf(kernel) :
          chunk'[<<t, s>>] \in Parts(kernel, t, s)
    <3> SUFFICES ASSUME NEW t \in ThreadsOf(kernel), NEW s \in StreamsOf(kernel)
                 PROVE  chunk'[<<t, s>>] \in Parts(kernel, t, s)
      OBVIOUS
    <3>1. <<t, s>> \in DOMAIN chunk'
      BY <2>3
    <3> QED BY <2>3, <3>1
  <2> QED BY <2>1, <2>2, <2>3, <2>4 DEF ChunkInv
<1>3. CASE validate
  <2>1. /\ UNCHANGED <<kernel, arrays, chunk, written, todo>>
        /\ pc = "validate" /\ pc' \in {"run", "refused"}
    BY <1>3 DEF validate
  <2>2. ArraysInv' /\ WrittenInv'
    BY <2>1 DEF ArraysInv, WrittenInv
  <2>3. /\ DOMAIN chunk = ThreadsOf(kernel) \X StreamsOf(kernel)
        /\ \A t \in ThreadsOf(kernel), s \in StreamsOf(kernel) :
             chunk[<<t, s>>] \in Parts(kernel, t, s)
    BY <2>1 DEF ChunkInv
  <2>4. ASSUME pc' = "run", NEW t \in ThreadsOf(kernel), NEW s \in StreamsOf(kernel)
        PROVE  Valid(kernel, chunk[<<t, s>>], s)
    <3>1. \A x \in DOMAIN chunk : Valid(kernel, chunk[x], x[2])
      BY <1>3, <2>4 DEF validate
    <3>2. <<t, s>> \in DOMAIN chunk
      BY <2>3
    <3> QED BY <3>1, <3>2
  <2>5. ChunkInv'
    <3>1. \A t \in ThreadsOf(kernel), s \in StreamsOf(kernel) :
            pc' = "run" => Valid(kernel, chunk[<<t, s>>], s)
      BY <2>4
    <3>2. ThreadsOf(kernel)' = ThreadsOf(kernel) /\ StreamsOf(kernel)' = StreamsOf(kernel)
      BY <2>1
    <3> QED BY <2>1, <2>3, <3>1, <3>2 DEF ChunkInv
  <2> QED BY <2>1, <2>2, <2>5
<1>4. ASSUME NEW t \in ThreadsOf(kernel), initialize_local(t)
      PROVE  PartsInv'
  <2> DEFINE s == Min(todo[t])
             E == Elements(chunk[<<t, s>>])
  <2>1. /\ UNCHANGED <<kernel, arrays, chunk, pc>> /\ pc = "run" /\ todo[t] # {}
        /\ written' = written \cup {[stream |-> s, thread |-> t, element |-> e] : e \in E}
        /\ todo' = [todo EXCEPT ![t] = @ \ {s}]
    BY <1>4 DEF initialize_local
  <2>2. s \in StreamsOf(kernel)
    <3>1. todo[t] \subseteq StreamsOf(kernel)
      BY DEF WrittenInv
    <3>2. todo[t] \in SUBSET Nat
      BY <3>1 DEF Listed, StreamsOf, Index
    <3>3. s \in todo[t]
      BY <2>1, <3>2, LeastStream
    <3> QED BY <3>1, <3>3
  <2>3. ArraysInv' /\ ChunkInv'
    BY <2>1 DEF ArraysInv, ChunkInv
  <2> HIDE DEF s
  <2>4. todo' \in [ThreadsOf(kernel) -> SUBSET StreamsOf(kernel)]
    BY <2>1 DEF WrittenInv
  <2>5. \A x \in written' : /\ x.stream \in StreamsOf(kernel) /\ x.thread \in ThreadsOf(kernel)
                            /\ x.element \in Elements(chunk[<<x.thread, x.stream>>])
    <3> SUFFICES ASSUME NEW x \in written'
                 PROVE  /\ x.stream \in StreamsOf(kernel) /\ x.thread \in ThreadsOf(kernel)
                        /\ x.element \in Elements(chunk[<<x.thread, x.stream>>])
      OBVIOUS
    <3>1. CASE x \in written
      BY <3>1 DEF WrittenInv
    <3>2. CASE x \in {[stream |-> s, thread |-> t, element |-> e] : e \in E}
      <4>1. x.stream = s /\ x.thread = t /\ x.element \in E
        BY <3>2
      <4> QED BY <2>2, <4>1
    <3> QED BY <2>1, <3>1, <3>2
  <2> QED BY <2>1, <2>3, <2>4, <2>5 DEF WrittenInv
<1>5. CASE UNCHANGED vars
  BY <1>5 DEF vars, ArraysInv, ChunkInv, WrittenInv
<1> QED BY <1>1, <1>2, <1>3, <1>4, <1>5 DEF Next, Ended

LEMMA PartsKept ==
  ASSUME Listed
  PROVE  Spec => []PartsInv
<1>1. Init => PartsInv
  BY DEF Init, PartsInv, ArraysInv, ChunkInv, WrittenInv
<1>2. PartsInv /\ [Next]_vars => PartsInv'
  BY PartsStep
<1> QED BY <1>1, <1>2, PTL DEF Spec

-----------------------------------------------------------------------------
(* No element is written by two threads.                                   *)

\* An element is in one row.
LEMMA OneRow ==
  ASSUME NEW T \in Nat, NEW a \in Int, NEW b \in Int, NEW i \in Nat, NEW j \in Nat,
         i < T, j < T, a * T + i = b * T + j
  PROVE  a = b
<1>1. T * a = a * T /\ T * b = b * T /\ T * a \in Int /\ T * b \in Int
  OBVIOUS
<1>2. T * a < T * b + T /\ T * b < T * a + T
  <2> DEFINE A == T * a
             B == T * b
  <2>1. A \in Int /\ B \in Int /\ A + i = B + j
    BY <1>1
  <2> HIDE DEF A, B
  <2>2. A < B + T /\ B < A + T
    BY <2>1
  <2> QED BY <2>2 DEF A, B
<1> QED BY <1>2, Multiples

LEMMA NoneShared ==
  ASSUME NEW k, Shares(k), NEW s \in StreamsOf(k), Allocatable(k.streams[s]),
         NEW t \in ThreadsOf(k), NEW u \in ThreadsOf(k), t < u,
         NEW p \in Parts(k, t, s), NEW r \in Parts(k, u, s),
         NEW x \in Elements(p), x \in Elements(r)
  PROVE  FALSE
<1> DEFINE str == k.streams[s]
           n == Len(str.dims)
           e == Extent(str)
           T == RowLength(n, p.sizes)
           h == e[1] \div k.threads
<1>1. /\ Usual(str) /\ k.threads \in Nat \ {0} /\ k.threads > 1
      /\ str.sizes[1] = "share" /\ str.toffsets[1] \in {"start", "next"}
      /\ t \in 0 .. k.threads - 1 /\ u \in 0 .. k.threads - 1
  BY DEF Shares, ThreadsOf
<1>2. n \in 1 .. 3 /\ e \in [1 .. n -> Nat]
  BY <1>1, Extents DEF Usual
<1>3. /\ p.sizes \in [1 .. n -> Int] /\ p.offsets \in [1 .. n -> Int]
      /\ p.start = _linear_offset(p.offsets, p.sizes)
      /\ p.sizes[1] \in Formula("share", e[1], k.threads, t)
      /\ p.offsets[1] \in Formula(str.toffsets[1], e[1], k.threads, t)
      /\ \A d \in 2 .. n : p.sizes[d] = e[d] /\ p.offsets[d] = 0
  BY <1>1, PartOf
<1>4. /\ r.sizes \in [1 .. n -> Int] /\ r.offsets \in [1 .. n -> Int]
      /\ r.start = _linear_offset(r.offsets, r.sizes)
      /\ r.sizes[1] \in Formula("share", e[1], k.threads, u)
      /\ r.offsets[1] \in Formula(str.toffsets[1], e[1], k.threads, u)
      /\ \A d \in 2 .. n : r.sizes[d] = e[d] /\ r.offsets[d] = 0
  BY <1>1, PartOf
<1> HIDE DEF str, n, e
<1>5. \A d \in 2 .. n : e[d] \in Nat
  BY <1>2
<1>6. RowLength(n, r.sizes) = T
  <2>1. \A d \in 2 .. n : p.sizes[d] = r.sizes[d]
    BY <1>3, <1>4
  <2>2. CASE n = 1
    BY <2>2 DEF RowLength
  <2>3. CASE n = 2
    BY <2>1, <2>3 DEF RowLength
  <2>4. CASE n = 3
    BY <2>1, <2>4 DEF RowLength
  <2> QED BY <1>2, <2>2, <2>3, <2>4
<1>7. /\ T \in Nat
      /\ \E i \in Nat, j \in Nat : i < p.sizes[1] /\ j < T /\ x = (p.offsets[1] + i) * T + j
  <2>1. \A d \in 2 .. n : p.sizes[d] \in Nat /\ p.offsets[d] = 0
    BY <1>3, <1>5
  <2> QED BY <1>2, <1>3, <2>1, ElementOf
<1>8. \E i \in Nat, j \in Nat : i < r.sizes[1] /\ j < T /\ x = (r.offsets[1] + i) * T + j
  <2>1. \A d \in 2 .. n : r.sizes[d] \in Nat /\ r.offsets[d] = 0
    BY <1>4, <1>5
  <2>2. LET U == RowLength(n, r.sizes)
        IN  \E i \in Nat, j \in Nat : i < r.sizes[1] /\ j < U /\ x = (r.offsets[1] + i) * U + j
    BY <1>2, <1>4, <2>1, ElementOf
  <2> QED BY <1>6, <2>2
<1> HIDE DEF T
<1>9. PICK i \in Nat, j \in Nat : i < p.sizes[1] /\ j < T /\ x = (p.offsets[1] + i) * T + j
  BY <1>7
<1>10. PICK a \in Nat, b \in Nat : a < r.sizes[1] /\ b < T /\ x = (r.offsets[1] + a) * T + b
  BY <1>8
<1>11. p.sizes[1] \in Int /\ p.offsets[1] \in Int /\ r.offsets[1] \in Int /\ e[1] \in Nat
  <2>1. 1 \in 1 .. n
    BY <1>2
  <2> QED BY <1>2, <1>3, <1>4, <2>1
<1>12. p.offsets[1] + i = r.offsets[1] + a
  <2> DEFINE v == p.offsets[1] + i
             w == r.offsets[1] + a
  <2>1. v \in Int /\ w \in Int /\ v * T + j = w * T + b
    BY <1>9, <1>10, <1>11
  <2> HIDE DEF v, w
  <2>2. v = w
    BY <1>7, <1>9, <1>10, <2>1, OneRow
  <2> QED BY <2>2 DEF v, w
<1>13. p.sizes[1] = h
  BY <1>3 DEF Formula
<1>14. p.offsets[1] + h <= r.offsets[1]
  BY <1>1, <1>3, <1>4, <1>11, StartsApart
<1> HIDE DEF h
<1> QED BY <1>9, <1>10, <1>11, <1>12, <1>13, <1>14

\* No two threads write the same element of a stream, whatever the extents
\* and the number of threads, when each kernel's threads share the first
\* dimension in consecutive parts (update_threads, INIT_ARRAY).
THEOREM SharesNothing ==
  ASSUME Listed, \A k \in Kernels : Shares(k)
  PROVE  Spec => []Disjoint
<1>1. PartsInv => Disjoint
  <2> SUFFICES ASSUME PartsInv, NEW x \in written, NEW y \in written,
                      x.stream = y.stream, x.element = y.element, x.thread # y.thread
               PROVE  FALSE
    BY DEF Disjoint
  <2> DEFINE s == x.stream
             t == x.thread
             u == y.thread
             p == chunk[<<t, s>>]
             r == chunk[<<u, s>>]
  <2>1. /\ s \in StreamsOf(kernel) /\ t \in ThreadsOf(kernel) /\ u \in ThreadsOf(kernel)
        /\ x.element \in Elements(p) /\ x.element \in Elements(r) /\ pc = "run"
    BY DEF PartsInv, WrittenInv
  <2>2. p \in Parts(kernel, t, s) /\ r \in Parts(kernel, u, s)
    BY <2>1 DEF PartsInv, ChunkInv
  <2>3. Allocatable(kernel.streams[s])
    BY <2>1 DEF PartsInv, ArraysInv, StreamsOf, Index
  <2>4. Shares(kernel)
    BY DEF PartsInv
  <2>5. t \in Int /\ u \in Int /\ t # u
    BY <2>1, <2>4 DEF ThreadsOf, Shares
  <2> HIDE DEF s, t, u, p, r
  <2>6. CASE t < u
    BY <2>1, <2>2, <2>3, <2>4, <2>6, NoneShared
  <2>7. CASE u < t
    BY <2>1, <2>2, <2>3, <2>4, <2>7, NoneShared
  <2> QED BY <2>5, <2>6, <2>7
<1> QED BY <1>1, PartsKept, PTL

-----------------------------------------------------------------------------
(* No thread writes outside an array.                                      *)

LEMMA RowLengths ==
  ASSUME NEW n \in 1 .. 3, NEW f, \A d \in 2 .. n : f[d] \in Nat \ {0}
  PROVE  RowLength(n, f) \in Nat \ {0}
<1>1. CASE n = 1
  BY <1>1 DEF RowLength
<1>2. CASE n = 2
  BY <1>2 DEF RowLength
<1>3. CASE n = 3
  <2> DEFINE a == f[2]
             b == f[3]
  <2>1. a \in Nat \ {0} /\ b \in Nat \ {0}
    BY <1>3
  <2>2. RowLength(n, f) = a * b
    BY <1>3 DEF RowLength
  <2> HIDE DEF a, b
  <2>3. a * b \in Nat \ {0}
    BY <2>1
  <2> QED BY <2>2, <2>3
<1> QED BY <1>1, <1>2, <1>3

LEMMA Grows ==
  ASSUME NEW a \in Nat, NEW b \in Nat \ {0}
  PROVE  a <= a * b /\ a * b \in Nat
<1>1. 1 <= b
  OBVIOUS
<1>2. 1 * a <= b * a
  BY <1>1, Scaled
<1>3. 1 * a = a /\ b * a = a * b /\ a * b \in Nat
  OBVIOUS
<1> QED BY <1>2, <1>3

\* What is less than Modulus is computed exactly.
LEMMA Exact ==
  ASSUME NEW n \in 1 .. 3, NEW s, Len(s) = n, s[1] \in Nat,
         \A d \in 2 .. n : s[d] \in Nat \ {0}, Volume(n, s) < Modulus
  PROVE  Product(s) = Volume(n, s)
<1>1. CASE n = 1
  <2>1. Volume(n, s) = s[1]
    BY <1>1 DEF Volume, RowLength
  <2>2. Product(s) = Wrap(s[1])
    BY <1>1, Products
  <2> QED BY <2>1, <2>2, Modulo
<1>2. CASE n = 2
  <2> DEFINE a == s[1]
             b == s[2]
  <2>1. a \in Nat /\ b \in Nat \ {0}
    BY <1>2
  <2>2. Volume(n, s) = a * b
    BY <1>2 DEF Volume, RowLength
  <2>3. Product(s) = Wrap(Wrap(a) * b)
    <3>1. Product(s) = Wrap(Wrap(1 * a) * b)
      BY <1>2, Products
    <3>2. 1 * a = a
      BY <2>1
    <3> QED BY <3>1, <3>2
  <2> HIDE DEF a, b
  <2>4. a <= a * b /\ a * b \in Nat
    BY <2>1, Grows
  <2>5. a * b < Modulus /\ a < Modulus
    BY <2>1, <2>2, <2>4, Modulo
  <2> QED BY <2>1, <2>2, <2>3, <2>4, <2>5, Modulo
<1>3. CASE n = 3
  <2> DEFINE a == s[1]
             b == s[2]
             c == s[3]
  <2>1. a \in Nat /\ b \in Nat \ {0} /\ c \in Nat \ {0}
    BY <1>3
  <2>2. Volume(n, s) = a * (b * c)
    BY <1>3 DEF Volume, RowLength
  <2>3. Product(s) = Wrap(Wrap(Wrap(a) * b) * c)
    <3>1. Product(s) = Wrap(Wrap(Wrap(1 * a) * b) * c)
      BY <1>3, Products
    <3>2. 1 * a = a
      BY <2>1
    <3> QED BY <3>1, <3>2
  <2> HIDE DEF a, b, c
  <2>4. a <= a * b /\ a * b \in Nat
    BY <2>1, Grows
  <2>5. a * b <= (a * b) * c /\ (a * b) * c \in Nat
    BY <2>1, <2>4, Grows
  <2>6. a * (b * c) = (a * b) * c
    BY <2>1
  <2> DEFINE v == a * b
             w == v * c
  <2>7. v \in Nat /\ w \in Nat /\ a < Modulus /\ v < Modulus /\ w < Modulus
    BY SMTT(30), <2>1, <2>2, <2>4, <2>5, <2>6, Modulo
  <2>8. Wrap(a) = a /\ Wrap(v) = v /\ Wrap(w) = w
    <3> HIDE DEF v, w
    <3> QED BY <2>1, <2>7, Modulo
  <2> QED BY <2>2, <2>3, <2>6, <2>8
<1> QED BY <1>1, <1>2, <1>3

\* Room for the extents behind the offsets.
LEMMA Square ==
  ASSUME NEW m \in Nat \ {0}, NEW q \in Nat, NEW a \in Nat, NEW b \in Nat
  PROVE  (0 * (m + a) + a) * (q + b) + b + m * q <= (m + a) * (q + b)
<1> DEFINE k == m - 1
<1>1. k \in Nat /\ m = k + 1
  OBVIOUS
<1> HIDE DEF k
<1>2. (m + a) * (q + b) = a * (q + b) + b + m * q + k * b
  BY <1>1
<1>3. k * b \in Nat /\ 0 * (m + a) + a = a
  BY <1>1
<1> QED BY <1>2, <1>3

LEMMA Box ==
  ASSUME NEW m \in Nat \ {0}, NEW q \in Nat \ {0}, NEW r \in Nat,
         NEW a \in Nat, NEW b \in Nat, NEW c \in Nat
  PROVE  ((0 * (m + a) + a) * (q + b) + b) * (r + c) + c + m * (q * r)
           <= (m + a) * ((q + b) * (r + c))
<1> DEFINE f == (0 * (m + a) + a) * (q + b) + b
           g == (m + a) * (q + b)
           v == m * q
<1>1. f + v <= g /\ f \in Nat /\ g \in Nat
  BY Square
<1>2. v \in Nat \ {0}
  OBVIOUS
<1>3. (m + a) * ((q + b) * (r + c)) = g * (r + c) /\ m * (q * r) = v * r
  OBVIOUS
<1> HIDE DEF f, g, v
<1>4. (f + v) * (r + c) <= g * (r + c)
  BY <1>1, <1>2, Scaled
<1>5. (f + v) * (r + c) = f * (r + c) + v * r + c * v
  BY <1>1, <1>2
<1>6. c <= c * v /\ c * v \in Nat
  BY <1>2, Grows
<1> DEFINE A == f * (r + c)
           B == v * r
           C == g * (r + c)
           D == c * v
<1>7. A \in Nat /\ B \in Nat /\ C \in Nat /\ D \in Nat /\ c <= D /\ A + B + D <= C
  BY <1>1, <1>2, <1>4, <1>5, <1>6
<1> HIDE DEF A, B, C, D
<1>8. A + c + B <= C
  BY <1>7
<1> QED BY <1>3, <1>8 DEF A, B, C, f

LEMMA Room ==
  ASSUME NEW n \in 1 .. 3, NEW e, NEW f, NEW P, Len(f) = n,
         \A d \in 1 .. n : e[d] \in Nat /\ f[d] \in Nat /\ P[d] = e[d] + f[d],
         n > 1 => \A d \in 1 .. n : e[d] # 0
  PROVE  /\ Volume(n, e) \in Nat /\ Volume(n, P) \in Nat /\ _linear_offset(f, P) \in Nat
         /\ _linear_offset(f, P) + Volume(n, e) <= Volume(n, P)
<1>1. CASE n = 1
  <2> DEFINE m == e[1]
             a == f[1]
  <2>1. m \in Nat /\ a \in Nat /\ P[1] = m + a
    BY <1>1
  <2>2. _linear_offset(f, P) = 0 * P[1] + a
    BY <1>1, Offsets
  <2>3. Volume(n, e) = m * 1 /\ Volume(n, P) = P[1] * 1
    BY <1>1 DEF Volume, RowLength
  <2> HIDE DEF m, a
  <2> QED BY <2>1, <2>2, <2>3
<1>2. CASE n = 2
  <2> DEFINE m == e[1]
             q == e[2]
             a == f[1]
             b == f[2]
  <2>1. /\ m \in Nat \ {0} /\ q \in Nat \ {0} /\ a \in Nat /\ b \in Nat
        /\ P[1] = m + a /\ P[2] = q + b
    BY <1>2
  <2>2. _linear_offset(f, P) = (0 * P[1] + a) * P[2] + b
    BY <1>2, Offsets
  <2>3. Volume(n, e) = m * q /\ Volume(n, P) = P[1] * P[2]
    BY <1>2 DEF Volume, RowLength
  <2> HIDE DEF m, q, a, b
  <2>4. _linear_offset(f, P) = (0 * (m + a) + a) * (q + b) + b
        /\ Volume(n, P) = (m + a) * (q + b)
    BY <2>1, <2>2, <2>3
  <2>5. m * q \in Nat /\ (m + a) * (q + b) \in Nat
        /\ (0 * (m + a) + a) * (q + b) + b \in Nat
    BY <2>1
  <2>6. (0 * (m + a) + a) * (q + b) + b + m * q <= (m + a) * (q + b)
    BY <2>1, Square
  <2> QED BY <2>3, <2>4, <2>5, <2>6
<1>3. CASE n = 3
  <2> DEFINE m == e[1]
             q == e[2]
             r == e[3]
             a == f[1]
             b == f[2]
             c == f[3]
  <2>1. /\ m \in Nat \ {0} /\ q \in Nat \ {0} /\ r \in Nat \ {0}
        /\ a \in Nat /\ b \in Nat /\ c \in Nat
        /\ P[1] = m + a /\ P[2] = q + b /\ P[3] = r + c
    BY <1>3
  <2>2. _linear_offset(f, P) = ((0 * P[1] + a) * P[2] + b) * P[3] + c
    BY <1>3, Offsets
  <2>3. Volume(n, e) = m * (q * r) /\ Volume(n, P) = P[1] * (P[2] * P[3])
    BY <1>3 DEF Volume, RowLength
  <2> HIDE DEF m, q, r, a, b, c
  <2> DEFINE h == ((0 * (m + a) + a) * (q + b) + b) * (r + c) + c
             v == m * (q * r)
             w == (m + a) * ((q + b) * (r + c))
  <2>4. _linear_offset(f, P) = h /\ Volume(n, P) = w /\ Volume(n, e) = v
    BY <2>1, <2>2, <2>3
  <2>5. v \in Nat /\ w \in Nat
    BY <2>1
  <2>6. h \in Nat
    <3>1. 0 * (m + a) + a = a
      BY <2>1
    <3>2. a * (q + b) + b \in Nat
      BY <2>1
    <3> DEFINE g == a * (q + b) + b
    <3> HIDE DEF g
    <3>3. g * (r + c) + c \in Nat
      BY <2>1, <3>2 DEF g
    <3> QED BY <3>1, <3>3 DEF g
  <2>7. h + v <= w
    BY <2>1, Box
  <2> HIDE DEF h, v, w
  <2> QED BY <2>4, <2>5, <2>6, <2>7
<1> QED BY <1>1, <1>2, <1>3

\* A part that begins in the array ends in it.
LEMMA RowsEnd ==
  ASSUME NEW n \in Nat \ {0}, NEW m \in Nat, NEW t \in 0 .. n - 1, NEW T \in Nat,
         NEW fs, NEW fo, <<fs, fo>> \in Pairs,
         NEW w \in Formula(fs, m, n, t), NEW o \in Formula(fo, m, n, t),
         w # 0, o * T + w <= m * T
  PROVE  o + w <= m
<1>1. CASE fs = "whole" /\ fo = "zero"
  <2>1. w = m /\ o = 0
    BY <1>1, Cuts
  <2> QED BY <2>1
<1>2. CASE fs = "share" /\ fo \in {"start", "next", "zero"}
  <2> DEFINE h == m \div n
  <2>1. /\ Formula("share", m, n, t) = {h} /\ h \in 0 .. m
        /\ Formula("zero", m, n, t) = {0}
        /\ \A x \in Formula("start", m, n, t) : x + h <= m
        /\ \A x \in Formula("next", m, n, t) : x = m \/ x + h <= m
    BY Cuts
  <2>2. w = h
    BY <1>2, <2>1
  <2> HIDE DEF h
  <2>3. CASE fo = "start"
    BY <2>1, <2>2, <2>3
  <2>4. CASE fo = "zero"
    BY <2>1, <2>2, <2>4
  <2>5. CASE fo = "next"
    <3>1. o # m
      <4> SUFFICES ASSUME o = m PROVE FALSE
        OBVIOUS
      <4>1. m * T \in Nat /\ m * T + w <= m * T /\ w \in Nat \ {0}
        BY <2>1, <2>2
      <4> QED BY <4>1
    <3> QED BY <2>1, <2>2, <2>5, <3>1
  <2> QED BY <1>2, <2>3, <2>4, <2>5
<1>3. (fs = "whole" /\ fo = "zero") \/ (fs = "share" /\ fo \in {"start", "next", "zero"})
  BY DEF Pairs
<1> QED BY <1>1, <1>2, <1>3

\* the row of an element in an array of n dimensions
LEMMA Ends ==
  ASSUME NEW m \in Nat, NEW T \in Nat, NEW o \in Int, NEW w \in Int, o + w <= m,
         NEW i \in Nat, i < w, NEW j \in Nat, j < T
  PROVE  (o + i) * T + j + 1 <= m * T
<1>1. (o + i + 1) * T <= m * T
  BY Scaled
<1>2. (o + i + 1) * T = (o + i) * T + T
  OBVIOUS
<1> DEFINE A == (o + i) * T
           B == m * T
<1>3. A \in Int /\ B \in Int /\ A + T <= B
  BY <1>1, <1>2
<1> HIDE DEF A, B
<1>4. A + j + 1 <= B
  BY <1>3
<1> QED BY <1>4 DEF A, B

\* Bytes and elements.
LEMMA Smaller ==
  ASSUME NEW a \in Int, NEW b \in Int, NEW z \in Nat \ {0}, a * z <= b * z
  PROVE  a <= b
<1>1. z * a = a * z /\ z * b = b * z /\ z * a \in Int /\ z * b \in Int
  OBVIOUS
<1> DEFINE A == z * a
           B == z * b
<1>2. A \in Int /\ B \in Int /\ A <= B
  BY <1>1
<1> HIDE DEF A, B
<1>3. A < B + z
  BY <1>2
<1> QED BY <1>3, Multiples DEF A, B

LEMMA Stays ==
  ASSUME NEW k, k.threads \in Nat \ {0}, NEW t \in ThreadsOf(k), NEW s,
         Confined(k.streams[s]), Allocatable(k.streams[s]),
         NEW part \in Parts(k, t, s), Valid(k, part, s), NEW x \in Elements(part)
  PROVE  LET str == k.streams[s]
         IN  (Allocated(str).ptr + x + 1) * SizeOf[str.type] <= Allocated(str).bytes
<1> DEFINE str == k.streams[s]
           n == Len(str.dims)
           e == Extent(str)
           P == Padded(str)
           f == str.offsets
           z == SizeOf[str.type]
           V == Volume(n, e)
           W == Volume(n, P)
           T == RowLength(n, part.sizes)
           w == part.sizes[1]
           o == part.offsets[1]
           ptr == _linear_offset(f, P)
           st == part.start
<1>1. /\ Usual(str) /\ Len(f) = n /\ W * z < Modulus
      /\ n > 1 => <<str.sizes[1], str.toffsets[1]>> \in Pairs
      /\ k.threads \in Nat \ {0} /\ t \in 0 .. k.threads - 1
  BY DEF Confined, ThreadsOf
<1>2. /\ n \in 1 .. 3 /\ z \in Nat \ {0} /\ e \in [1 .. n -> Nat]
      /\ \A d \in 1 .. n : f[d] \in Nat
  BY <1>1, Extents DEF Usual
<1>3. /\ part.sizes \in [1 .. n -> Int] /\ part.offsets \in [1 .. n -> Int]
      /\ st = _linear_offset(part.offsets, part.sizes)
      /\ w \in Formula(str.sizes[1], e[1], k.threads, t)
      /\ o \in Formula(str.toffsets[1], e[1], k.threads, t)
      /\ \A d \in 2 .. n : part.sizes[d] = e[d] /\ part.offsets[d] = 0
  BY <1>1, PartOf
<1>4. /\ Index(str.dims) = 1 .. n
      /\ \A d \in 1 .. n : part.sizes[d] # 0
      /\ st * z + w * z <= Wrap(Product(e) * z)
  <2>1. Index(str.dims) = 1 .. n
    BY DEF Index
  <2>2. \A d \in Index(str.dims) :
          part.sizes[d] # 0 /\ st * z + part.sizes[d] * z <= getstreambytes(str)
    BY DEF Valid, _ptr_in_range
  <2>3. getstreambytes(str) = Wrap(Product(e) * z)
    BY DEF getstreambytes, getstreamelems
  <2> HIDE DEF str, n, e, z, st
  <2>4. 1 \in 1 .. n
    BY <1>2
  <2> QED BY <2>1, <2>2, <2>3, <2>4
<1>5. \A d \in 1 .. n : P[d] = e[d] + f[d]
  BY <1>4 DEF Padded
<1>6. Len(e) = n /\ Len(P) = n
  <2>1. P = [d \in 1 .. n |-> e[d] + f[d]]
    BY <1>4 DEF Padded
  <2>2. e = [d \in 1 .. n |-> e[d]]
    BY <1>2
  <2> HIDE DEF P, e, n
  <2> QED BY <1>2, <2>1, <2>2
<1>7. Allocated(str).ptr = ptr /\ Allocated(str).bytes = Wrap(Product(P) * z)
  BY DEF Allocated, msize
<1> HIDE DEF str, n, e, P, f, z, ptr, st
<1>8. \A d \in 2 .. n : e[d] \in Nat \ {0} /\ part.sizes[d] \in Nat \ {0}
  <2> SUFFICES ASSUME NEW d \in 2 .. n
               PROVE  e[d] \in Nat \ {0} /\ part.sizes[d] \in Nat \ {0}
    OBVIOUS
  <2>1. d \in 1 .. n /\ e[d] \in Nat /\ part.sizes[d] = e[d]
    BY <1>2, <1>3
  <2> QED BY <1>4, <2>1
<1>9. 1 \in 1 .. n /\ e[1] \in Nat /\ w \in Int /\ o \in Int /\ w # 0 /\ P[1] \in Nat
  <2>1. 1 \in 1 .. n
    BY <1>2
  <2> QED BY <1>2, <1>3, <1>4, <1>5, <2>1
\* a row of it
<1>10. /\ T \in Nat \ {0} /\ st = o * T
       /\ \E i \in Nat, j \in Nat : i < w /\ j < T /\ x = (o + i) * T + j
  <2>1. \A d \in 2 .. n : part.sizes[d] \in Nat /\ part.offsets[d] = 0
    BY <1>3, <1>8
  <2>2. T \in Nat \ {0}
    BY <1>2, <1>8, RowLengths
  <2>3. st = o * T /\ \E i \in Nat, j \in Nat : i < w /\ j < T /\ x = (o + i) * T + j
    BY <1>2, <1>3, <2>1, ElementOf DEF st
  <2> QED BY <2>2, <2>3
<1>11. RowLength(n, e) = T /\ V = e[1] * T
  <2>1. CASE n = 1
    BY <2>1 DEF RowLength, Volume
  <2>2. CASE n = 2
    BY <1>3, <2>2 DEF RowLength, Volume
  <2>3. CASE n = 3
    BY <1>3, <2>3 DEF RowLength, Volume
  <2> QED BY <1>2, <2>1, <2>2, <2>3
<1> HIDE DEF T, w, o
<1>12. PICK i \in Nat, j \in Nat : i < w /\ j < T /\ x = (o + i) * T + j
  BY <1>10
<1>13. w \in Nat \ {0}
  BY <1>9, <1>12
<1>14. n > 1 => \A d \in 1 .. n : e[d] # 0
  <2> SUFFICES ASSUME n > 1, NEW d \in 1 .. n PROVE e[d] # 0
    OBVIOUS
  <2>1. CASE d \in 2 .. n
    BY <1>8, <2>1
  <2>2. CASE d = 1
    <3>1. <<str.sizes[1], str.toffsets[1]>> \in Pairs
      BY <1>1
    <3>2. str.sizes[1] \in {"share", "whole"}
      BY <3>1 DEF Pairs
    <3>3. w = e[1] \/ w = e[1] \div k.threads
      BY <1>3, <3>2 DEF Formula
    <3>4. e[1] \div k.threads <= e[1]
      BY <1>1, <1>9, Cuts
    <3> QED BY <1>9, <1>13, <2>2, <3>3, <3>4
  <2> QED BY <2>1, <2>2
<1>15. V \in Nat /\ W \in Nat /\ ptr \in Nat /\ ptr + V <= W
  BY <1>1, <1>2, <1>5, <1>14, Room DEF ptr
\* sizes that do not wrap
<1>16. V * z <= W * z /\ V * z \in Nat /\ W * z \in Nat /\ V <= V * z /\ W <= W * z
  <2>1. V <= W
    BY <1>15
  <2> HIDE DEF V, W
  <2> QED BY <1>2, <1>15, <2>1, Scaled, Grows
<1>17. V < Modulus /\ W < Modulus /\ V * z < Modulus
  <2> DEFINE A == V * z
             B == W * z
  <2>1. B < Modulus
    BY <1>1
  <2>2. A \in Nat /\ B \in Nat /\ A <= B /\ V <= A /\ W <= B
    BY <1>16
  <2> HIDE DEF V, W, A, B
  <2>3. V < Modulus /\ W < Modulus /\ A < Modulus
    BY <1>15, <2>1, <2>2, Modulo
  <2> QED BY <2>3 DEF A
<1>18. Product(e) = V
  BY <1>2, <1>6, <1>8, <1>9, <1>17, Exact
<1>19. Product(P) = W
  <2>1. \A d \in 2 .. n : P[d] \in Nat \ {0}
    BY <1>2, <1>5, <1>8
  <2> QED BY <1>2, <1>6, <1>9, <1>17, <2>1, Exact
<1> HIDE DEF V, W
<1>20. Wrap(Product(e) * z) = V * z /\ Wrap(Product(P) * z) = W * z
  BY <1>1, <1>16, <1>17, <1>18, <1>19, Modulo
\* the part ends in the array
<1>21. st + w <= V
  <2>1. st \in Int
    BY <1>9, <1>10
  <2>2. (st + w) * z = st * z + w * z
    BY <1>2, <1>9, <2>1
  <2>3. (st + w) * z <= V * z
    BY <1>4, <1>20, <2>2
  <2> QED BY <1>2, <1>9, <1>15, <2>1, <2>3, Smaller
<1>22. x + 1 <= V
  <2>1. CASE n = 1
    <3>1. T = 1
      BY <2>1 DEF T, RowLength
    <3>2. j = 0 /\ x = (o + i) * 1 + 0 /\ st = o * 1
      BY <1>10, <1>12, <3>1
    <3>3. x = o + i /\ st = o
      BY <1>9, <3>2
    <3> QED BY <1>9, <1>12, <1>15, <1>21, <3>3
  <2>2. CASE n > 1
    <3>1. o * T + w <= e[1] * T
      BY <1>10, <1>11, <1>21
    <3>2. o + w <= e[1]
      <4> DEFINE fs == str.sizes[1]
                 fo == str.toffsets[1]
                 N == k.threads
                 m == e[1]
      <4>1. /\ N \in Nat \ {0} /\ m \in Nat /\ t \in 0 .. N - 1 /\ T \in Nat
            /\ <<fs, fo>> \in Pairs
            /\ w \in Formula(fs, m, N, t) /\ o \in Formula(fo, m, N, t)
            /\ w # 0 /\ o * T + w <= m * T
        BY <1>1, <1>3, <1>9, <1>10, <2>2, <3>1 DEF w, o
      <4> HIDE DEF fs, fo, N, m
      <4>2. o + w <= m
        BY <4>1, RowsEnd
      <4> QED BY <4>2 DEF m
    <3>3. (o + i) * T + j + 1 <= e[1] * T
      BY <1>9, <1>10, <1>12, <1>13, <3>2, Ends
    <3> QED BY <1>11, <1>12, <3>3
  <2> QED BY <1>2, <2>1, <2>2
<1>23. x \in Int
  BY <1>9, <1>10, <1>12
<1>24. ptr + x + 1 <= W
  BY <1>15, <1>22, <1>23
<1>25. (ptr + x + 1) * z <= W * z
  BY <1>2, <1>15, <1>23, <1>24, Scaled
<1> QED BY <1>7, <1>20, <1>25 DEF str, z

\* A dimension that is cut inside itself.
LEMMA CutInside ==
  ASSUME NEW n \in Nat \ {0}, NEW m \in Nat, NEW t \in 0 .. n - 1,
         NEW fs, NEW fo, <<fs, fo>> \in Inside,
         NEW w \in Formula(fs, m, n, t), NEW o \in Formula(fo, m, n, t)
  PROVE  w \in Nat /\ o \in Int /\ w <= m /\ o + w <= m /\ (w # 0 => o \in Nat)
<1> DEFINE h == m \div n
<1>1. /\ Formula("whole", m, n, t) = {m} /\ Formula("zero", m, n, t) = {0}
      /\ Formula("share", m, n, t) = {h} /\ h \in 0 .. m
      /\ \A x \in Formula("start", m, n, t) : x + h <= m
      /\ Formula("start", m, n, t) \subseteq Int
  BY Cuts DEF Formulas
<1>2. h # 0 => Formula("start", m, n, t) \subseteq Nat
  <2> SUFFICES ASSUME h # 0, NEW x \in Formula("start", m, n, t) PROVE x \in Nat
    OBVIOUS
  <2> DEFINE p == (t * m) \div n
             again == (t * m) % n = 0 /\ m % n > 0 /\ t > 0
  <2>1. x \in {p} \cup (IF again THEN {p - 1} ELSE {})
    BY DEF Formula
  <2>2. t * m \in Nat /\ t \in Nat
    OBVIOUS
  <2>3. p \in Nat
    BY <2>2, Division
  <2>4. ASSUME again PROVE p - 1 \in Nat
    <3>1. (0 * m) \div n + h <= p - 1
      BY <2>2, <2>4, CutsApart
    <3>2. (0 * m) \div n \in Nat
      <4>1. 0 * m \in Nat
        OBVIOUS
      <4> QED BY <4>1, Division
    <3> DEFINE y == (0 * m) \div n
    <3> HIDE DEF y, p, h
    <3> QED BY <1>1, <2>3, <3>1, <3>2 DEF y
  <2> HIDE DEF p, again
  <2> QED BY <2>1, <2>3, <2>4
<1> HIDE DEF h
<1>3. CASE fs = "whole" /\ fo = "zero"
  BY <1>1, <1>3
<1>4. CASE fs = "share" /\ fo = "zero"
  BY <1>1, <1>4
<1>5. CASE fs = "share" /\ fo = "start"
  BY <1>1, <1>2, <1>5
<1> QED BY <1>3, <1>4, <1>5 DEF Inside

\* A part that is cut in any of its dimensions, each inside itself.
LEMMA BoxOf ==
  ASSUME NEW k, k.threads \in Nat \ {0}, NEW t \in ThreadsOf(k), NEW s,
         Boxed(k.streams[s]), Allocatable(k.streams[s]),
         NEW part \in Parts(k, t, s)
  PROVE  LET str == k.streams[s]
             n == Len(str.dims)
             e == Extent(str)
         IN  /\ part.sizes \in [1 .. n -> Nat] /\ part.offsets \in [1 .. n -> Int]
             /\ part.start = _linear_offset(part.offsets, part.sizes)
             /\ \A d \in 1 .. n : /\ part.sizes[d] <= e[d]
                                  /\ part.offsets[d] + part.sizes[d] <= e[d]
                                  /\ part.sizes[d] # 0 => part.offsets[d] \in Nat
<1> DEFINE str == k.streams[s]
           n == Len(str.dims)
           e == Extent(str)
           Result(f, d) == Formula(f[d], e[d], k.threads, t)
           Results(f) == {r \in [Index(str.dims) -> UNION {Result(f, d) : d \in Index(str.dims)}] :
                            \A d \in Index(str.dims) : r[d] \in Result(f, d)}
<1>1. /\ n \in 1 .. 3 /\ e \in [1 .. n -> Nat] /\ Index(str.dims) = 1 .. n
      /\ k.threads \in Nat \ {0} /\ t \in 0 .. k.threads - 1
  BY Extents DEF Index, ThreadsOf, Boxed
<1>2. PICK sizes \in Results(str.sizes), offsets \in Results(str.toffsets) :
        part = Part(sizes, offsets)
  <2>1. Parts(k, t, s) = {Part(sizes, offsets) :
                            sizes \in Results(str.sizes), offsets \in Results(str.toffsets)}
    BY DEF Parts
  <2> HIDE DEF Results, str
  <2> QED BY <2>1
<1>3. part.sizes = sizes /\ part.offsets = offsets
      /\ part.start = _linear_offset(part.offsets, part.sizes)
  BY <1>2 DEF Part
<1>4. /\ \A d \in 1 .. n : sizes[d] \in Formula(str.sizes[d], e[d], k.threads, t)
      /\ \A d \in 1 .. n : offsets[d] \in Formula(str.toffsets[d], e[d], k.threads, t)
      /\ sizes = [d \in 1 .. n |-> sizes[d]] /\ offsets = [d \in 1 .. n |-> offsets[d]]
  BY <1>1, <1>2
<1>5. \A d \in 1 .. n : <<str.sizes[d], str.toffsets[d]>> \in Inside
  BY <1>1 DEF Boxed
<1> HIDE DEF n, e, str
<1>6. ASSUME NEW d \in 1 .. n
      PROVE  /\ sizes[d] \in Nat /\ offsets[d] \in Int /\ sizes[d] <= e[d]
             /\ offsets[d] + sizes[d] <= e[d]
             /\ sizes[d] # 0 => offsets[d] \in Nat
  <2> DEFINE fs == str.sizes[d]
             fo == str.toffsets[d]
             N == k.threads
             m == e[d]
             w == sizes[d]
             o == offsets[d]
  <2>1. /\ <<fs, fo>> \in Inside /\ w \in Formula(fs, m, N, t) /\ o \in Formula(fo, m, N, t)
        /\ N \in Nat \ {0} /\ m \in Nat /\ t \in 0 .. N - 1
    BY <1>1, <1>4, <1>5
  <2> HIDE DEF fs, fo, N, m, w, o
  <2>2. w \in Nat /\ o \in Int /\ w <= m /\ o + w <= m /\ (w # 0 => o \in Nat)
    BY <2>1, CutInside
  <2> QED BY <2>2 DEF m, w, o
<1> QED BY <1>3, <1>4, <1>6 DEF n, e, str

\* A cell of a row of rows.
LEMMA Cell ==
  ASSUME NEW A \in Nat, NEW B \in Nat, NEW a \in Nat, NEW w \in Nat, NEW b \in Nat,
         a < A, w <= B, b < B
  PROVE  a * w + b \in Nat /\ a * w + b < A * B
<1>1. a * w <= a * B
  <2>1. w * a <= B * a
    BY Scaled
  <2> QED BY <2>1
<1>2. a * B + B <= A * B
  BY Larger
<1> DEFINE p == a * w
           q == a * B
           r == A * B
<1>3. p \in Nat /\ q \in Nat /\ r \in Nat /\ p <= q /\ q + B <= r
  BY <1>1, <1>2
<1> HIDE DEF p, q, r
<1>4. p + b \in Nat /\ p + b < r
  BY <1>3
<1> QED BY <1>4 DEF p, r

\* An element of such a part is inside the box of the extents.
LEMMA InBox ==
  ASSUME NEW n \in 1 .. 3, NEW e, \A d \in 1 .. n : e[d] \in Nat, NEW part,
         part.sizes \in [1 .. n -> Nat], part.offsets \in [1 .. n -> Int],
         part.start = _linear_offset(part.offsets, part.sizes),
         \A d \in 1 .. n : /\ part.offsets[d] \in Nat /\ part.sizes[d] <= e[d]
                           /\ part.offsets[d] + part.sizes[d] <= e[d],
         NEW x \in Elements(part)
  PROVE  x \in Nat /\ x < Volume(n, e)
<1> DEFINE s == part.sizes
           o == part.offsets
           M == Max(Range(s)) - 1
<1>1. Len(s) = n /\ Len(o) = n /\ M \in Int
  <2>1. s \in [1 .. n -> Int]
    OBVIOUS
  <2>2. Max(Range(s)) \in Int
    BY <2>1, LargestSize
  <2> HIDE DEF s
  <2>3. M \in Int
    BY <2>2
  <2> QED BY <2>3 DEF s
<1>2. PICK i \in [1 .. n -> 0 .. M] : /\ \A d \in 1 .. n : i[d] < s[d]
                                      /\ x = part.start + _linear_offset(i, s)
  BY <1>1 DEF Elements
<1>3. \A d \in 1 .. n : /\ i[d] \in Nat /\ s[d] \in Nat /\ o[d] \in Nat /\ e[d] \in Nat
                        /\ s[d] <= e[d] /\ o[d] + i[d] \in Nat /\ o[d] + i[d] < e[d]
  <2> SUFFICES ASSUME NEW d \in 1 .. n
               PROVE  /\ i[d] \in Nat /\ s[d] \in Nat /\ o[d] \in Nat /\ e[d] \in Nat
                      /\ s[d] <= e[d] /\ o[d] + i[d] \in Nat /\ o[d] + i[d] < e[d]
    OBVIOUS
  <2>1. i[d] \in 0 .. M /\ i[d] < s[d]
    BY <1>2
  <2>2. s[d] \in Nat /\ o[d] \in Nat /\ e[d] \in Nat /\ s[d] <= e[d] /\ o[d] + s[d] <= e[d]
    OBVIOUS
  <2> HIDE DEF s, o, M
  <2> QED BY <1>1, <2>1, <2>2
<1>4. Len(i) = n
  BY <1>2
<1>5. part.start = _linear_offset(o, s)
  OBVIOUS
<1> HIDE DEF s, o, M
<1>6. CASE n = 1
  <2>1. _linear_offset(o, s) = 0 * s[1] + o[1] /\ _linear_offset(i, s) = 0 * s[1] + i[1]
    BY <1>1, <1>4, <1>6, Offsets
  <2>2. x = o[1] + i[1]
    BY <1>2, <1>3, <1>5, <1>6, <2>1
  <2>3. Volume(n, e) = e[1] * 1
    BY <1>6 DEF Volume, RowLength
  <2> QED BY <1>3, <1>6, <2>2, <2>3
<1>7. CASE n = 2
  <2> DEFINE a == o[1] + i[1]
             b == o[2] + i[2]
  <2>1. _linear_offset(o, s) = (0 * s[1] + o[1]) * s[2] + o[2]
        /\ _linear_offset(i, s) = (0 * s[1] + i[1]) * s[2] + i[2]
    BY <1>1, <1>4, <1>7, Offsets
  <2>2. x = a * s[2] + b
    BY SMTT(30), <1>2, <1>3, <1>5, <1>7, <2>1
  <2>3. Volume(n, e) = e[1] * e[2]
    BY <1>7 DEF Volume, RowLength
  <2>4. /\ a \in Nat /\ b \in Nat /\ s[2] \in Nat /\ e[1] \in Nat /\ e[2] \in Nat
        /\ a < e[1] /\ b < e[2] /\ s[2] <= e[2]
    BY <1>3, <1>7
  <2> DEFINE A == e[1]
             B == e[2]
             w == s[2]
  <2>5. /\ A \in Nat /\ B \in Nat /\ a \in Nat /\ w \in Nat /\ b \in Nat
        /\ a < A /\ w <= B /\ b < B
    BY <2>4
  <2>6. x = a * w + b /\ Volume(n, e) = A * B
    BY <2>2, <2>3
  <2> HIDE DEF a, b, A, B, w
  <2>7. a * w + b \in Nat /\ a * w + b < A * B
    BY <2>5, Cell
  <2> QED BY <2>6, <2>7
<1>8. CASE n = 3
  <2> DEFINE a == o[1] + i[1]
             b == o[2] + i[2]
             c == o[3] + i[3]
             g == a * s[2] + b
  <2>1. _linear_offset(o, s) = ((0 * s[1] + o[1]) * s[2] + o[2]) * s[3] + o[3]
        /\ _linear_offset(i, s) = ((0 * s[1] + i[1]) * s[2] + i[2]) * s[3] + i[3]
    BY <1>1, <1>4, <1>8, Offsets
  <2>2. /\ a \in Nat /\ b \in Nat /\ c \in Nat /\ s[2] \in Nat /\ s[3] \in Nat
        /\ e[1] \in Nat /\ e[2] \in Nat /\ e[3] \in Nat
        /\ a < e[1] /\ b < e[2] /\ c < e[3] /\ s[2] <= e[2] /\ s[3] <= e[3]
    BY <1>3, <1>8
  <2>3. x = (a * s[2] + b) * s[3] + c
    <3> DEFINE o1 == o[1]
               o2 == o[2]
               o3 == o[3]
               i1 == i[1]
               i2 == i[2]
               i3 == i[3]
               s1 == s[1]
               s2 == s[2]
               s3 == s[3]
    <3>1. /\ o1 \in Nat /\ o2 \in Nat /\ o3 \in Nat /\ i1 \in Nat /\ i2 \in Nat /\ i3 \in Nat
          /\ s1 \in Nat /\ s2 \in Nat /\ s3 \in Nat
      BY <1>3, <1>8
    <3>2. x = (((0 * s1 + o1) * s2 + o2) * s3 + o3) + (((0 * s1 + i1) * s2 + i2) * s3 + i3)
      BY <1>2, <1>5, <2>1
    <3>3. (((0 * s1 + o1) * s2 + o2) * s3 + o3) + (((0 * s1 + i1) * s2 + i2) * s3 + i3)
            = ((o1 + i1) * s2 + (o2 + i2)) * s3 + (o3 + i3)
      <4> HIDE DEF o1, o2, o3, i1, i2, i3, s1, s2, s3
      <4>1. 0 * s1 = 0
        BY <3>1
      <4> QED BY SMTT(30), <3>1, <4>1
    <3> QED BY <3>2, <3>3
  <2>4. Volume(n, e) = (e[1] * e[2]) * e[3]
    <3>1. Volume(n, e) = e[1] * (e[2] * e[3])
      BY <1>8 DEF Volume, RowLength
    <3>2. e[1] * (e[2] * e[3]) = (e[1] * e[2]) * e[3]
      BY <2>2
    <3> QED BY <3>1, <3>2
  <2> HIDE DEF a, b, c
  <2>5. g \in Nat /\ g < e[1] * e[2]
    BY <2>2, Cell
  <2>6. e[1] * e[2] \in Nat
    BY <2>2
  <2> HIDE DEF g
  <2>7. g * s[3] + c \in Nat /\ g * s[3] + c < (e[1] * e[2]) * e[3]
    BY <2>2, <2>5, <2>6, Cell
  <2> QED BY <2>3, <2>4, <2>7 DEF g
<1> QED BY <1>6, <1>7, <1>8

LEMMA StaysInBox ==
  ASSUME NEW k, k.threads \in Nat \ {0}, NEW t \in ThreadsOf(k), NEW s,
         Boxed(k.streams[s]), Allocatable(k.streams[s]),
         NEW part \in Parts(k, t, s), Valid(k, part, s), NEW x \in Elements(part)
  PROVE  LET str == k.streams[s]
         IN  (Allocated(str).ptr + x + 1) * SizeOf[str.type] <= Allocated(str).bytes
<1> DEFINE str == k.streams[s]
           n == Len(str.dims)
           e == Extent(str)
           P == Padded(str)
           V == Volume(n, e)
           W == Volume(n, P)
           z == SizeOf[str.type]
<1>1. Typed(str) /\ Len(str.offsets) = n /\ W * z < Modulus
  BY DEF Boxed
<1>2. /\ n \in 1 .. 3 /\ z \in Nat \ {0} /\ e \in [1 .. n -> Nat]
      /\ \A d \in 1 .. n : str.offsets[d] \in Nat
  BY <1>1, Extents
<1>3. /\ part.sizes \in [1 .. n -> Nat] /\ part.offsets \in [1 .. n -> Int]
      /\ part.start = _linear_offset(part.offsets, part.sizes)
      /\ \A d \in 1 .. n : /\ part.sizes[d] <= e[d]
                           /\ part.offsets[d] + part.sizes[d] <= e[d]
                           /\ part.sizes[d] # 0 => part.offsets[d] \in Nat
  BY BoxOf
<1>4. Index(str.dims) = 1 .. n /\ \A d \in 1 .. n : part.sizes[d] # 0
  BY DEF Valid, Index
<1>5. \A d \in 1 .. n : e[d] \in Nat \ {0} /\ P[d] = e[d] + str.offsets[d]
  <2>1. \A d \in 1 .. n : P[d] = e[d] + str.offsets[d]
    BY <1>4 DEF Padded
  <2>2. \A d \in 1 .. n : e[d] \in Nat /\ part.sizes[d] \in Nat
    BY <1>2, <1>3
  <2> HIDE DEF e, P, n, str
  <2> QED BY <1>3, <1>4, <2>1, <2>2
<1>6. Allocated(str).ptr = _linear_offset(str.offsets, P)
      /\ Allocated(str).bytes = Wrap(Product(P) * z)
  BY DEF Allocated, msize
<1>7. Len(P) = n
  <2>1. P = [d \in 1 .. n |-> e[d] + str.offsets[d]]
    BY <1>4 DEF Padded
  <2> HIDE DEF P, e, n, str
  <2> QED BY <1>2, <2>1
<1> DEFINE ptr == _linear_offset(str.offsets, P)
<1> HIDE DEF n, e, P, z, str
<1>8. V \in Nat /\ W \in Nat /\ ptr \in Nat /\ ptr + V <= W
  <2>1. \A d \in 1 .. n : /\ e[d] \in Nat /\ str.offsets[d] \in Nat
                          /\ P[d] = e[d] + str.offsets[d] /\ e[d] # 0
    BY <1>2, <1>5
  <2> QED BY <1>1, <1>2, <2>1, Room
<1>9. x \in Nat /\ x < V
  <2>1. \A d \in 1 .. n : e[d] \in Nat
    BY <1>5
  <2>2. \A d \in 1 .. n : /\ part.offsets[d] \in Nat /\ part.sizes[d] <= e[d]
                          /\ part.offsets[d] + part.sizes[d] <= e[d]
    BY <1>3, <1>4
  <2> QED BY <1>2, <1>3, <2>1, <2>2, InBox
<1>10. Product(P) = W
  <2>1. 1 \in 1 .. n
    BY <1>2
  <2>2. \A d \in 1 .. n : P[d] \in Nat \ {0}
    <3> SUFFICES ASSUME NEW d \in 1 .. n PROVE P[d] \in Nat \ {0}
      OBVIOUS
    <3>1. e[d] \in Nat \ {0} /\ P[d] = e[d] + str.offsets[d] /\ str.offsets[d] \in Nat
      BY <1>2, <1>5
    <3> QED BY <3>1
  <2>3. W <= W * z /\ W * z \in Nat
    BY <1>2, <1>8, Grows
  <2>4. W < Modulus
    <3> DEFINE B == W * z
    <3>1. B \in Nat /\ W <= B /\ B < Modulus
      BY <1>1, <2>3
    <3> HIDE DEF W, B
    <3> QED BY <1>8, <3>1, Modulo
  <2>5. P[1] \in Nat /\ \A d \in 2 .. n : P[d] \in Nat \ {0}
    BY <1>2, <2>1, <2>2
  <2> QED BY <1>2, <1>7, <2>4, <2>5, Exact
<1> HIDE DEF V, W, ptr
<1>11. Wrap(Product(P) * z) = W * z
  <2>1. W * z \in Nat
    BY <1>2, <1>8
  <2> QED BY <1>1, <1>10, <2>1, Modulo
<1>12. ptr + x + 1 <= W
  BY <1>8, <1>9
<1>13. (ptr + x + 1) * z <= W * z
  BY <1>2, <1>8, <1>9, <1>12, Scaled
<1> QED BY <1>6, <1>11, <1>13 DEF str, z, ptr

\* No thread writes outside the memory of a stream, for every number of threads
\* and every extent and offset of the streams.  Sizes are such that size_t holds
\* them, and a stream is one of two: it has rows, one dimension cut by any of
\* the formulas or the first of several cut into shares (Confined), where the
\* validation of update_threads is what refuses a part past the end; or any of
\* its dimensions are cut, each inside itself (Boxed), where strides of the
\* part, not of the array, stay inside.  Of parts of several dimensions that
\* end outside one of them nothing is said: the validation looks at each
\* dimension by itself and lets some of them through
\* (allocate_arrays, the validation at the end of update_threads, INIT_ARRAY).
THEOREM WritesInside ==
  ASSUME Listed,
         \A k \in Kernels : /\ k.threads \in Nat \ {0}
                            /\ \A s \in StreamsOf(k) : \/ Confined(k.streams[s])
                                                       \/ Boxed(k.streams[s])
  PROVE  Spec => []InStream
<1>1. PartsInv => InStream
  <2> SUFFICES ASSUME PartsInv, NEW x \in written
               PROVE  (arrays[x.stream].ptr + x.element + 1) * SizeOf[Of(x).type]
                        <= arrays[x.stream].bytes
    BY DEF InStream
  <2> DEFINE s == x.stream
             t == x.thread
             p == chunk[<<t, s>>]
  <2>1. /\ s \in StreamsOf(kernel) /\ t \in ThreadsOf(kernel)
        /\ x.element \in Elements(p) /\ pc = "run"
    BY DEF PartsInv, WrittenInv
  <2>2. p \in Parts(kernel, t, s) /\ Valid(kernel, p, s)
    BY <2>1 DEF PartsInv, ChunkInv
  <2>3. Allocatable(kernel.streams[s]) /\ arrays[s] = Allocated(kernel.streams[s])
    BY <2>1 DEF PartsInv, ArraysInv, StreamsOf, Index
  <2>4. /\ kernel.threads \in Nat \ {0}
        /\ Confined(kernel.streams[s]) \/ Boxed(kernel.streams[s])
    BY <2>1 DEF PartsInv
  <2> HIDE DEF s, t, p
  <2>5. (arrays[s].ptr + x.element + 1) * SizeOf[kernel.streams[s].type] <= arrays[s].bytes
    BY <2>1, <2>2, <2>3, <2>4, Stays, StaysInBox
  <2> QED BY <2>5 DEF s, Of
<1> QED BY <1>1, PartsKept, PTL

-----------------------------------------------------------------------------
(* The parts leave less than a row for each thread.                        *)

\* Sizes of a stream that can hold an element are computed exactly.
LEMMA Sized ==
  ASSUME NEW str, Confined(str), Allocatable(str),
         \A d \in 1 .. Len(str.dims) : Extent(str)[d] # 0
  PROVE  LET n == Len(str.dims)
             e == Extent(str)
             T == RowLength(n, e)
             V == e[1] * T
         IN  /\ T \in Nat \ {0} /\ V \in Nat /\ V < Modulus /\ Volume(n, e) = V
             /\ getstreamelems(str) = V /\ getstreambytes(str) = V * SizeOf[str.type]
             /\ Row(str) = T
<1> DEFINE n == Len(str.dims)
           e == Extent(str)
           P == Padded(str)
           f == str.offsets
           z == SizeOf[str.type]
           V == Volume(n, e)
           W == Volume(n, P)
           T == RowLength(n, e)
           r == [e EXCEPT ![1] = 1]
<1>1. Usual(str) /\ Len(f) = n /\ W * z < Modulus
  BY DEF Confined
<1>2. /\ n \in 1 .. 3 /\ z \in Nat \ {0} /\ e \in [1 .. n -> Nat]
      /\ \A d \in 1 .. n : f[d] \in Nat /\ e[d] # 0
  BY <1>1, Extents DEF Usual
<1>3. /\ Product(e) = getstreamelems(str) /\ Wrap(Product(e) * z) = getstreambytes(str)
      /\ Row(str) = Product(r)
  BY DEF getstreamelems, getstreambytes, Row
<1>4. \A d \in 1 .. n : P[d] = e[d] + f[d]
  BY DEF Padded, Index
<1> HIDE DEF n, e, P, f, z
<1>5. e = [d \in 1 .. n |-> e[d]] /\ r = [d \in 1 .. n |-> IF d = 1 THEN 1 ELSE e[d]]
  BY <1>2
<1>6. Len(e) = n /\ Len(r) = n
  BY <1>2, <1>5
<1>7. 1 \in 1 .. n /\ e[1] \in Nat \ {0} /\ \A d \in 2 .. n : e[d] \in Nat \ {0}
  BY <1>2
<1>8. T \in Nat \ {0}
  BY <1>2, <1>7, RowLengths
<1>9. V = e[1] * T
  BY DEF Volume
<1>10. V \in Nat /\ W \in Nat /\ V <= W
  <2>1. \A d \in 1 .. n : e[d] \in Nat /\ f[d] \in Nat /\ P[d] = e[d] + f[d] /\ e[d] # 0
    BY <1>2, <1>4
  <2>2. /\ V \in Nat /\ W \in Nat /\ _linear_offset(f, P) \in Nat
        /\ _linear_offset(f, P) + V <= W
    BY <1>1, <1>2, <2>1, Room
  <2> HIDE DEF V, W
  <2> QED BY <2>2
<1> HIDE DEF V, W, T
<1>11. V * z <= W * z /\ V * z \in Nat /\ V <= V * z /\ W * z \in Nat
  BY <1>2, <1>10, Scaled, Grows
<1>12. V < Modulus /\ V * z < Modulus
  <2> DEFINE A == V * z
             B == W * z
  <2>1. A \in Nat /\ B \in Nat /\ A <= B /\ V <= A /\ B < Modulus
    BY <1>1, <1>11
  <2> HIDE DEF A, B
  <2>2. V < Modulus /\ A < Modulus
    BY <1>10, <2>1, Modulo
  <2> QED BY <2>2 DEF A
<1>13. Product(e) = V
  BY <1>2, <1>6, <1>7, <1>12, Exact DEF V
<1>14. Product(r) = T
  <2>1. r[1] = 1 /\ \A d \in 2 .. n : r[d] = e[d]
    BY <1>2, <1>5, <1>7
  <2>2. RowLength(n, r) = T
    <3>1. CASE n = 1
      BY <3>1 DEF RowLength, T
    <3>2. CASE n = 2
      BY <2>1, <3>2 DEF RowLength, T
    <3>3. CASE n = 3
      BY <2>1, <3>3 DEF RowLength, T
    <3> QED BY <1>2, <3>1, <3>2, <3>3
  <2>3. Volume(n, r) = T
    <3>1. Volume(n, r) = r[1] * RowLength(n, r)
      BY DEF Volume
    <3> QED BY <1>8, <2>1, <2>2, <3>1
  <2>4. T <= V
    <3>1. T <= T * e[1]
      BY <1>7, <1>8, Grows
    <3> QED BY <1>7, <1>8, <1>9, <3>1
  <2>5. T < Modulus
    BY <1>8, <1>10, <1>12, <2>4, Modulo
  <2> HIDE DEF r
  <2>6. r[1] \in Nat /\ \A d \in 2 .. n : r[d] \in Nat \ {0}
    BY <1>7, <2>1
  <2> QED BY <1>2, <1>6, <2>3, <2>5, <2>6, Exact
<1>15. Wrap(V * z) = V * z
  BY <1>11, <1>12, Modulo
<1> QED BY <1>3, <1>8, <1>9, <1>10, <1>12, <1>13, <1>14, <1>15 DEF n, e, z, V, T

\* The largest size is not less than any.
LEMMA NotLarger ==
  ASSUME NEW n \in 1 .. 3, NEW f \in [1 .. n -> Int]
  PROVE  \A d \in 1 .. n : f[d] <= Max(Range(f))
<1>1. Range(f) = {f[d] : d \in 1 .. n}
  BY DEF Range
<1>2. \E x \in Range(f) : \A y \in Range(f) : x >= y
  <2>1. CASE n = 1
    BY <1>1, <2>1
  <2>2. CASE n = 2
    BY <1>1, <2>2
  <2>3. CASE n = 3
    BY <1>1, <2>3
  <2> QED BY <2>1, <2>2, <2>3
<1>3. \A y \in Range(f) : Max(Range(f)) >= y
  BY <1>2 DEF Max
<1>4. Max(Range(f)) \in Int
  BY LargestSize
<1> DEFINE M == Max(Range(f))
<1>5. \A d \in 1 .. n : M >= f[d] /\ f[d] \in Int
  BY <1>1, <1>3
<1> HIDE DEF M
<1> QED BY <1>4, <1>5 DEF M

\* A part has all elements of its rows.
LEMMA RowsOf ==
  ASSUME NEW n \in 1 .. 3, NEW part,
         part.sizes \in [1 .. n -> Int], part.offsets \in [1 .. n -> Int],
         part.start = _linear_offset(part.offsets, part.sizes),
         \A d \in 2 .. n : part.sizes[d] \in Nat \ {0} /\ part.offsets[d] = 0,
         NEW i \in Nat, i < part.sizes[1], NEW j \in Nat, j < RowLength(n, part.sizes)
  PROVE  (part.offsets[1] + i) * RowLength(n, part.sizes) + j \in Elements(part)
<1> DEFINE s == part.sizes
           o == part.offsets
           M == Max(Range(s)) - 1
<1>1. Len(s) = n /\ Len(o) = n
  OBVIOUS
<1>2. \A d \in 1 .. n : s[d] \in Int /\ o[d] \in Int
  OBVIOUS
<1>3. M \in Int /\ \A d \in 1 .. n : s[d] <= M + 1
  <2> DEFINE span == Max(Range(s))
  <2>1. span \in Int /\ \A d \in 1 .. n : s[d] <= span
    BY LargestSize, NotLarger
  <2> HIDE DEF span
  <2> QED BY <2>1 DEF span
<1>4. Elements(part) = {part.start + _linear_offset(x, s) :
                          x \in {y \in [1 .. n -> 0 .. M] : \A d \in 1 .. n : y[d] < s[d]}}
  BY <1>1 DEF Elements
<1>5. \A d \in 2 .. n : s[d] \in Nat \ {0} /\ o[d] = 0
  OBVIOUS
<1>6. i < s[1] /\ j < RowLength(n, s) /\ part.start = _linear_offset(o, s)
  OBVIOUS
<1> HIDE DEF s, o, M
\* an index whose parts are within the sizes is one of an element
<1>7. ASSUME NEW x \in Seq(Nat), Len(x) = n, \A d \in 1 .. n : x[d] < s[d]
      PROVE  part.start + _linear_offset(x, s) \in Elements(part)
  <2>1. \A d \in 1 .. n : x[d] \in 0 .. M
    <3> SUFFICES ASSUME NEW d \in 1 .. n PROVE x[d] \in 0 .. M
      OBVIOUS
    <3>1. x[d] \in Nat /\ x[d] < s[d]
      BY <1>7
    <3>2. s[d] \in Int /\ s[d] <= M + 1 /\ M \in Int
      BY <1>2, <1>3
    <3> QED BY <3>1, <3>2
  <2>2. x \in [1 .. n -> 0 .. M]
    BY <1>7, <2>1
  <2> QED BY <1>4, <1>7, <2>2
<1>8. CASE n = 1
  <2> DEFINE x == <<i>>
  <2>1. x \in Seq(Nat) /\ Len(x) = n /\ x[1] = i
    BY <1>8
  <2>2. \A d \in 1 .. n : x[d] < s[d]
    BY <1>6, <1>8, <2>1
  <2> HIDE DEF x
  <2>3. _linear_offset(x, s) = 0 * s[1] + i /\ part.start = 0 * s[1] + o[1]
    BY <1>1, <1>6, <1>8, <2>1, Offsets
  <2>4. j = 0 /\ RowLength(n, s) = 1
    BY <1>6, <1>8 DEF RowLength
  <2>5. s[1] \in Int /\ o[1] \in Int
    BY <1>2, <1>8
  <2>6. (o[1] + i) * RowLength(n, s) + j = part.start + _linear_offset(x, s)
    BY <2>3, <2>4, <2>5
  <2> QED BY <1>7, <2>1, <2>2, <2>6 DEF s, o
<1>9. CASE n = 2
  <2> DEFINE x == <<i, j>>
  <2>1. x \in Seq(Nat) /\ Len(x) = n /\ x[1] = i /\ x[2] = j
    BY <1>9
  <2>2. j < s[2] /\ RowLength(n, s) = s[2]
    BY <1>6, <1>9 DEF RowLength
  <2>3. \A d \in 1 .. n : x[d] < s[d]
    BY <1>6, <1>9, <2>1, <2>2
  <2> HIDE DEF x
  <2>4. /\ _linear_offset(x, s) = (0 * s[1] + i) * s[2] + j
        /\ part.start = (0 * s[1] + o[1]) * s[2] + o[2]
    BY <1>1, <1>6, <1>9, <2>1, Offsets
  <2>5. s[1] \in Int /\ o[1] \in Int /\ s[2] \in Nat /\ o[2] = 0
    BY <1>2, <1>5, <1>9
  <2>6. (o[1] + i) * s[2] + j = part.start + _linear_offset(x, s)
    BY <2>4, <2>5
  <2> QED BY <1>7, <2>1, <2>2, <2>3, <2>6 DEF s, o
<1>10. CASE n = 3
  <2> DEFINE q == s[2]
             r == s[3]
             b == j \div r
             c == j % r
             x == <<i, b, c>>
  <2>1. /\ q \in Nat \ {0} /\ r \in Nat \ {0} /\ s[1] \in Int /\ o[1] \in Int
        /\ o[2] = 0 /\ o[3] = 0
    BY <1>2, <1>5, <1>10
  <2>2. RowLength(n, s) = q * r /\ j < q * r
    BY <1>6, <1>10 DEF RowLength
  <2> HIDE DEF q, r
  <2>3. b \in Nat /\ c \in 0 .. r - 1 /\ j = r * b + c
    BY <2>1, Division
  <2> HIDE DEF b, c
  <2>4. b < q
    <3> SUFFICES ASSUME q <= b PROVE FALSE
      BY <2>1, <2>3
    <3>1. q * r <= b * r
      BY <2>1, <2>3, Scaled
    <3>2. q * r \in Nat /\ b * r \in Nat /\ r * b = b * r
      BY <2>1, <2>3
    <3> QED BY <2>2, <2>3, <3>1, <3>2
  <2>5. x \in Seq(Nat) /\ Len(x) = n /\ x[1] = i /\ x[2] = b /\ x[3] = c
    BY <1>10, <2>1, <2>3
  <2>6. \A d \in 1 .. n : x[d] < s[d]
    <3>1. c < r
      BY <2>1, <2>3
    <3> QED BY <1>6, <1>10, <2>4, <2>5, <3>1 DEF q, r
  <2> HIDE DEF x
  <2>7. /\ _linear_offset(x, s) = ((0 * s[1] + i) * q + b) * r + c
        /\ part.start = ((0 * s[1] + o[1]) * q + 0) * r + 0
    <3>1. Len(x) = 3 /\ Len(o) = 3
      BY <1>1, <1>10, <2>5
    <3>2. _linear_offset(x, s) = ((0 * s[1] + x[1]) * s[2] + x[2]) * s[3] + x[3]
      BY Zenon, <3>1, Offsets
    <3>3. _linear_offset(o, s) = ((0 * s[1] + o[1]) * s[2] + o[2]) * s[3] + o[3]
      BY Zenon, <3>1, Offsets
    <3>4. part.start = _linear_offset(o, s) /\ x[1] = i /\ x[2] = b /\ x[3] = c
          /\ o[2] = 0 /\ o[3] = 0
      BY <1>6, <2>1, <2>5
    <3> QED BY Zenon, <3>2, <3>3, <3>4 DEF q, r
  <2> DEFINE w == s[1]
             u == o[1]
  <2>8. /\ ((0 * w + u) * q + 0) * r + 0 = u * (q * r)
        /\ u * (q * r) + (((0 * w + i) * q + b) * r + c) = (u + i) * (q * r) + (b * r + c)
    <3>1. w \in Int /\ u \in Int /\ q \in Nat /\ r \in Nat /\ c \in Nat /\ c < r
      BY <2>1, <2>3
    <3> HIDE DEF w, u
    <3> QED BY <2>3, <2>4, <3>1, Cube
  <2>9. b * r + c = j
    BY <2>1, <2>3
  <2>10. (o[1] + i) * (q * r) + j = part.start + _linear_offset(x, s)
    <3>1. part.start = u * (q * r)
          /\ _linear_offset(x, s) = ((0 * w + i) * q + b) * r + c
      BY <2>7, <2>8
    <3> QED BY <2>8, <2>9, <3>1
  <2> QED BY <1>7, <2>2, <2>5, <2>6, <2>10 DEF s, o
<1> QED BY <1>8, <1>9, <1>10

\* D has the elements of h rows from row o[t] on, for each of n threads, and
\* the rows of two threads are apart.
RowsAre(D, n, h, T, o) ==
  /\ o \in [0 .. n - 1 -> Int]
  /\ \A t \in 0 .. n - 1, u \in 0 .. n - 1 : t < u => o[t] + h <= o[u]
  /\ \A t \in 0 .. n - 1, i \in Nat, j \in Nat : i < h /\ j < T => (o[t] + i) * T + j \in D
  /\ \A x \in D : \E t \in 0 .. n - 1, i \in Nat, j \in Nat :
                  i < h /\ j < T /\ x = (o[t] + i) * T + j

\* There are as many of these elements as the rows have.
LEMMA Covered ==
  ASSUME NEW n \in Nat \ {0}, NEW h \in Nat \ {0}, NEW T \in Nat \ {0}, NEW o, NEW D,
         RowsAre(D, n, h, T, o)
  PROVE  Cardinality(D) = n * (h * T)
<1>0. /\ o \in [0 .. n - 1 -> Int]
      /\ \A t \in 0 .. n - 1, u \in 0 .. n - 1 : t < u => o[t] + h <= o[u]
      /\ \A t \in 0 .. n - 1, i \in Nat, j \in Nat : i < h /\ j < T => (o[t] + i) * T + j \in D
      /\ \A x \in D : \E t \in 0 .. n - 1, i \in Nat, j \in Nat :
                      i < h /\ j < T /\ x = (o[t] + i) * T + j
  BY DEF RowsAre
<1>13. \A t \in 0 .. n - 1 : o[t] \in Int
  BY <1>0
<1> DEFINE span == h * T
           N == n * span
           f == [x \in 0 .. N - 1 |-> o[x \div span] * T + (x % span)]
<1>1. span \in Nat \ {0}
  OBVIOUS
<1> HIDE DEF span
<1>2. N \in Nat \ {0}
  BY <1>1
<1>3. ASSUME NEW x \in 0 .. N - 1
      PROVE  x \div span \in 0 .. n - 1 /\ x % span \in 0 .. span - 1 /\ x = (x \div span) * span + (x % span)
  <2> DEFINE t == x \div span
             y == x % span
  <2>1. x \in Nat /\ x < n * span
    BY <1>2
  <2>2. t \in Nat /\ y \in 0 .. span - 1 /\ x = span * t + y
    BY <1>1, <2>1, Division
  <2> HIDE DEF t, y
  <2>3. t < n
    <3> SUFFICES ASSUME n <= t PROVE FALSE
      BY <2>2
    <3>1. n * span <= t * span
      BY <1>1, <2>2, Scaled
    <3>2. n * span \in Nat /\ t * span \in Nat /\ span * t = t * span
      BY <1>1, <2>2
    <3> DEFINE A == n * span
               B == t * span
    <3>3. A \in Nat /\ B \in Nat /\ A <= B /\ x < A /\ x = B + y /\ y \in Nat
      BY <1>1, <2>1, <2>2, <3>1, <3>2
    <3> HIDE DEF A, B
    <3> QED BY <2>1, <3>3
  <2>4. x = t * span + y
    BY <1>1, <2>2
  <2> QED BY <2>2, <2>3, <2>4 DEF t, y
<1> HIDE DEF N
<1>4. ASSUME NEW t \in 0 .. n - 1, NEW y \in 0 .. span - 1
      PROVE  o[t] * T + y \in D
  <2> DEFINE i == y \div T
             j == y % T
  <2>1. y \in Nat /\ y < h * T
    BY <1>1 DEF span
  <2>2. i \in Nat /\ j \in 0 .. T - 1 /\ y = T * i + j
    BY <2>1, Division
  <2> HIDE DEF i, j
  <2>3. i < h
    <3> SUFFICES ASSUME h <= i PROVE FALSE
      BY <2>2
    <3>1. h * T <= i * T
      BY <2>2, Scaled
    <3>2. h * T \in Nat /\ i * T \in Nat /\ T * i = i * T
      BY <2>2
    <3> DEFINE A == h * T
               B == i * T
    <3>3. A \in Nat /\ B \in Nat /\ A <= B /\ y < A /\ y = B + j /\ j \in Nat
      BY <2>1, <2>2, <3>1, <3>2
    <3> HIDE DEF A, B
    <3> QED BY <2>1, <3>3
  <2>4. (o[t] + i) * T + j \in D
    BY <1>0, <2>2, <2>3
  <2>5. o[t] \in Int
    BY <1>13
  <2>6. (o[t] + i) * T + j = o[t] * T + y
    BY <2>2, <2>5
  <2> QED BY <2>4, <2>6
<1>5. f \in [0 .. N - 1 -> D]
  BY <1>3, <1>4
\* a thread ends before the next one starts
<1>6. ASSUME NEW t \in 0 .. n - 1, NEW u \in 0 .. n - 1, t < u,
             NEW y \in 0 .. span - 1, NEW v \in 0 .. span - 1
      PROVE  o[t] * T + y < o[u] * T + v
  <2> DEFINE a == o[t]
             b == o[u]
  <2>1. a \in Int /\ b \in Int /\ a + h <= b
    BY <1>0, <1>6
  <2> HIDE DEF a, b
  <2>2. (a + h) * T <= b * T
    BY <2>1, Scaled
  <2>3. (a + h) * T = a * T + span
    BY <2>1 DEF span
  <2>4. a * T \in Int /\ b * T \in Int
    BY <2>1
  <2>5. a * T + y < b * T + v
    <3> DEFINE A == a * T
               B == b * T
    <3>1. A \in Int /\ B \in Int /\ A + span <= B
      BY <2>2, <2>3, <2>4
    <3> HIDE DEF A, B
    <3>2. A + y < B + v
      BY <1>1, <3>1
    <3> QED BY <3>2 DEF A, B
  <2> QED BY <2>5 DEF a, b
<1>7. ASSUME NEW x \in 0 .. N - 1, NEW g \in 0 .. N - 1, f[x] = f[g]
      PROVE  x = g
  <2> DEFINE t == x \div span
             u == g \div span
             y == x % span
             v == g % span
  <2>1. /\ t \in 0 .. n - 1 /\ y \in 0 .. span - 1 /\ x = t * span + y
        /\ u \in 0 .. n - 1 /\ v \in 0 .. span - 1 /\ g = u * span + v
    BY <1>3
  <2>2. o[t] * T + y = o[u] * T + v
    BY <1>7
  <2> HIDE DEF t, u, y, v
  <2>3. t = u
    <3>1. o[t] * T + y \in Int /\ o[u] * T + v \in Int
      <4> DEFINE a == o[t]
                 b == o[u]
      <4>1. a \in Int /\ b \in Int
        BY <1>13, <2>1
      <4>2. y \in Int /\ v \in Int
        BY <1>1, <2>1
      <4> HIDE DEF a, b
      <4>3. a * T + y \in Int /\ b * T + v \in Int
        BY <4>1, <4>2
      <4> QED BY <4>3 DEF a, b
    <3> DEFINE A == o[t] * T + y
               B == o[u] * T + v
    <3> HIDE DEF A, B
    <3>2. ~ (t < u)
      <4> SUFFICES ASSUME t < u PROVE FALSE
        OBVIOUS
      <4>1. o[t] * T + y < o[u] * T + v
        BY <1>6, <2>1
      <4>2. A \in Int /\ B \in Int /\ A = B /\ A < B
        BY <2>2, <3>1, <4>1 DEF A, B
      <4> QED BY <4>2
    <3>3. ~ (u < t)
      <4> SUFFICES ASSUME u < t PROVE FALSE
        OBVIOUS
      <4>1. o[u] * T + v < o[t] * T + y
        BY <1>6, <2>1
      <4>2. A \in Int /\ B \in Int /\ A = B /\ B < A
        BY <2>2, <3>1, <4>1 DEF A, B
      <4> QED BY <4>2
    <3> QED BY <2>1, <3>2, <3>3
  <2>4. y = v
    <3> DEFINE A == o[t] * T
    <3>1. A \in Int /\ A + y = A + v
      BY <1>13, <2>1, <2>2, <2>3
    <3> HIDE DEF A
    <3> QED BY <1>1, <2>1, <3>1
  <2> QED BY <2>1, <2>3, <2>4
<1>8. ASSUME NEW d \in D
      PROVE  \E x \in 0 .. N - 1 : f[x] = d
  <2>1. PICK t \in 0 .. n - 1, i \in Nat, j \in Nat :
          i < h /\ j < T /\ d = (o[t] + i) * T + j
    BY <1>0
  <2> DEFINE y == i * T + j
             x == t * span + y
  <2>2. y \in Nat /\ y < span
    <3>1. (i + 1) * T <= h * T
      BY <2>1, Scaled
    <3>2. (i + 1) * T = i * T + T /\ i * T \in Nat
      OBVIOUS
    <3> DEFINE A == i * T
    <3>3. A \in Nat /\ A + T <= span /\ j < T
      BY <2>1, <3>1, <3>2 DEF span
    <3> HIDE DEF A
    <3>4. A + j \in Nat /\ A + j < span
      BY <1>1, <3>3
    <3> QED BY <3>4 DEF A
  <2>3. d = o[t] * T + y
    <3>1. o[t] \in Int
      BY <1>13
    <3> QED BY <2>1, <3>1
  <2> HIDE DEF y
  <2>4. x \in Nat /\ x < N
    <3>1. (t + 1) * span <= n * span
      BY <1>1, Scaled
    <3>2. (t + 1) * span = t * span + span /\ t * span \in Nat
      BY <1>1
    <3> DEFINE A == t * span
    <3>3. A \in Nat /\ A + span <= N
      BY <3>1, <3>2 DEF N
    <3> HIDE DEF A
    <3>4. A + y \in Nat /\ A + y < N
      BY <1>1, <1>2, <2>2, <3>3
    <3> QED BY <3>4 DEF A
  <2> HIDE DEF x
  <2>5. x \in 0 .. N - 1
    BY <1>2, <2>4
  <2> DEFINE u == x \div span
             v == x % span
  <2>6. u \in 0 .. n - 1 /\ v \in 0 .. span - 1 /\ x = u * span + v
    BY <1>3, <2>5
  <2>7. f[x] = o[u] * T + v
    BY <2>5
  <2> HIDE DEF u, v, f
  <2>8. u * span + v = t * span + y
    BY <2>6 DEF x
  <2>9. u = t
    <3>1. u \in Int /\ t \in Int /\ v \in Nat /\ v < span /\ span \in Nat
      BY <1>1, <2>6
    <3> QED BY <2>2, <2>8, <3>1, OneRow
  <2>10. v = y
    <3> DEFINE A == t * span
    <3>1. A \in Int /\ A + v = A + y
      BY <1>1, <2>8, <2>9
    <3> HIDE DEF A
    <3> QED BY <1>1, <2>2, <2>6, <3>1
  <2> QED BY <2>3, <2>5, <2>7, <2>9, <2>10
<1> HIDE DEF f
<1>9. f \in Bijection(0 .. N - 1, D)
  BY <1>5, <1>7, <1>8 DEF Bijection, Injection, Surjection, IsInjective
<1>10. IsFiniteSet(0 .. N - 1) /\ Cardinality(0 .. N - 1) = N
  <2>1. 0 \in Int /\ N - 1 \in Int /\ ~ (0 > N - 1) /\ N - 1 - 0 + 1 = N
    BY <1>2
  <2> QED BY <2>1, FS_Interval
<1>11. Cardinality(D) = N
  BY <1>9, <1>10, FS_Bijection DEF ExistsBijection
<1> QED BY <1>11 DEF N, span

\* Thread t of a kernel has the rows of its share, and the rows of a later
\* thread begin behind them.
HasRows(k, s, t, p) ==
  LET str == k.streams[s]
      n == Len(str.dims)
      e == Extent(str)
      T == RowLength(n, e)
      h == e[1] \div k.threads
  IN  /\ n \in 1 .. 3 /\ e \in [1 .. n -> Nat] /\ SizeOf[str.type] \in Nat \ {0}
      /\ T \in Nat \ {0} /\ RowLength(n, p.sizes) = T
      /\ \A d \in 2 .. n : e[d] \in Nat \ {0} /\ p.sizes[d] = e[d] /\ p.offsets[d] = 0
      /\ p.sizes \in [1 .. n -> Int] /\ p.offsets \in [1 .. n -> Int]
      /\ p.start = _linear_offset(p.offsets, p.sizes)
      /\ h \in Nat /\ p.sizes[1] = h
      /\ p.offsets[1] \in Int
      /\ \A u \in ThreadsOf(k) : t < u =>
           \A r \in Parts(k, u, s) : p.offsets[1] + h <= r.offsets[1]

\* Results of the formulas for a thread of a kernel that is Dealt.
LEMMA Deals ==
  ASSUME NEW k, Dealt(k), NEW s \in StreamsOf(k), Allocatable(k.streams[s]),
         NEW t \in ThreadsOf(k), NEW p \in Parts(k, t, s)
  PROVE  HasRows(k, s, t, p)
<1> DEFINE str == k.streams[s]
           n == Len(str.dims)
           e == Extent(str)
           z == SizeOf[str.type]
           T == RowLength(n, e)
           N == k.threads
           m == e[1]
           h == m \div N
<1>1. /\ Confined(str) /\ Usual(str) /\ N \in Nat \ {0} /\ t \in 0 .. N - 1
      /\ \A d \in 2 .. n : str.dims[d] >= z
      /\ \/ str.sizes[1] = "share" /\ str.toffsets[1] \in {"start", "next"}
         \/ N = 1 /\ str.sizes[1] = "whole" /\ str.toffsets[1] = "zero"
  BY DEF Dealt, Confined, ThreadsOf
<1>2. n \in 1 .. 3 /\ e \in [1 .. n -> Nat] /\ z \in Nat \ {0}
  BY <1>1, Extents DEF Usual
<1>3. /\ p.sizes \in [1 .. n -> Int] /\ p.offsets \in [1 .. n -> Int]
      /\ p.start = _linear_offset(p.offsets, p.sizes)
      /\ p.sizes[1] \in Formula(str.sizes[1], m, N, t)
      /\ p.offsets[1] \in Formula(str.toffsets[1], m, N, t)
      /\ \A d \in 2 .. n : p.sizes[d] = e[d] /\ p.offsets[d] = 0
  BY <1>1, PartOf
<1>4. ASSUME NEW u \in ThreadsOf(k), NEW r \in Parts(k, u, s)
      PROVE  r.offsets[1] \in Formula(str.toffsets[1], m, N, u)
  BY <1>1, PartOf
<1>5. \A d \in 2 .. n : e[d] \in Nat \ {0}
  <2> SUFFICES ASSUME NEW d \in 2 .. n PROVE e[d] \in Nat \ {0}
    OBVIOUS
  <2>1. d \in 1 .. n /\ e[d] \in Nat
    BY <1>2
  <2>2. e[d] = str.dims[d] \div z
    BY <2>1 DEF Extent, Index
  <2>3. str.dims[d] \in Nat /\ str.dims[d] >= z
    BY SMTT(30), <1>1, <2>1 DEF Usual, Typed
  <2> DEFINE y == str.dims[d]
             q == y \div z
             r == y % z
  <2>4. y \in Nat /\ y >= z
    BY <2>3
  <2> HIDE DEF y, z
  <2>5. q \in Nat /\ r \in 0 .. z - 1 /\ y = z * q + r
    BY <1>2, <2>4, Division DEF z
  <2> HIDE DEF q, r
  <2>6. q # 0
    <3> SUFFICES ASSUME q = 0 PROVE FALSE
      OBVIOUS
    <3>1. z * q = 0 /\ z \in Nat
      BY <1>2 DEF z
    <3> QED BY <2>4, <2>5, <3>1
  <2> QED BY <2>1, <2>2, <2>5, <2>6 DEF q, y, z
<1> HIDE DEF str, n, e, z
<1>6. T \in Nat \ {0}
  BY <1>2, <1>5, RowLengths
<1>7. RowLength(n, p.sizes) = T
  <2>1. CASE n = 1
    BY <2>1 DEF RowLength
  <2>2. CASE n = 2
    BY <1>3, <2>2 DEF RowLength
  <2>3. CASE n = 3
    BY <1>3, <2>3 DEF RowLength
  <2> QED BY <1>2, <2>1, <2>2, <2>3
<1>8. m \in Nat
  BY <1>2
<1> HIDE DEF T, N, m
<1>9. h \in Nat
  BY <1>1, <1>8, Division
<1>10. p.sizes[1] = h
  <2>1. CASE str.sizes[1] = "share"
    BY <1>3, <2>1 DEF Formula
  <2>2. CASE N = 1 /\ str.sizes[1] = "whole"
    <3>1. p.sizes[1] = m
      BY <1>3, <2>2 DEF Formula
    <3>2. m = 1 * (m \div 1) + (m % 1) /\ m % 1 \in 0 .. 0 /\ m \div 1 \in Nat
      BY <1>8, Division
    <3>3. m \div 1 = m
      BY <1>8, <3>2
    <3> QED BY <2>2, <3>1, <3>3
  <2> QED BY <1>1, <2>1, <2>2
<1>11. p.offsets[1] \in Int
  BY <1>2, <1>3
<1>12. ASSUME NEW u \in ThreadsOf(k), t < u, NEW r \in Parts(k, u, s)
       PROVE  p.offsets[1] + h <= r.offsets[1]
  <2>1. u \in 0 .. N - 1
    BY DEF ThreadsOf, N
  <2>2. str.toffsets[1] \in {"start", "next"}
    BY <1>1, <1>12, <2>1
  <2> QED BY <1>1, <1>3, <1>4, <1>8, <1>12, <2>1, <2>2, StartsApart
<1> QED BY <1>2, <1>3, <1>5, <1>6, <1>7, <1>9, <1>10, <1>11, <1>12
        DEF HasRows, str, n, e, z, T, N, m

\* What a thread is through with has been written, and a kernel is refused for
\* one of its arrays or for a part that is not valid.
LeftInv ==
  /\ pc = "allocate" => Len(arrays) < Len(kernel.streams)
  /\ pc # "run" => \A t \in ThreadsOf(kernel) : todo[t] = StreamsOf(kernel)
  /\ \A t \in ThreadsOf(kernel), s \in StreamsOf(kernel) : s \notin todo[t] =>
       \A e \in Elements(chunk[<<t, s>>]) :
         [stream |-> s, thread |-> t, element |-> e] \in written
  /\ pc = "refused" =>
       \/ Len(arrays) < Len(kernel.streams)
       \/ /\ Len(arrays) = Len(kernel.streams)
          /\ \E t \in ThreadsOf(kernel), s \in StreamsOf(kernel) :
               /\ chunk[<<t, s>>] \in Parts(kernel, t, s)
               /\ ~ Valid(kernel, chunk[<<t, s>>], s)

LEMMA LeftStep ==
  ASSUME Listed, PartsInv, LeftInv, [Next]_vars
  PROVE  LeftInv'
<1>1. CASE allocate_arrays
  <2>1. /\ UNCHANGED <<kernel, chunk, written, todo>>
        /\ pc = "allocate" /\ pc' \in {"allocate", "update", "refused"}
    BY <1>1 DEF allocate_arrays
  <2>2. pc' = "refused" => UNCHANGED arrays
    BY <1>1, <2>1 DEF allocate_arrays
  <2>3. pc' = "allocate" => Len(arrays') < Len(kernel.streams)
    <3> SUFFICES ASSUME pc' = "allocate" PROVE Len(arrays') < Len(kernel.streams)
      OBVIOUS
    <3> DEFINE str == kernel.streams[Len(arrays) + 1]
               V == {Allocated(kernel.streams[i]) : i \in Nat}
               v == Allocated(str)
    <3>1. arrays' = Append(arrays, v) /\ Len(arrays') # Len(kernel.streams)
      BY <1>1, <2>1 DEF allocate_arrays
    <3>2. arrays \in Seq(V) /\ Len(arrays) \in Nat
      BY DEF PartsInv, ArraysInv
    <3>3. v \in V
      BY <3>2
    <3> HIDE DEF V, v
    <3>4. Len(arrays') = Len(arrays) + 1
      BY <3>1, <3>2, <3>3
    <3>5. Len(arrays) < Len(kernel.streams) /\ Len(kernel.streams) \in Nat
      BY <2>1 DEF LeftInv, PartsInv, Listed
    <3> QED BY <3>1, <3>2, <3>4, <3>5
  <2>4. Len(arrays) < Len(kernel.streams)
    BY <2>1 DEF LeftInv
  <2> QED BY <2>1, <2>2, <2>3, <2>4 DEF LeftInv
<1>2. CASE update_threads
  <2>1. /\ UNCHANGED <<kernel, arrays, written, todo>>
        /\ pc = "update" /\ pc' = "validate"
    BY <1>2 DEF update_threads
  <2>2. \A t \in ThreadsOf(kernel) : todo[t] = StreamsOf(kernel)
    BY <2>1 DEF LeftInv
  <2> QED BY <2>1, <2>2 DEF LeftInv
<1>3. CASE validate
  <2>1. /\ UNCHANGED <<kernel, arrays, chunk, written, todo>>
        /\ pc = "validate" /\ pc' \in {"run", "refused"}
        /\ pc' = "refused" => \E x \in DOMAIN chunk : ~ Valid(kernel, chunk[x], x[2])
    BY <1>3 DEF validate
  <2>2. ASSUME pc' = "refused"
        PROVE  /\ Len(arrays) = Len(kernel.streams)
               /\ \E t \in ThreadsOf(kernel), s \in StreamsOf(kernel) :
                    /\ chunk[<<t, s>>] \in Parts(kernel, t, s)
                    /\ ~ Valid(kernel, chunk[<<t, s>>], s)
    <3>1. PICK x \in DOMAIN chunk : ~ Valid(kernel, chunk[x], x[2])
      BY <2>1, <2>2
    <3>2. DOMAIN chunk = ThreadsOf(kernel) \X StreamsOf(kernel)
          /\ \A t \in ThreadsOf(kernel), s \in StreamsOf(kernel) :
               chunk[<<t, s>>] \in Parts(kernel, t, s)
      BY <2>1 DEF PartsInv, ChunkInv
    <3>3. PICK t \in ThreadsOf(kernel), s \in StreamsOf(kernel) : x = <<t, s>>
      BY <3>2
    <3>4. chunk[<<t, s>>] \in Parts(kernel, t, s) /\ ~ Valid(kernel, chunk[<<t, s>>], s)
      BY <3>1, <3>2, <3>3
    <3>5. Len(arrays) = Len(kernel.streams)
      BY <2>1 DEF PartsInv, ArraysInv
    <3> QED BY <3>4, <3>5
  <2>3. \A t \in ThreadsOf(kernel) : todo[t] = StreamsOf(kernel)
    BY <2>1 DEF LeftInv
  <2> QED BY <2>1, <2>2, <2>3 DEF LeftInv
<1>4. ASSUME NEW t \in ThreadsOf(kernel), initialize_local(t)
      PROVE  LeftInv'
  <2> DEFINE s == Min(todo[t])
  <2>1. /\ UNCHANGED <<kernel, arrays, chunk, pc>> /\ pc = "run"
        /\ written' = written \cup {[stream |-> s, thread |-> t, element |-> e] :
                                       e \in Elements(chunk[<<t, s>>])}
        /\ todo' = [todo EXCEPT ![t] = @ \ {s}]
    BY <1>4 DEF initialize_local
  <2> HIDE DEF s
  <2>2. ASSUME NEW u \in ThreadsOf(kernel), NEW r \in StreamsOf(kernel), r \notin todo'[u],
               NEW e \in Elements(chunk[<<u, r>>])
        PROVE  [stream |-> r, thread |-> u, element |-> e] \in written'
    <3>1. todo \in [ThreadsOf(kernel) -> SUBSET StreamsOf(kernel)]
      BY DEF PartsInv, WrittenInv
    <3>2. CASE r \notin todo[u]
      BY <2>1, <2>2, <3>2 DEF LeftInv
    <3>3. CASE r \in todo[u]
      <4>1. u = t /\ r = s
        BY <2>1, <2>2, <3>1, <3>3
      <4> QED BY <2>1, <2>2, <4>1
    <3> QED BY <3>2, <3>3
  <2> QED BY <2>1, <2>2 DEF LeftInv
<1>5. CASE UNCHANGED vars
  BY <1>5 DEF vars, LeftInv
<1> QED BY <1>1, <1>2, <1>3, <1>4, <1>5 DEF Next, Ended

\* The parts of the threads leave less than a row per thread.
LEMMA PartsLeave ==
  ASSUME NEW k, Dealt(k), NEW s \in StreamsOf(k), Allocatable(k.streams[s]),
         NEW p, \A t \in ThreadsOf(k) : p[t] \in Parts(k, t, s) /\ Valid(k, p[t], s),
         NEW done,
         \A t \in ThreadsOf(k) : \A x \in Elements(p[t]) : x \in done,
         \A x \in done : \E t \in ThreadsOf(k) : x \in Elements(p[t])
  PROVE  getstreamelems(k.streams[s]) - Cardinality(done) < k.threads * Row(k.streams[s])
<1> DEFINE str == k.streams[s]
           n == Len(str.dims)
           e == Extent(str)
           T == RowLength(n, e)
           N == k.threads
           m == e[1]
           h == m \div N
           o == [t \in 0 .. N - 1 |-> p[t].offsets[1]]
<1>1. /\ N \in Nat \ {0} /\ ThreadsOf(k) = 0 .. N - 1 /\ Confined(str)
      /\ Allocatable(str)
  BY DEF Dealt, ThreadsOf
<1>2. \A t \in 0 .. N - 1 : p[t] \in Parts(k, t, s) /\ Valid(k, p[t], s)
  BY <1>1
<1>3. /\ n \in 1 .. 3 /\ e \in [1 .. n -> Nat] /\ T \in Nat \ {0} /\ h \in Nat
      /\ \A d \in 2 .. n : e[d] \in Nat \ {0}
  <2>1. 0 \in ThreadsOf(k)
    BY <1>1
  <2>2. p[0] \in Parts(k, 0, s)
    BY <1>1, <1>2
  <2>3. HasRows(k, s, 0, p[0])
    BY <2>1, <2>2, <1>1, Deals
  <2> QED BY <2>3 DEF HasRows
<1>4. ASSUME NEW t \in 0 .. N - 1
      PROVE  /\ p[t].sizes \in [1 .. n -> Int] /\ p[t].offsets \in [1 .. n -> Int]
             /\ p[t].start = _linear_offset(p[t].offsets, p[t].sizes)
             /\ \A d \in 2 .. n : p[t].sizes[d] \in Nat \ {0} /\ p[t].offsets[d] = 0
             /\ p[t].sizes[1] = h /\ RowLength(n, p[t].sizes) = T
             /\ o[t] = p[t].offsets[1] /\ o[t] \in Int
             /\ \A u \in 0 .. N - 1 : t < u => o[t] + h <= o[u]
  <2>1. t \in ThreadsOf(k) /\ p[t] \in Parts(k, t, s)
    BY <1>1, <1>2
  <2>2. /\ \A u \in ThreadsOf(k) : p[u] \in Parts(k, u, s)
        /\ \A u \in ThreadsOf(k) : o[u] = p[u].offsets[1]
    BY <1>1, <1>2
  <2> HIDE DEF o
  <2>3. /\ RowLength(n, p[t].sizes) = T
        /\ \A d \in 2 .. n : /\ e[d] \in Nat \ {0} /\ p[t].sizes[d] = e[d]
                             /\ p[t].offsets[d] = 0
        /\ p[t].sizes \in [1 .. n -> Int] /\ p[t].offsets \in [1 .. n -> Int]
        /\ p[t].start = _linear_offset(p[t].offsets, p[t].sizes)
        /\ h \in Nat /\ p[t].sizes[1] = h
        /\ p[t].offsets[1] \in Int
        /\ \A u \in ThreadsOf(k) : t < u =>
             \A r \in Parts(k, u, s) : p[t].offsets[1] + h <= r.offsets[1]
    <3>1. HasRows(k, s, t, p[t])
      BY <1>1, <2>1, Deals
    <3> QED BY <3>1 DEF HasRows
  <2>4. \A u \in 0 .. N - 1 : t < u => o[t] + h <= o[u]
    BY <1>1, <2>1, <2>2, <2>3
  <2> QED BY <2>1, <2>2, <2>3, <2>4
<1>5. \A d \in 1 .. n : e[d] # 0
  <2>1. 0 \in 0 .. N - 1
    BY <1>1
  <2>2. 1 \in Index(str.dims) /\ p[0].sizes[1] # 0
    BY SMTT(60), <1>2, <1>3, <2>1 DEF Valid, Index
  <2>3. h # 0 /\ m \in Nat
    <3>1. p[0].sizes[1] = h
      BY <1>4, <2>1
    <3>2. m \in Nat
      BY <1>3
    <3> HIDE DEF h
    <3> QED BY <2>2, <3>1, <3>2
  <2>4. m # 0
    <3> SUFFICES ASSUME m = 0 PROVE FALSE
      OBVIOUS
    <3> HIDE DEF m, N
    <3>1. m = N * (m \div N) + (m % N) /\ m \div N \in Nat /\ m % N \in Nat
      BY <1>1, <2>3, Division
    <3>2. N * (m \div N) \in Nat
      BY <1>1, <3>1
    <3>3. m \div N <= (m \div N) * N /\ (m \div N) * N = N * (m \div N)
      BY <1>1, <3>1, Grows
    <3> QED BY <2>3, <3>1, <3>2, <3>3
  <2> QED BY <1>3, <2>4
<1>6. h \in Nat \ {0}
  <2>1. 0 \in 0 .. N - 1 /\ 1 \in Index(str.dims)
    BY <1>1, <1>3 DEF Index
  <2>2. p[0].sizes[1] # 0
    BY <1>2, <2>1 DEF Valid
  <2> QED BY <1>3, <1>4, <2>1, <2>2
<1>7. getstreamelems(str) = m * T /\ Row(str) = T
  BY <1>1, <1>5, Sized
<1>8. \A t \in 0 .. N - 1 : \A x \in Elements(p[t]) : x \in done
  BY <1>1
<1>9. \A x \in done : \E t \in 0 .. N - 1 : x \in Elements(p[t])
  BY <1>1
<1> HIDE DEF str, n, e, T, N, m, h
<1>10. \A t \in 0 .. N - 1, i \in Nat, j \in Nat :
         i < h /\ j < T => (o[t] + i) * T + j \in done
  <2> SUFFICES ASSUME NEW t \in 0 .. N - 1, NEW i \in Nat, NEW j \in Nat, i < h, j < T
               PROVE  (o[t] + i) * T + j \in done
    OBVIOUS
  <2> DEFINE q == p[t]
  <2>1. /\ q.sizes \in [1 .. n -> Int] /\ q.offsets \in [1 .. n -> Int]
        /\ q.start = _linear_offset(q.offsets, q.sizes)
        /\ \A d \in 2 .. n : q.sizes[d] \in Nat \ {0} /\ q.offsets[d] = 0
        /\ i < q.sizes[1] /\ RowLength(n, q.sizes) = T /\ o[t] = q.offsets[1]
    BY <1>4
  <2> HIDE DEF q
  <2>2. (q.offsets[1] + i) * RowLength(n, q.sizes) + j \in Elements(q)
    BY <1>3, <2>1, RowsOf
  <2> QED BY <1>8, <2>1, <2>2 DEF q
<1>11. \A x \in done : \E t \in 0 .. N - 1, i \in Nat, j \in Nat :
                       i < h /\ j < T /\ x = (o[t] + i) * T + j
  <2> SUFFICES ASSUME NEW x \in done
               PROVE  \E t \in 0 .. N - 1, i \in Nat, j \in Nat :
                        i < h /\ j < T /\ x = (o[t] + i) * T + j
    OBVIOUS
  <2>1. PICK t \in 0 .. N - 1 : x \in Elements(p[t])
    BY <1>9
  <2> DEFINE q == p[t]
  <2>2. /\ q.sizes \in [1 .. n -> Int] /\ q.offsets \in [1 .. n -> Int]
        /\ q.start = _linear_offset(q.offsets, q.sizes)
        /\ \A d \in 2 .. n : q.sizes[d] \in Nat /\ q.offsets[d] = 0
        /\ q.sizes[1] = h /\ RowLength(n, q.sizes) = T /\ o[t] = q.offsets[1]
        /\ x \in Elements(q)
    BY <1>4, <2>1
  <2> HIDE DEF q, o
  <2>3. LET U == RowLength(n, q.sizes)
        IN  \E i \in Nat, j \in Nat : i < q.sizes[1] /\ j < U /\ x = (q.offsets[1] + i) * U + j
    BY <1>3, <2>2, ElementOf
  <2>4. \E i \in Nat, j \in Nat : i < h /\ j < T /\ x = (o[t] + i) * T + j
    BY <2>2, <2>3
  <2> QED BY <2>4
<1>12. o \in [0 .. N - 1 -> Int] /\ \A t \in 0 .. N - 1, u \in 0 .. N - 1 : t < u => o[t] + h <= o[u]
  <2>1. \A t \in 0 .. N - 1 : o[t] \in Int
    BY <1>4
  <2>2. o = [t \in 0 .. N - 1 |-> o[t]]
    OBVIOUS
  <2> HIDE DEF o
  <2> QED BY <1>4, <2>1, <2>2
<1> HIDE DEF o
<1>13. Cardinality(done) = N * (h * T)
  <2>1. N \in Nat \ {0} /\ h \in Nat \ {0} /\ T \in Nat \ {0}
    BY <1>1, <1>3, <1>6
  <2>2. RowsAre(done, N, h, T, o)
    BY <1>10, <1>11, <1>12 DEF RowsAre
  <2> QED BY <2>1, <2>2, Covered
<1>14. m * T - N * (h * T) < N * T
  <2> DEFINE r == m % N
  <2>1. m \in Nat
    BY <1>3 DEF m
  <2>2. m = N * h + r /\ r \in 0 .. N - 1
    BY <1>1, <2>1, Division DEF h
  <2> HIDE DEF r
  <2>3. m * T = N * (h * T) + r * T
    BY <1>1, <1>3, <2>2
  <2>4. (r + 1) * T <= N * T
    BY <1>1, <1>3, <2>2, Scaled
  <2>5. (r + 1) * T = r * T + T
    BY <1>3, <2>2
  <2> DEFINE A == N * (h * T)
             B == r * T
             C == N * T
  <2>6. /\ A \in Int /\ B \in Int /\ C \in Int /\ m * T = A + B /\ B + T <= C
        /\ T \in Nat \ {0}
    BY <1>1, <1>3, <2>2, <2>3, <2>4, <2>5
  <2> HIDE DEF A, B, C
  <2>7. m * T - A < C
    BY <2>6
  <2> QED BY <2>7 DEF A, C
<1> QED BY <1>7, <1>13, <1>14 DEF str, N

\* A part that is not valid ends outside its array or is of an array with fewer
\* rows than threads.
LEMMA Unfit ==
  ASSUME NEW k, Dealt(k), NEW s \in StreamsOf(k), Allocatable(k.streams[s]),
         NEW t \in ThreadsOf(k), NEW p \in Parts(k, t, s), ~ Valid(k, p, s)
  PROVE  \/ Extent(k.streams[s])[1] < k.threads
         \/ p.start + Product(p.sizes) > getstreamelems(k.streams[s])
<1> DEFINE str == k.streams[s]
           n == Len(str.dims)
           e == Extent(str)
           z == SizeOf[str.type]
           T == RowLength(n, e)
           N == k.threads
           m == e[1]
           h == m \div N
           st == p.start
           o == p.offsets[1]
           V == m * T
<1> SUFFICES ASSUME ~ (m < N)
             PROVE  st + Product(p.sizes) > getstreamelems(str)
  OBVIOUS
<1>1. Confined(str) /\ N \in Nat \ {0}
  BY DEF Dealt
<1>2. /\ n \in 1 .. 3 /\ e \in [1 .. n -> Nat] /\ z \in Nat \ {0}
      /\ T \in Nat \ {0} /\ RowLength(n, p.sizes) = T
      /\ \A d \in 2 .. n : e[d] \in Nat \ {0} /\ p.sizes[d] = e[d] /\ p.offsets[d] = 0
      /\ p.sizes \in [1 .. n -> Int] /\ p.offsets \in [1 .. n -> Int]
      /\ st = _linear_offset(p.offsets, p.sizes)
      /\ h \in Nat /\ p.sizes[1] = h /\ o \in Int
  <2>1. HasRows(k, s, t, p)
    BY Deals
  <2> QED BY <2>1 DEF HasRows
<1>3. PICK d \in 1 .. n :
        \/ p.sizes[d] = 0
        \/ ~ (st * z + p.sizes[d] * z <= getstreambytes(str))
  BY DEF Valid, _ptr_in_range, Index
<1> HIDE DEF str, n, e, z, N, st, o, T
<1>4. m \in Nat \ {0} /\ N <= m
  BY <1>1, <1>2
<1>5. \A i \in 1 .. n : e[i] # 0
  BY <1>2, <1>4
<1>6. /\ V \in Nat /\ V < Modulus /\ getstreamelems(str) = V
      /\ getstreambytes(str) = V * z
  BY <1>1, <1>2, <1>5, Sized DEF str, n, e, z, T
<1>7. Allocatable(str)
  BY DEF str
<1> HIDE DEF m
<1>8. h \in Nat \ {0} /\ h <= m
  <2>1. h \in Nat /\ m % N \in 0 .. N - 1 /\ m = N * h + (m % N)
    BY <1>1, <1>4, Division
  <2>2. h # 0
    <3> SUFFICES ASSUME h = 0 PROVE FALSE
      OBVIOUS
    <3> DEFINE r == m % N
    <3>1. N * h = 0 /\ r \in 0 .. N - 1 /\ m = N * h + r
      BY <1>1, <2>1
    <3> HIDE DEF r
    <3> QED BY <1>1, <1>4, <3>1
  <2>3. h <= h * N /\ h * N = N * h
    BY <1>1, <2>1, Grows
  <2> DEFINE A == N * h
             r == m % N
  <2>4. A \in Nat /\ r \in Nat /\ m = A + r /\ h <= A
    BY <1>1, <2>1, <2>3
  <2> HIDE DEF A, r
  <2> QED BY <2>1, <2>2, <2>4
<1> HIDE DEF h
<1>9. h * T <= V /\ h * T \in Nat
  BY <1>2, <1>4, <1>8, Scaled
<1>10. Product(p.sizes) = h * T
  <2>1. Volume(n, p.sizes) = h * T
    BY <1>2 DEF Volume
  <2>2. h * T < Modulus
    <3> HIDE DEF V
    <3> QED BY <1>6, <1>9, Modulo
  <2>3. Len(p.sizes) = n
    BY <1>2
  <2> QED BY <1>2, <1>8, <2>1, <2>2, <2>3, Exact
<1>11. p.sizes[d] \in Nat \ {0} /\ p.sizes[d] <= h * T
  <2>1. CASE d = 1
    <3>1. h <= h * T
      BY <1>2, <1>8, Grows
    <3> QED BY <1>2, <1>8, <2>1, <3>1
  <2>2. CASE d \in 2 .. n
    <3>1. e[d] <= T
      <4>1. CASE n = 2
        <5>1. T = e[2] /\ d = 2 /\ e[2] \in Nat
          BY <1>2, <2>2, <4>1 DEF T, RowLength
        <5> QED BY <5>1
      <4>2. CASE n = 3
        <5> DEFINE a == e[2]
                   b == e[3]
        <5>1. a \in Nat \ {0} /\ b \in Nat \ {0}
          BY <1>2, <4>2
        <5>2. T = a * b
          BY <4>2 DEF T, RowLength
        <5> HIDE DEF a, b
        <5>3. a <= a * b /\ b <= b * a /\ b * a = a * b
          BY <5>1, Grows
        <5>4. d = 2 \/ d = 3
          BY <2>2, <4>2
        <5> QED BY <5>2, <5>3, <5>4 DEF a, b
      <4> QED BY <1>2, <2>2, <4>1, <4>2
    <3>2. T <= T * h /\ T * h = h * T
      BY <1>2, <1>8, Grows
    <3>3. p.sizes[d] = e[d] /\ e[d] \in Nat \ {0}
      BY <1>2, <2>2
    <3> DEFINE A == h * T
    <3>4. A \in Nat /\ T <= A
      BY <1>9, <3>2
    <3> HIDE DEF A
    <3>5. e[d] <= A
      BY <1>2, <3>1, <3>3, <3>4
    <3> QED BY <3>3, <3>5 DEF A
  <2> QED BY <1>2, <2>1, <2>2
<1> DEFINE w == p.sizes[d]
           H == h * T
<1>12. st \in Int
  <2>1. CASE n = 1
    <3>1. st = 0 * p.sizes[1] + o
      BY <1>2, <2>1, Offsets DEF o
    <3> QED BY <1>2, <1>8, <3>1
  <2>2. CASE n = 2
    <3>1. st = (0 * p.sizes[1] + o) * p.sizes[2] + 0
      BY <1>2, <2>2, Offsets DEF o
    <3>2. p.sizes[2] \in Nat
      BY <1>2, <2>2
    <3> QED BY <1>2, <1>8, <3>1, <3>2
  <2>3. CASE n = 3
    <3>1. st = ((0 * p.sizes[1] + o) * p.sizes[2] + 0) * p.sizes[3] + 0
      BY <1>2, <2>3, Offsets DEF o
    <3>2. p.sizes[2] \in Nat /\ p.sizes[3] \in Nat
      BY <1>2, <2>3
    <3> QED BY <1>2, <1>8, <3>1, <3>2
  <2> QED BY <1>2, <2>1, <2>2, <2>3
<1>13. ~ (st * z + w * z <= V * z)
  BY <1>3, <1>6, <1>11
<1> HIDE DEF w, V, H
<1>14. w \in Nat /\ H \in Nat /\ w <= H
  BY <1>9, <1>11 DEF w, H
<1>15. ~ (st + w <= V)
  <2> SUFFICES ASSUME st + w <= V PROVE FALSE
    OBVIOUS
  <2>1. (st + w) * z <= V * z
    BY <1>2, <1>6, <1>12, <1>14, Scaled
  <2>2. (st + w) * z = st * z + w * z
    BY <1>2, <1>12, <1>14
  <2> QED BY <1>13, <2>1, <2>2
<1>16. st + H > V
  BY <1>6, <1>12, <1>14, <1>15
<1> QED BY <1>6, <1>10, <1>16 DEF H, st, str

\* The parts of the threads leave less than a row per thread of a stream, and
\* a kernel is refused only if one of its arrays or parts cannot fit, whatever
\* the extents and the number of threads, for kernels that are Dealt
\* (update_threads).
THEOREM LeavesLessThanRows ==
  ASSUME Listed, \A k \in Kernels : Dealt(k)
  PROVE  Spec => []SharedOut
<1>1. Init => LeftInv
  <2> SUFFICES ASSUME Init PROVE LeftInv
    OBVIOUS
  <2>1. Dealt(kernel)
    BY DEF Init
  <2>2. Len(arrays) = 0
    BY DEF Init
  <2>3. Len(arrays) < Len(kernel.streams)
    BY <2>1, <2>2 DEF Dealt
  <2> QED BY <2>3 DEF Init, LeftInv
<1>2. PartsInv /\ LeftInv /\ [Next]_vars => LeftInv'
  BY LeftStep
<1>3. PartsInv /\ LeftInv => SharedOut
  <2> SUFFICES ASSUME PartsInv, LeftInv PROVE FewLeft /\ RefusesOnlyUnfit
    BY DEF SharedOut
  <2>1. Dealt(kernel)
    BY DEF PartsInv
  <2>2. FewLeft
    <3> SUFFICES ASSUME pc = "run", \A t \in ThreadsOf(kernel) : todo[t] = {},
                        NEW s \in StreamsOf(kernel)
                 PROVE  getstreamelems(kernel.streams[s])
                          - Cardinality({x.element : x \in {y \in written : y.stream = s}})
                          < kernel.threads * Row(kernel.streams[s])
      BY DEF FewLeft
    <3> DEFINE p == [t \in ThreadsOf(kernel) |-> chunk[<<t, s>>]]
               done == {x.element : x \in {y \in written : y.stream = s}}
    <3>1. Allocatable(kernel.streams[s])
      BY DEF PartsInv, ArraysInv, StreamsOf, Index
    <3>2. \A t \in ThreadsOf(kernel) : p[t] \in Parts(kernel, t, s) /\ Valid(kernel, p[t], s)
      BY DEF PartsInv, ChunkInv
    <3>3. ASSUME NEW t \in ThreadsOf(kernel), NEW x \in Elements(p[t])
          PROVE  x \in done
      <4> DEFINE y == [stream |-> s, thread |-> t, element |-> x]
      <4>1. y \in written
        BY <3>3 DEF LeftInv
      <4>2. y.stream = s /\ y.element = x
        OBVIOUS
      <4> HIDE DEF y
      <4> QED BY <4>1, <4>2
    <3>4. ASSUME NEW x \in done
          PROVE  \E t \in ThreadsOf(kernel) : x \in Elements(p[t])
      <4>1. PICK y \in written : y.stream = s /\ x = y.element
        OBVIOUS
      <4>2. y.thread \in ThreadsOf(kernel) /\ x \in Elements(p[y.thread])
        BY <4>1 DEF PartsInv, WrittenInv
      <4> QED BY <4>2
    <3> HIDE DEF p, done
    <3>5. getstreamelems(kernel.streams[s]) - Cardinality(done)
            < kernel.threads * Row(kernel.streams[s])
      BY <2>1, <3>1, <3>2, <3>3, <3>4, PartsLeave
    <3> QED BY <3>5 DEF done
  <2>3. RefusesOnlyUnfit
    <3> SUFFICES ASSUME pc = "refused", ~ (Len(arrays) < Len(kernel.streams))
                 PROVE  \E s \in StreamsOf(kernel) :
                          LET str == kernel.streams[s]
                          IN  \/ Extent(str)[1] < kernel.threads
                              \/ \E t \in ThreadsOf(kernel) :
                                   chunk[<<t, s>>].start + Product(chunk[<<t, s>>].sizes)
                                     > getstreamelems(str)
      BY DEF RefusesOnlyUnfit
    <3>1. PICK t \in ThreadsOf(kernel), s \in StreamsOf(kernel) :
            chunk[<<t, s>>] \in Parts(kernel, t, s) /\ ~ Valid(kernel, chunk[<<t, s>>], s)
      BY DEF LeftInv
    <3>2. Allocatable(kernel.streams[s])
      BY DEF LeftInv, PartsInv, ArraysInv, StreamsOf, Index
    <3>3. \/ Extent(kernel.streams[s])[1] < kernel.threads
          \/ chunk[<<t, s>>].start + Product(chunk[<<t, s>>].sizes)
               > getstreamelems(kernel.streams[s])
      BY <2>1, <3>1, <3>2, Unfit
    <3> QED BY <3>3
  <2> QED BY <2>2, <2>3
<1> QED BY <1>1, <1>2, <1>3, PartsKept, PTL DEF Spec

-----------------------------------------------------------------------------
(* What main allocates, frees, writes and loads.                           *)

\* Workgroups and their threads are counted from one; of a member that
\* nobody has set only this may be said.
LifecycleConstants == L!Numbered /\ Fresh \subseteq {"null", "wild"}

\* What main does to its memory and files is a behaviour of Lifecycle.
LEMMA IsLifecycle ==
  ASSUME LifecycleConstants
  PROVE  MemorySpec => L!Spec
<1>1. MemoryInit => L!Init
  BY DEF MemoryInit
<1>2. [MemoryNext]_<<moves, vars, lifecycle>> => [L!Next]_L!vars
  BY DEF MemoryNext, lifecycle, L!vars
<1> QED BY <1>1, <1>2, PTL DEF MemorySpec, L!Spec

\* A program that no signal has stopped leaves no file in /tmp, but for a
\* temporary one it could not remove (_rm_tmpfiles, bunlink): what main
\* compiles it notes before it writes it.
THEOREM LeavesNoFile ==
  ASSUME LifecycleConstants
  PROVE  MemorySpec => []FilesRemoved
BY IsLifecycle, L!RemovesFiles, PTL DEF FilesRemoved

\* No thread is started unless the kernel of every thread of every workgroup
\* has been loaded (open_function, create_threads).
THEOREM LoadsBeforeStart ==
  ASSUME LifecycleConstants
  PROVE  MemorySpec => []StartsOnlyComplete
<1>1. L!Spec => []L!StartsOnlyComplete
  BY L!StartsComplete DEF LifecycleConstants
<1> QED BY <1>1, IsLifecycle, PTL DEF StartsOnlyComplete

\* Whatever fails and whenever, nothing is freed twice, nothing is freed or
\* followed that was not allocated, and nothing is freed while a thread
\* works on it, but for the failures named in MemorySafe and
\* NothingFreedInUse of Lifecycle.
THEOREM KeepsMemorySafe ==
  ASSUME LifecycleConstants
  PROVE  MemorySpec => []MemorySafe
<1>1. L!Spec => []L!MemorySafe
  BY L!FreesOnlyAllocated DEF LifecycleConstants
<1>2. L!Spec => []L!NothingFreedInUse
  BY L!UsesAllocated DEF LifecycleConstants
<1> QED BY <1>1, <1>2, IsLifecycle, PTL DEF MemorySafe
=============================================================================
