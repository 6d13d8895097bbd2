----------------------------- MODULE MapProofs -----------------------------
(***************************************************************************)
(* The map of src/map.c over the hash table of src/ghash.c, for every      *)
(* sequence of calls, any keys with any hash values and any smallest size: *)
(* searches end, and the map is the dictionary its calls have made.        *)
(***************************************************************************)
EXTENDS Map, Recursion, FiniteSetTheorems

-----------------------------------------------------------------------------
(* Powers of two: the sizes of tables, and of integers twice as large.     *)

LEMMA Literals ==
  /\ 2 ^ 0 = 1 /\ 2 ^ 1 = 2 /\ 2 ^ 2 = 4 /\ 2 ^ 3 = 8
  /\ 2 ^ 4 = 16 /\ 2 ^ 5 = 32 /\ 2 ^ 6 = 64 /\ 2 ^ 7 = 128
  /\ 2 ^ 8 = 256 /\ 2 ^ 9 = 512 /\ 2 ^ 10 = 1024 /\ 2 ^ 11 = 2048
  /\ 2 ^ 12 = 4096 /\ 2 ^ 13 = 8192 /\ 2 ^ 14 = 16384 /\ 2 ^ 15 = 32768
  /\ 2 ^ 16 = 65536 /\ 2 ^ 17 = 131072 /\ 2 ^ 18 = 262144 /\ 2 ^ 19 = 524288
  /\ 2 ^ 20 = 1048576 /\ 2 ^ 21 = 2097152 /\ 2 ^ 22 = 4194304 /\ 2 ^ 23 = 8388608
  /\ 2 ^ 24 = 16777216 /\ 2 ^ 25 = 33554432 /\ 2 ^ 26 = 67108864 /\ 2 ^ 27 = 134217728
  /\ 2 ^ 28 = 268435456 /\ 2 ^ 29 = 536870912 /\ 2 ^ 30 = 1073741824 /\ 2 ^ 31 = 2147483648
  /\ 2 ^ 32 = 4294967296
OBVIOUS

LEMMA Doubling ==
  /\ \A s \in 0 .. 32 : 2 ^ s \in Nat \ {0}
  /\ \A s \in 0 .. 32 : s < 2 ^ s
  /\ \A s \in 0 .. 31 : 2 ^ (s + 1) = 2 * 2 ^ s
<1> DEFINE p == [s \in 0 .. 32 |-> 2 ^ s]
<1>1.
      /\ p[0] = 1 /\ p[1] = 2 /\ p[2] = 4 /\ p[3] = 8
      /\ p[4] = 16 /\ p[5] = 32 /\ p[6] = 64 /\ p[7] = 128
      /\ p[8] = 256 /\ p[9] = 512 /\ p[10] = 1024 /\ p[11] = 2048
      /\ p[12] = 4096 /\ p[13] = 8192 /\ p[14] = 16384 /\ p[15] = 32768
      /\ p[16] = 65536 /\ p[17] = 131072 /\ p[18] = 262144 /\ p[19] = 524288
      /\ p[20] = 1048576 /\ p[21] = 2097152 /\ p[22] = 4194304 /\ p[23] = 8388608
      /\ p[24] = 16777216 /\ p[25] = 33554432 /\ p[26] = 67108864 /\ p[27] = 134217728
      /\ p[28] = 268435456 /\ p[29] = 536870912 /\ p[30] = 1073741824 /\ p[31] = 2147483648
      /\ p[32] = 4294967296
  BY Literals
<1>2. \A s \in 0 .. 32 : p[s] = 2 ^ s
  OBVIOUS
<1> HIDE DEF p
<1>3. ASSUME NEW s \in 0 .. 31
      PROVE  p[s + 1] = 2 * p[s]
  <2>1. s \in {0, 1, 2, 3, 4, 5, 6, 7, 8, 9, 10, 11, 12, 13, 14, 15,
                 16, 17, 18, 19, 20, 21, 22, 23, 24, 25, 26, 27, 28, 29, 30, 31}
    OBVIOUS
  <2> QED BY <1>1, <2>1
<1>4. ASSUME NEW s \in 0 .. 32
      PROVE  p[s] \in Nat \ {0}
  <2>1. s \in {0, 1, 2, 3, 4, 5, 6, 7, 8, 9, 10, 11, 12, 13, 14, 15,
                 16, 17, 18, 19, 20, 21, 22, 23, 24, 25, 26, 27, 28, 29, 30, 31,
                 32}
    OBVIOUS
  <2> QED BY <1>1, <2>1
<1>5. \A s \in 0 .. 31 : s \in 0 .. 32 /\ s + 1 \in 0 .. 32
  OBVIOUS
<1>6. ASSUME NEW s \in 0 .. 32
      PROVE  s < p[s]
  <2>1. s \in {0, 1, 2, 3, 4, 5, 6, 7, 8, 9, 10, 11, 12, 13, 14, 15,
                 16, 17, 18, 19, 20, 21, 22, 23, 24, 25, 26, 27, 28, 29, 30, 31,
                 32}
    OBVIOUS
  <2> QED BY <1>1, <2>1
<1> QED BY <1>2, <1>3, <1>4, <1>5, <1>6, Zenon

-----------------------------------------------------------------------------
(* Triangular probing.                                                     *)

\* A power of two divides a product with an odd number only if it divides
\* the other one.
DividesOther(M) ==
  \A a, b, q \in Nat : a % 2 = 1 /\ a * b = M * q => \E r \in Nat : b = M * r

LEMMA OddTimes ==
  ASSUME NEW a \in Nat, NEW r \in Nat, a % 2 = 1, NEW q \in Nat, a * r = 2 * q
  PROVE  \E h \in Nat : r = 2 * h
<1>1. PICK c \in Nat : a = 2 * c + 1
  <2>1. a \div 2 \in Nat /\ a = 2 * (a \div 2) + 1
    OBVIOUS
  <2> QED BY <2>1
<1>2. r = 2 * (q - c * r)
  BY <1>1
<1>3. q - c * r \in Nat
  <2> DEFINE z == c * r
  <2>1. z \in Nat
    BY <1>1
  <2>2. r = 2 * (q - z)
    BY <1>2
  <2> HIDE DEF z
  <2>3. q - z \in Nat
    BY <2>1, <2>2
  <2> QED BY <2>3 DEF z
<1> QED BY <1>2, <1>3

LEMMA OtherDivided ==
  ASSUME NEW M, DividesOther(M), NEW a \in Nat, NEW b \in Nat, NEW q \in Nat,
         a % 2 = 1, a * b = M * q
  PROVE  \E r \in Nat : b = M * r
BY ZenonT(40) DEF DividesOther

LEMMA NextPower ==
  ASSUME NEW M \in Nat \ {0}, DividesOther(M), NEW N, N = 2 * M
  PROVE  DividesOther(N)
<1>1. ASSUME NEW a \in Nat, NEW b \in Nat, NEW q \in Nat, a % 2 = 1, a * b = N * q
      PROVE  \E r \in Nat : b = N * r
  <2>1. a * b = M * (2 * q) /\ 2 * q \in Nat
    BY <1>1
  <2>2. PICK r \in Nat : b = M * r
    BY <1>1, <2>1, ZenonT(40) DEF DividesOther
  <2>3. M * (a * r) = M * (2 * q)
    BY <2>1, <2>2
  <2>4. a * r = 2 * q
    <3> DEFINE x == a * r
               y == 2 * q
    <3>1. x \in Nat /\ y \in Nat /\ M * x = M * y
      BY <2>3
    <3> HIDE DEF x, y
    <3>2. x = y
      BY <3>1
    <3> QED BY <3>2 DEF x, y
  <2>5. PICK h \in Nat : r = 2 * h
    BY <1>1, <2>4, OddTimes, ZenonT(40)
  <2> QED BY <2>2, <2>5
<1>2. \A a, b, q \in Nat : a % 2 = 1 /\ a * b = N * q => \E r \in Nat : b = N * r
  <2> TAKE a, b, q \in Nat
  <2> HAVE a % 2 = 1 /\ a * b = N * q
  <2> QED BY <1>1, Zenon
<1> QED BY <1>2, Zenon DEF DividesOther

LEMMA PowersDivide ==
  ASSUME NEW s \in 0 .. 32
  PROVE  DividesOther(2 ^ s)
<1> DEFINE Bad == {n \in 0 .. 32 : ~ DividesOther(2 ^ n)}
<1> SUFFICES ASSUME Bad # {} PROVE FALSE
  OBVIOUS
<1>0. Bad \in SUBSET Nat
  OBVIOUS
<1> HIDE DEF Bad
<1>1. PICK n \in Bad : \A y \in Bad : n <= y
  BY <1>0, Least
<1> USE DEF Bad
<1>2. n # 0
  <2>1. DividesOther(1)
    BY DEF DividesOther
  <2>2. n = 0 => 2 ^ n = 1
    BY Literals
  <2>3. n = 0 => DividesOther(2 ^ n)
    BY <2>1, <2>2, Zenon
  <2> QED BY <2>3
<1>3. n - 1 \in 0 .. 31 /\ n - 1 \in 0 .. 32 /\ (n - 1) + 1 = n /\ n - 1 \notin Bad
  BY <1>1, <1>2
<1>4. 2 ^ n = 2 * 2 ^ (n - 1) /\ 2 ^ (n - 1) \in Nat \ {0}
  <2> DEFINE m == n - 1
  <2>1. m \in 0 .. 31 /\ m \in 0 .. 32 /\ n = m + 1
    BY <1>3
  <2> HIDE DEF m
  <2>2. 2 ^ (m + 1) = 2 * 2 ^ m /\ 2 ^ m \in Nat \ {0}
    BY <2>1, Doubling
  <2> QED BY <2>1, <2>2 DEF m
<1>5. DividesOther(2 ^ (n - 1))
  BY <1>3
<1>6. DividesOther(2 ^ n)
  BY <1>4, <1>5, NextPower
<1> QED BY <1>6

\* Two steps of a probe sequence that are less than N apart lead to
\* different buckets: twice their distance is (j - i) * (j + i + 1), one
\* factor is odd, and 2 * N is more than the other.
LEMMA Steps ==
  ASSUME NEW N \in Nat \ {0}, DividesOther(2 * N),
         NEW i \in 0 .. N - 1, NEW j \in 0 .. N - 1, i < j, NEW q \in Nat
  PROVE  (j - i) * (j + i + 1) # (2 * N) * q
<1> DEFINE M == 2 * N
           a == j - i
           b == j + i + 1
<1> SUFFICES ASSUME a * b = M * q PROVE FALSE
  OBVIOUS
<1>1. /\ a \in Nat \ {0} /\ b \in Nat \ {0} /\ M \in Nat \ {0} /\ a < M /\ b < M
      /\ a % 2 = 1 \/ b % 2 = 1
  <2>1. a + b = 2 * j + 1
    OBVIOUS
  <2>2. a \in Nat \ {0} /\ b \in Nat \ {0} /\ M \in Nat \ {0} /\ a < M /\ b < M
    OBVIOUS
  <2> HIDE DEF a, b
  <2>3. a % 2 = 1 \/ b % 2 = 1
    BY <2>1, <2>2
  <2> QED BY <2>2, <2>3
<1>2. DividesOther(M) /\ a \in Nat /\ b \in Nat
  OBVIOUS
<1> HIDE DEF M, a, b
<1>3. \A r \in Nat, c \in Nat \ {0} : c < M => c # M * r
  <2> SUFFICES ASSUME NEW r \in Nat, NEW c \in Nat \ {0}, c < M, c = M * r PROVE FALSE
    OBVIOUS
  <2>1. CASE r = 0
    BY <1>1, <2>1
  <2>2. CASE r >= 1
    <3>1. M * r >= M
      BY <1>1, <2>2
    <3> QED BY <1>1, <3>1
  <2> QED BY <2>1, <2>2
<1>4. CASE a % 2 = 1
  <2>1. \E r \in Nat : b = M * r
    BY <1>2, <1>4, OtherDivided, Zenon
  <2> QED BY <1>1, <1>3, <2>1
<1>5. CASE b % 2 = 1
  <2>1. b * a = M * q
    BY <1>1
  <2>2. \E r \in Nat : a = M * r
    BY <1>2, <1>5, <2>1, OtherDivided, ZenonT(40)
  <2> QED BY <1>1, <1>3, <2>2
<1> QED BY <1>1, <1>4, <1>5

LEMMA Triangular ==
  ASSUME NEW i \in Nat
  PROVE  (i * (i + 1)) \div 2 \in Nat /\ i * (i + 1) = 2 * ((i * (i + 1)) \div 2)
<1>1. PICK h \in Nat : i = 2 * h \/ i = 2 * h + 1
  <2>1. i \div 2 \in Nat /\ (i = 2 * (i \div 2) \/ i = 2 * (i \div 2) + 1)
    OBVIOUS
  <2> QED BY <2>1
<1>2. \E z \in Nat : i * (i + 1) = 2 * z
  <2>1. CASE i = 2 * h
    <3>1. i * (i + 1) = 2 * (h * (i + 1)) /\ h * (i + 1) \in Nat
      BY <2>1
    <3> QED BY <3>1
  <2>2. CASE i = 2 * h + 1
    <3>1. i * (i + 1) = 2 * (i * (h + 1)) /\ i * (h + 1) \in Nat
      BY <2>2
    <3> QED BY <3>1
  <2> QED BY <1>1, <2>1, <2>2
<1> DEFINE p == i * (i + 1)
<1> HIDE DEF p
<1>3. PICK z \in Nat : p = 2 * z
  BY <1>2 DEF p
<1>4. p \div 2 = z
  BY <1>3
<1>5. p \div 2 \in Nat /\ p = 2 * (p \div 2)
  BY <1>3, <1>4
<1> QED BY <1>5 DEF p

Sizes == {2 ^ s : s \in 0 .. 31}

\* the bucket looked at after i steps from H
Step(H, i, N) == (H + (i * (i + 1)) \div 2) % N

LEMMA Remainders ==
  ASSUME NEW x \in Nat, NEW y \in Nat, x <= y, NEW N \in Nat \ {0}, x % N = y % N
  PROVE  \E q \in Nat : y - x = N * q
<1> DEFINE a == x \div N
           b == y \div N
           r == x % N
<1>1. a \in Nat /\ b \in Nat /\ r \in 0 .. N - 1 /\ x = N * a + r /\ y = N * b + r
  OBVIOUS
<1> HIDE DEF a, b, r
<1>2. b - a \in Int /\ y - x = N * (b - a)
  BY <1>1
<1>3. b >= a
  BY <1>1
<1>4. b - a \in Nat
  BY <1>1, <1>3
<1> QED BY <1>2, <1>4

\* Probe sequences do not come back before they have visited every bucket.
LEMMA StepsApart ==
  ASSUME NEW N \in Sizes, NEW H \in Nat,
         NEW i \in 0 .. N - 1, NEW j \in 0 .. N - 1, i < j
  PROVE  Step(H, i, N) # Step(H, j, N)
<1>1. PICK s \in 0 .. 31 : N = 2 ^ s
  BY DEF Sizes
<1>2. N \in Nat \ {0} /\ 2 ^ (s + 1) = 2 * N
  <2>1. s \in 0 .. 32
    OBVIOUS
  <2> QED BY <1>1, <2>1, Doubling, Zenon
<1>3. DividesOther(2 * N)
  <2>1. s + 1 \in 0 .. 32
    OBVIOUS
  <2>2. DividesOther(2 ^ (s + 1))
    BY <2>1, PowersDivide
  <2> QED BY <1>2, <2>2
<1> DEFINE x == (i * (i + 1)) \div 2
           y == (j * (j + 1)) \div 2
<1>4. i \in Nat /\ j \in Nat
  BY <1>2
<1>5. /\ x \in Nat /\ i * (i + 1) = 2 * x
      /\ y \in Nat /\ j * (j + 1) = 2 * y
  BY <1>4, Triangular
<1>6. j * (j + 1) - i * (i + 1) = (j - i) * (j + i + 1)
  BY <1>4
<1>7. x <= y
  <2>1. i * (i + 1) <= j * (j + 1)
    <3>1. (j - i) * (j + i + 1) >= 0
      <4> DEFINE d == j - i
      <4>1. d \in Nat /\ j + i + 1 \in Nat
        BY <1>4
      <4> HIDE DEF d
      <4>2. d * (j + i + 1) \in Nat
        BY <4>1
      <4> QED BY <4>2 DEF d
    <3> DEFINE a == i * (i + 1)
               b == j * (j + 1)
               c == (j - i) * (j + i + 1)
    <3>2. a \in Int /\ b \in Int /\ c \in Int /\ b - a = c /\ c >= 0
      BY <1>4, <1>6, <3>1
    <3> HIDE DEF a, b, c
    <3>3. a <= b
      BY <3>2
    <3> QED BY <3>3 DEF a, b
  <2> HIDE DEF x, y
  <2> QED BY <1>5, <2>1
<1> SUFFICES ASSUME (H + x) % N = (H + y) % N PROVE FALSE
  BY DEF Step
<1> HIDE DEF x, y
<1>8. PICK q \in Nat : (H + y) - (H + x) = N * q
  <2>1. H + x \in Nat /\ H + y \in Nat /\ H + x <= H + y
    BY <1>5, <1>7
  <2> QED BY <1>2, <2>1, Remainders
<1>9. 2 * y - 2 * x = (2 * N) * q
  <2> DEFINE z == N * q
  <2>1. z \in Int /\ (2 * N) * q = 2 * z /\ y - x = z
    BY <1>2, <1>5, <1>8
  <2> HIDE DEF z
  <2>2. 2 * y - 2 * x = 2 * z
    BY <1>5, <2>1
  <2> QED BY <2>1, <2>2
<1>10. (j - i) * (j + i + 1) = (2 * N) * q
  BY <1>5, <1>6, <1>9
<1> QED BY <1>2, <1>3, <1>10, Steps, Zenon

LEMMA StepsVisitAll ==
  ASSUME NEW N \in Sizes, NEW H \in Nat
  PROVE  /\ \A i \in Nat : Step(H, i, N) \in 0 .. N - 1
         /\ \A i, j \in 0 .. N - 1 : Step(H, i, N) = Step(H, j, N) => i = j
         /\ \A b \in 0 .. N - 1 : \E i \in 0 .. N - 1 : Step(H, i, N) = b
<1> DEFINE f == [i \in 0 .. N - 1 |-> Step(H, i, N)]
<1>1. N \in Nat \ {0}
  <2>1. PICK s \in 0 .. 31 : N = 2 ^ s
    BY DEF Sizes
  <2>2. s \in 0 .. 32
    OBVIOUS
  <2> QED BY <2>1, <2>2, Doubling
<1>2. ASSUME NEW i \in Nat
      PROVE  Step(H, i, N) \in 0 .. N - 1
  <2>1. (i * (i + 1)) \div 2 \in Nat
    BY Triangular
  <2> DEFINE x == (i * (i + 1)) \div 2
  <2> HIDE DEF x
  <2>2. (H + x) % N \in 0 .. N - 1
    BY <1>1, <2>1 DEF x
  <2> QED BY <2>2 DEF Step, x
<1>3. ASSUME NEW i \in 0 .. N - 1, NEW j \in 0 .. N - 1, Step(H, i, N) = Step(H, j, N)
      PROVE  i = j
  <2>1. i < j \/ j < i \/ i = j
    BY <1>1
  <2> QED BY <1>3, <2>1, StepsApart
<1>4. f \in [0 .. N - 1 -> 0 .. N - 1]
  BY <1>1, <1>2
<1>5. f \in Injection(0 .. N - 1, 0 .. N - 1)
  BY <1>3, <1>4 DEF Injection, IsInjective
<1>6. IsFiniteSet(0 .. N - 1)
  BY <1>1, FS_Interval
<1>7. f \in Surjection(0 .. N - 1, 0 .. N - 1)
  BY <1>5, <1>6, FS_Injection
<1>8. \A b \in 0 .. N - 1 : \E i \in 0 .. N - 1 : Step(H, i, N) = b
  BY <1>7 DEF Surjection
<1> QED BY <1>2, <1>3, <1>8
-----------------------------------------------------------------------------
(* Tables.                                                                 *)

\* Keys are not NULL and have hash values; the array of the smallest table
\* and the largest one that may be needed can be had.
MapConstants ==
  /\ HASH_TABLE_MIN_SHIFT \in 0 .. 31
  /\ \A k \in Keys : HashOf[k] \in Nat
  /\ IsFiniteSet(Keys) /\ Cardinality(Keys) < 2 ^ 30
  /\ NULL \notin Keys /\ NULL \notin Nat /\ NULL \notin Values
  /\ NullKeys \cap Keys = {}

Entry(k, v) == [hash |-> HashValue(k), key |-> k, value |-> v]

Node == {UnusedNode, Tombstone} \cup {Entry(k, v) : k \in Keys, v \in Nat}

Shape(t) ==
  \E n \in Sizes : t \in [size : {n}, mod : Nat \ {0}, nnodes : Int,
                          noccupied : Int, nodes : [0 .. n - 1 -> Node]]

Real(t) == {b \in Buckets(t) : IsReal(t.nodes[b])}
Used(t) == {b \in Buckets(t) : t.nodes[b].hash # UNUSED_HASH_VALUE}

Entries(t) == {t.nodes[b] : b \in Real(t)}

Distinct(t) == \A b, c \in Real(t) : t.nodes[b].key = t.nodes[c].key => b = c

\* A search for k comes to bucket b if it does not end before.
Reach(t, k, b) ==
  \E i \in 0 .. t.size - 1 :
    /\ Probe(t, HashValue(k), i) = b
    /\ \A j \in 0 .. i - 1 :
         t.nodes[Probe(t, HashValue(k), j)].hash # UNUSED_HASH_VALUE

Reachable(t) == \A b \in Real(t) : Reach(t, t.nodes[b].key, b)

Sound(t) == Shape(t) /\ Distinct(t) /\ Reachable(t)

HasUnused(t) == \E b \in Buckets(t) : t.nodes[b].hash = UNUSED_HASH_VALUE

Holds(t, k) == \E b \in Real(t) : t.nodes[b].key = k

LEMMA Hashes ==
  ASSUME MapConstants, NEW k \in Keys
  PROVE  HashValue(k) \in Nat /\ HashValue(k) >= 2
BY DEF MapConstants, HashValue

LEMMA SizeOf ==
  ASSUME NEW n \in Sizes
  PROVE  n \in Nat \ {0}
<1>1. PICK s \in 0 .. 31 : n = 2 ^ s
  BY DEF Sizes
<1>2. s \in 0 .. 32
  OBVIOUS
<1> QED BY <1>1, <1>2, Doubling

LEMMA ShapeOf ==
  ASSUME NEW t, Shape(t)
  PROVE  /\ t.size \in Sizes /\ t.size \in Nat \ {0} /\ t.mod \in Nat \ {0}
         /\ t.nnodes \in Int /\ t.noccupied \in Int
         /\ t.nodes \in [Buckets(t) -> Node]
         /\ t = [size |-> t.size, mod |-> t.mod, nnodes |-> t.nnodes,
                 noccupied |-> t.noccupied, nodes |-> t.nodes]
         /\ Buckets(t) = 0 .. t.size - 1
<1>1. PICK n \in Sizes : t \in [size : {n}, mod : Nat \ {0}, nnodes : Int,
                                noccupied : Int, nodes : [0 .. n - 1 -> Node]]
  BY DEF Shape
<1>2. n \in Nat \ {0}
  BY SizeOf
<1> QED BY <1>1, <1>2 DEF Buckets

LEMMA NodeKinds ==
  ASSUME MapConstants, NEW node \in Node
  PROVE  /\ node.hash \in Nat
         /\ IsReal(node) => /\ node.key \in Keys /\ node.value \in Nat
                            /\ node = Entry(node.key, node.value)
                            /\ node.hash = HashValue(node.key)
         /\ ~ IsReal(node) => node.key = NULL /\ node.hash \in {UNUSED_HASH_VALUE, TOMBSTONE_HASH_VALUE}
<1>1. CASE node \in {UnusedNode, Tombstone}
  BY <1>1 DEF UnusedNode, Tombstone, IsReal, UNUSED_HASH_VALUE, TOMBSTONE_HASH_VALUE
<1>2. CASE node \in {Entry(k, v) : k \in Keys, v \in Nat}
  <2>1. PICK k \in Keys, v \in Nat : node = Entry(k, v)
    BY <1>2
  <2>2. HashValue(k) \in Nat /\ HashValue(k) >= 2
    BY Hashes
  <2>3. node.hash = HashValue(k) /\ node.key = k /\ node.value = v
    BY <2>1 DEF Entry
  <2> QED BY <2>1, <2>2, <2>3 DEF IsReal
<1> QED BY <1>1, <1>2 DEF Node

LEMMA Probing ==
  ASSUME NEW t, Shape(t), NEW h \in Nat
  PROVE  /\ \A i \in Nat : Probe(t, h, i) \in Buckets(t)
         /\ \A i, j \in 0 .. t.size - 1 : Probe(t, h, i) = Probe(t, h, j) => i = j
         /\ \A b \in Buckets(t) : \E i \in 0 .. t.size - 1 : Probe(t, h, i) = b
<1> DEFINE H == h % t.mod
<1>1. t.size \in Sizes /\ H \in Nat /\ Buckets(t) = 0 .. t.size - 1
  BY ShapeOf
<1>2. \A i : Probe(t, h, i) = Step(H, i, t.size)
  BY DEF Probe, Step
<1> HIDE DEF H
<1>3. /\ \A i \in Nat : Step(H, i, t.size) \in 0 .. t.size - 1
      /\ \A i, j \in 0 .. t.size - 1 : Step(H, i, t.size) = Step(H, j, t.size) => i = j
      /\ \A b \in 0 .. t.size - 1 : \E i \in 0 .. t.size - 1 : Step(H, i, t.size) = b
  BY <1>1, StepsVisitAll
<1>4. \A i \in Nat : Probe(t, h, i) \in Buckets(t)
  <2> TAKE i \in Nat
  <2>1. Step(H, i, t.size) \in Buckets(t)
    BY <1>1, <1>3
  <2>2. Probe(t, h, i) = Step(H, i, t.size)
    BY <1>2
  <2> QED BY <2>1, <2>2
<1>5. \A i, j \in 0 .. t.size - 1 : Probe(t, h, i) = Probe(t, h, j) => i = j
  BY <1>2, <1>3, Zenon
<1>6. \A b \in Buckets(t) : \E i \in 0 .. t.size - 1 : Probe(t, h, i) = b
  BY <1>1, <1>2, <1>3, Zenon
<1> QED BY <1>4, <1>5, <1>6, Zenon

\* A table with fewer used buckets than buckets has an unused one.
LEMMA Unused ==
  ASSUME NEW t, Shape(t), Cardinality(Used(t)) < t.size
  PROVE  HasUnused(t)
<1>1. t.size \in Nat \ {0} /\ Buckets(t) = 0 .. t.size - 1
  BY ShapeOf
<1>2. Cardinality(Buckets(t)) = t.size
  BY <1>1, FS_Interval
<1>3. Used(t) # Buckets(t)
  BY <1>1, <1>2
<1> QED BY <1>3 DEF Used, HasUnused

\* The search for a key ends once, and only unused buckets or its own end it.
LEMMA Ends ==
  ASSUME MapConstants, NEW t, Shape(t), HasUnused(t), NEW k \in Keys
  PROVE  /\ SearchEnds(t, k)
         /\ LET last == CHOOSE i \in 0 .. t.size - 1 : EndsAfter(t, k, i)
            IN  last \in 0 .. t.size - 1 /\ EndsAfter(t, k, last)
<1> DEFINE h == HashValue(k)
           S == {i \in 0 .. t.size - 1 : EndsSearch(t, k, Probe(t, h, i))}
<1>1. h \in Nat
  BY Hashes
<1>2. PICK b \in Buckets(t) : t.nodes[b].hash = UNUSED_HASH_VALUE
  BY DEF HasUnused
<1>3. PICK i \in 0 .. t.size - 1 : Probe(t, h, i) = b
  BY <1>1, <1>2, Probing
<1>4. i \in S
  BY <1>2, <1>3 DEF EndsSearch
<1>5. S \in SUBSET Nat
  BY ShapeOf
<1> HIDE DEF S
<1>6. PICK x \in S : \A y \in S : x <= y
  BY <1>4, <1>5, Least
<1>7. x \in 0 .. t.size - 1 /\ x \in Nat /\ t.size \in Nat
  BY <1>5, ShapeOf DEF S
<1>8. EndsAfter(t, k, x)
  <2>1. EndsSearch(t, k, Probe(t, h, x))
    BY DEF S
  <2>2. ASSUME NEW j \in 0 .. x - 1, EndsSearch(t, k, Probe(t, h, j)) PROVE FALSE
    <3>1. j \in S
      BY <1>7, <2>2 DEF S
    <3> QED BY <1>6, <1>7, <3>1
  <2> QED BY <2>1, <2>2 DEF EndsAfter
<1>9. SearchEnds(t, k)
  BY <1>4 DEF S, SearchEnds
<1> QED BY <1>7, <1>8, <1>9
\* What a lookup finds.
LEMMA Lookup ==
  ASSUME MapConstants, NEW t, Sound(t), HasUnused(t), NEW k \in Keys
  PROVE  LET b == g_hash_table_lookup_node(t, k)
         IN  /\ b \in Buckets(t)
             /\ Holds(t, k) => b \in Real(t) /\ t.nodes[b].key = k
             /\ ~ Holds(t, k) => b \notin Real(t) /\ Reach(t, k, b)
<1> DEFINE h == HashValue(k)
           last == CHOOSE i \in 0 .. t.size - 1 : EndsAfter(t, k, i)
           e == Probe(t, h, last)
           graves == {i \in 0 .. last - 1 :
                        t.nodes[Probe(t, h, i)].hash = TOMBSTONE_HASH_VALUE}
           b == g_hash_table_lookup_node(t, k)
<1>1. Shape(t)
  BY DEF Sound
<1>2. last \in 0 .. t.size - 1 /\ EndsAfter(t, k, last)
  BY <1>1, Ends
<1>3. /\ t.size \in Nat \ {0} /\ t.nodes \in [Buckets(t) -> Node]
      /\ Buckets(t) = 0 .. t.size - 1
  BY <1>1, ShapeOf
<1>4. h \in Nat /\ h >= 2
  BY Hashes
<1>5. b = IF t.nodes[e].hash # UNUSED_HASH_VALUE \/ graves = {} THEN e
          ELSE Probe(t, h, Min(graves))
  BY DEF g_hash_table_lookup_node
<1> HIDE DEF last, b
<1>p. /\ \A i \in Nat : Probe(t, h, i) \in Buckets(t)
      /\ \A i, j \in 0 .. t.size - 1 : Probe(t, h, i) = Probe(t, h, j) => i = j
  BY <1>1, <1>4, Probing
<1>6. last \in Nat /\ e \in Buckets(t) /\ t.nodes[e] \in Node
  <2>1. last \in Nat
    BY <1>2, <1>3
  <2>2. e \in Buckets(t)
    BY <1>p, <2>1
  <2> QED BY <1>3, <2>1, <2>2
<1>7. \A j \in 0 .. last - 1 : /\ j \in 0 .. t.size - 1 /\ Probe(t, h, j) \in Buckets(t)
                              /\ ~ EndsSearch(t, k, Probe(t, h, j))
  <2> TAKE j \in 0 .. last - 1
  <2>1. j \in 0 .. t.size - 1 /\ j \in Nat
    BY <1>2, <1>3
  <2> QED BY <1>2, <1>p, <2>1 DEF EndsAfter
<1>8. CASE Holds(t, k)
  <2>1. PICK c \in Real(t) : t.nodes[c].key = k
    BY <1>8 DEF Holds
  <2>2. c \in Buckets(t) /\ t.nodes[c] \in Node /\ t.nodes[c].hash = h
    BY <1>3, <2>1, NodeKinds DEF Real
  <2>3. PICK i \in 0 .. t.size - 1 :
          /\ Probe(t, h, i) = c
          /\ \A j \in 0 .. i - 1 : t.nodes[Probe(t, h, j)].hash # UNUSED_HASH_VALUE
    BY <2>1 DEF Sound, Reachable, Reach
  <2>4. ~ (i < last)
    <3>1. EndsSearch(t, k, Probe(t, h, i))
      BY <2>1, <2>2, <2>3 DEF EndsSearch
    <3>2. i < last => i \in 0 .. last - 1
      BY <1>2, <1>3, <2>3
    <3> QED BY <1>7, <3>1, <3>2
  <2>5. t.nodes[e].hash # UNUSED_HASH_VALUE
    <3>1. CASE last < i
      BY <1>2, <1>3, <2>3, <3>1
    <3>2. CASE last = i
      BY <1>4, <2>2, <2>3, <3>2 DEF UNUSED_HASH_VALUE
    <3> QED BY <1>2, <1>3, <2>4, <3>1, <3>2
  <2>6. t.nodes[e].hash = h /\ t.nodes[e].key = k
    BY <1>2, <2>5 DEF EndsAfter, EndsSearch
  <2>7. b = e /\ b \in Real(t)
    BY <1>4, <1>5, <1>6, <2>5, <2>6 DEF Real, IsReal
  <2> QED BY <1>6, <1>8, <2>6, <2>7 DEF b
<1>9. CASE ~ Holds(t, k)
  <2>1. e \notin Real(t) /\ t.nodes[e].hash = UNUSED_HASH_VALUE
    <3>1. t.nodes[e].hash = UNUSED_HASH_VALUE \/ (t.nodes[e].hash = h /\ t.nodes[e].key = k)
      BY <1>2 DEF EndsAfter, EndsSearch
    <3>2. ~ (t.nodes[e].hash = h /\ t.nodes[e].key = k)
      BY <1>4, <1>6, <1>9 DEF Holds, Real, IsReal
    <3> QED BY <3>1, <3>2 DEF Real, IsReal, UNUSED_HASH_VALUE
  <2>2. CASE graves = {}
    <3>1. b = e
      BY <1>5, <2>2
    <3>2. Reach(t, k, e)
      <4>1. \A j \in 0 .. last - 1 : t.nodes[Probe(t, h, j)].hash # UNUSED_HASH_VALUE
        BY <1>7 DEF EndsSearch
      <4> QED BY <1>2, <4>1 DEF Reach
    <3> QED BY <1>6, <1>9, <2>1, <3>1, <3>2 DEF b
  <2>3. CASE graves # {}
    <3> DEFINE g == Min(graves)
    <3>1. g \in graves
      <4>1. graves \in SUBSET Nat
        BY <1>2
      <4> HIDE DEF graves
      <4>2. \E x \in graves : \A y \in graves : x <= y
        BY <2>3, <4>1, Least
      <4> QED BY <4>2 DEF Min
    <3>2. b = Probe(t, h, g)
      BY <1>5, <2>1, <2>3
    <3> HIDE DEF g
    <3>3. /\ g \in 0 .. last - 1 /\ g \in 0 .. t.size - 1
          /\ t.nodes[Probe(t, h, g)].hash = TOMBSTONE_HASH_VALUE
      BY <1>7, <3>1
    <3>4. b \in Buckets(t) /\ b \notin Real(t)
      BY <1>7, <3>2, <3>3 DEF Real, IsReal, TOMBSTONE_HASH_VALUE
    <3>5. \A j \in 0 .. g - 1 : t.nodes[Probe(t, h, j)].hash # UNUSED_HASH_VALUE
      BY <1>2, <1>7, <3>3 DEF EndsSearch
    <3>6. Reach(t, k, b)
      BY <3>2, <3>3, <3>5 DEF Reach
    <3> QED BY <1>9, <3>4, <3>6 DEF b
  <2> QED BY <2>2, <2>3
<1> QED BY <1>8, <1>9
-----------------------------------------------------------------------------
(* Changing a table.                                                       *)

\* A key that a table does not hold is put where its search comes by.
LEMMA Put ==
  ASSUME MapConstants, NEW t, Sound(t), NEW k \in Keys, NEW v \in Nat, ~ Holds(t, k),
         NEW b \in Buckets(t), b \notin Real(t), Reach(t, k, b),
         NEW u, Shape(u), u.size = t.size, u.mod = t.mod,
         u.nodes = [t.nodes EXCEPT ![b] = Entry(k, v)]
  PROVE  /\ Sound(u)
         /\ Real(u) = Real(t) \cup {b}
         /\ Used(u) = Used(t) \cup {b}
         /\ Entries(u) = Entries(t) \cup {Entry(k, v)}
<1>1. /\ Shape(t) /\ t.nodes \in [Buckets(t) -> Node] /\ Buckets(u) = Buckets(t)
  BY ShapeOf DEF Sound, Buckets
<1>2. \A h, i : Probe(u, h, i) = Probe(t, h, i)
  BY DEF Probe
<1>3. /\ u.nodes[b] = Entry(k, v) /\ Entry(k, v).key = k /\ Entry(k, v).hash = HashValue(k)
      /\ \A c \in Buckets(t) \ {b} : u.nodes[c] = t.nodes[c]
  BY <1>1 DEF Entry
<1>4. HashValue(k) \in Nat /\ HashValue(k) >= 2
  BY Hashes
<1>5. IsReal(u.nodes[b]) /\ u.nodes[b].hash # UNUSED_HASH_VALUE
  BY <1>3, <1>4 DEF IsReal, UNUSED_HASH_VALUE
<1>6. Real(u) = Real(t) \cup {b}
  BY <1>1, <1>3, <1>5 DEF Real
<1>7. Used(u) = Used(t) \cup {b}
  BY <1>1, <1>3, <1>5 DEF Used
<1>8. \A c \in Real(t) : c # b /\ c \in Buckets(t) /\ u.nodes[c] = t.nodes[c]
  BY <1>3 DEF Real
<1>9. Entries(u) = Entries(t) \cup {Entry(k, v)}
  BY <1>3, <1>6, <1>8 DEF Entries
<1>10. Distinct(u)
  <2>1. \A c \in Real(t) : u.nodes[c].key # k
    BY <1>8 DEF Holds
  <2> QED BY <1>3, <1>6, <1>8, <2>1 DEF Sound, Distinct
<1>11. ASSUME NEW q, NEW c, Reach(t, q, c)
       PROVE  Reach(u, q, c)
  <2>1. PICK i \in 0 .. t.size - 1 :
          /\ Probe(t, HashValue(q), i) = c
          /\ \A j \in 0 .. i - 1 :
               t.nodes[Probe(t, HashValue(q), j)].hash # UNUSED_HASH_VALUE
    BY <1>11 DEF Reach
  <2>2. \A x : t.nodes[x].hash # UNUSED_HASH_VALUE => u.nodes[x].hash # UNUSED_HASH_VALUE
    BY <1>1, <1>5
  <2> QED BY <1>2, <2>1, <2>2, ZenonT(40) DEF Reach
<1>12. Reachable(u)
  <2>1. \A c \in Real(t) : Reach(u, u.nodes[c].key, c)
    BY <1>8, <1>11 DEF Sound, Reachable
  <2> QED BY <1>3, <1>6, <1>11, <2>1 DEF Reachable
<1> QED BY <1>6, <1>7, <1>9, <1>10, <1>12 DEF Sound

\* Removing leaves a tombstone, so that other searches go on behind it.
LEMMA Remove ==
  ASSUME MapConstants, NEW t, Sound(t), NEW b \in Real(t),
         NEW u, Shape(u), u.size = t.size, u.mod = t.mod,
         u.nodes = [t.nodes EXCEPT ![b] = Tombstone]
  PROVE  /\ Sound(u)
         /\ Real(u) = Real(t) \ {b}
         /\ Used(u) = Used(t)
         /\ Entries(u) = Entries(t) \ {t.nodes[b]}
<1>1. /\ Shape(t) /\ t.nodes \in [Buckets(t) -> Node] /\ Buckets(u) = Buckets(t)
      /\ b \in Buckets(t)
  BY ShapeOf DEF Sound, Buckets, Real
<1>2. \A h, i : Probe(u, h, i) = Probe(t, h, i)
  BY DEF Probe
<1>3. /\ u.nodes[b] = Tombstone /\ Tombstone.hash = 1
      /\ \A c \in Buckets(t) \ {b} : u.nodes[c] = t.nodes[c]
  BY <1>1 DEF Tombstone, TOMBSTONE_HASH_VALUE
<1>4. ~ IsReal(u.nodes[b]) /\ u.nodes[b].hash # UNUSED_HASH_VALUE
  BY <1>3 DEF IsReal, UNUSED_HASH_VALUE
<1>5. Real(u) = Real(t) \ {b}
  BY <1>1, <1>3, <1>4 DEF Real
<1>6. Used(u) = Used(t)
  <2>1. t.nodes[b].hash # UNUSED_HASH_VALUE
    BY DEF Real, IsReal, UNUSED_HASH_VALUE
  <2> QED BY <1>1, <1>3, <1>4, <2>1 DEF Used
<1>7. \A c \in Real(t) \ {b} : c \in Buckets(t) /\ u.nodes[c] = t.nodes[c]
  BY <1>3 DEF Real
<1>8. Entries(u) = Entries(t) \ {t.nodes[b]}
  <2>1. \A c \in Real(t) \ {b} : t.nodes[c] # t.nodes[b]
    BY DEF Sound, Distinct
  <2> QED BY <1>5, <1>7, <2>1 DEF Entries
<1>9. Distinct(u)
  BY <1>5, <1>7 DEF Sound, Distinct
<1>10. ASSUME NEW q, NEW c, Reach(t, q, c)
       PROVE  Reach(u, q, c)
  <2>1. PICK i \in 0 .. t.size - 1 :
          /\ Probe(t, HashValue(q), i) = c
          /\ \A j \in 0 .. i - 1 :
               t.nodes[Probe(t, HashValue(q), j)].hash # UNUSED_HASH_VALUE
    BY <1>10 DEF Reach
  <2>2. \A x : t.nodes[x].hash # UNUSED_HASH_VALUE => u.nodes[x].hash # UNUSED_HASH_VALUE
    BY <1>1, <1>4
  <2> QED BY <1>2, <2>1, <2>2, Zenon DEF Reach
<1>11. Reachable(u)
  BY <1>5, <1>7, <1>10 DEF Sound, Reachable
<1> QED BY <1>5, <1>6, <1>8, <1>9, <1>11 DEF Sound
-----------------------------------------------------------------------------
(* Resizing.                                                               *)

LEMMA Primes ==
  \A s \in 0 .. 31 : prime_mod[s] \in Nat \ {0}
<1> TAKE s \in 0 .. 31
<1>1. s \in {0, 1, 2, 3, 4, 5, 6, 7, 8, 9, 10, 11, 12, 13, 14, 15,
             16, 17, 18, 19, 20, 21, 22, 23, 24, 25, 26, 27, 28, 29, 30, 31}
  OBVIOUS
<1> QED BY <1>1 DEF prime_mod

LEMMA Empty ==
  ASSUME NEW s \in 0 .. 31
  PROVE  LET e == EmptyTable(s)
         IN  /\ Sound(e) /\ e.size = 2 ^ s /\ e.nnodes = 0 /\ e.noccupied = 0
             /\ Real(e) = {} /\ Used(e) = {} /\ Entries(e) = {}
<1> DEFINE e == EmptyTable(s)
           n == 2 ^ s
<1>1. n \in Sizes /\ prime_mod[s] \in Nat \ {0}
  BY Primes DEF Sizes
<1> HIDE DEF n
<1>2. e = [size |-> n, mod |-> prime_mod[s], nnodes |-> 0, noccupied |-> 0,
           nodes |-> [i \in 0 .. n - 1 |-> UnusedNode]]
  BY DEF EmptyTable, n
<1>3. UnusedNode \in Node
  BY DEF Node
<1>4. Shape(e)
  BY <1>1, <1>2, <1>3 DEF Shape
<1>5. /\ e.size = n /\ e.nnodes = 0 /\ e.noccupied = 0 /\ Buckets(e) = 0 .. n - 1
      /\ \A b \in Buckets(e) : e.nodes[b] = UnusedNode
  BY <1>2 DEF Buckets
<1> HIDE DEF e
<1>6. Real(e) = {} /\ Used(e) = {}
  BY <1>5 DEF Real, Used, IsReal, UnusedNode, UNUSED_HASH_VALUE
<1>7. Entries(e) = {} /\ Distinct(e) /\ Reachable(e)
  BY <1>6 DEF Entries, Distinct, Reachable
<1> QED BY <1>4, <1>5, <1>6, <1>7 DEF Sound, e, n

LEMMA Free ==
  ASSUME MapConstants, NEW t, Shape(t), HasUnused(t), NEW k \in Keys
  PROVE  LET c == FreeBucket(t, HashValue(k))
         IN  c \in Buckets(t) /\ t.nodes[c].hash = UNUSED_HASH_VALUE /\ Reach(t, k, c)
<1> DEFINE h == HashValue(k)
           IsFree(i) == t.nodes[Probe(t, h, i)].hash = UNUSED_HASH_VALUE
           S == {i \in 0 .. t.size - 1 : IsFree(i)}
           First(i) == IsFree(i) /\ \A j \in 0 .. i - 1 : ~ IsFree(j)
           x == CHOOSE i \in 0 .. t.size - 1 : First(i)
<1>1. h \in Nat
  BY Hashes
<1>2. PICK b \in Buckets(t) : t.nodes[b].hash = UNUSED_HASH_VALUE
  BY DEF HasUnused
<1>3. PICK i \in 0 .. t.size - 1 : Probe(t, h, i) = b
  BY <1>1, <1>2, Probing
<1>4. t.size \in Nat /\ S \in SUBSET Nat /\ i \in S
  BY <1>2, <1>3, ShapeOf
<1> HIDE DEF S
<1>5. PICK y \in S : \A z \in S : y <= z
  BY <1>4, Least
<1>6. y \in 0 .. t.size - 1 /\ First(y)
  <2>1. y \in 0 .. t.size - 1 /\ IsFree(y) /\ y \in Nat
    BY <1>4 DEF S
  <2>2. ASSUME NEW j \in 0 .. y - 1, IsFree(j) PROVE FALSE
    <3>1. j \in S
      BY <1>4, <2>1, <2>2 DEF S
    <3> QED BY <1>5, <2>1, <3>1
  <2> QED BY <2>1, <2>2
<1> HIDE DEF First
<1>7. x \in 0 .. t.size - 1 /\ First(x)
  BY <1>6
<1> USE DEF First
<1>8. x \in Nat /\ Probe(t, h, x) \in Buckets(t)
  BY <1>1, <1>4, <1>7, Probing
<1>9. FreeBucket(t, h) = Probe(t, h, x)
  BY DEF FreeBucket
<1> HIDE DEF x
<1> QED BY <1>7, <1>8, <1>9 DEF Reach

\* The recursion over the buckets of the old table defines a function.
IsMoving(f, t, e, n) ==
  f = [b \in 0 .. n |-> IF b = 0 THEN e ELSE Moved(f[b - 1], t.nodes[b - 1])]

LEMMA Recursion ==
  ASSUME NEW t, NEW e, NEW n \in Nat
  PROVE  \E f : IsMoving(f, t, e, n)
<1> USE DEF IsMoving
<1> DEFINE Is(f, m) == IsMoving(f, t, e, m)
           Bad == {m \in Nat : ~ \E f : Is(f, m)}
<1> SUFFICES ASSUME Bad # {} PROVE FALSE
  OBVIOUS
<1>0. Bad \in SUBSET Nat
  OBVIOUS
<1> HIDE DEF Bad
<1>1. PICK m \in Bad : \A y \in Bad : m <= y
  BY <1>0, Least
<1> USE DEF Bad
<1>2. m # 0
  <2> DEFINE g == [b \in 0 .. 0 |-> e]
  <2>1. Is(g, 0)
    OBVIOUS
  <2> QED BY <2>1
<1>3. m \in Nat /\ m - 1 \in Nat /\ m - 1 \notin Bad
  BY <1>1, <1>2
<1>4. PICK f : Is(f, m - 1)
  BY <1>3
<1> DEFINE g == [b \in 0 .. m |-> IF b = m THEN Moved(f[m - 1], t.nodes[m - 1]) ELSE f[b]]
<1>5. \A b \in 0 .. m - 1 : g[b] = f[b] /\ f[b] = IF b = 0 THEN e ELSE Moved(f[b - 1], t.nodes[b - 1])
  BY <1>3, <1>4
<1>6. \A b \in 0 .. m : g[b] = IF b = 0 THEN e ELSE Moved(g[b - 1], t.nodes[b - 1])
  <2> TAKE b \in 0 .. m
  <2>1. CASE b = m
    <3>1. g[b - 1] = f[m - 1] /\ g[b] = Moved(f[m - 1], t.nodes[m - 1])
      BY <1>3, <1>5, <2>1
    <3> QED BY <1>2, <2>1, <3>1
  <2>2. CASE b # m /\ b # 0
    <3>1. b \in 0 .. m - 1 /\ b - 1 \in 0 .. m - 1
      BY <1>3, <2>2
    <3>2. g[b - 1] = f[b - 1]
      BY <1>5, <3>1
    <3> QED BY <1>5, <2>2, <3>1, <3>2
  <2>3. CASE b # m /\ b = 0
    <3>1. b \in 0 .. m - 1
      BY <1>3, <2>3
    <3> QED BY <1>5, <2>3, <3>1
  <2> QED BY <2>1, <2>2, <2>3
<1>7. Is(g, m)
  <2>1. g = [b \in 0 .. m |-> g[b]]
    OBVIOUS
  <2> HIDE DEF g
  <2>2. [b \in 0 .. m |-> g[b]] = [b \in 0 .. m |-> IF b = 0 THEN e ELSE Moved(g[b - 1], t.nodes[b - 1])]
    BY <1>6, Zenon
  <2> QED BY <2>1, <2>2
<1> QED BY <1>3, <1>7, Zenon
\* What has been moved when the buckets below b of t are done.
RealBelow(t, b) == {c \in Real(t) : c < b}

Carried(t, s, m, b) ==
  /\ Sound(m) /\ m.size = 2 ^ s
  /\ Used(m) = Real(m)
  /\ Entries(m) = {t.nodes[c] : c \in RealBelow(t, b)}
  /\ Cardinality(Used(m)) = Cardinality(RealBelow(t, b))

LEMMA FiniteBuckets ==
  ASSUME NEW t, Shape(t)
  PROVE  /\ IsFiniteSet(Buckets(t)) /\ IsFiniteSet(Real(t)) /\ IsFiniteSet(Used(t))
         /\ \A b : IsFiniteSet(RealBelow(t, b))
         /\ \A b : Cardinality(RealBelow(t, b)) <= Cardinality(Real(t))
         /\ Cardinality(Real(t)) \in Nat /\ Cardinality(Used(t)) \in Nat
<1>1. t.size \in Nat /\ Buckets(t) = 0 .. t.size - 1
  BY ShapeOf
<1>2. IsFiniteSet(Buckets(t))
  BY <1>1, FS_Interval
<1>3. Real(t) \in SUBSET Buckets(t) /\ Used(t) \in SUBSET Buckets(t)
  BY DEF Real, Used
<1>4. IsFiniteSet(Real(t)) /\ IsFiniteSet(Used(t))
  BY <1>2, <1>3, FS_Subset
<1>5. ASSUME NEW b
      PROVE  IsFiniteSet(RealBelow(t, b)) /\ Cardinality(RealBelow(t, b)) <= Cardinality(Real(t))
  <2>1. RealBelow(t, b) \in SUBSET Real(t)
    BY DEF RealBelow
  <2> QED BY <1>4, <2>1, FS_Subset
<1>6. Cardinality(Real(t)) \in Nat /\ Cardinality(Used(t)) \in Nat
  BY <1>4, FS_CardinalityType
<1> QED BY <1>2, <1>4, <1>5, <1>6

LEMMA CarryOne ==
  ASSUME MapConstants, NEW t, Sound(t), NEW s \in 0 .. 31,
         Cardinality(Real(t)) < 2 ^ s, NEW b \in Buckets(t), NEW m, Carried(t, s, m, b)
  PROVE  Carried(t, s, Moved(m, t.nodes[b]), b + 1)
<1> DEFINE node == t.nodes[b]
           u == Moved(m, node)
<1>1. Shape(t) /\ t.size \in Nat /\ Buckets(t) = 0 .. t.size - 1 /\ b \in Int /\ node \in Node
  BY ShapeOf DEF Sound
<1>2. \A c \in Real(t) : c \in Int
  BY <1>1 DEF Real
<1>3. Shape(m)
  BY DEF Carried, Sound
<1>4. CASE ~ IsReal(node)
  <2>1. RealBelow(t, b + 1) = RealBelow(t, b)
    <3>1. b \notin Real(t)
      BY <1>4 DEF Real
    <3>2. \A c \in Real(t) : c < b + 1 <=> c < b
      BY <1>1, <1>2, <3>1
    <3> QED BY <3>2 DEF RealBelow
  <2>2. u = m
    BY <1>4 DEF Moved
  <2> QED BY <2>1, <2>2 DEF Carried
<1>5. CASE IsReal(node)
  <2> DEFINE k == node.key
             v == node.value
             c == FreeBucket(m, node.hash)
  <2>1. /\ k \in Keys /\ v \in Nat /\ node = Entry(k, v) /\ node.hash = HashValue(k)
        /\ b \in Real(t)
    BY <1>1, <1>5, NodeKinds DEF Real
  <2>2. HasUnused(m)
    <3>1. Cardinality(Used(m)) < 2 ^ s
      <4>1. /\ Cardinality(RealBelow(t, b)) <= Cardinality(Real(t))
            /\ Cardinality(Real(t)) \in Nat /\ IsFiniteSet(RealBelow(t, b))
        BY <1>1, FiniteBuckets
      <4>2. Cardinality(RealBelow(t, b)) \in Nat
        BY <4>1, FS_CardinalityType
      <4>3. m.size \in Nat /\ m.size = 2 ^ s
        BY <1>3, ShapeOf DEF Carried
      <4> QED BY <4>1, <4>2, <4>3 DEF Carried
    <3> QED BY <1>3, <3>1, Unused DEF Carried
  <2>3. /\ c \in Buckets(m) /\ m.nodes[c].hash = UNUSED_HASH_VALUE /\ Reach(m, k, c)
    BY <1>3, <2>1, <2>2, Free
  <2>4. u = [m EXCEPT !.nodes[c] = Entry(k, v)]
    BY <1>5, <2>1 DEF Moved
  <2> HIDE DEF u, c
  <2>5. ~ Holds(m, k)
    <3> SUFFICES ASSUME Holds(m, k) PROVE FALSE
      OBVIOUS
    <3>1. PICK d \in Real(m) : m.nodes[d].key = k
      BY DEF Holds
    <3>2. m.nodes[d] \in Entries(m)
      BY <3>1 DEF Entries
    <3>3. PICK a \in RealBelow(t, b) : m.nodes[d] = t.nodes[a]
      BY <3>2 DEF Carried
    <3>4. a \in Real(t) /\ a < b /\ t.nodes[a].key = k
      BY <3>1, <3>3 DEF RealBelow
    <3>5. a = b
      BY <2>1, <3>4 DEF Sound, Distinct
    <3> QED BY <1>1, <3>4, <3>5
  <2>6. c \notin Used(m) /\ c \notin Real(m)
    BY <2>3 DEF Used, Real, IsReal, UNUSED_HASH_VALUE
  <2>7. /\ Shape(u) /\ u.size = m.size /\ u.mod = m.mod
        /\ u.nodes = [m.nodes EXCEPT ![c] = Entry(k, v)]
    <3>1. /\ m.size \in Sizes /\ m.mod \in Nat \ {0} /\ m.nnodes \in Int /\ m.noccupied \in Int
          /\ m.nodes \in [Buckets(m) -> Node] /\ Buckets(m) = 0 .. m.size - 1
          /\ m = [size |-> m.size, mod |-> m.mod, nnodes |-> m.nnodes,
                  noccupied |-> m.noccupied, nodes |-> m.nodes]
      BY <1>3, ShapeOf
    <3>2. Entry(k, v) \in Node
      BY <2>1 DEF Node
    <3>3. u = [size |-> m.size, mod |-> m.mod, nnodes |-> m.nnodes,
               noccupied |-> m.noccupied, nodes |-> [m.nodes EXCEPT ![c] = Entry(k, v)]]
      BY <2>4, <3>1
    <3>4. [m.nodes EXCEPT ![c] = Entry(k, v)] \in [0 .. m.size - 1 -> Node]
      BY <3>1, <3>2
    <3> QED BY <3>1, <3>3, <3>4 DEF Shape
  <2>8. /\ Sound(u)
        /\ Real(u) = Real(m) \cup {c}
        /\ Used(u) = Used(m) \cup {c}
        /\ Entries(u) = Entries(m) \cup {Entry(k, v)}
    <3>1. Sound(m)
      BY DEF Carried
    <3> HIDE DEF k, v
    <3> QED BY <2>1, <2>3, <2>5, <2>6, <2>7, <3>1, Put
  <2>9. RealBelow(t, b + 1) = RealBelow(t, b) \cup {b} /\ b \notin RealBelow(t, b)
    BY <1>1, <1>2, <2>1 DEF RealBelow
  <2>10. Cardinality(Used(u)) = Cardinality(RealBelow(t, b + 1))
    <3>1. IsFiniteSet(RealBelow(t, b)) /\ IsFiniteSet(Used(m))
      BY <1>1, <1>3, FiniteBuckets
    <3>2. Cardinality(Used(m) \cup {c}) = Cardinality(Used(m)) + 1
      BY <2>6, <3>1, FS_AddElement
    <3>3. Cardinality(RealBelow(t, b) \cup {b}) = Cardinality(RealBelow(t, b)) + 1
      BY <2>9, <3>1, FS_AddElement
    <3> QED BY <2>8, <2>9, <3>2, <3>3 DEF Carried
  <2>11. Entries(u) = {t.nodes[a] : a \in RealBelow(t, b + 1)}
    <3>1. {t.nodes[a] : a \in RealBelow(t, b + 1)}
            = {t.nodes[a] : a \in RealBelow(t, b)} \cup {t.nodes[b]}
      BY <2>9
    <3> QED BY <2>1, <2>8, <3>1 DEF Carried
  <2> QED BY <2>7, <2>8, <2>10, <2>11 DEF Carried, u
<1> QED BY <1>4, <1>5

LEMMA CarryAll ==
  ASSUME MapConstants, NEW t, Sound(t), NEW s \in 0 .. 31, Cardinality(Real(t)) < 2 ^ s
  PROVE  Carried(t, s, Rehashed(t, EmptyTable(s)), t.size)
<1> DEFINE e == EmptyTable(s)
           Is(f) == IsMoving(f, t, e, t.size)
<1>1. t.size \in Nat \ {0} /\ Buckets(t) = 0 .. t.size - 1 /\ Shape(t)
  BY ShapeOf DEF Sound
<1> HIDE DEF e
<1>2. \E f : Is(f)
  <2>1. t.size \in Nat
    BY <1>1
  <2> QED BY <2>1, Recursion, Zenon
<1> DEFINE g == CHOOSE f : Is(f)
<1>3. Is(g)
  BY <1>2, Zenon
<1>4. Rehashed(t, e) = g[t.size]
  BY Zenon DEF Rehashed, IsMoving
<1> HIDE DEF g
<1>5. /\ g[0] = e
      /\ \A b \in 1 .. t.size : g[b] = Moved(g[b - 1], t.nodes[b - 1])
  BY <1>1, <1>3 DEF IsMoving
<1> HIDE DEF Is
<1>6. Carried(t, s, g[0], 0)
  <2>1. RealBelow(t, 0) = {}
    BY <1>1 DEF RealBelow, Real
  <2>2. /\ Sound(e) /\ e.size = 2 ^ s
        /\ Real(e) = {} /\ Used(e) = {} /\ Entries(e) = {}
    BY Empty DEF e
  <2> QED BY <1>5, <2>1, <2>2 DEF Carried
<1> DEFINE Bad == {b \in 0 .. t.size : ~ Carried(t, s, g[b], b)}
<1>7. Bad = {}
  <2> SUFFICES ASSUME Bad # {} PROVE FALSE
    OBVIOUS
  <2>1. Bad \in SUBSET Nat
    BY <1>1
  <2> HIDE DEF Bad
  <2>2. PICK b \in Bad : \A y \in Bad : b <= y
    BY <2>1, Least
  <2> USE DEF Bad
  <2>3. b \in 0 .. t.size /\ b # 0
    BY <1>6
  <2>4. b - 1 \in Buckets(t) /\ b - 1 \in 0 .. t.size /\ b \in 1 .. t.size /\ (b - 1) + 1 = b
    BY <1>1, <2>3
  <2>5. b - 1 \notin Bad
    BY <2>2, <2>4
  <2>6. Carried(t, s, g[b - 1], b - 1)
    BY <2>4, <2>5
  <2>7. Carried(t, s, Moved(g[b - 1], t.nodes[b - 1]), (b - 1) + 1)
    BY <2>4, <2>6, CarryOne
  <2> QED BY <1>5, <2>4, <2>7
<1>8. Carried(t, s, g[t.size], t.size)
  BY <1>1, <1>7
<1> QED BY <1>4, <1>8 DEF e
-----------------------------------------------------------------------------
(* The operations of a table.                                              *)

\* The counters are right, and a bucket is unused.
Counts(t) ==
  /\ t.nnodes = Cardinality(Real(t))
  /\ t.noccupied = Cardinality(Used(t))

Table(t) == Sound(t) /\ Counts(t) /\ t.noccupied < t.size

LEMMA PowersGrow ==
  ASSUME NEW a \in 0 .. 32, NEW b \in a .. 32
  PROVE  2 ^ a <= 2 ^ b
<1> DEFINE Bad == {c \in a .. 32 : ~ (2 ^ a <= 2 ^ c)}
<1> SUFFICES ASSUME Bad # {} PROVE FALSE
  OBVIOUS
<1>1. Bad \in SUBSET Nat
  OBVIOUS
<1> HIDE DEF Bad
<1>2. PICK c \in Bad : \A y \in Bad : c <= y
  BY <1>1, Least
<1> USE DEF Bad
<1>3. 2 ^ a \in Nat
  BY Doubling
<1>4. c \in a .. 32 /\ ~ (2 ^ a <= 2 ^ c) /\ c # a
  BY <1>3
<1> DEFINE d == c - 1
<1>5. d \in a .. 32 /\ d \in 0 .. 31 /\ d \in 0 .. 32 /\ c = d + 1 /\ d < c
  BY <1>4
<1>6. 2 ^ a <= 2 ^ d
  BY <1>2, <1>5
<1> HIDE DEF d
<1>7. 2 ^ (d + 1) = 2 * 2 ^ d /\ 2 ^ d \in Nat
  BY <1>5, Doubling
<1>8. 2 ^ c = 2 * 2 ^ d
  BY <1>5, <1>7
<1> QED BY <1>3, <1>4, <1>6, <1>7, <1>8

LEMMA ClosestShift ==
  ASSUME NEW n \in Nat, n < 2 ^ 31
  PROVE  LET s == g_hash_table_find_closest_shift(n)
         IN  s \in 0 .. 31 /\ n < 2 ^ s
<1> DEFINE S == {i \in 0 .. n : n < 2 ^ i}
           top == 31
<1>0. top \in 0 .. 32 /\ n < 2 ^ top
  OBVIOUS
<1> HIDE DEF top
<1>1. \E i \in S : i <= top
  <2>1. CASE n <= top
    <3>1. n \in 0 .. 32
      BY <1>0, <2>1
    <3>2. n < 2 ^ n
      BY <3>1, Doubling
    <3>3. n \in S
      BY <3>2
    <3> QED BY <2>1, <3>3
  <2>2. CASE n > top
    <3>1. top \in S
      BY <1>0, <2>2
    <3>2. top <= top
      BY <1>0
    <3> QED BY <3>1, <3>2, Zenon
  <2> QED BY <1>0, <2>1, <2>2
<1>2. S \in SUBSET Nat
  OBVIOUS
<1> HIDE DEF S
<1>3. \E x \in S : \A y \in S : x <= y
  BY <1>1, <1>2, Least
<1>4. Min(S) \in S /\ \A y \in S : Min(S) <= y
  BY <1>3 DEF Min
<1>5. Min(S) \in Nat /\ Min(S) <= top
  <2> DEFINE m == Min(S)
  <2>1. PICK i \in S : i <= top
    BY <1>1
  <2>2. m \in Nat /\ i \in Nat /\ m <= i
    BY <1>2, <1>4
  <2> HIDE DEF m
  <2>3. m \in Nat /\ m <= top
    BY <1>0, <2>1, <2>2
  <2> QED BY <2>3 DEF m
<1>6. n < 2 ^ Min(S)
  BY <1>4 DEF S
<1>7. g_hash_table_find_closest_shift(n) = Min(S)
  BY DEF g_hash_table_find_closest_shift, S
<1>8. Min(S) \in 0 .. 31
  BY <1>5 DEF top
<1> QED BY <1>6, <1>7, <1>8

\* No key is in a table twice.
LEMMA FewEntries ==
  ASSUME MapConstants, NEW t, Sound(t)
  PROVE  Cardinality(Real(t)) \in Nat /\ Cardinality(Real(t)) < 2 ^ 30
<1> DEFINE f == [b \in Real(t) |-> t.nodes[b].key]
<1>1. Shape(t) /\ t.nodes \in [Buckets(t) -> Node]
  BY ShapeOf DEF Sound
<1>2. \A b \in Real(t) : t.nodes[b].key \in Keys
  BY <1>1, NodeKinds DEF Real
<1>3. f \in Injection(Real(t), Keys)
  BY <1>2 DEF Sound, Distinct, Injection, IsInjective
<1>4. Cardinality(Real(t)) <= Cardinality(Keys)
  BY <1>3, FS_Injection DEF MapConstants
<1>5. Cardinality(Keys) \in Nat /\ Cardinality(Keys) < 2 ^ 30 /\ 2 ^ 30 \in Nat
  <2>1. 30 \in 0 .. 32
    OBVIOUS
  <2>2. 2 ^ 30 \in Nat
    BY <2>1, Doubling
  <2> QED BY <2>2, FS_CardinalityType DEF MapConstants
<1>6. Cardinality(Real(t)) \in Nat
  BY <1>1, FiniteBuckets
<1> QED BY <1>4, <1>5, <1>6

LEMMA Resize ==
  ASSUME MapConstants, NEW t, Sound(t), t.nnodes = Cardinality(Real(t))
  PROVE  LET u == g_hash_table_resize(t)
         IN  Table(u) /\ u.nnodes = t.nnodes /\ Entries(u) = Entries(t)
<1> DEFINE need == g_hash_table_find_closest_shift(2 * t.nnodes)
           s == Max({need, HASH_TABLE_MIN_SHIFT})
           r == Rehashed(t, EmptyTable(s))
           u == g_hash_table_resize(t)
<1>1. t.nnodes \in Nat /\ t.nnodes < 2 ^ 30
  BY FewEntries
<1>2. need \in 0 .. 31 /\ 2 * t.nnodes < 2 ^ need
  <2> DEFINE d == 30
  <2>0. d \in 0 .. 31 /\ d \in 0 .. 32 /\ d + 1 = 31
    OBVIOUS
  <2> HIDE DEF d
  <2>1. 2 * t.nnodes \in Nat /\ 2 * t.nnodes < 2 ^ 31
    <3>1. 2 ^ (d + 1) = 2 * 2 ^ d /\ 2 ^ d \in Nat
      BY <2>0, Doubling
    <3>2. t.nnodes < 2 ^ d
      BY <1>1 DEF d
    <3>3. 2 * t.nnodes < 2 * 2 ^ d
      BY <1>1, <3>1, <3>2
    <3> QED BY <1>1, <2>0, <3>1, <3>3
  <2> QED BY <2>1, ClosestShift
<1>3. u = [r EXCEPT !.nnodes = t.nnodes, !.noccupied = t.nnodes]
  <2>1. (IF t.nnodes < 0 THEN 0 - t.nnodes ELSE t.nnodes) = t.nnodes
    BY <1>1
  <2> QED BY <2>1 DEF g_hash_table_resize
<1> HIDE DEF need
<1>4. s \in 0 .. 31 /\ need <= s
  <2>1. need \in Int /\ HASH_TABLE_MIN_SHIFT \in 0 .. 31
    BY <1>2 DEF MapConstants
  <2>2. \E x \in {need, HASH_TABLE_MIN_SHIFT} : \A y \in {need, HASH_TABLE_MIN_SHIFT} : x >= y
    BY <2>1
  <2>3. s \in {need, HASH_TABLE_MIN_SHIFT} /\ \A y \in {need, HASH_TABLE_MIN_SHIFT} : s >= y
    BY <2>2 DEF Max
  <2> QED BY <1>2, <2>1, <2>3
<1> HIDE DEF s
<1>5. t.nnodes < 2 ^ s
  <2>1. need \in 0 .. 32 /\ s \in need .. 32 /\ s \in 0 .. 32
    BY <1>2, <1>4
  <2>2. 2 ^ need <= 2 ^ s /\ 2 ^ need \in Nat /\ 2 ^ s \in Nat
    BY <2>1, PowersGrow, Doubling
  <2> QED BY <1>1, <1>2, <2>2
<1>6. Carried(t, s, r, t.size)
  BY <1>4, <1>5, CarryAll
<1> HIDE DEF r, u
<1>7. Shape(t) /\ Shape(r) /\ t.size \in Nat /\ Buckets(t) = 0 .. t.size - 1
  BY <1>6, ShapeOf DEF Carried, Sound
<1>8. RealBelow(t, t.size) = Real(t)
  BY <1>7 DEF RealBelow, Real
<1>9. /\ Shape(u) /\ u.size = r.size /\ u.mod = r.mod /\ u.nodes = r.nodes
      /\ u.nnodes = t.nnodes /\ u.noccupied = t.nnodes
  <2>1. /\ r.size \in Sizes /\ r.mod \in Nat \ {0}
        /\ r.nodes \in [Buckets(r) -> Node] /\ Buckets(r) = 0 .. r.size - 1
        /\ r = [size |-> r.size, mod |-> r.mod, nnodes |-> r.nnodes,
                noccupied |-> r.noccupied, nodes |-> r.nodes]
    BY <1>7, ShapeOf
  <2>2. u = [size |-> r.size, mod |-> r.mod, nnodes |-> t.nnodes,
             noccupied |-> t.nnodes, nodes |-> r.nodes]
    BY <1>3, <2>1
  <2> QED BY <1>1, <2>1, <2>2 DEF Shape
<1>10. Real(u) = Real(r) /\ Used(u) = Used(r) /\ Entries(u) = Entries(r)
  BY <1>9 DEF Real, Used, Entries, Buckets
<1>11. Sound(u)
  <2>1. Distinct(u)
    BY <1>6, <1>9, <1>10 DEF Carried, Sound, Distinct
  <2>2. \A h, i : Probe(u, h, i) = Probe(r, h, i)
    BY <1>9 DEF Probe
  <2>3. \A k, b : Reach(r, k, b) => Reach(u, k, b)
    <3> TAKE k, b
    <3> HAVE Reach(r, k, b)
    <3>1. PICK i \in 0 .. r.size - 1 :
            /\ Probe(r, HashValue(k), i) = b
            /\ \A j \in 0 .. i - 1 :
                 r.nodes[Probe(r, HashValue(k), j)].hash # UNUSED_HASH_VALUE
      BY DEF Reach
    <3> QED BY <1>9, <2>2, <3>1 DEF Reach
  <2>4. Reachable(u)
    BY <1>6, <1>9, <1>10, <2>3 DEF Carried, Sound, Reachable
  <2> QED BY <1>9, <2>1, <2>4 DEF Sound
<1>12. Counts(u)
  BY <1>6, <1>8, <1>9, <1>10 DEF Counts, Carried
<1>13. u.noccupied < u.size
  BY <1>5, <1>6, <1>9 DEF Carried
<1>14. Entries(u) = Entries(t)
  BY <1>6, <1>8, <1>10 DEF Carried, Entries
<1> QED BY <1>9, <1>11, <1>12, <1>13, <1>14 DEF Table, u

\* A table is either resized or has room for one more.
LEMMA MaybeResize ==
  ASSUME MapConstants, NEW t, Sound(t), Counts(t)
  PROVE  LET u == g_hash_table_maybe_resize(t)
         IN  Table(u) /\ u.nnodes = t.nnodes /\ Entries(u) = Entries(t)
<1>1. CASE g_hash_table_maybe_resize(t) = g_hash_table_resize(t)
  BY <1>1, Resize DEF Counts
<1>2. CASE /\ g_hash_table_maybe_resize(t) = t
           /\ ~ (t.size <= t.noccupied + t.noccupied \div 16)
  <2>1. t.noccupied \in Nat /\ t.size \in Nat
    <3>1. Shape(t)
      BY DEF Sound
    <3> QED BY <3>1, FiniteBuckets, ShapeOf DEF Counts
  <2>2. t.noccupied < t.size
    BY <1>2, <2>1
  <2> QED BY <1>2, <2>2 DEF Table
<1> QED BY <1>1, <1>2 DEF g_hash_table_maybe_resize
LEMMA NewTable ==
  ASSUME MapConstants
  PROVE  /\ Table(g_hash_table_new_full) /\ g_hash_table_new_full.nnodes = 0
         /\ Entries(g_hash_table_new_full) = {}
<1> DEFINE e == EmptyTable(HASH_TABLE_MIN_SHIFT)
<1>1. HASH_TABLE_MIN_SHIFT \in 0 .. 31
  BY DEF MapConstants
<1>2. /\ Sound(e) /\ e.nnodes = 0 /\ e.noccupied = 0
      /\ Real(e) = {} /\ Used(e) = {} /\ Entries(e) = {}
  BY <1>1, Empty
<1> HIDE DEF e
<1>3. Counts(e)
  BY <1>2, FS_EmptySet DEF Counts
<1>4. e.noccupied < e.size
  BY <1>2, ShapeOf DEF Sound
<1>5. g_hash_table_new_full = e
  BY DEF g_hash_table_new_full, e
<1> QED BY <1>2, <1>3, <1>4, <1>5 DEF Table

\* A table finds what it holds and nothing else.
LEMMA Found ==
  ASSUME MapConstants, NEW t, Table(t), NEW k \in Keys
  PROVE  /\ HasUnused(t) /\ SearchEnds(t, k)
         /\ \A v \in Nat : Entry(k, v) \in Entries(t) => g_hash_table_lookup(t, k) = v
         /\ (\A v \in Nat : Entry(k, v) \notin Entries(t))
              => g_hash_table_lookup(t, k) = NULL /\ ~ Holds(t, k)
<1> DEFINE b == g_hash_table_lookup_node(t, k)
<1>1. Sound(t) /\ Shape(t) /\ t.nodes \in [Buckets(t) -> Node]
  BY ShapeOf DEF Table, Sound
<1>2. HasUnused(t)
  BY <1>1, Unused DEF Table, Counts
<1>3. SearchEnds(t, k)
  BY <1>1, <1>2, Ends
<1>4. /\ b \in Buckets(t)
      /\ Holds(t, k) => b \in Real(t) /\ t.nodes[b].key = k
      /\ ~ Holds(t, k) => b \notin Real(t)
  BY <1>1, <1>2, Lookup
<1>5. g_hash_table_lookup(t, k) = IF IsReal(t.nodes[b]) THEN t.nodes[b].value ELSE NULL
  BY DEF g_hash_table_lookup
<1> HIDE DEF b
<1>6. ASSUME NEW v \in Nat, Entry(k, v) \in Entries(t)
      PROVE  g_hash_table_lookup(t, k) = v
  <2>1. PICK c \in Real(t) : t.nodes[c] = Entry(k, v)
    BY <1>6 DEF Entries
  <2>2. t.nodes[c].key = k /\ t.nodes[c].value = v
    BY <2>1 DEF Entry
  <2>3. b \in Real(t) /\ t.nodes[b].key = k
    BY <1>4, <2>2 DEF Holds
  <2>4. b = c
    BY <1>1, <2>2, <2>3 DEF Sound, Distinct
  <2> QED BY <1>5, <2>2, <2>3, <2>4 DEF Real
<1>7. ASSUME \A v \in Nat : Entry(k, v) \notin Entries(t)
      PROVE  g_hash_table_lookup(t, k) = NULL /\ ~ Holds(t, k)
  <2>1. ~ Holds(t, k)
    <3> SUFFICES ASSUME NEW c \in Real(t), t.nodes[c].key = k PROVE FALSE
      BY DEF Holds
    <3>1. c \in Buckets(t) /\ t.nodes[c] \in Node /\ IsReal(t.nodes[c])
      BY <1>1 DEF Real
    <3>2. t.nodes[c].value \in Nat /\ t.nodes[c] = Entry(k, t.nodes[c].value)
      BY <3>1, NodeKinds
    <3>3. t.nodes[c] \in Entries(t)
      BY DEF Entries
    <3> QED BY <1>7, <3>2, <3>3
  <2>2. ~ IsReal(t.nodes[b])
    BY <1>4, <2>1 DEF Real
  <2> QED BY <1>5, <2>1, <2>2
<1> QED BY <1>2, <1>3, <1>6, <1>7

LEMMA Insert ==
  ASSUME MapConstants, NEW t, Table(t), NEW k \in Keys, NEW v \in Nat, ~ Holds(t, k)
  PROVE  LET u == g_hash_table_insert(t, k, v)
         IN  /\ Table(u) /\ u.nnodes = t.nnodes + 1
             /\ Entries(u) = Entries(t) \cup {Entry(k, v)}
<1> DEFINE b == g_hash_table_lookup_node(t, k)
           old == t.nodes[b]
           fresh == [t EXCEPT !.nodes[b] = Entry(k, v), !.nnodes = @ + 1]
           full == [fresh EXCEPT !.noccupied = @ + 1]
           u == g_hash_table_insert(t, k, v)
<1>1. /\ Sound(t) /\ Shape(t) /\ t.nodes \in [Buckets(t) -> Node]
      /\ Buckets(t) = 0 .. t.size - 1 /\ t.size \in Sizes /\ t.mod \in Nat \ {0}
      /\ t.nnodes \in Int /\ t.noccupied \in Int
      /\ t = [size |-> t.size, mod |-> t.mod, nnodes |-> t.nnodes,
              noccupied |-> t.noccupied, nodes |-> t.nodes]
  BY ShapeOf DEF Table, Sound
<1>2. HasUnused(t)
  BY Found
<1>3. b \in Buckets(t) /\ b \notin Real(t) /\ Reach(t, k, b)
  BY <1>1, <1>2, Lookup
<1>4. u = IF IsReal(old) THEN [t EXCEPT !.nodes[b].value = v]
          ELSE IF old.hash = UNUSED_HASH_VALUE
          THEN g_hash_table_maybe_resize(full) ELSE fresh
  BY DEF g_hash_table_insert, Entry
<1>5. ~ IsReal(old)
  BY <1>3 DEF Real
<1> HIDE DEF b, u
<1> DEFINE nodes == [t.nodes EXCEPT ![b] = Entry(k, v)]
<1>6. /\ fresh = [size |-> t.size, mod |-> t.mod, nnodes |-> t.nnodes + 1,
                  noccupied |-> t.noccupied, nodes |-> nodes]
      /\ full = [size |-> t.size, mod |-> t.mod, nnodes |-> t.nnodes + 1,
                 noccupied |-> t.noccupied + 1, nodes |-> nodes]
  <2>1. fresh = [size |-> t.size, mod |-> t.mod, nnodes |-> t.nnodes + 1,
                 noccupied |-> t.noccupied, nodes |-> nodes]
    <3>1. fresh = [t EXCEPT !.nodes[b] = Entry(k, v), !.nnodes = @ + 1]
      OBVIOUS
    <3> HIDE DEF fresh
    <3> QED BY <1>1, <3>1
  <2> HIDE DEF fresh, nodes
  <2>2. full = [size |-> t.size, mod |-> t.mod, nnodes |-> t.nnodes + 1,
                noccupied |-> t.noccupied + 1, nodes |-> nodes]
    BY <1>1, <2>1
  <2> QED BY <2>1, <2>2
<1>7. nodes \in [0 .. t.size - 1 -> Node]
  <2>1. Entry(k, v) \in Node
    BY DEF Node
  <2> QED BY <1>1, <2>1
<1> HIDE DEF fresh, full, nodes
<1>8. /\ Shape(fresh) /\ fresh.size = t.size /\ fresh.mod = t.mod /\ fresh.nodes = nodes
      /\ fresh.nnodes = t.nnodes + 1 /\ fresh.noccupied = t.noccupied
      /\ Shape(full) /\ full.size = t.size /\ full.mod = t.mod /\ full.nodes = nodes
      /\ full.nnodes = t.nnodes + 1 /\ full.noccupied = t.noccupied + 1
  BY <1>1, <1>6, <1>7 DEF Shape
<1>9. ASSUME NEW w, Shape(w), w.size = t.size, w.mod = t.mod, w.nodes = nodes
      PROVE  /\ Sound(w)
             /\ Real(w) = Real(t) \cup {b}
             /\ Used(w) = Used(t) \cup {b}
             /\ Entries(w) = Entries(t) \cup {Entry(k, v)}
  <2>1. w.nodes = [t.nodes EXCEPT ![b] = Entry(k, v)]
    BY <1>9 DEF nodes
  <2>2. Sound(t)
    BY <1>1
  <2> QED BY <1>3, <1>9, <2>1, <2>2, Put
<1>10. Cardinality(Real(t) \cup {b}) = t.nnodes + 1
  <2>1. IsFiniteSet(Real(t))
    BY <1>1, FiniteBuckets
  <2> QED BY <1>3, <2>1, FS_AddElement DEF Table, Counts
<1>11. CASE old.hash = UNUSED_HASH_VALUE
  <2>1. b \notin Used(t)
    BY <1>11 DEF Used
  <2>2. Cardinality(Used(t) \cup {b}) = t.noccupied + 1
    <3>1. IsFiniteSet(Used(t))
      BY <1>1, FiniteBuckets
    <3> QED BY <2>1, <3>1, FS_AddElement DEF Table, Counts
  <2>3. Sound(full) /\ Counts(full) /\ Entries(full) = Entries(t) \cup {Entry(k, v)}
    BY <1>8, <1>9, <1>10, <2>2 DEF Counts
  <2>4. u = g_hash_table_maybe_resize(full)
    BY <1>4, <1>5, <1>11
  <2> QED BY <1>8, <2>3, <2>4, MaybeResize DEF u
<1>12. CASE old.hash # UNUSED_HASH_VALUE
  <2>1. Used(t) \cup {b} = Used(t)
    BY <1>3, <1>12 DEF Used
  <2>2. Sound(fresh) /\ Counts(fresh) /\ Entries(fresh) = Entries(t) \cup {Entry(k, v)}
    BY <1>8, <1>9, <1>10, <2>1 DEF Counts, Table
  <2>3. u = fresh
    BY <1>4, <1>5, <1>12
  <2> QED BY <1>8, <2>2, <2>3 DEF Table, u
<1> QED BY <1>11, <1>12

LEMMA Erase ==
  ASSUME MapConstants, NEW t, Table(t), NEW k \in Keys, NEW v \in Nat,
         Entry(k, v) \in Entries(t)
  PROVE  LET u == g_hash_table_remove(t, k)
         IN  /\ Table(u) /\ u.nnodes = t.nnodes - 1
             /\ Entries(u) = Entries(t) \ {Entry(k, v)}
<1> DEFINE b == g_hash_table_lookup_node(t, k)
           u == g_hash_table_remove(t, k)
<1>1. /\ Sound(t) /\ Shape(t) /\ t.nodes \in [Buckets(t) -> Node]
      /\ Buckets(t) = 0 .. t.size - 1 /\ t.size \in Sizes /\ t.mod \in Nat \ {0}
      /\ t.nnodes \in Int /\ t.noccupied \in Int
      /\ t = [size |-> t.size, mod |-> t.mod, nnodes |-> t.nnodes,
              noccupied |-> t.noccupied, nodes |-> t.nodes]
  BY ShapeOf DEF Table, Sound
<1>2. HasUnused(t)
  BY Found
<1>3. PICK c \in Real(t) : t.nodes[c] = Entry(k, v)
  BY DEF Entries
<1>4. t.nodes[c].key = k
  BY <1>3 DEF Entry
<1>5. b \in Real(t) /\ t.nodes[b].key = k
  <2>1. Holds(t, k)
    BY <1>4 DEF Holds
  <2> QED BY <1>1, <1>2, <2>1, Lookup
<1>6. b = c
  BY <1>1, <1>4, <1>5 DEF Sound, Distinct
<1>7. u = [t EXCEPT !.nodes[b] = Tombstone, !.nnodes = @ - 1]
  BY DEF g_hash_table_remove
<1> HIDE DEF b, u
<1> DEFINE nodes == [t.nodes EXCEPT ![b] = Tombstone]
<1>8. u = [size |-> t.size, mod |-> t.mod, nnodes |-> t.nnodes - 1,
           noccupied |-> t.noccupied, nodes |-> nodes]
  BY <1>1, <1>7
<1>9. nodes \in [0 .. t.size - 1 -> Node]
  <2>1. Tombstone \in Node
    BY DEF Node
  <2> QED BY <1>1, <2>1
<1> HIDE DEF nodes
<1>10. /\ Shape(u) /\ u.size = t.size /\ u.mod = t.mod /\ u.nodes = nodes
       /\ u.nnodes = t.nnodes - 1 /\ u.noccupied = t.noccupied
  BY <1>1, <1>8, <1>9 DEF Shape
<1>11. /\ Sound(u) /\ Real(u) = Real(t) \ {b} /\ Used(u) = Used(t)
       /\ Entries(u) = Entries(t) \ {t.nodes[b]}
  BY <1>1, <1>5, <1>10, Remove DEF nodes
<1>12. Cardinality(Real(t) \ {b}) = t.nnodes - 1
  <2>1. IsFiniteSet(Real(t))
    BY <1>1, FiniteBuckets
  <2> QED BY <1>5, <2>1, FS_RemoveElement DEF Table, Counts
<1>13. Counts(u)
  BY <1>10, <1>11, <1>12 DEF Counts, Table
<1> QED BY <1>3, <1>6, <1>10, <1>11, <1>13 DEF Table, u
-----------------------------------------------------------------------------
(* The map.                                                                *)

Taken(vals) == {i \in DOMAIN vals : vals[i].value # NULL}

\* The table t has an entry for each one of the array vals, they are num, and
\* they say what the dictionary d says.
Agree(t, vals, num, d) ==
  /\ Table(t)
  /\ vals \in Seq([key : Keys \cup {NULL}, value : Values \cup {NULL}])
  /\ \A i \in Taken(vals) : vals[i].key \in Keys
  /\ Entries(t) = {Entry(vals[i].key, i) : i \in Taken(vals)}
  /\ \A i, j \in Taken(vals) : vals[i].key = vals[j].key => i = j
  /\ num = t.nnodes /\ num = Cardinality(Taken(vals))
  /\ d = [k \in Keys |-> d[k]]
  /\ \A i \in Taken(vals) : d[vals[i].key] = vals[i].value
  /\ \A k \in Keys : (\A i \in Taken(vals) : vals[i].key # k) => d[k] = NULL

\* No entry moves.
Stays(vals, new) ==
  \A i \in Taken(vals), j \in Taken(new) : vals[i].key = new[j].key => i = j

LEMMA Same ==
  ASSUME NEW k, NEW v, NEW l, NEW w, Entry(k, v) = Entry(l, w)
  PROVE  k = l /\ v = w
BY DEF Entry

\* What a lookup says of a key.
LEMMA IndexOf ==
  ASSUME MapConstants, NEW t, NEW vals, NEW num, NEW d, Agree(t, vals, num, d), NEW k \in Keys
  PROVE  /\ SearchEnds(t, k)
         /\ \A i \in Taken(vals) :
              vals[i].key = k => g_hash_table_lookup(t, k) = i /\ i # NULL
         /\ (\A i \in Taken(vals) : vals[i].key # k)
              => g_hash_table_lookup(t, k) = NULL /\ ~ Holds(t, k)
<1>1. Table(t) /\ \A i \in Taken(vals) : i \in Nat
  BY DEF Agree, Taken
<1>2. ASSUME NEW i \in Taken(vals), vals[i].key = k
      PROVE  g_hash_table_lookup(t, k) = i /\ i # NULL
  <2>1. Entry(k, i) \in Entries(t)
    BY <1>2 DEF Agree
  <2> QED BY <1>1, <2>1, Found DEF MapConstants
<1>3. ASSUME \A i \in Taken(vals) : vals[i].key # k
      PROVE  g_hash_table_lookup(t, k) = NULL /\ ~ Holds(t, k)
  <2>1. \A v \in Nat : Entry(k, v) \notin Entries(t)
    BY <1>3, Same DEF Agree
  <2> QED BY <1>1, <2>1, Found
<1>4. SearchEnds(t, k)
  BY <1>1, Found
<1> QED BY <1>2, <1>3, <1>4

LEMMA Greatest ==
  ASSUME NEW n \in Nat, NEW S \in SUBSET (0 .. n), S # {}
  PROVE  Max(S) \in S /\ \A y \in S : Max(S) >= y
<1> DEFINE T == {n - x : x \in S}
<1>1. T \in SUBSET Nat /\ T # {}
  <2>1. PICK w \in S : TRUE
    OBVIOUS
  <2>2. n - w \in T
    BY <2>1
  <2>3. \A x \in S : n - x \in Nat
    OBVIOUS
  <2> QED BY <2>2, <2>3
<1> HIDE DEF T
<1>2. PICK z \in T : \A y \in T : z <= y
  BY <1>1, Least
<1> USE DEF T
<1>3. PICK x \in S : z = n - x
  OBVIOUS
<1>4. \A y \in S : x >= y
  <2> TAKE y \in S
  <2>1. n - y \in T
    OBVIOUS
  <2>2. n - x <= n - y
    BY <1>2, <1>3, <2>1
  <2> QED BY <2>2
<1>5. \E y \in S : \A w \in S : y >= w
  BY <1>4
<1> QED BY <1>5 DEF Max

\* The array has a hole unless all of it is counted.
LEMMA Holes ==
  ASSUME NEW vals \in Seq([key : Keys \cup {NULL}, value : Values \cup {NULL}]),
         Cardinality(Taken(vals)) # Len(vals)
  PROVE  \E i \in DOMAIN vals : vals[i].value = NULL
<1>1. Len(vals) \in Nat /\ DOMAIN vals = 1 .. Len(vals)
  OBVIOUS
<1>2. Cardinality(1 .. Len(vals)) = Len(vals)
  BY <1>1, FS_Interval
<1>3. Taken(vals) # 1 .. Len(vals)
  BY <1>2
<1> QED BY <1>1, <1>3 DEF Taken

LEMMA FreeIndexOf ==
  ASSUME NEW vals \in Seq([key : Keys \cup {NULL}, value : Values \cup {NULL}]),
         \E i \in DOMAIN vals : vals[i].value = NULL
  PROVE  FreeIndex(vals) \in DOMAIN vals /\ vals[FreeIndex(vals)].value = NULL
<1> DEFINE S == {0} \cup {i \in DOMAIN vals : vals[i].value = NULL}
<1>1. Len(vals) \in Nat /\ S \in SUBSET (0 .. Len(vals)) /\ S # {} /\ DOMAIN vals = 1 .. Len(vals)
  OBVIOUS
<1>2. PICK i \in DOMAIN vals : vals[i].value = NULL
  OBVIOUS
<1>3. i \in S /\ i >= 1
  BY <1>1, <1>2
<1>4. FreeIndex(vals) = Max(S)
  BY DEF FreeIndex
<1> HIDE DEF S
<1>5. Max(S) \in S /\ Max(S) >= i
  BY <1>1, <1>3, Greatest
<1>6. Max(S) # 0
  BY <1>1, <1>3, <1>5
<1> QED BY <1>4, <1>5, <1>6 DEF S
LEMMA AddKeeps ==
  ASSUME MapConstants, NEW t, NEW vals, NEW num, NEW d, Agree(t, vals, num, d),
         NEW k \in Keys, NEW v \in ValuesOf[k], g_hash_table_lookup(t, k) = NULL
  PROVE  LET grown == IF num = Len(vals) THEN Append(vals, Hole) ELSE vals
             idx   == FreeIndex(grown)
             new   == [grown EXCEPT ![idx] = [key |-> k, value |-> v]]
         IN  /\ Agree(g_hash_table_insert(t, k, idx), new, num + 1, [d EXCEPT ![k] = v])
             /\ Stays(vals, new)
<1> DEFINE grown == IF num = Len(vals) THEN Append(vals, Hole) ELSE vals
           idx   == FreeIndex(grown)
           new   == [grown EXCEPT ![idx] = [key |-> k, value |-> v]]
           u     == g_hash_table_insert(t, k, idx)
           e     == [d EXCEPT ![k] = v]
           Entr  == [key : Keys \cup {NULL}, value : Values \cup {NULL}]
<1>1. v \in Values /\ v # NULL
  BY DEF Values, MapConstants
<1>2. vals \in Seq(Entr) /\ Len(vals) \in Nat /\ DOMAIN vals = 1 .. Len(vals)
  BY DEF Agree
<1>3. Hole \in Entr /\ Hole.value = NULL
  BY DEF Hole
<1>4. /\ grown \in Seq(Entr) /\ Taken(grown) = Taken(vals)
      /\ \A i \in Taken(vals) : grown[i] = vals[i]
      /\ \E i \in DOMAIN grown : grown[i].value = NULL
  <2>1. CASE num = Len(vals)
    <3>1. grown = Append(vals, Hole)
      BY <2>1
    <3> HIDE DEF grown
    <3>2. grown \in Seq(Entr) /\ DOMAIN grown = 1 .. Len(vals) + 1
      BY <1>2, <1>3, <3>1
    <3>3. /\ \A i \in 1 .. Len(vals) : grown[i] = vals[i]
          /\ grown[Len(vals) + 1] = Hole
      BY <1>2, <1>3, <3>1
    <3>4. Taken(grown) = Taken(vals)
      BY <1>2, <1>3, <3>2, <3>3 DEF Taken
    <3> QED BY <1>2, <1>3, <3>2, <3>3, <3>4 DEF Taken
  <2>2. CASE num # Len(vals)
    <3>1. Cardinality(Taken(vals)) # Len(vals)
      BY <2>2 DEF Agree
    <3>2. grown = vals
      BY <2>2
    <3> HIDE DEF grown
    <3> QED BY <1>2, <3>1, <3>2, Holes
  <2> QED BY <2>1, <2>2
<1> HIDE DEF grown
<1>5. idx \in DOMAIN grown /\ grown[idx].value = NULL
  BY <1>4, FreeIndexOf
<1> HIDE DEF idx
<1>6. idx \in Nat /\ idx \notin Taken(vals)
  BY <1>4, <1>5 DEF Taken
<1>7. new \in Seq(Entr) /\ DOMAIN new = DOMAIN grown
  BY <1>1, <1>4, <1>5
<1>8. /\ new[idx].key = k /\ new[idx].value = v
      /\ \A i \in DOMAIN grown \ {idx} : new[i] = grown[i]
  BY <1>4, <1>5
<1> HIDE DEF new, Entr
<1>9. Taken(new) = Taken(vals) \cup {idx}
  BY <1>1, <1>4, <1>5, <1>7, <1>8 DEF Taken
<1>10. \A i \in Taken(vals) : new[i] = vals[i]
  BY <1>4, <1>6, <1>8 DEF Taken
<1>11. \A i \in Taken(vals) : vals[i].key # k
  BY IndexOf
<1>12. ~ Holds(t, k)
  BY <1>11, IndexOf
<1>13. /\ Table(u) /\ u.nnodes = t.nnodes + 1
       /\ Entries(u) = Entries(t) \cup {Entry(k, idx)}
  <2>1. Table(t)
    BY DEF Agree
  <2> QED BY <1>6, <1>12, <2>1, Insert
<1> HIDE DEF u
<1>14. Entries(u) = {Entry(new[i].key, i) : i \in Taken(new)}
  <2>1. {Entry(new[i].key, i) : i \in Taken(new)}
          = {Entry(vals[i].key, i) : i \in Taken(vals)} \cup {Entry(k, idx)}
    BY <1>8, <1>9, <1>10
  <2> QED BY <1>13, <2>1 DEF Agree
<1>15. Cardinality(Taken(new)) = Cardinality(Taken(vals)) + 1
  <2>1. IsFiniteSet(1 .. Len(vals))
    BY <1>2, FS_Interval
  <2>2. Taken(vals) \in SUBSET (1 .. Len(vals))
    BY <1>2 DEF Taken
  <2>3. IsFiniteSet(Taken(vals))
    BY <2>1, <2>2, FS_Subset
  <2> QED BY <1>6, <1>9, <2>3, FS_AddElement
<1>16. /\ \A i \in Taken(new) : new[i].key \in Keys
       /\ \A i, j \in Taken(new) : new[i].key = new[j].key => i = j
  BY <1>8, <1>9, <1>10, <1>11 DEF Agree
<1>17. d = [q \in Keys |-> d[q]]
  BY DEF Agree
<1>18. e = [q \in Keys |-> IF q = k THEN v ELSE d[q]]
  BY <1>17
<1>19. e[k] = v /\ (\A q \in Keys : q # k => e[q] = d[q]) /\ e = [q \in Keys |-> e[q]]
  BY <1>18
<1> HIDE DEF e
<1>d. /\ \A i \in Taken(vals) : vals[i].key \in Keys /\ d[vals[i].key] = vals[i].value
      /\ \A q \in Keys : (\A i \in Taken(vals) : vals[i].key # q) => d[q] = NULL
  BY DEF Agree
<1>20. /\ \A i \in Taken(new) : e[new[i].key] = new[i].value
       /\ \A q \in Keys : (\A i \in Taken(new) : new[i].key # q) => e[q] = NULL
  <2>1. ASSUME NEW i \in Taken(vals)
        PROVE  e[new[i].key] = new[i].value
    <3>1. vals[i].key \in Keys /\ vals[i].key # k /\ d[vals[i].key] = vals[i].value
      BY <1>11, <1>d
    <3>2. e[vals[i].key] = vals[i].value
      BY <1>19, <3>1
    <3> QED BY <1>10, <3>2
  <2>2. ASSUME NEW q \in Keys, \A i \in Taken(new) : new[i].key # q
        PROVE  e[q] = NULL
    <3>1. q # k /\ \A i \in Taken(vals) : vals[i].key # q
      BY <1>8, <1>9, <1>10, <2>2
    <3> QED BY <1>19, <1>d, <3>1
  <2> QED BY <1>8, <1>9, <1>19, <2>1, <2>2
<1>21. Agree(u, new, num + 1, e)
  BY <1>7, <1>13, <1>14, <1>15, <1>16, <1>19, <1>20 DEF Agree, Entr
<1>22. Stays(vals, new)
  BY <1>8, <1>9, <1>10, <1>11 DEF Agree, Stays
<1> QED BY <1>21, <1>22 DEF new, u, e, idx, grown

LEMMA UpdateKeeps ==
  ASSUME MapConstants, NEW t, NEW vals, NEW num, NEW d, Agree(t, vals, num, d),
         NEW k \in Keys, NEW v \in ValuesOf[k], g_hash_table_lookup(t, k) # NULL
  PROVE  LET new == [vals EXCEPT ![g_hash_table_lookup(t, k)].value = v]
         IN  Agree(t, new, num, [d EXCEPT ![k] = v]) /\ Stays(vals, new)
<1> DEFINE idx  == g_hash_table_lookup(t, k)
           new  == [vals EXCEPT ![idx].value = v]
           e    == [d EXCEPT ![k] = v]
           Entr == [key : Keys \cup {NULL}, value : Values \cup {NULL}]
<1>1. v \in Values /\ v # NULL
  BY DEF Values, MapConstants
<1>2. vals \in Seq(Entr) /\ Len(vals) \in Nat /\ DOMAIN vals = 1 .. Len(vals)
  BY DEF Agree
<1>3. PICK i \in Taken(vals) : vals[i].key = k
  BY IndexOf
<1>4. idx = i
  BY <1>3, IndexOf
<1> HIDE DEF idx
<1>5. i \in DOMAIN vals /\ vals[i] \in Entr
  <2>1. i \in DOMAIN vals
    BY DEF Taken
  <2> HIDE DEF Entr
  <2>2. vals[i] \in Entr
    BY <1>2, <2>1
  <2> QED BY <2>1, <2>2
<1>6. new = [vals EXCEPT ![i] = [key |-> k, value |-> v]]
  <2>1. [vals[i] EXCEPT !.value = v] = [key |-> k, value |-> v]
    BY <1>3, <1>5
  <2>2. new = [vals EXCEPT ![i] = [vals[i] EXCEPT !.value = v]]
    BY <1>4
  <2> QED BY <2>1, <2>2
<1> HIDE DEF new
<1>7. new \in Seq(Entr) /\ DOMAIN new = DOMAIN vals
  BY <1>1, <1>2, <1>5, <1>6
<1>8. /\ new[i].key = k /\ new[i].value = v
      /\ \A j \in DOMAIN vals \ {i} : new[j] = vals[j]
  BY <1>2, <1>5, <1>6
<1> HIDE DEF Entr
<1>9. /\ Taken(new) = Taken(vals)
      /\ \A j \in Taken(vals) : new[j].key = vals[j].key
      /\ \A j \in Taken(vals) : j # i => new[j].value = vals[j].value
  BY <1>1, <1>3, <1>7, <1>8 DEF Taken
<1>10. Entries(t) = {Entry(new[j].key, j) : j \in Taken(new)}
  BY <1>9 DEF Agree
<1>11. e = [q \in Keys |-> IF q = k THEN v ELSE d[q]]
  <2>1. d = [q \in Keys |-> d[q]]
    BY DEF Agree
  <2> QED BY <2>1
<1>12. e[k] = v /\ (\A q \in Keys : q # k => e[q] = d[q]) /\ e = [q \in Keys |-> e[q]]
  BY <1>11
<1> HIDE DEF e
<1>13. \A j \in Taken(vals) : j # i => vals[j].key # k
  BY <1>3 DEF Agree
<1>d. /\ \A j \in Taken(vals) : vals[j].key \in Keys /\ d[vals[j].key] = vals[j].value
      /\ \A q \in Keys : (\A j \in Taken(vals) : vals[j].key # q) => d[q] = NULL
  BY DEF Agree
<1>14. /\ \A j \in Taken(new) : e[new[j].key] = new[j].value
       /\ \A q \in Keys : (\A j \in Taken(new) : new[j].key # q) => e[q] = NULL
  <2>1. ASSUME NEW j \in Taken(vals), j # i
        PROVE  e[new[j].key] = new[j].value
    <3>1. vals[j].key \in Keys /\ vals[j].key # k /\ d[vals[j].key] = vals[j].value
      BY <1>13, <1>d, <2>1
    <3>2. e[vals[j].key] = vals[j].value
      BY <1>12, <3>1
    <3> QED BY <1>9, <2>1, <3>2
  <2>2. ASSUME NEW q \in Keys, \A j \in Taken(new) : new[j].key # q
        PROVE  e[q] = NULL
    <3>1. q # k /\ \A j \in Taken(vals) : vals[j].key # q
      BY <1>3, <1>9, <2>2
    <3> QED BY <1>12, <1>d, <3>1
  <2> QED BY <1>8, <1>9, <1>12, <2>1, <2>2
<1>15. Agree(t, new, num, e)
  BY <1>7, <1>9, <1>10, <1>12, <1>14 DEF Agree, Entr
<1>16. Stays(vals, new)
  BY <1>9 DEF Agree, Stays
<1> QED BY <1>15, <1>16 DEF new, e, idx

LEMMA DeleteKeeps ==
  ASSUME MapConstants, NEW t, NEW vals, NEW num, NEW d, Agree(t, vals, num, d),
         NEW k \in Keys, g_hash_table_lookup(t, k) # NULL
  PROVE  LET new == [vals EXCEPT ![g_hash_table_lookup(t, k)] = Hole]
         IN  /\ Agree(g_hash_table_remove(t, k), new, num - 1, [d EXCEPT ![k] = NULL])
             /\ Stays(vals, new)
<1> DEFINE idx  == g_hash_table_lookup(t, k)
           new  == [vals EXCEPT ![idx] = Hole]
           u    == g_hash_table_remove(t, k)
           e    == [d EXCEPT ![k] = NULL]
           Entr == [key : Keys \cup {NULL}, value : Values \cup {NULL}]
<1>1. vals \in Seq(Entr) /\ Len(vals) \in Nat /\ DOMAIN vals = 1 .. Len(vals)
  BY DEF Agree
<1>2. Hole \in Entr /\ Hole.value = NULL
  BY DEF Hole
<1>3. PICK i \in Taken(vals) : vals[i].key = k
  BY IndexOf
<1>4. idx = i
  BY <1>3, IndexOf
<1> HIDE DEF idx
<1>5. i \in DOMAIN vals /\ i \in Nat
  BY <1>1, <1>3 DEF Taken
<1>6. new = [vals EXCEPT ![i] = Hole]
  BY <1>4
<1> HIDE DEF new
<1>7. new \in Seq(Entr) /\ DOMAIN new = DOMAIN vals
  BY <1>1, <1>2, <1>5, <1>6
<1>8. new[i] = Hole /\ \A j \in DOMAIN vals \ {i} : new[j] = vals[j]
  BY <1>1, <1>5, <1>6
<1> HIDE DEF Entr
<1>9. /\ Taken(new) = Taken(vals) \ {i}
      /\ \A j \in Taken(new) : new[j] = vals[j]
  BY <1>2, <1>7, <1>8 DEF Taken
<1>10. Entry(k, i) \in Entries(t)
  BY <1>3 DEF Agree
<1>11. /\ Table(u) /\ u.nnodes = t.nnodes - 1
       /\ Entries(u) = Entries(t) \ {Entry(k, i)}
  <2>1. Table(t)
    BY DEF Agree
  <2> QED BY <1>5, <1>10, <2>1, Erase
<1> HIDE DEF u
<1>12. Entries(u) = {Entry(new[j].key, j) : j \in Taken(new)}
  <2>1. \A j \in Taken(vals) : Entry(vals[j].key, j) = Entry(k, i) => j = i
    BY Same
  <2>2. \A j \in Taken(vals) : j = i => Entry(vals[j].key, j) = Entry(k, i)
    BY <1>3
  <2>3. Entries(t) = {Entry(vals[j].key, j) : j \in Taken(vals)}
    BY DEF Agree
  <2> QED BY <1>9, <1>11, <2>1, <2>2, <2>3
<1>13. Cardinality(Taken(new)) = Cardinality(Taken(vals)) - 1
  <2>1. IsFiniteSet(1 .. Len(vals))
    BY <1>1, FS_Interval
  <2>2. Taken(vals) \in SUBSET (1 .. Len(vals))
    BY <1>1 DEF Taken
  <2>3. IsFiniteSet(Taken(vals))
    BY <2>1, <2>2, FS_Subset
  <2> QED BY <1>3, <1>9, <2>3, FS_RemoveElement
<1>14. e = [q \in Keys |-> IF q = k THEN NULL ELSE d[q]]
  <2>1. d = [q \in Keys |-> d[q]]
    BY DEF Agree
  <2> QED BY <2>1
<1>15. e[k] = NULL /\ (\A q \in Keys : q # k => e[q] = d[q]) /\ e = [q \in Keys |-> e[q]]
  BY <1>14
<1> HIDE DEF e
<1>16. \A j \in Taken(new) : vals[j].key # k
  BY <1>3, <1>9 DEF Agree
<1>d. \A j \in Taken(vals) : vals[j].key \in Keys /\ d[vals[j].key] = vals[j].value
  BY DEF Agree
<1>17. \A j \in Taken(new) : e[new[j].key] = new[j].value
  <2> TAKE j \in Taken(new)
  <2>1. vals[j].key \in Keys /\ vals[j].key # k /\ d[vals[j].key] = vals[j].value
    BY <1>9, <1>16, <1>d
  <2>2. e[vals[j].key] = vals[j].value
    BY <1>15, <2>1
  <2> QED BY <1>9, <2>2
<1>18. ASSUME NEW q \in Keys, \A j \in Taken(new) : new[j].key # q
       PROVE  e[q] = NULL
  <2>1. CASE q = k
    BY <1>15, <2>1
  <2>2. CASE q # k
    <3>1. \A j \in Taken(vals) : vals[j].key # q
      BY <1>3, <1>9, <1>18, <2>2
    <3> QED BY <1>15, <2>2, <3>1 DEF Agree
  <2> QED BY <2>1, <2>2
<1>19. Agree(u, new, num - 1, e)
  BY <1>7, <1>9, <1>11, <1>12, <1>13, <1>15, <1>17, <1>18 DEF Agree, Entr
<1>20. Stays(vals, new)
  BY <1>9 DEF Agree, Stays
<1> QED BY <1>19, <1>20 DEF new, u, e, idx
-----------------------------------------------------------------------------
(* The specification.                                                      *)

MapInv ==
  /\ open => Agree(tab, values, num_values, dict)
  /\ ~ open => values = <<>> /\ num_values = 0 /\ dict = [k \in Keys |-> NULL]

LEMMA NewMap ==
  ASSUME MapConstants
  PROVE  Agree(g_hash_table_new_full, <<>>, 0, [k \in Keys |-> NULL])
<1> DEFINE d == [k \in Keys |-> NULL]
<1>1. Taken(<<>>) = {}
  BY DEF Taken
<1>2. d = [k \in Keys |-> d[k]] /\ \A k \in Keys : d[k] = NULL
  OBVIOUS
<1> HIDE DEF d
<1>3. /\ Table(g_hash_table_new_full) /\ g_hash_table_new_full.nnodes = 0
      /\ Entries(g_hash_table_new_full) = {}
  BY NewTable
<1>4. Cardinality(Taken(<<>>)) = 0
  BY <1>1, FS_EmptySet
<1>5. Agree(g_hash_table_new_full, <<>>, 0, d)
  BY <1>1, <1>2, <1>3, <1>4 DEF Agree
<1> QED BY <1>5 DEF d

LEMMA MapStarts ==
  ASSUME MapConstants, MapInit
  PROVE  MapInv
BY NewMap DEF MapInit, MapInv

\* No step moves an entry of a map that stays open.
EntriesStay == open /\ open' => Stays(values, values')

LEMMA MapSteps ==
  ASSUME MapConstants, MapInv, [MapNext]_mapvars
  PROVE  MapInv' /\ EntriesStay
<1>1. ASSUME NEW k \in Keys, NEW v \in ValuesOf[k], Add(k, v)
      PROVE  MapInv' /\ EntriesStay
  <2>1. /\ open /\ open' = open /\ Agree(tab, values, num_values, dict)
        /\ g_hash_table_lookup(tab, k) = NULL
    BY <1>1 DEF Add, Call, MapInv, Present, EntryIndex
  <2>2. Agree(tab', values', num_values', dict') /\ Stays(values, values')
    BY <1>1, <2>1, AddKeeps, Zenon DEF Add
  <2> QED BY <2>1, <2>2 DEF MapInv, EntriesStay
<1>2. ASSUME NEW k \in Keys, NEW v \in ValuesOf[k], Update(k, v)
      PROVE  MapInv' /\ EntriesStay
  <2>1. /\ open /\ open' = open /\ Agree(tab, values, num_values, dict)
        /\ g_hash_table_lookup(tab, k) # NULL
    BY <1>2 DEF Update, Call, MapInv, Present, EntryIndex
  <2>2. Agree(tab', values', num_values', dict') /\ Stays(values, values')
    BY <1>2, <2>1, UpdateKeeps, Zenon DEF Update, EntryIndex
  <2> QED BY <2>1, <2>2 DEF MapInv, EntriesStay
<1>3. ASSUME NEW k \in Keys, Delete(k)
      PROVE  MapInv' /\ EntriesStay
  <2>1. /\ open /\ open' = open /\ Agree(tab, values, num_values, dict)
        /\ g_hash_table_lookup(tab, k) # NULL
    BY <1>3 DEF Delete, Call, MapInv, Present, EntryIndex
  <2>2. /\ tab' = g_hash_table_remove(tab, k)
        /\ values' = [values EXCEPT ![g_hash_table_lookup(tab, k)] = Hole]
        /\ num_values' = num_values - 1 /\ dict' = [dict EXCEPT ![k] = NULL]
    BY <1>3 DEF Delete, MapConstants, EntryIndex
  <2>3. Agree(tab', values', num_values', dict') /\ Stays(values, values')
    BY <2>1, <2>2, DeleteKeeps, Zenon
  <2> QED BY <2>1, <2>3 DEF MapInv, EntriesStay
<1>4. CASE Destroy
  BY <1>4 DEF Destroy, MapInv, EntriesStay
<1>5. CASE Create
  <2>1. /\ ~ open /\ values' = <<>> /\ num_values' = 0 /\ dict' = [k \in Keys |-> NULL]
        /\ tab' = g_hash_table_new_full /\ open'
    BY <1>5 DEF Create, MapInv
  <2>2. Agree(tab', values', num_values', dict')
    BY <2>1, NewMap
  <2> QED BY <2>1, <2>2 DEF MapInv, EntriesStay
<1>6. CASE UNCHANGED mapvars
  <2>1. MapInv'
    BY <1>6 DEF mapvars, MapInv
  <2>2. open => Stays(values, values)
    BY DEF MapInv, Agree, Stays
  <2> QED BY <1>6, <2>1, <2>2 DEF mapvars, EntriesStay
<1> QED BY <1>1, <1>2, <1>3, <1>4, <1>5, <1>6 DEF MapNext

\* The invariant of a map: table, array, counters and dictionary agree.
LEMMA MapInvariant ==
  ASSUME MapConstants
  PROVE  MapSpec => []MapInv
<1>1. MapInit => MapInv
  BY MapStarts
<1>2. MapInv /\ [MapNext]_mapvars => MapInv'
  BY MapSteps
<1> QED BY <1>1, <1>2, PTL DEF MapSpec

LEMMA KeysAgree ==
  ASSUME MapConstants, MapInv, open, NEW k \in Keys
  PROVE  /\ Returns(k)
         /\ Present(k) => EntryIndex(k) \in Taken(values) /\ values[EntryIndex(k)].key = k
         /\ \A i \in Taken(values) : values[i].key = k => Present(k) /\ EntryIndex(k) = i
         /\ ~ Present(k) => dict[k] = NULL
<1>1. Agree(tab, values, num_values, dict)
  BY DEF MapInv
<1>2. /\ SearchEnds(tab, k)
      /\ \A i \in Taken(values) : values[i].key = k => EntryIndex(k) = i /\ i # NULL
      /\ (\A i \in Taken(values) : values[i].key # k) => EntryIndex(k) = NULL
  BY <1>1, IndexOf DEF EntryIndex
<1> QED BY <1>1, <1>2 DEF Returns, Present, Agree

\* Every search of the hash table ends: a bucket is unused whatever has been
\* added, deleted and added again, and the probe sequence of every hash value
\* visits all buckets of every table (g_hash_table_lookup_node).
THEOREM ProbesReachAll ==
  ASSUME MapConstants
  PROVE  MapSpec => []SearchesEnd
<1>1. MapInv => SearchesEnd
  BY KeysAgree DEF SearchesEnd
<1> QED BY <1>1, MapInvariant, PTL

\* get_*map_by_key returns for every key what the calls so far have made of
\* it (add_*map, update_*map, del_*map, destroy_*map).
THEOREM KeepsDictionary ==
  ASSUME MapConstants
  PROVE  MapSpec => []IsDictionary
<1>1. MapInv => IsDictionary
  <2> SUFFICES ASSUME MapInv, open, NEW k \in Keys PROVE get_by_key(k) = dict[k]
    BY DEF IsDictionary
  <2>1. CASE Present(k)
    <3>1. EntryIndex(k) \in Taken(values) /\ values[EntryIndex(k)].key = k
      BY <2>1, KeysAgree
    <3>2. \A i \in Taken(values) : dict[values[i].key] = values[i].value
      BY DEF MapInv, Agree
    <3> QED BY <2>1, <3>1, <3>2 DEF get_by_key
  <2>2. CASE ~ Present(k)
    BY <2>2, KeysAgree DEF get_by_key
  <2> QED BY <2>1, <2>2
<1> QED BY <1>1, MapInvariant, PTL

\* The table leads from every key to its own entry of the array and from no
\* other, and all counters are right, through collisions, tombstones, holes
\* and resizing (add_*map, del_*map, g_hash_table_resize).
THEOREM TableFollowsArray ==
  ASSUME MapConstants
  PROVE  MapSpec => []TableMatchesArray
<1>1. MapInv => TableMatchesArray
  <2> SUFFICES ASSUME MapInv, open PROVE TableMatchesArray
    BY DEF TableMatchesArray, CountsAgree
  <2>1. Agree(tab, values, num_values, dict)
    BY DEF MapInv
  <2>2. ASSUME NEW i \in DOMAIN values, values[i].value # NULL
        PROVE  EntryIndex(values[i].key) = i
    <3>1. i \in Taken(values) /\ values[i].key \in Keys
      BY <2>1, <2>2 DEF Taken, Agree
    <3> QED BY <3>1, KeysAgree
  <2>3. \A k \in Keys : Present(k) => values[EntryIndex(k)].key = k
    BY KeysAgree
  <2>4. CountsAgree
    BY <2>1 DEF CountsAgree, Agree, Table, Counts, Taken, Used
  <2> QED BY <2>2, <2>3, <2>4 DEF TableMatchesArray
<1> QED BY <1>1, MapInvariant, PTL

\* An entry keeps its index as long as it is there: additions fill holes,
\* growing and resizing move no entry, and nobody who holds an index is led to
\* another key (add_*map, update_*map, del_*map).
THEOREM EntriesStayPut ==
  ASSUME MapConstants
  PROVE  MapSpec => IndexStable
<1>1. ASSUME MapInv, MapInv', EntriesStay, NEW k \in Keys, open, open',
             Present(k), Present(k)'
      PROVE  EntryIndex(k)' = EntryIndex(k)
  <2>1. EntryIndex(k) \in Taken(values) /\ values[EntryIndex(k)].key = k
    BY <1>1, KeysAgree
  <2>2. EntryIndex(k)' \in Taken(values') /\ values'[EntryIndex(k)'].key = k
    <3>1. Agree(tab', values', num_values', dict')
      BY <1>1 DEF MapInv
    <3>2. EntryIndex(k)' = g_hash_table_lookup(tab', k) /\ EntryIndex(k)' # NULL
      BY <1>1 DEF EntryIndex, Present
    <3> QED BY <3>1, <3>2, IndexOf
  <2> QED BY <1>1, <2>1, <2>2 DEF EntriesStay, Stays
<1>2. MapInv /\ MapInv' /\ [MapNext]_mapvars
        => [\A k \in Keys : open /\ open' /\ Present(k) /\ Present(k)'
              => EntryIndex(k)' = EntryIndex(k)]_mapvars
  BY <1>1, MapSteps
<1> QED BY <1>2, MapInvariant, PTL DEF MapSpec, IndexStable
=============================================================================
