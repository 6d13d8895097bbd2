--------------------------- MODULE TopologyProofs ---------------------------
(***************************************************************************)
(* The hardware threads.  Nine counting sorts, one after the other, are    *)
(* one sort by nine keys (_hwthreads_sort), so that the lists of a domain  *)
(* have its threads in the order that was asked for; with these lists the  *)
(* notations of a workgroup give the threads that they name.  The CPU      *)
(* folders end up in their bitmaps, and the flags of a kernel are looked   *)
(* up within the arrays.                                                   *)
(***************************************************************************)
EXTENDS CpuList, CpuFlags, Recursion, FiniteSetTheorems

-----------------------------------------------------------------------------
(* One level.                                                              *)

\* A list of n threads that have the key.
Keyed(tab, n, key) ==
  /\ n \in Nat /\ tab \in Seq(Range(tab)) /\ Len(tab) = n
  /\ \A i \in 1 .. n : tab[i][key] \in Int

\* thread i comes before thread j when sorted by the key
Precedes(tab, key, i, j) ==
  tab[i][key] < tab[j][key] \/ (tab[i][key] = tab[j][key] /\ i < j)

Smaller(tab, key, i) == {j \in DOMAIN tab : tab[j][key] < tab[i][key]}
Equal(tab, key, i) == {j \in 1 .. i : tab[j][key] = tab[i][key]}

LEMMA Counts ==
  ASSUME NEW n, NEW tab, NEW key, Keyed(tab, n, key), NEW i \in 1 .. n
  PROVE  LET S == Smaller(tab, key, i)
             E == Equal(tab, key, i)
         IN  /\ IsFiniteSet(S) /\ IsFiniteSet(E)
             /\ Cardinality(S) \in Nat /\ Cardinality(E) \in Nat \ {0}
             /\ Place(tab, key, i) = Cardinality(S) + Cardinality(E)
             /\ Place(tab, key, i) = Cardinality(S \cup E)
             /\ S \cup E \in SUBSET (1 .. n) /\ S \cap E = {}
<1> DEFINE S == Smaller(tab, key, i)
           E == Equal(tab, key, i)
<1>1. S \in SUBSET (1 .. n) /\ E \in SUBSET (1 .. n) /\ S \cap E = {} /\ i \in E
  BY DEF Keyed, Smaller, Equal
<1>2. IsFiniteSet(1 .. n)
  BY FS_Interval DEF Keyed
<1>3. IsFiniteSet(S) /\ IsFiniteSet(E)
  BY <1>1, <1>2, FS_Subset
<1>4. Cardinality(S) \in Nat /\ Cardinality(E) \in Nat /\ Cardinality(E) # 0
  BY <1>1, <1>3, FS_CardinalityType, FS_EmptySet
<1>5. Place(tab, key, i) = Cardinality(S) + Cardinality(E)
  BY DEF Place, Smaller, Equal
<1>6. Cardinality(S \cup E) = Cardinality(S) + Cardinality(E) - Cardinality(S \cap E)
  BY <1>3, FS_Union
<1>7. Cardinality(S \cap E) = 0
  BY <1>1, FS_EmptySet
<1> HIDE DEF S, E
<1>8. Cardinality(S \cup E) = Cardinality(S) + Cardinality(E)
  BY <1>4, <1>6, <1>7
<1> QED BY <1>1, <1>3, <1>4, <1>5, <1>8 DEF S, E

\* Places follow the order.
LEMMA PlaceGrows ==
  ASSUME NEW n, NEW tab, NEW key, Keyed(tab, n, key),
         NEW i \in 1 .. n, NEW j \in 1 .. n, Precedes(tab, key, i, j)
  PROVE  Place(tab, key, i) < Place(tab, key, j)
<1> DEFINE T(x) == Smaller(tab, key, x) \cup Equal(tab, key, x)
<1>1. \A x \in 1 .. n : /\ Place(tab, key, x) = Cardinality(T(x))
                        /\ IsFiniteSet(T(x)) /\ Cardinality(T(x)) \in Nat
  <2> TAKE x \in 1 .. n
  <2>1. T(x) \in SUBSET (1 .. n) /\ Place(tab, key, x) = Cardinality(T(x))
    BY Counts
  <2>2. IsFiniteSet(1 .. n)
    BY FS_Interval DEF Keyed
  <2>3. IsFiniteSet(T(x))
    BY <2>1, <2>2, FS_Subset
  <2> QED BY <2>1, <2>3, FS_CardinalityType
<1>2. T(i) \in SUBSET T(j) /\ j \in T(j) /\ j \notin T(i)
  BY DEF Keyed, Smaller, Equal, Precedes
<1>3. Cardinality(T(i)) <= Cardinality(T(j)) /\ Cardinality(T(i)) # Cardinality(T(j))
  BY <1>1, <1>2, FS_Subset
<1> HIDE DEF T
<1> QED BY <1>1, <1>3

LEMMA PlaceRange ==
  ASSUME NEW n, NEW tab, NEW key, Keyed(tab, n, key), NEW i \in 1 .. n
  PROVE  Place(tab, key, i) \in 1 .. n
<1> DEFINE T == Smaller(tab, key, i) \cup Equal(tab, key, i)
<1>1. T \in SUBSET (1 .. n) /\ Place(tab, key, i) = Cardinality(T)
  BY Counts
<1>2. n \in Nat /\ IsFiniteSet(1 .. n) /\ Cardinality(1 .. n) = n
  BY FS_Interval DEF Keyed
<1>3. i \in T
  BY DEF Keyed, Equal
<1> HIDE DEF T
<1>4. IsFiniteSet(T) /\ Cardinality(T) <= n
  BY <1>1, <1>2, FS_Subset
<1>5. Cardinality(T) \in Nat /\ Cardinality(T) # 0
  BY <1>3, <1>4, FS_CardinalityType, FS_EmptySet
<1> QED BY <1>1, <1>2, <1>4, <1>5

\* A counting sort gives every thread a place of its own, in the order of the
\* key, and equal ones in the order they had.
LEMMA SortLevel ==
  ASSUME NEW n, NEW tab, NEW key, Keyed(tab, n, key)
  PROVE  /\ CountingSort(key, tab) = [p \in 1 .. n |-> CountingSort(key, tab)[p]]
         /\ \E f \in [1 .. n -> 1 .. n] :
              /\ \A p \in 1 .. n : CountingSort(key, tab)[p] = tab[f[p]]
              /\ \A i \in 1 .. n : \E p \in 1 .. n : f[p] = i
              /\ \A p, q \in 1 .. n : p < q => Precedes(tab, key, f[p], f[q])
<1> DEFINE P == [i \in 1 .. n |-> Place(tab, key, i)]
           f == [p \in 1 .. n |-> CHOOSE i \in 1 .. n : Place(tab, key, i) = p]
<1>1. n \in Nat /\ DOMAIN tab = 1 .. n
  BY DEF Keyed
<1>2. \A i, j \in 1 .. n : i # j => Precedes(tab, key, i, j) \/ Precedes(tab, key, j, i)
  BY DEF Precedes, Keyed
<1>3. P \in [1 .. n -> 1 .. n]
  BY PlaceRange
<1>4. \A i, j \in 1 .. n : P[i] = P[j] => i = j
  BY <1>2, <1>3, PlaceGrows
<1>5. P \in Injection(1 .. n, 1 .. n)
  BY <1>3, <1>4 DEF Injection, IsInjective
<1>6. P \in Surjection(1 .. n, 1 .. n)
  BY <1>1, <1>5, FS_Injection, FS_Interval
<1>7. \A p \in 1 .. n : \E i \in 1 .. n : Place(tab, key, i) = p
  BY <1>6 DEF Surjection
<1>8. \A p \in 1 .. n : f[p] \in 1 .. n /\ Place(tab, key, f[p]) = p
  BY <1>7
<1>9. f \in [1 .. n -> 1 .. n]
  BY <1>8
<1>10. \A i \in 1 .. n : \E p \in 1 .. n : f[p] = i
  <2> TAKE i \in 1 .. n
  <2>1. P[i] \in 1 .. n
    BY <1>3
  <2>2. f[P[i]] \in 1 .. n /\ Place(tab, key, f[P[i]]) = P[i]
    BY <1>8, <2>1
  <2>3. f[P[i]] = i
    BY <1>4, <2>2
  <2> QED BY <2>1, <2>3
<1>11. ASSUME NEW p \in 1 .. n, NEW q \in 1 .. n, p < q
       PROVE  Precedes(tab, key, f[p], f[q])
  <2>1. /\ f[p] \in 1 .. n /\ Place(tab, key, f[p]) = p
        /\ f[q] \in 1 .. n /\ Place(tab, key, f[q]) = q
    BY <1>8
  <2> HIDE DEF f
  <2>2. ~ Precedes(tab, key, f[q], f[p])
    BY <1>11, <2>1, PlaceGrows
  <2>3. f[p] # f[q]
    BY <1>11, <2>1
  <2> QED BY <1>2, <2>1, <2>2, <2>3
<1>12. CountingSort(key, tab) = [p \in 1 .. n |-> tab[f[p]]]
  <2> DEFINE g == Placed(key, tab)
  <2>1. g = [p \in 1 .. n |-> tab[f[p]]]
    BY <1>1 DEF Placed
  <2>2. CountingSort(key, tab) = <<>> \o g
    BY DEF CountingSort
  <2> HIDE DEF f, g
  <2>3. \A p \in 1 .. n : tab[f[p]] \in Range(tab)
    BY <1>1, <1>9 DEF Range
  <2>4. g \in Seq(Range(tab)) /\ Len(g) = n
    BY <1>1, <2>1, <2>3
  <2>5. <<>> \o g = g
    BY <2>4
  <2> QED BY <2>1, <2>2, <2>5
<1> HIDE DEF f
<1> QED BY <1>9, <1>10, <1>11, <1>12
-----------------------------------------------------------------------------
(* All levels.                                                             *)

Keys == {"socket", "die", "numa", "llc", "l2", "l1", "core", "smt", "os"}

\* A list of n threads with all keys.
Table(tab, n) == \A key \in Keys : Keyed(tab, n, key)

\* Before, of the keys from place m on
BeforeFrom(a, b, m) == \E i \in m .. 9 : a[i] < b[i] /\ \A j \in m .. i - 1 : a[j] = b[j]

OrderedFrom(tab, closed, m) ==
  \A p, q \in DOMAIN tab : p < q => BeforeFrom(Key(tab[p], closed), Key(tab[q], closed), m)

LEMMA KeyOf ==
  ASSUME NEW closed, closed \in {0, 1}
  PROVE  /\ \A i \in 1 .. 9 : SortKeys(closed)[i] \in Keys
         /\ SortKeys(closed)[9] = "os"
         /\ \A t : \A i \in 1 .. 9 : Key(t, closed)[i] = t[SortKeys(closed)[i]]
<1>1. SortKeys(closed)[9] = "os"
  BY DEF SortKeys
<1>2. ASSUME NEW i \in 1 .. 9
      PROVE  SortKeys(closed)[i] \in Keys
  <2>1. i \in {1, 2, 3, 4, 5, 6, 7, 8, 9}
    OBVIOUS
  <2> QED BY <2>1 DEF SortKeys, Keys
<1> QED BY <1>1, <1>2 DEF Key

\* One more key in front.
LEMMA Lexicographic ==
  ASSUME NEW m \in 1 .. 8, NEW a, NEW b,
         a[m] < b[m] \/ (a[m] = b[m] /\ BeforeFrom(a, b, m + 1))
  PROVE  BeforeFrom(a, b, m)
<1>1. CASE a[m] < b[m]
  <2>1. m \in m .. 9 /\ \A j \in m .. m - 1 : a[j] = b[j]
    OBVIOUS
  <2> QED BY <1>1, <2>1 DEF BeforeFrom
<1>2. CASE a[m] = b[m] /\ BeforeFrom(a, b, m + 1)
  <2>1. PICK i \in (m + 1) .. 9 : a[i] < b[i] /\ \A j \in (m + 1) .. i - 1 : a[j] = b[j]
    BY <1>2 DEF BeforeFrom
  <2>2. \A j \in m .. i - 1 : a[j] = b[j]
    <3> TAKE j \in m .. i - 1
    <3>1. j = m \/ j \in (m + 1) .. i - 1
      OBVIOUS
    <3> QED BY <1>2, <2>1, <3>1
  <2>3. i \in m .. 9
    BY <2>1
  <2> QED BY <2>1, <2>2, <2>3 DEF BeforeFrom
<1> QED BY <1>1, <1>2

LEMMA SortKeep ==
  ASSUME NEW n, NEW tab, Table(tab, n), NEW key \in Keys
  PROVE  /\ Table(CountingSort(key, tab), n)
         /\ Range(CountingSort(key, tab)) = Range(tab)
<1> DEFINE u == CountingSort(key, tab)
<1>1. Keyed(tab, n, key)
  BY DEF Table
<1>2. /\ u = [p \in 1 .. n |-> u[p]]
      /\ \E f \in [1 .. n -> 1 .. n] :
           /\ \A p \in 1 .. n : u[p] = tab[f[p]]
           /\ \A i \in 1 .. n : \E p \in 1 .. n : f[p] = i
  BY <1>1, SortLevel
<1> HIDE DEF u
<1>3. PICK f \in [1 .. n -> 1 .. n] :
           /\ \A p \in 1 .. n : u[p] = tab[f[p]]
           /\ \A i \in 1 .. n : \E p \in 1 .. n : f[p] = i
  BY <1>2
<1>4. n \in Nat /\ DOMAIN tab = 1 .. n /\ DOMAIN u = 1 .. n
  BY <1>1, <1>2 DEF Keyed
<1>5. Range(u) = Range(tab)
  BY SMTT(30), <1>3, <1>4 DEF Range
<1>6. u \in Seq(Range(u)) /\ Len(u) = n
  BY <1>2, <1>4 DEF Range
<1>7. \A k \in Keys, p \in 1 .. n : u[p][k] \in Int
  BY <1>3 DEF Table, Keyed
<1> QED BY <1>4, <1>5, <1>6, <1>7 DEF Table, Keyed, u

\* The least significant level: no two threads have one id.
LEMMA LastLevel ==
  ASSUME NEW n, NEW tab, Table(tab, n), \A i \in 1 .. n : tab[i]["os"] = i - 1,
         NEW closed, closed \in {0, 1}
  PROVE  OrderedFrom(CountingSort(SortKeys(closed)[9], tab), closed, 9)
<1> DEFINE u == CountingSort("os", tab)
<1>1. Keyed(tab, n, "os")
  BY DEF Table, Keys
<1>2. /\ u = [p \in 1 .. n |-> u[p]]
      /\ \E f \in [1 .. n -> 1 .. n] :
           /\ \A p \in 1 .. n : u[p] = tab[f[p]]
           /\ \A p, q \in 1 .. n : p < q => Precedes(tab, "os", f[p], f[q])
  BY <1>1, SortLevel
<1> HIDE DEF u
<1>3. PICK f \in [1 .. n -> 1 .. n] :
           /\ \A p \in 1 .. n : u[p] = tab[f[p]]
           /\ \A p, q \in 1 .. n : p < q => Precedes(tab, "os", f[p], f[q])
  BY <1>2
<1>4. n \in Nat /\ DOMAIN u = 1 .. n
  BY <1>1, <1>2 DEF Keyed
<1>5. ASSUME NEW p \in 1 .. n, NEW q \in 1 .. n, p < q
      PROVE  BeforeFrom(Key(u[p], closed), Key(u[q], closed), 9)
  <2>1. f[p] \in 1 .. n /\ f[q] \in 1 .. n /\ Precedes(tab, "os", f[p], f[q])
    BY <1>3, <1>5
  <2>2. u[p]["os"] < u[q]["os"]
    BY <1>3, <2>1 DEF Precedes
  <2>3. \A t : Key(t, closed)[9] = t["os"]
    <3>1. 9 \in 1 .. 9 /\ SortKeys(closed)[9] = "os"
      BY KeyOf
    <3> QED BY SMTT(30), <3>1, KeyOf
  <2> QED BY <2>2, <2>3 DEF BeforeFrom
<1>6. OrderedFrom(u, closed, 9)
  BY <1>4, <1>5 DEF OrderedFrom
<1>7. SortKeys(closed)[9] = "os"
  BY KeyOf
<1> QED BY <1>6, <1>7 DEF u

\* One more level: equal threads stay in the order of the levels before.
LEMMA NextLevel ==
  ASSUME NEW n, NEW tab, Table(tab, n), NEW m \in 1 .. 8, NEW closed, closed \in {0, 1},
         OrderedFrom(tab, closed, m + 1)
  PROVE  OrderedFrom(CountingSort(SortKeys(closed)[m], tab), closed, m)
<1> DEFINE key == SortKeys(closed)[m]
           u == CountingSort(key, tab)
<1>1. Keyed(tab, n, key)
  BY KeyOf DEF Table
<1>2. \A t : Key(t, closed)[m] = t[key]
  BY KeyOf
<1> HIDE DEF key
<1>3. /\ u = [p \in 1 .. n |-> u[p]]
      /\ \E f \in [1 .. n -> 1 .. n] :
           /\ \A p \in 1 .. n : u[p] = tab[f[p]]
           /\ \A p, q \in 1 .. n : p < q => Precedes(tab, key, f[p], f[q])
  BY <1>1, SortLevel
<1> HIDE DEF u
<1>4. PICK f \in [1 .. n -> 1 .. n] :
           /\ \A p \in 1 .. n : u[p] = tab[f[p]]
           /\ \A p, q \in 1 .. n : p < q => Precedes(tab, key, f[p], f[q])
  BY <1>3
<1>5. n \in Nat /\ DOMAIN u = 1 .. n /\ DOMAIN tab = 1 .. n
  BY <1>1, <1>3 DEF Keyed
<1>6. ASSUME NEW p \in 1 .. n, NEW q \in 1 .. n, p < q
      PROVE  BeforeFrom(Key(u[p], closed), Key(u[q], closed), m)
  <2>1. f[p] \in 1 .. n /\ f[q] \in 1 .. n /\ Precedes(tab, key, f[p], f[q])
    BY <1>4, <1>6
  <2>2. f[p] < f[q] => BeforeFrom(Key(tab[f[p]], closed), Key(tab[f[q]], closed), m + 1)
    BY <1>5, <2>1 DEF OrderedFrom
  <2>3. u[p] = tab[f[p]] /\ u[q] = tab[f[q]]
    BY <1>4
  <2>4. \/ Key(u[p], closed)[m] < Key(u[q], closed)[m]
        \/ /\ Key(u[p], closed)[m] = Key(u[q], closed)[m]
           /\ BeforeFrom(Key(u[p], closed), Key(u[q], closed), m + 1)
    BY <1>2, <2>1, <2>2, <2>3 DEF Precedes
  <2> QED BY <2>4, Lexicographic
<1> QED BY <1>5, <1>6 DEF OrderedFrom, u, key

\* All nine levels.
LEMMA AllLevels ==
  ASSUME NEW n, NEW tab, Table(tab, n), \A i \in 1 .. n : tab[i]["os"] = i - 1,
         NEW closed, closed \in {0, 1}
  PROVE  LET s == _hwthreads_sort(tab, closed)
         IN  Table(s, n) /\ Range(s) = Range(tab) /\ OrderedFrom(s, closed, 1)
<1> DEFINE By(m, t) == CountingSort(SortKeys(closed)[m], t)
           s9 == By(9, tab)
           s8 == By(8, s9)
           s7 == By(7, s8)
           s6 == By(6, s7)
           s5 == By(5, s6)
           s4 == By(4, s5)
           s3 == By(3, s4)
           s2 == By(2, s3)
           s1 == By(1, s2)
           Good(t, m) == Table(t, n) /\ Range(t) = Range(tab) /\ OrderedFrom(t, closed, m)
<1>1. _hwthreads_sort(tab, closed) = s1
  BY DEF _hwthreads_sort
<1>2. Good(s9, 9)
  <2>1. SortKeys(closed)[9] \in Keys
    BY KeyOf
  <2> QED BY <2>1, SortKeep, LastLevel
<1>3. ASSUME NEW m \in 1 .. 8, NEW t, Good(t, m + 1)
      PROVE  Good(By(m, t), m)
  <2>1. SortKeys(closed)[m] \in Keys
    BY KeyOf
  <2> QED BY <1>3, <2>1, SortKeep, NextLevel
<1> HIDE DEF By, Good
<1>4. Good(s8, 8)
  BY <1>2, <1>3
<1>5. Good(s7, 7)
  BY <1>3, <1>4
<1>6. Good(s6, 6)
  BY <1>3, <1>5
<1>7. Good(s5, 5)
  BY <1>3, <1>6
<1>8. Good(s4, 4)
  BY <1>3, <1>7
<1>9. Good(s3, 3)
  BY <1>3, <1>8
<1>10. Good(s2, 2)
  BY <1>3, <1>9
<1>11. Good(s1, 1)
  BY <1>3, <1>10
<1> QED BY <1>1, <1>11 DEF Good

-----------------------------------------------------------------------------
(* The table of a machine.                                                 *)

LEMMA MinOf ==
  ASSUME NEW S \in SUBSET Nat, S # {}
  PROVE  Min(S) \in S
<1>1. \E x \in S : \A y \in S : x =< y
  BY Least
<1> QED BY <1>1 DEF Min

LEMMA HighestId ==
  ASSUME NEW m, Sysfs(m)
  PROVE  MaxOsId(m) \in Nat
<1>1. PICK last \in DOMAIN m.cpus : last \in Nat /\ DOMAIN m.cpus \subseteq 0 .. last
  BY DEF Sysfs
<1>2. \A x \in DOMAIN m.cpus : last >= x
  BY <1>1
<1>3. Max(DOMAIN m.cpus) \in DOMAIN m.cpus
  BY <1>1, <1>2 DEF Max
<1> QED BY <1>1, <1>3 DEF MaxOsId

LEMMA TableOfMachine ==
  ASSUME NEW m, Sysfs(m)
  PROVE  LET n == MaxOsId(m) + 1
         IN  /\ Table(check_hwthreads(m), n)
             /\ \A i \in 1 .. n : check_hwthreads(m)[i]["os"] = i - 1
<1> DEFINE n == MaxOsId(m) + 1
           tab == check_hwthreads(m)
<1>1. n \in Nat
  BY HighestId
<1>2. ASSUME NEW id \in 0 .. n - 1, NEW key \in Keys \ {"os"}
      PROVE  read_hwthread_data(m, id)[key] \in Int
  <2>1. CASE id \notin DOMAIN m.cpus
    BY <2>1 DEF read_hwthread_data, Keys
  <2>2. CASE id \in DOMAIN m.cpus
    <3> DEFINE c == m.cpus[id]
    <3>1. hwthread_smt_id(m, id) \in Int
      <4> DEFINE here == {i \in DOMAIN c.siblings : c.siblings[i] = <<id>>}
      <4>1. here \in SUBSET Nat
        BY <2>2 DEF Sysfs
      <4>2. hwthread_smt_id(m, id) = IF here = {} THEN -1 ELSE Min(here) - 1
        BY DEF hwthread_smt_id
      <4> HIDE DEF here
      <4>3. here # {} => Min(here) \in Nat
        BY <4>1, MinOf
      <4> QED BY <4>2, <4>3
    <3>2. ASSUME NEW level \in {1, 2, 3}
          PROVE  hwthread_cache_id(m, id, level) \in Int
      <4> DEFINE hits == {i \in DOMAIN c.caches : c.caches[i].level = level}
      <4>1. hits \in SUBSET Nat /\ hits \subseteq DOMAIN c.caches
        BY <2>2 DEF Sysfs
      <4>2. hwthread_cache_id(m, id, level) = IF hits = {} THEN 0 ELSE c.caches[Min(hits)].id
        BY DEF hwthread_cache_id
      <4> HIDE DEF hits
      <4>3. hits # {} => Min(hits) \in DOMAIN c.caches
        BY <4>1, MinOf
      <4> QED BY <2>2, <4>2, <4>3 DEF Sysfs
    <3>3. (IF c.nodes = {} THEN 0 ELSE Min(c.nodes)) \in Int
      <4>1. c.nodes \in SUBSET Nat
        BY <2>2 DEF Sysfs
      <4>2. c.nodes # {} => Min(c.nodes) \in Nat
        BY <4>1, MinOf
      <4> QED BY <4>2
    <3>4. c.core \in Int /\ c.die \in Int /\ c.package \in Int
      BY <2>2 DEF Sysfs
    <3>5. read_hwthread_data(m, id) =
            [smt |-> hwthread_smt_id(m, id), core |-> c.core, die |-> c.die,
             socket |-> c.package, numa |-> IF c.nodes = {} THEN 0 ELSE Min(c.nodes),
             l1 |-> hwthread_cache_id(m, id, 1),
             l2 |-> hwthread_cache_id(m, id, 2),
             llc |-> hwthread_cache_id(m, id, 3)]
      BY <2>2 DEF read_hwthread_data
    <3> QED BY <3>1, <3>2, <3>3, <3>4, <3>5 DEF Keys
  <2> QED BY <2>1, <2>2
<1>3. ASSUME NEW i \in 1 .. n
      PROVE  /\ tab[i]["os"] = i - 1
             /\ \A key \in Keys : tab[i][key] \in Int
  <2> DEFINE cur == read_hwthread_data(m, i - 1)
  <2>1. tab[i] = [os |-> i - 1, usable |-> i - 1 \in m.affinity /\ hwthread_online(m, i - 1),
                  smt |-> cur.smt, core |-> cur.core, die |-> cur.die,
                  socket |-> cur.socket, numa |-> cur.numa, l1 |-> cur.l1,
                  l2 |-> cur.l2, llc |-> cur.llc]
    BY <1>3 DEF check_hwthreads
  <2>2. \A key \in Keys \ {"os"} : cur[key] \in Int
    BY <1>1, <1>2
  <2> HIDE DEF tab, n, cur
  <2>3. i - 1 \in Int
    BY <1>1
  <2> QED BY <2>1, <2>2, <2>3 DEF Keys
<1>4. /\ tab = [i \in 1 .. n |-> tab[i]]
      /\ tab \in Seq(Range(tab)) /\ Len(tab) = n
  <2>1. tab = [i \in 1 .. n |-> tab[i]]
    BY DEF check_hwthreads
  <2> HIDE DEF tab, n
  <2> QED BY <1>1, <2>1 DEF Range
<1> HIDE DEF tab, n
<1> QED BY <1>1, <1>3, <1>4 DEF Table, Keyed, tab, n
-----------------------------------------------------------------------------
(* The specification.                                                      *)

\* The table is that of the machine, or there is none yet.
TableInv ==
  /\ machine \in Machines
  /\ hw = <<>> \/ hw = check_hwthreads(machine)

LEMMA TableNext ==
  ASSUME TableInv, [Next]_vars
  PROVE  TableInv'
<1>1. CASE get_num_hw_threads
  BY <1>1 DEF TableInv, get_num_hw_threads
<1>2. CASE UNCHANGED <<machine, hw>>
  BY <1>2 DEF TableInv
<1>3. [Next]_vars => get_num_hw_threads \/ UNCHANGED <<machine, hw>>
  BY DEF Next, vars, lb_cpustr_to_cpulist_physical, lb_cpustr_to_cpulist_logical,
     lb_cpustr_to_cpulist_expression, Call, Loop, TakeChunk, Wrap, EndOfLoop, Looping, Done
<1> QED BY <1>1, <1>2, <1>3

LEMMA SortsTable ==
  ASSUME TableInv, Sysfs(machine)
  PROVE  SortedByTopology
<1>1. PICK n \in Nat : Table(hw, n) /\ \A i \in 1 .. n : hw[i]["os"] = i - 1
  <2>1. CASE hw = <<>>
    <3>1. Table(hw, 0) /\ \A i \in 1 .. 0 : hw[i]["os"] = i - 1
      BY <2>1 DEF Table, Keyed, Range
    <3> QED BY <3>1
  <2>2. CASE hw = check_hwthreads(machine)
    <3>1. MaxOsId(machine) + 1 \in Nat
      BY HighestId
    <3> QED BY <2>2, <3>1, TableOfMachine
  <2> QED BY <2>1, <2>2 DEF TableInv
<1>2. ASSUME NEW closed, closed \in {0, 1}
      PROVE  LET s == _hwthreads_sort(hw, closed)
             IN  /\ Range(s) = Range(hw) /\ Len(s) = Len(hw)
                 /\ \A i \in 1 .. Len(s) - 1 : Before(Key(s[i], closed), Key(s[i + 1], closed))
  <2> DEFINE s == _hwthreads_sort(hw, closed)
  <2>1. Table(s, n) /\ Range(s) = Range(hw) /\ OrderedFrom(s, closed, 1)
    BY <1>1, <1>2, AllLevels
  <2>2. Len(s) = n /\ Len(hw) = n /\ DOMAIN s = 1 .. n
    BY <1>1, <2>1 DEF Table, Keyed, Keys
  <2> HIDE DEF s
  <2>3. ASSUME NEW i \in 1 .. Len(s) - 1
        PROVE  Before(Key(s[i], closed), Key(s[i + 1], closed))
    <3>1. i \in DOMAIN s /\ i + 1 \in DOMAIN s /\ i < i + 1
      BY <2>2, <2>3
    <3>2. BeforeFrom(Key(s[i], closed), Key(s[i + 1], closed), 1)
      BY <2>1, <3>1 DEF OrderedFrom
    <3> QED BY <3>2 DEF BeforeFrom, Before
  <2> QED BY <2>1, <2>2, <2>3 DEF s
<1> QED BY <1>2 DEF SortedByTopology

\* Nine stable counting sorts from the least significant key to the most
\* significant one order the hardware threads by all keys at once, and lose or
\* repeat none (_hwthreads_sort), whatever the topology and the numbering.
THEOREM OrdersByTopology ==
  ASSUME \A m \in Machines : Sysfs(m)
  PROVE  Spec => []SortedByTopology
<1>1. Init => TableInv
  BY DEF Init, TableInv
<1>2. TableInv /\ [Next]_vars => TableInv'
  BY TableNext
<1>3. TableInv => SortedByTopology
  BY SortsTable DEF TableInv
<1> QED BY <1>1, <1>2, <1>3, PTL DEF Spec

-----------------------------------------------------------------------------
(* Lists.                                                                  *)

\* f leads from the positions of a list to places, in their order, and
\* leaves none out.
Picks(f, n, places) ==
  /\ f \in [1 .. n -> places]
  /\ \A i \in places : \E k \in 1 .. n : f[k] = i
  /\ \A k, l \in 1 .. n : k < l => f[k] < f[l]

\* The elements of the list at c places.
Selection(some, all, c, places) ==
  /\ some \in Seq({all[i] : i \in places}) /\ Len(some) = c
  /\ \E f : Picks(f, c, places) /\ \A k \in 1 .. c : some[k] = all[f[k]]

LEMMA Picked ==
  ASSUME NEW all, NEW n \in Nat, NEW places \in SUBSET (1 .. n)
  PROVE  /\ IsFiniteSet(places) /\ Cardinality(places) \in 0 .. n
         /\ Selection(AtPlaces(all, places), all, Cardinality(places), places)
<1> DEFINE c == Cardinality(places)
           upTo(i) == {j \in places : j <= i}
           rank == [i \in places |-> Cardinality(upTo(i))]
           f == [k \in 1 .. c |-> CHOOSE i \in places : Cardinality(upTo(i)) = k]
<1>1. IsFiniteSet(1 .. n) /\ Cardinality(1 .. n) = n
  BY FS_Interval
<1>2. IsFiniteSet(places) /\ c \in 0 .. n
  <2>1. IsFiniteSet(places) /\ Cardinality(places) <= Cardinality(1 .. n)
    BY <1>1, FS_Subset
  <2>2. Cardinality(places) \in Nat
    BY <2>1, FS_CardinalityType
  <2> QED BY <1>1, <2>1, <2>2
<1>0. \A i \in places : i \in Int
  OBVIOUS
<1>3. ASSUME NEW i \in places
      PROVE  IsFiniteSet(upTo(i)) /\ Cardinality(upTo(i)) \in 1 .. c
  <2>1. upTo(i) \in SUBSET places /\ i \in upTo(i)
    OBVIOUS
  <2>2. IsFiniteSet(upTo(i)) /\ Cardinality(upTo(i)) <= c
    BY <1>2, <2>1, FS_Subset
  <2>3. Cardinality(upTo(i)) \in Nat /\ Cardinality(upTo(i)) # 0
    BY <2>1, <2>2, FS_CardinalityType, FS_EmptySet
  <2> HIDE DEF upTo, c
  <2> QED BY <1>2, <2>2, <2>3
<1>4. ASSUME NEW i \in places, NEW j \in places, i < j
      PROVE  Cardinality(upTo(i)) < Cardinality(upTo(j))
  <2>1. upTo(i) \in SUBSET upTo(j) /\ j \in upTo(j) /\ j \notin upTo(i)
    <3>1. i \in Int /\ j \in Int
      BY <1>0
    <3>2. \A x \in places : x <= i => x <= j
      BY <1>0, <1>4, <3>1
    <3>3. j \in upTo(j) /\ j \notin upTo(i)
      BY <1>4, <3>1
    <3>4. upTo(i) \in SUBSET upTo(j)
      BY <3>2
    <3> QED BY <3>3, <3>4
  <2>2. /\ Cardinality(upTo(i)) <= Cardinality(upTo(j))
        /\ Cardinality(upTo(i)) # Cardinality(upTo(j))
    BY <1>3, <2>1, FS_Subset
  <2> HIDE DEF upTo, c
  <2> QED BY <1>2, <1>3, <2>2
<1>5. rank \in [places -> 1 .. c]
  BY <1>3
<1>6. \A i, j \in places : rank[i] = rank[j] => i = j
  <2> TAKE i, j \in places
  <2>1. i < j \/ j < i \/ i = j
    OBVIOUS
  <2>2. i < j => rank[i] < rank[j]
    BY <1>4
  <2>3. j < i => rank[j] < rank[i]
    BY <1>4
  <2>4. rank[i] \in 1 .. c /\ rank[j] \in 1 .. c
    BY <1>5
  <2> HIDE DEF rank, c
  <2> QED BY <1>2, <2>1, <2>2, <2>3, <2>4
<1>7. rank \in Injection(places, 1 .. c)
  BY <1>5, <1>6 DEF Injection, IsInjective
<1>8. rank \in Surjection(places, 1 .. c)
  <2>1. IsFiniteSet(1 .. c) /\ Cardinality(1 .. c) = c
    BY <1>2, FS_Interval
  <2> HIDE DEF rank
  <2> QED BY <1>2, <1>7, <2>1, FS_Injection
<1>9. \A k \in 1 .. c : \E i \in places : Cardinality(upTo(i)) = k
  BY <1>8 DEF Surjection
<1>10. \A k \in 1 .. c : f[k] \in places /\ Cardinality(upTo(f[k])) = k
  BY <1>9
<1>11. f \in [1 .. c -> places]
  BY <1>10
<1>12. AtPlaces(all, places) = [k \in 1 .. c |-> all[f[k]]]
  BY DEF AtPlaces
<1>13. \A i \in places : \E k \in 1 .. c : f[k] = i
  <2> TAKE i \in places
  <2>1. rank[i] \in 1 .. c
    BY <1>5
  <2>2. f[rank[i]] \in places /\ Cardinality(upTo(f[rank[i]])) = rank[i]
    BY <1>10, <2>1
  <2>3. f[rank[i]] = i
    BY <1>6, <2>2
  <2> QED BY <2>1, <2>3
<1>14. ASSUME NEW k \in 1 .. c, NEW l \in 1 .. c, k < l
       PROVE  f[k] < f[l]
  <2>1. /\ f[k] \in places /\ Cardinality(upTo(f[k])) = k
        /\ f[l] \in places /\ Cardinality(upTo(f[l])) = l
    BY <1>10
  <2> HIDE DEF f
  <2>2. f[l] < f[k] => Cardinality(upTo(f[l])) < Cardinality(upTo(f[k]))
    BY <1>4, <2>1
  <2>3. f[k] # f[l]
    BY <1>14, <2>1
  <2> HIDE DEF upTo, c
  <2>4. k \in Int /\ l \in Int
    BY <1>2
  <2>5. ~ f[l] < f[k]
    BY <1>14, <2>1, <2>2, <2>4
  <2>6. f[k] \in Int /\ f[l] \in Int
    BY <1>0, <2>1
  <2> QED BY <2>3, <2>5, <2>6
<1> HIDE DEF f
<1>15. AtPlaces(all, places) \in Seq({all[i] : i \in places}) /\ Len(AtPlaces(all, places)) = c
  <2> HIDE DEF c
  <2>1. \A k \in 1 .. c : all[f[k]] \in {all[i] : i \in places}
    BY <1>11
  <2> QED BY <1>2, <1>12, <2>1
<1>16. \A k \in 1 .. c : AtPlaces(all, places)[k] = all[f[k]]
  BY <1>12
<1>17. Picks(f, c, places)
  BY <1>11, <1>13, <1>14 DEF Picks
<1> QED BY <1>2, <1>15, <1>16, <1>17 DEF Selection

\* a and b lead from the positions of r to those in the first m lists.
Walks(a, b, r, seqs, m) ==
  /\ \A k \in 1 .. Len(r) : /\ a[k] \in 1 .. m /\ b[k] \in 1 .. Len(seqs[a[k]])
                            /\ r[k] = seqs[a[k]][b[k]]
  /\ \A i \in 1 .. m : \A j \in 1 .. Len(seqs[i]) :
       \E k \in 1 .. Len(r) : a[k] = i /\ b[k] = j
  /\ \A k, l \in 1 .. Len(r) : k < l => a[k] < a[l] \/ (a[k] = a[l] /\ b[k] < b[l])

Joins(r, seqs, m, S) == r \in Seq(S) /\ \E a, b : Walks(a, b, r, seqs, m)

LEMMA JoinsNone ==
  ASSUME NEW seqs, NEW S
  PROVE  Joins(<<>>, seqs, 0, S)
<1>1. Walks(<<>>, <<>>, <<>>, seqs, 0)
  BY DEF Walks
<1> QED BY <1>1 DEF Joins

LEMMA JoinsOne ==
  ASSUME NEW S, NEW n \in Nat, NEW seqs \in [1 .. n -> Seq(S)], n >= 1
  PROVE  Joins(seqs[1], seqs, 1, S)
<1> DEFINE a == [k \in 1 .. Len(seqs[1]) |-> 1]
           b == [k \in 1 .. Len(seqs[1]) |-> k]
<1>1. seqs[1] \in Seq(S) /\ Len(seqs[1]) \in Nat
  OBVIOUS
<1>2. Walks(a, b, seqs[1], seqs, 1)
  BY <1>1 DEF Walks
<1> QED BY <1>1, <1>2, Zenon DEF Joins

LEMMA JoinsNext ==
  ASSUME NEW S, NEW n \in Nat, NEW seqs \in [1 .. n -> Seq(S)], NEW m \in 1 .. n - 1,
         NEW r, Joins(r, seqs, m, S)
  PROVE  Joins(r \o seqs[m + 1], seqs, m + 1, S)
<1>1. PICK a, b : Walks(a, b, r, seqs, m)
  BY DEF Joins
<1> DEFINE s == seqs[m + 1]
           c == [k \in 1 .. Len(r) + Len(s) |-> IF k <= Len(r) THEN a[k] ELSE m + 1]
           d == [k \in 1 .. Len(r) + Len(s) |-> IF k <= Len(r) THEN b[k] ELSE k - Len(r)]
           w == r \o s
<1>2. r \in Seq(S) /\ s \in Seq(S) /\ Len(r) \in Nat /\ Len(s) \in Nat
  BY DEF Joins
<1>3. /\ w \in Seq(S) /\ Len(w) = Len(r) + Len(s)
      /\ \A k \in 1 .. Len(r) : w[k] = r[k]
      /\ \A k \in 1 .. Len(s) : w[Len(r) + k] = s[k]
  BY <1>2
<1>4. \A k \in 1 .. Len(r) : k \in 1 .. Len(w) /\ c[k] = a[k] /\ d[k] = b[k]
  BY <1>2, <1>3
<1>5. \A k \in 1 .. Len(s) : /\ Len(r) + k \in 1 .. Len(w)
                             /\ c[Len(r) + k] = m + 1 /\ d[Len(r) + k] = k
  BY <1>2, <1>3
<1>6. \A k \in 1 .. Len(w) :
        k \in 1 .. Len(r) \/ \E j \in 1 .. Len(s) : k = Len(r) + j
  <2> TAKE k \in 1 .. Len(w)
  <2>1. k \notin 1 .. Len(r) => k - Len(r) \in 1 .. Len(s) /\ k = Len(r) + (k - Len(r))
    BY <1>2, <1>3
  <2> QED BY <2>1
<1> HIDE DEF c, d, w
<1>7. ASSUME NEW k \in 1 .. Len(w)
      PROVE  c[k] \in 1 .. m + 1 /\ d[k] \in 1 .. Len(seqs[c[k]]) /\ w[k] = seqs[c[k]][d[k]]
  <2>1. CASE k \in 1 .. Len(r)
    <3>1. c[k] = a[k] /\ d[k] = b[k] /\ w[k] = r[k]
      BY <1>3, <1>4, <2>1
    <3>2. a[k] \in 1 .. m /\ b[k] \in 1 .. Len(seqs[a[k]]) /\ r[k] = seqs[a[k]][b[k]]
      BY <1>1, <2>1 DEF Walks
    <3>3. a[k] \in 1 .. m + 1
      BY <3>2
    <3> QED BY <3>1, <3>2, <3>3, Zenon
  <2>2. CASE \E j \in 1 .. Len(s) : k = Len(r) + j
    <3>1. PICK j \in 1 .. Len(s) : k = Len(r) + j
      BY <2>2
    <3>2. c[k] = m + 1 /\ d[k] = j /\ w[k] = s[j]
      BY <1>3, <1>5, <3>1
    <3>3. m + 1 \in 1 .. m + 1
      OBVIOUS
    <3> QED BY <3>1, <3>2, <3>3, Zenon
  <2> QED BY <1>6, <2>1, <2>2
<1>8. ASSUME NEW i \in 1 .. m + 1, NEW j \in 1 .. Len(seqs[i])
      PROVE  \E k \in 1 .. Len(w) : c[k] = i /\ d[k] = j
  <2>1. CASE i \in 1 .. m
    <3>1. PICK k \in 1 .. Len(r) : a[k] = i /\ b[k] = j
      BY <1>1, <2>1 DEF Walks
    <3> QED BY <1>4, <3>1
  <2>2. CASE i = m + 1
    <3>1. j \in 1 .. Len(s)
      BY <2>2
    <3> QED BY <1>5, <2>2, <3>1
  <2> QED BY <2>1, <2>2
<1>9. ASSUME NEW k \in 1 .. Len(w), NEW l \in 1 .. Len(w), k < l
      PROVE  c[k] < c[l] \/ (c[k] = c[l] /\ d[k] < d[l])
  <2>1. CASE k \in 1 .. Len(r) /\ l \in 1 .. Len(r)
    BY <1>1, <1>4, <1>9, <2>1 DEF Walks
  <2>2. CASE k \in 1 .. Len(r) /\ \E j \in 1 .. Len(s) : l = Len(r) + j
    <3>1. c[k] \in 1 .. m /\ c[l] = m + 1
      BY <1>1, <1>4, <1>5, <2>2 DEF Walks
    <3> QED BY <3>1
  <2>3. ASSUME NEW x \in 1 .. Len(s), k = Len(r) + x,
               NEW y \in 1 .. Len(s), l = Len(r) + y
        PROVE  c[k] = c[l] /\ d[k] < d[l]
    <3>1. c[k] = m + 1 /\ d[k] = x /\ c[l] = m + 1 /\ d[l] = y
      BY <1>5, <2>3
    <3>2. x < y
      BY <1>2, <1>9, <2>3
    <3> QED BY <3>1, <3>2
  <2>4. ~ (l \in 1 .. Len(r) /\ \E j \in 1 .. Len(s) : k = Len(r) + j)
    BY <1>2, <1>9
  <2> QED BY <1>6, <2>1, <2>2, <2>3, <2>4
<1>10. Walks(c, d, w, seqs, m + 1)
  BY <1>7, <1>8, <1>9 DEF Walks
<1> QED BY <1>3, <1>10, Zenon DEF Joins, w

LEMMA Flattened ==
  ASSUME NEW S, NEW n \in Nat, NEW seqs \in [1 .. n -> Seq(S)]
  PROVE  Joins(FlattenSeq(seqs), seqs, n, S)
<1>1. seqs \in Seq(Seq(S)) /\ Len(seqs) = n
  OBVIOUS
<1>2. CASE n = 0
  <2>1. seqs = <<>>
    BY <1>2
  <2>2. FlattenSeq(seqs) = <<>>
    BY <2>1 DEF FlattenSeq
  <2> QED BY <1>2, <2>2, JoinsNone
<1>3. CASE n # 0
  <2> DEFINE Is(f) == IsFlatten(f, seqs, n)
             g == CHOOSE f : Is(f)
  <2>1. Is(g)
    BY FlattenRecursion, Zenon
  <2>2. FlattenSeq(seqs) = g[n]
    <3>1. FlattenSeq(seqs) = LET flatten[i \in 1 .. Len(seqs)] ==
                                   IF i = 1 THEN seqs[i] ELSE flatten[i - 1] \o seqs[i]
                             IN  flatten[Len(seqs)]
      BY <1>1, <1>3 DEF FlattenSeq
    <3> QED BY <1>1, <3>1, Zenon DEF IsFlatten
  <2> HIDE DEF g
  <2>3. \A i \in 1 .. n : g[i] = IF i = 1 THEN seqs[i] ELSE g[i - 1] \o seqs[i]
    BY <2>1 DEF IsFlatten
  <2> HIDE DEF Is
  <2> DEFINE Bad == {i \in 1 .. n : ~ Joins(g[i], seqs, i, S)}
  <2>4. Bad = {}
    <3> SUFFICES ASSUME Bad # {} PROVE FALSE
      OBVIOUS
    <3>1. Bad \in SUBSET Nat
      OBVIOUS
    <3> HIDE DEF Bad
    <3>2. PICK i \in Bad : \A y \in Bad : i <= y
      BY <3>1, Least
    <3> USE DEF Bad
    <3>3. i \in 1 .. n /\ i # 1
      <4>1. g[1] = seqs[1] /\ n >= 1
        BY <1>3, <2>3
      <4>2. Joins(g[1], seqs, 1, S)
        BY <4>1, JoinsOne
      <4> QED BY <4>2
    <3>4. i - 1 \in 1 .. n - 1 /\ i - 1 \notin Bad /\ (i - 1) + 1 = i
      BY <3>2, <3>3
    <3>5. Joins(g[i - 1], seqs, i - 1, S)
      BY <3>4
    <3>6. Joins(g[i - 1] \o seqs[(i - 1) + 1], seqs, (i - 1) + 1, S)
      BY <3>4, <3>5, JoinsNext
    <3>7. g[i] = g[i - 1] \o seqs[i]
      BY <2>3, <3>3
    <3> QED BY <3>2, <3>4, <3>6, <3>7
  <2>5. Joins(g[n], seqs, n, S)
    BY <1>3, <2>4
  <2> QED BY <2>2, <2>5
<1> QED BY <1>2, <1>3

-----------------------------------------------------------------------------
(* The threads of a domain.                                                *)

\* The table of the machine is there.
Ready == Ordinary(machine) /\ hw = check_hwthreads(machine)

LEMMA MaxOf ==
  ASSUME NEW n \in Nat, NEW S \in SUBSET (0 .. n), S # {}
  PROVE  Max(S) \in S /\ \A x \in S : x <= Max(S)
<1> DEFINE D == {n - x : x \in S}
<1>1. D \in SUBSET Nat /\ D # {}
  <2>1. \A x \in S : n - x \in Nat
    OBVIOUS
  <2>2. \E x \in S : n - x \in D
    OBVIOUS
  <2> QED BY <2>1, <2>2
<1>2. PICK d \in D : \A y \in D : d <= y
  BY <1>1, Least
<1>3. PICK x \in S : d = n - x
  BY <1>2
<1>4. \A y \in S : x >= y
  <2> TAKE y \in S
  <2>1. d <= n - y
    BY <1>2
  <2> QED BY <1>3, <2>1
<1>5. Max(S) \in S /\ \A x_1 \in S : Max(S) >= x_1
  BY <1>3, <1>4 DEF Max
<1> QED BY <1>5

\* An entry of the table.
LEMMA EntryOf ==
  ASSUME Ready
  PROVE  LET n == Len(hw)
         IN  /\ n \in Nat \ {0} /\ DOMAIN hw = 1 .. n /\ DOMAIN machine.cpus = 0 .. n - 1
             /\ Table(hw, n)
             /\ \A t \in 0 .. n - 1 :
                  /\ hw[t + 1].os = t /\ hw[t + 1].smt = SmtPlace(t)
                  /\ SmtPlace(t) \in 0 .. n
                  /\ hw[t + 1].usable <=> t \in machine.affinity /\ hwthread_online(machine, t)
                  /\ hw[t + 1].socket = machine.cpus[t].package
                  /\ hw[t + 1].die = machine.cpus[t].die
                  /\ machine.cpus[t].nodes = {hw[t + 1].numa}
<1> DEFINE n == MaxOsId(machine) + 1
<1>1. n \in Nat \ {0} /\ Table(hw, n) /\ \A i \in 1 .. n : hw[i]["os"] = i - 1
  BY TableOfMachine, HighestId DEF Ready, Ordinary
<1>2. Len(hw) = n /\ DOMAIN hw = 1 .. n
  BY <1>1 DEF Table, Keyed, Keys
<1>3. DOMAIN machine.cpus = 0 .. n - 1
  BY <1>1, HighestId DEF Ready, Ordinary
<1>4. ASSUME NEW t \in 0 .. n - 1
      PROVE  /\ hw[t + 1].os = t /\ hw[t + 1].smt = SmtPlace(t)
             /\ SmtPlace(t) \in 0 .. n
             /\ hw[t + 1].usable <=> t \in machine.affinity /\ hwthread_online(machine, t)
             /\ hw[t + 1].socket = machine.cpus[t].package
             /\ hw[t + 1].die = machine.cpus[t].die
             /\ machine.cpus[t].nodes = {hw[t + 1].numa}
  <2> DEFINE c == machine.cpus[t]
             cur == read_hwthread_data(machine, t)
             same == {u \in DOMAIN machine.cpus :
                        u < t /\ machine.cpus[u].package = c.package
                              /\ machine.cpus[u].core = c.core}
  <2>1. t \in DOMAIN machine.cpus /\ t + 1 \in 1 .. n /\ (t + 1) - 1 = t
    BY <1>1, <1>3
  <2>2. hw[t + 1] = [os |-> t, usable |-> t \in machine.affinity /\ hwthread_online(machine, t),
                     smt |-> cur.smt, core |-> cur.core, die |-> cur.die,
                     socket |-> cur.socket, numa |-> cur.numa, l1 |-> cur.l1,
                     l2 |-> cur.l2, llc |-> cur.llc]
    BY <2>1 DEF Ready, check_hwthreads
  <2>3. /\ cur.smt = hwthread_smt_id(machine, t) /\ cur.die = c.die
        /\ cur.socket = c.package
        /\ cur.numa = IF c.nodes = {} THEN 0 ELSE Min(c.nodes)
    BY <2>1 DEF read_hwthread_data
  <2>4. /\ \E node \in Nat : c.nodes = {node}
        /\ Cardinality(same) + 1 \in DOMAIN c.siblings
        /\ \A i \in DOMAIN c.siblings : c.siblings[i] = <<t>> <=> i = Cardinality(same) + 1
    BY <2>1 DEF Ready, Ordinary
  <2>5. SmtPlace(t) = Cardinality(same)
    BY DEF SmtPlace
  <2>6. Cardinality(same) \in 0 .. n
    <3>1. IsFiniteSet(0 .. n - 1) /\ Cardinality(0 .. n - 1) = n
      BY <1>1, FS_Interval
    <3>2. same \in SUBSET (0 .. n - 1)
      BY <1>3
    <3>3. IsFiniteSet(same) /\ Cardinality(same) <= n
      BY <3>1, <3>2, FS_Subset
    <3>4. Cardinality(same) \in Nat
      BY <3>3, FS_CardinalityType
    <3> HIDE DEF n, same
    <3> QED BY <1>1, <3>3, <3>4
  <2> HIDE DEF same, cur, n
  <2>7. hwthread_smt_id(machine, t) = Cardinality(same)
    <3> DEFINE here == {i \in DOMAIN c.siblings : c.siblings[i] = <<t>>}
    <3>1. here = {Cardinality(same) + 1}
      BY <2>4
    <3>2. hwthread_smt_id(machine, t) = IF here = {} THEN -1 ELSE Min(here) - 1
      BY DEF hwthread_smt_id
    <3> HIDE DEF here
    <3>3. Min({Cardinality(same) + 1}) = Cardinality(same) + 1
      BY <2>6 DEF Min
    <3> QED BY <2>6, <3>1, <3>2, <3>3
  <2>8. c.nodes = {cur.numa}
    <3>1. PICK node \in c.nodes : node \in Nat /\ c.nodes = {node}
      BY <2>4
    <3>2. Min({node}) = node
      BY DEF Min
    <3> QED BY <2>3, <3>1, <3>2
  <2>9. /\ hw[t + 1].os = t /\ hw[t + 1].smt = cur.smt /\ hw[t + 1].die = cur.die
        /\ hw[t + 1].socket = cur.socket /\ hw[t + 1].numa = cur.numa
        /\ hw[t + 1].usable = (t \in machine.affinity /\ hwthread_online(machine, t))
    BY <2>2
  <2>10. hw[t + 1].usable <=> t \in machine.affinity /\ hwthread_online(machine, t)
    BY <2>9, Zenon
  <2> QED BY <2>3, <2>5, <2>6, <2>7, <2>8, <2>9, <2>10
<1> HIDE DEF n
<1> QED BY <1>1, <1>2, <1>3, <1>4

\* The ids are those of T, each once.
Listed(ids, T) ==
  /\ IsFiniteSet(T) /\ Len(ids) = Cardinality(T) /\ DOMAIN ids = 1 .. Len(ids)
  /\ ids \in Seq(T)
  /\ \A t \in T : \E k \in 1 .. Len(ids) : ids[k] = t
  /\ \A k, l \in 1 .. Len(ids) : k < l => ids[k] # ids[l]

SmtOrdered(ids) ==
  \A k, l \in 1 .. Len(ids) : k < l => SmtPlace(ids[k]) <= SmtPlace(ids[l])

LEMMA ListedIn ==
  ASSUME NEW n \in Nat, NEW T \in SUBSET (0 .. n - 1), NEW c \in Nat, NEW ids \in [1 .. c -> T],
         \A t \in T : \E k \in 1 .. c : ids[k] = t,
         \A k, l \in 1 .. c : k < l => ids[k] # ids[l]
  PROVE  Listed(ids, T) /\ Len(ids) = c
<1>1. \A k, l \in 1 .. c : ids[k] = ids[l] => k = l
  <2> TAKE k, l \in 1 .. c
  <2>1. k < l \/ l < k \/ k = l
    OBVIOUS
  <2> QED BY <2>1
<1>2. ids \in Bijection(1 .. c, T)
  BY <1>1 DEF Bijection, Injection, Surjection, IsInjective
<1>3. IsFiniteSet(1 .. c) /\ Cardinality(1 .. c) = c
  BY FS_Interval
<1>4. IsFiniteSet(T) /\ Cardinality(T) = c
  BY <1>2, <1>3, FS_Bijection DEF ExistsBijection
<1>5. ids \in Seq(T) /\ Len(ids) = c
  OBVIOUS
<1> QED BY <1>4, <1>5 DEF Listed

\* The n threads of the table in another order, each once, and those of one
\* SMT level together if so asked.
Reordered(s, n, closed) ==
  /\ Len(s) = n /\ DOMAIN s = 1 .. n
  /\ \A i \in 1 .. n : s[i].os \in 0 .. n - 1 /\ s[i] = hw[s[i].os + 1]
  /\ \A t \in 0 .. n - 1 : \E i \in 1 .. n : s[i].os = t
  /\ \A i, j \in 1 .. n : i < j => s[i].os # s[j].os
  /\ closed = 1 => \A i, j \in 1 .. n : i < j => s[i].smt <= s[j].smt

LEMMA SortedThreads ==
  ASSUME Ready, NEW closed, closed \in {0, 1}
  PROVE  Reordered(_hwthreads_sort(hw, closed), Len(hw), closed)
<1> DEFINE s == _hwthreads_sort(hw, closed)
           n == Len(hw)
<1>1. /\ n \in Nat \ {0} /\ DOMAIN hw = 1 .. n /\ Table(hw, n)
      /\ \A t \in 0 .. n - 1 : hw[t + 1].os = t
  BY EntryOf
<1>2. \A i \in 1 .. n : hw[i]["os"] = i - 1
  <2> TAKE i \in 1 .. n
  <2>1. i - 1 \in 0 .. n - 1 /\ (i - 1) + 1 = i
    BY <1>1
  <2> QED BY <1>1, <2>1
<1>3. Table(s, n) /\ Range(s) = Range(hw) /\ OrderedFrom(s, closed, 1)
  BY <1>1, <1>2, AllLevels
<1> HIDE DEF s, n
<1>4. Len(s) = n /\ DOMAIN s = 1 .. n /\ \A i \in 1 .. n : \A key \in Keys : s[i][key] \in Int
  BY <1>1, <1>3 DEF Table, Keyed, Keys
<1> DEFINE old == {hw[i] : i \in 1 .. n}
           new == {s[i] : i \in 1 .. n}
<1>8. old = new
  BY <1>1, <1>3, <1>4 DEF Range
<1>5. ASSUME NEW i \in 1 .. n
      PROVE  s[i].os \in 0 .. n - 1 /\ s[i] = hw[s[i].os + 1]
  <2>1. PICK j \in 1 .. n : s[i] = hw[j]
    <3>1. s[i] \in new
      OBVIOUS
    <3>2. s[i] \in old
      BY <1>8, <3>1
    <3> QED BY <3>2
  <2>2. s[i].os = j - 1
    BY <1>2, <2>1
  <2> QED BY <1>1, <2>1, <2>2
<1>6. ASSUME NEW t \in 0 .. n - 1
      PROVE  \E i \in 1 .. n : s[i].os = t
  <2>1. t + 1 \in 1 .. n
    BY <1>1
  <2>2. PICK i \in 1 .. n : s[i] = hw[t + 1]
    <3>1. hw[t + 1] \in old
      BY <2>1
    <3>2. hw[t + 1] \in new
      BY <1>8, <3>1
    <3> QED BY <3>2
  <2> QED BY <1>1, <2>2
<1>7. ASSUME NEW i \in 1 .. n, NEW j \in 1 .. n, i < j
      PROVE  s[i].os # s[j].os /\ (closed = 1 => s[i].smt <= s[j].smt)
  <2> DEFINE a == Key(s[i], closed)
             b == Key(s[j], closed)
  <2>1. PICK m \in 1 .. 9 : a[m] < b[m] /\ \A l \in 1 .. m - 1 : a[l] = b[l]
    BY <1>3, <1>4, <1>7 DEF OrderedFrom, BeforeFrom
  <2>2. \A l \in 1 .. 9 : /\ SortKeys(closed)[l] \in Keys
                          /\ a[l] = s[i][SortKeys(closed)[l]]
                          /\ b[l] = s[j][SortKeys(closed)[l]]
    BY KeyOf
  <2>3. \A l \in 1 .. 9 : a[l] \in Int /\ b[l] \in Int
    BY <1>4, <2>2
  <2>4. s[i] = s[j] => a[m] = b[m]
    BY <2>2
  <2> HIDE DEF a, b
  <2>5. s[i].os # s[j].os
    BY <1>5, <2>1, <2>3, <2>4
  <2>6. closed = 1 => s[i].smt <= s[j].smt
    <3>1. a[1] <= b[1]
      <4>1. CASE m = 1
        BY <2>1, <2>3, <4>1
      <4>2. CASE m # 1
        <5>1. 1 \in 1 .. m - 1 /\ 1 \in 1 .. 9
          BY <4>2
        <5> QED BY <2>1, <2>3, <5>1
      <4> QED BY <4>1, <4>2
    <3>2. closed = 1 => SortKeys(closed)[1] = "smt"
      BY DEF SortKeys
    <3> QED BY <2>2, <3>1, <3>2
  <2> QED BY <2>5, <2>6
<1> QED BY <1>4, <1>5, <1>6, <1>7 DEF Reordered, s, n

\* Some of the threads, in the order of the table.
LEMMA PickedThreads ==
  ASSUME Ready, NEW closed, closed \in {0, 1}, NEW T \in SUBSET (0 .. Len(hw) - 1),
         NEW places \in SUBSET (1 .. Len(hw)),
         \A i \in 1 .. Len(hw) : i \in places <=> _hwthreads_sort(hw, closed)[i].os \in T
  PROVE  LET some == AtPlaces(_hwthreads_sort(hw, closed), places)
             ids == [i \in DOMAIN some |-> some[i].os]
         IN  Listed(ids, T) /\ (closed = 1 => SmtOrdered(ids))
<1> DEFINE s == _hwthreads_sort(hw, closed)
           n == Len(hw)
           c == Cardinality(places)
           some == AtPlaces(s, places)
           ids == [i \in DOMAIN some |-> some[i].os]
<1>1. Reordered(s, n, closed)
  BY SortedThreads
<1>2. n \in Nat /\ \A t \in 0 .. n - 1 : hw[t + 1].smt = SmtPlace(t)
  BY EntryOf
<1> HIDE DEF s, n
<1>3. c \in 0 .. n /\ Selection(some, s, c, places)
  <2>1. n \in Nat /\ places \in SUBSET (1 .. n)
    BY <1>2 DEF n
  <2> QED BY <2>1, Picked
<1>4. PICK f : Picks(f, c, places) /\ \A k \in 1 .. c : some[k] = s[f[k]]
  BY <1>3 DEF Selection
<1>5. DOMAIN some = 1 .. c /\ c \in Nat
  BY <1>2, <1>3 DEF Selection
<1> HIDE DEF c, some
<1>6. ids = [k \in 1 .. c |-> s[f[k]].os]
  BY <1>4, <1>5
<1> HIDE DEF ids
<1>7. /\ \A k \in 1 .. c : f[k] \in places /\ f[k] \in 1 .. n
      /\ \A i \in places : \E k \in 1 .. c : f[k] = i
      /\ \A k, l \in 1 .. c : k < l => f[k] < f[l]
  <2>1. \A i \in places : i \in 1 .. n
    BY DEF n
  <2> QED BY <1>4, <2>1 DEF Picks
<1>8. \A i \in 1 .. n : i \in places <=> s[i].os \in T
  BY DEF s, n
<1>9. ids \in [1 .. c -> T]
  BY <1>6, <1>7, <1>8
<1>10. ASSUME NEW t \in T
       PROVE  \E k \in 1 .. c : ids[k] = t
  <2>1. PICK i \in 1 .. n : s[i].os = t
    BY <1>1 DEF Reordered, n
  <2>2. PICK k \in 1 .. c : f[k] = i
    BY <1>7, <1>8, <2>1
  <2> QED BY <1>6, <2>1, <2>2
<1>11. \A k, l \in 1 .. c : k < l => ids[k] # ids[l]
  <2> TAKE k, l \in 1 .. c
  <2> HAVE k < l
  <2>1. f[k] \in 1 .. n /\ f[l] \in 1 .. n /\ f[k] < f[l]
    BY <1>7
  <2>2. s[f[k]].os # s[f[l]].os
    BY <1>1, <2>1 DEF Reordered
  <2> QED BY <1>6, <2>2
<1>12. Listed(ids, T) /\ Len(ids) = c
  <2>1. \A t \in T : \E k \in 1 .. c : ids[k] = t
    BY <1>10
  <2>2. n \in Nat /\ T \in SUBSET (0 .. n - 1)
    BY <1>2 DEF n
  <2> QED BY <1>5, <1>9, <1>11, <2>1, <2>2, ListedIn, ZenonT(60)
<1>13. ASSUME closed = 1, NEW k \in 1 .. c, NEW l \in 1 .. c, k < l
       PROVE  SmtPlace(ids[k]) <= SmtPlace(ids[l])
  <2>1. f[k] \in 1 .. n /\ f[l] \in 1 .. n /\ f[k] < f[l]
    BY <1>7, <1>13
  <2>2. s[f[k]].smt <= s[f[l]].smt
    BY <1>1, <1>13, <2>1 DEF Reordered
  <2>3. /\ s[f[k]].os \in 0 .. n - 1 /\ s[f[k]] = hw[s[f[k]].os + 1]
        /\ s[f[l]].os \in 0 .. n - 1 /\ s[f[l]] = hw[s[f[l]].os + 1]
    BY <1>1, <2>1 DEF Reordered
  <2>4. s[f[k]].smt = SmtPlace(s[f[k]].os) /\ s[f[l]].smt = SmtPlace(s[f[l]].os)
    BY <1>2, <2>3
  <2> QED BY <1>6, <2>2, <2>4
<1> QED BY <1>12, <1>13 DEF SmtOrdered, ids, some, s, n

LEMMA DomainList ==
  ASSUME Ready, NEW dom \in {"S", "M", "D"}, NEW i, NEW closed, closed \in {0, 1}
  PROVE  LET ids == DomainThreads(hw, dom, i, closed)
         IN  /\ ThreadsOf(dom, i) \in SUBSET (0 .. Len(hw) - 1)
             /\ Listed(ids, ThreadsOf(dom, i)) /\ (closed = 1 => SmtOrdered(ids))
<1> DEFINE s == _hwthreads_sort(hw, closed)
           n == Len(hw)
           T == ThreadsOf(dom, i)
           places == {x \in DOMAIN s : BelongsTo(s[x], dom, i) /\ s[x].usable}
<1>1. /\ n \in Nat /\ DOMAIN machine.cpus = 0 .. n - 1
      /\ \A t \in 0 .. n - 1 :
           /\ hw[t + 1].usable <=> t \in machine.affinity /\ hwthread_online(machine, t)
           /\ hw[t + 1].socket = machine.cpus[t].package
           /\ hw[t + 1].die = machine.cpus[t].die
           /\ machine.cpus[t].nodes = {hw[t + 1].numa}
  BY EntryOf
<1>2. Reordered(s, n, closed)
  BY SortedThreads
<1>3. T \in SUBSET (0 .. n - 1)
  BY <1>1 DEF ThreadsOf
<1>4. ASSUME NEW t \in 0 .. n - 1
      PROVE  BelongsTo(hw[t + 1], dom, i) /\ hw[t + 1].usable <=> t \in T
  <2>1. t \in T <=> /\ t \in machine.affinity /\ hwthread_online(machine, t)
                    /\ CASE dom = "S" -> machine.cpus[t].package = i
                         [] dom = "M" -> i \in machine.cpus[t].nodes
                         [] dom = "D" -> machine.cpus[t].die = i
    BY <1>1 DEF ThreadsOf
  <2>2. BelongsTo(hw[t + 1], dom, i) <=>
          CASE dom = "S" -> machine.cpus[t].package = i
            [] dom = "M" -> i \in machine.cpus[t].nodes
            [] dom = "D" -> machine.cpus[t].die = i
    <3>1. CASE dom = "S"
      BY <1>1, <3>1 DEF BelongsTo
    <3>2. CASE dom = "M"
      BY <1>1, <3>2 DEF BelongsTo
    <3>3. CASE dom = "D"
      BY <1>1, <3>3 DEF BelongsTo
    <3> QED BY <3>1, <3>2, <3>3
  <2>3. hw[t + 1].usable <=> t \in machine.affinity /\ hwthread_online(machine, t)
    BY <1>1
  <2> QED BY <2>1, <2>2, <2>3, Zenon
<1> HIDE DEF s, T
<1>5. ASSUME NEW x \in 1 .. n
      PROVE  x \in places <=> s[x].os \in T
  <2>1. s[x].os \in 0 .. n - 1 /\ s[x] = hw[s[x].os + 1] /\ DOMAIN s = 1 .. n
    BY <1>2 DEF Reordered
  <2>2. x \in places <=> BelongsTo(s[x], dom, i) /\ s[x].usable
    BY <2>1
  <2> QED BY <1>4, <2>1, <2>2, Zenon
<1>6. places \in SUBSET (1 .. n)
  BY <1>2 DEF Reordered
<1> HIDE DEF places
<1> DEFINE some == AtPlaces(s, places)
           ids == [x \in DOMAIN some |-> some[x].os]
<1>7. Listed(ids, T) /\ (closed = 1 => SmtOrdered(ids))
  <2>1. \A x \in 1 .. n : x \in places <=> s[x].os \in T
    BY <1>5
  <2> QED BY <1>3, <1>6, <2>1, PickedThreads DEF s, n
<1>8. DomainThreads(hw, dom, i, closed) = ids
  BY DEF DomainThreads, s, places
<1> HIDE DEF ids
<1> QED BY <1>3, <1>7, <1>8 DEF T, n

LEMMA AllList ==
  ASSUME Ready, NEW i
  PROVE  /\ ThreadsOf("N", i) = 0 .. Len(hw) - 1
         /\ Listed(AllThreads(hw), ThreadsOf("N", i))
<1> DEFINE s == _hwthreads_sort(hw, 0)
           n == Len(hw)
           T == ThreadsOf("N", i)
           ids == [x \in DOMAIN s |-> s[x].os]
<1>1. n \in Nat /\ DOMAIN machine.cpus = 0 .. n - 1
  BY EntryOf
<1>2. Reordered(s, n, 0)
  BY SortedThreads
<1>3. T = 0 .. n - 1
  BY <1>1 DEF ThreadsOf
<1>4. AllThreads(hw) = ids
  BY DEF AllThreads
<1> HIDE DEF s, T, n
<1>5. ids = [x \in 1 .. n |-> s[x].os]
  BY <1>2 DEF Reordered
<1> HIDE DEF ids
<1>6. ids \in [1 .. n -> T]
  BY <1>2, <1>3, <1>5 DEF Reordered
<1>7. \A t \in T : \E k \in 1 .. n : ids[k] = t
  BY <1>2, <1>3, <1>5 DEF Reordered
<1>8. \A k, l \in 1 .. n : k < l => ids[k] # ids[l]
  BY <1>2, <1>5 DEF Reordered
<1>9. T \in SUBSET (0 .. n - 1)
  BY <1>3
<1>10. Listed(ids, T)
  BY <1>1, <1>6, <1>7, <1>8, <1>9, ListedIn, Zenon
<1> QED BY <1>3, <1>4, <1>10 DEF T, n

LEMMA AllListBySmt ==
  ASSUME Ready, NEW i
  PROVE  Listed(AllThreadsBySmt(hw), ThreadsOf("N", i)) /\ SmtOrdered(AllThreadsBySmt(hw))
<1> DEFINE s == _hwthreads_sort(hw, 1)
           n == Len(hw)
           T == ThreadsOf("N", i)
           S == {0} \cup {hw[x].smt : x \in DOMAIN hw}
           m == Max(S)
           at(t) == {x \in DOMAIN s : s[x].smt = t}
           seqs == [t \in 1 .. m + 1 |-> AtPlaces(s, at(t - 1))]
           levels == FlattenSeq(seqs)
           ids == [x \in DOMAIN levels |-> levels[x].os]
<1>1. /\ n \in Nat /\ DOMAIN hw = 1 .. n /\ DOMAIN machine.cpus = 0 .. n - 1
      /\ \A t \in 0 .. n - 1 : hw[t + 1].smt = SmtPlace(t) /\ SmtPlace(t) \in 0 .. n
  BY EntryOf
<1>2. Reordered(s, n, 1)
  BY SortedThreads
<1>3. T = 0 .. n - 1
  BY <1>1 DEF ThreadsOf
<1>4. AllThreadsBySmt(hw) = ids
  BY DEF AllThreadsBySmt
<1> HIDE DEF s, T, n
<1>5. m \in 0 .. n /\ \A t \in 0 .. n - 1 : SmtPlace(t) \in 0 .. m
  <2>1. \A x \in 1 .. n : x - 1 \in 0 .. n - 1 /\ (x - 1) + 1 = x
    BY <1>1
  <2>2. \A x \in 1 .. n : hw[x].smt \in 0 .. n
    BY <1>1, <2>1
  <2>3. 0 \in 0 .. n
    BY <1>1
  <2>4. S \in SUBSET (0 .. n) /\ S # {}
    BY <1>1, <2>2, <2>3
  <2>5. \A t \in 0 .. n - 1 : SmtPlace(t) \in S
    <3> TAKE t \in 0 .. n - 1
    <3>1. t + 1 \in 1 .. n
      BY <1>1
    <3> QED BY <1>1, <3>1
  <2> HIDE DEF S
  <2>6. m \in S /\ \A x \in S : x <= m
    BY <1>1, <2>4, MaxOf
  <2> QED BY <1>1, <2>4, <2>5, <2>6
<1> HIDE DEF m
<1>6. /\ DOMAIN s = 1 .. n
      /\ \A x \in 1 .. n : s[x].os \in T /\ s[x].smt = SmtPlace(s[x].os) /\ s[x].smt \in 0 .. m
  <2>1. DOMAIN s = 1 .. n
    BY <1>2 DEF Reordered
  <2>2. ASSUME NEW x \in 1 .. n
        PROVE  s[x].os \in T /\ s[x].smt = SmtPlace(s[x].os) /\ s[x].smt \in 0 .. m
    <3>1. s[x].os \in 0 .. n - 1 /\ s[x] = hw[s[x].os + 1]
      BY <1>2 DEF Reordered
    <3>2. hw[s[x].os + 1].smt = SmtPlace(s[x].os)
      BY <1>1, <3>1
    <3>3. s[x].smt = hw[s[x].os + 1].smt
      BY <3>1
    <3> QED BY <1>3, <1>5, <3>1, <3>2, <3>3
  <2> QED BY <2>1, <2>2
<1>7. ASSUME NEW t \in 0 .. m
      PROVE  /\ at(t) \in SUBSET (1 .. n)
             /\ Selection(AtPlaces(s, at(t)), s, Cardinality(at(t)), at(t))
             /\ Cardinality(at(t)) \in Nat
  <2>1. at(t) \in SUBSET (1 .. n)
    BY <1>6
  <2> HIDE DEF at
  <2>2. Cardinality(at(t)) \in 0 .. n /\ Selection(AtPlaces(s, at(t)), s, Cardinality(at(t)), at(t))
    BY <1>1, <2>1, Picked
  <2> QED BY <1>1, <2>1, <2>2
<1> DEFINE place(t) == CHOOSE f : /\ Picks(f, Cardinality(at(t)), at(t))
                                  /\ \A k \in 1 .. Cardinality(at(t)) :
                                       AtPlaces(s, at(t))[k] = s[f[k]]
           R == {s[x] : x \in 1 .. n}
<1>8. ASSUME NEW t \in 0 .. m
      PROVE  /\ Picks(place(t), Cardinality(at(t)), at(t))
             /\ \A k \in 1 .. Cardinality(at(t)) : AtPlaces(s, at(t))[k] = s[place(t)[k]]
  <2>1. \E f : /\ Picks(f, Cardinality(at(t)), at(t))
               /\ \A k \in 1 .. Cardinality(at(t)) : AtPlaces(s, at(t))[k] = s[f[k]]
    BY <1>7 DEF Selection
  <2> HIDE DEF at
  <2> QED BY <2>1, Zenon
<1>9. seqs \in [1 .. m + 1 -> Seq(R)] /\ m + 1 \in Nat
  <2>1. ASSUME NEW t \in 1 .. m + 1
        PROVE  AtPlaces(s, at(t - 1)) \in Seq(R)
    <3>1. t - 1 \in 0 .. m
      BY <1>1, <1>5
    <3>2. /\ at(t - 1) \in SUBSET (1 .. n)
          /\ AtPlaces(s, at(t - 1)) \in Seq({s[x] : x \in at(t - 1)})
      BY <1>7, <3>1 DEF Selection
    <3> HIDE DEF at
    <3>3. {s[x] : x \in at(t - 1)} \in SUBSET R
      BY <3>2
    <3> QED BY <3>2, <3>3
  <2>2. m + 1 \in Nat
    BY <1>1, <1>5
  <2> HIDE DEF at, R
  <2> QED BY <2>1, <2>2
<1>10. Joins(levels, seqs, m + 1, R)
  <2> HIDE DEF seqs, R
  <2> QED BY <1>9, Flattened
<1> DEFINE c == Len(levels)
<1>11. PICK a, b : Walks(a, b, levels, seqs, m + 1)
  BY <1>10 DEF Joins
<1>12. levels \in Seq(R) /\ c \in Nat /\ DOMAIN levels = 1 .. c
  BY <1>10 DEF Joins
<1> HIDE DEF levels
<1>13. /\ \A t \in 0 .. m : t + 1 \in 1 .. m + 1 /\ (t + 1) - 1 = t
       /\ \A t \in 1 .. m + 1 : t - 1 \in 0 .. m
  BY <1>1, <1>5
<1>14. \A t \in 1 .. m + 1 : seqs[t] = AtPlaces(s, at(t - 1)) /\ Len(seqs[t]) = Cardinality(at(t - 1))
  BY <1>7, <1>13 DEF Selection
<1> HIDE DEF seqs, place
<1>15. ASSUME NEW k \in 1 .. c
       PROVE  /\ a[k] \in 1 .. m + 1 /\ b[k] \in 1 .. Cardinality(at(a[k] - 1))
              /\ place(a[k] - 1)[b[k]] \in at(a[k] - 1)
              /\ levels[k] = s[place(a[k] - 1)[b[k]]]
  <2> HIDE DEF at
  <2>1. a[k] \in 1 .. m + 1 /\ b[k] \in 1 .. Len(seqs[a[k]]) /\ levels[k] = seqs[a[k]][b[k]]
    BY <1>11 DEF Walks
  <2>2. a[k] - 1 \in 0 .. m /\ b[k] \in 1 .. Cardinality(at(a[k] - 1))
    BY <1>13, <1>14, <2>1
  <2>3. levels[k] = AtPlaces(s, at(a[k] - 1))[b[k]]
    BY <1>14, <2>1
  <2> QED BY <1>8, <2>1, <2>2, <2>3 DEF Picks
<1> DEFINE p == [k \in 1 .. c |-> place(a[k] - 1)[b[k]]]
<1>16. \A k \in 1 .. c : p[k] \in 1 .. n /\ levels[k] = s[p[k]] /\ s[p[k]].smt = a[k] - 1
  BY <1>6, <1>15
<1>17. ASSUME NEW x \in 1 .. n
       PROVE  \E k \in 1 .. c : p[k] = x
  <2> DEFINE t == s[x].smt
  <2>1. t \in 0 .. m /\ x \in at(t)
    BY <1>6
  <2> HIDE DEF t
  <2> HIDE DEF at
  <2>2. PICK j \in 1 .. Cardinality(at(t)) : place(t)[j] = x
    BY <1>8, <2>1 DEF Picks
  <2>3. t + 1 \in 1 .. m + 1 /\ (t + 1) - 1 = t /\ Len(seqs[t + 1]) = Cardinality(at(t))
    BY <1>13, <1>14, <2>1
  <2>4. PICK k \in 1 .. c : a[k] = t + 1 /\ b[k] = j
    BY <1>11, <2>2, <2>3 DEF Walks
  <2> QED BY <2>2, <2>3, <2>4
<1>18. ASSUME NEW k \in 1 .. c, NEW l \in 1 .. c, k < l
       PROVE  p[k] # p[l] /\ s[p[k]].smt <= s[p[l]].smt
  <2>1. a[k] < a[l] \/ (a[k] = a[l] /\ b[k] < b[l])
    BY <1>11, <1>18 DEF Walks
  <2>2. a[k] \in 1 .. m + 1 /\ a[l] \in 1 .. m + 1
    BY <1>15
  <2>3. CASE a[k] < a[l]
    <3>1. s[p[k]].smt = a[k] - 1 /\ s[p[l]].smt = a[l] - 1
      BY <1>16
    <3> HIDE DEF p
    <3>2. s[p[k]].smt < s[p[l]].smt
      BY <1>1, <1>5, <2>2, <2>3, <3>1
    <3>3. s[p[k]].smt \in Int /\ s[p[l]].smt \in Int
      BY <1>1, <1>5, <2>2, <3>1
    <3> QED BY <3>2, <3>3
  <2>4. CASE a[k] = a[l] /\ b[k] < b[l]
    <3> HIDE DEF at
    <3> DEFINE t == a[k] - 1
    <3>1. /\ t \in 0 .. m /\ b[k] \in 1 .. Cardinality(at(t)) /\ b[l] \in 1 .. Cardinality(at(t))
      BY <1>13, <1>15, <2>2, <2>4
    <3>2. p[k] = place(t)[b[k]] /\ p[l] = place(t)[b[l]]
      BY <2>4
    <3> HIDE DEF t
    <3>3. place(t)[b[k]] < place(t)[b[l]]
      BY <1>8, <2>4, <3>1 DEF Picks
    <3>4. s[p[k]].smt = a[k] - 1 /\ s[p[l]].smt = a[l] - 1
      BY <1>16
    <3>5. p[k] \in Int /\ p[l] \in Int
      BY <1>16
    <3> HIDE DEF p
    <3>6. p[k] # p[l]
      BY <3>2, <3>3, <3>5
    <3>7. s[p[k]].smt = s[p[l]].smt /\ s[p[k]].smt \in Int
      BY <1>1, <1>5, <2>2, <2>4, <3>4
    <3> QED BY <3>6, <3>7
  <2> QED BY <2>1, <2>3, <2>4
<1> HIDE DEF p, at
<1>19. ids = [k \in 1 .. c |-> s[p[k]].os]
  BY <1>12, <1>16
<1> HIDE DEF ids
<1>20. ids \in [1 .. c -> T]
  BY <1>6, <1>16, <1>19
<1>21. ASSUME NEW t \in T
       PROVE  \E k \in 1 .. c : ids[k] = t
  <2>1. PICK x \in 1 .. n : s[x].os = t
    BY <1>2, <1>3 DEF Reordered
  <2>2. PICK k \in 1 .. c : p[k] = x
    BY <1>17
  <2> QED BY <1>19, <2>1, <2>2
<1>22. ASSUME NEW k \in 1 .. c, NEW l \in 1 .. c, k < l
       PROVE  ids[k] # ids[l] /\ SmtPlace(ids[k]) <= SmtPlace(ids[l])
  <2>1. p[k] \in 1 .. n /\ p[l] \in 1 .. n /\ p[k] # p[l] /\ s[p[k]].smt <= s[p[l]].smt
    BY <1>16, <1>18, <1>22
  <2>2. p[k] < p[l] \/ p[l] < p[k]
    BY <2>1
  <2>3. s[p[k]].os # s[p[l]].os
    BY <1>2, <2>1, <2>2 DEF Reordered
  <2>4. s[p[k]].smt = SmtPlace(s[p[k]].os) /\ s[p[l]].smt = SmtPlace(s[p[l]].os)
    BY <1>6, <2>1
  <2> QED BY <1>19, <2>1, <2>3, <2>4
<1>23. Listed(ids, T) /\ Len(ids) = c
  <2>1. \A t \in T : \E k \in 1 .. c : ids[k] = t
    BY <1>21
  <2>2. \A k, l \in 1 .. c : k < l => ids[k] # ids[l]
    BY <1>22
  <2>3. T \in SUBSET (0 .. n - 1)
    BY <1>3
  <2>4. n \in Nat
    BY <1>1
  <2>5. c \in Nat
    BY <1>12
  <2>6. ids \in [1 .. c -> T]
    BY <1>20
  <2> HIDE DEF c, n, T
  <2> QED BY <2>1, <2>2, <2>3, <2>4, <2>5, <2>6, ListedIn, Zenon
<1>24. SmtOrdered(ids)
  BY <1>22, <1>23 DEF SmtOrdered
<1> QED BY <1>4, <1>23, <1>24 DEF T

-----------------------------------------------------------------------------
(* The numbers of a text.                                                  *)

LEMMA MinIs ==
  ASSUME NEW S \in SUBSET Int, NEW v \in S, \A y \in S : v <= y
  PROVE  Min(S) = v
<1>1. Min(S) \in S /\ \A y \in S : Min(S) =< y
  BY DEF Min
<1>2. Min(S) <= v /\ v <= Min(S) /\ Min(S) \in Int
  BY <1>1
<1> HIDE DEF Min
<1> QED BY <1>2

LEMMA SpanOf ==
  /\ \A s, e \in Int : Span(s, e) \in Seq(Int)
  /\ \A s, e \in Nat : Span(s, e) \in Seq(Nat)
<1>1. ASSUME NEW s \in Int, NEW e \in Int
      PROVE  Span(s, e) \in Seq(Int)
  <2>1. CASE s <= e
    BY <2>1 DEF Span
  <2>2. CASE e < s
    BY <2>2 DEF Span
  <2> QED BY <2>1, <2>2
<1>2. ASSUME NEW s \in Nat, NEW e \in Nat
      PROVE  Span(s, e) \in Seq(Nat)
  <2>1. CASE s <= e
    BY <2>1 DEF Span
  <2>2. CASE e < s
    BY <2>2 DEF Span
  <2> QED BY <2>1, <2>2
<1> QED BY <1>1, <1>2

LEMMA FirstAndLast ==
  ASSUME NEW S, NEW entry \in Seq(S), Len(entry) \in {1, 2}
  PROVE  entry[1] \in S /\ entry[Len(entry)] \in S
<1>1. CASE Len(entry) = 1
  <2>1. entry[1] \in S
    BY <1>1
  <2> QED BY <1>1, <2>1
<1>2. CASE Len(entry) = 2
  <2>1. entry[1] \in S /\ entry[2] \in S
    BY <1>2
  <2> QED BY <1>2, <2>1
<1> QED BY <1>1, <1>2

LEMMA IdsOfEntries ==
  ASSUME NEW S, \A s, e \in S : Span(s, e) \in Seq(S), NEW entries, IsEntries(entries, S)
  PROVE  IdsOf(entries) \in Seq(S)
<1> DEFINE n == Len(entries)
           seqs == [i \in DOMAIN entries |-> Expand(entries[i])]
<1>1. n \in Nat /\ DOMAIN entries = 1 .. n
  BY DEF IsEntries
<1>2. \A i \in 1 .. n : Expand(entries[i]) \in Seq(S)
  <2> TAKE i \in 1 .. n
  <2>1. entries[i] \in Seq(S) /\ Len(entries[i]) \in {1, 2}
    BY DEF IsEntries
  <2>2. entries[i][1] \in S /\ entries[i][Len(entries[i])] \in S
    BY <2>1, FirstAndLast
  <2> QED BY <2>2 DEF Expand
<1> HIDE DEF n
<1>3. seqs \in [1 .. n -> Seq(S)]
  BY <1>1, <1>2
<1> HIDE DEF seqs
<1>4. Joins(FlattenSeq(seqs), seqs, n, S)
  BY <1>1, <1>3, Flattened
<1> QED BY <1>4 DEF Joins, IdsOf, seqs

LEMMA ResolvedList ==
  ASSUME NEW entries, IsEntries(entries, Int)
  PROVE  resolve_list(entries) \in Seq(Nat)
<1> DEFINE n == Len(entries)
           places == {k \in DOMAIN entries : \A i \in DOMAIN entries[k] : entries[k][i] >= 0}
           some == AtPlaces(entries, places)
           c == Cardinality(places)
<1>1. n \in Nat /\ DOMAIN entries = 1 .. n /\ places \in SUBSET (1 .. n)
  BY DEF IsEntries
<1>2. \A k \in places : entries[k] \in Seq(Nat) /\ Len(entries[k]) \in {1, 2}
  <2> TAKE k \in places
  <2>1. entries[k] \in Seq(Int) /\ Len(entries[k]) \in {1, 2}
    BY <1>1 DEF IsEntries
  <2>2. \A i \in 1 .. Len(entries[k]) : entries[k][i] \in Nat
    BY <2>1
  <2> QED BY <2>1, <2>2
<1> HIDE DEF n, places
<1>3. c \in 0 .. n /\ Selection(some, entries, c, places)
  BY <1>1, Picked
<1>4. PICK f : Picks(f, c, places) /\ \A k \in 1 .. c : some[k] = entries[f[k]]
  BY <1>3 DEF Selection
<1>5. some \in Seq({entries[i] : i \in places}) /\ Len(some) = c
  BY <1>3 DEF Selection
<1>6. {entries[i] : i \in places} \in SUBSET Seq(Nat)
  BY <1>2
<1> HIDE DEF some, c
<1>7. IsEntries(some, Nat)
  <2>1. some \in Seq(Seq(Nat))
    BY <1>5, <1>6
  <2>2. \A k \in 1 .. Len(some) : Len(some[k]) \in {1, 2}
    BY <1>2, <1>4, <1>5 DEF Picks
  <2> QED BY <2>1, <2>2 DEF IsEntries
<1>8. IdsOf(some) \in Seq(Nat)
  BY <1>7, SpanOf, IdsOfEntries
<1> QED BY <1>8 DEF resolve_list, some, places

LEMMA ShortenedTo ==
  ASSUME NEW S, NEW s \in Seq(S), NEW m \in Nat
  PROVE  /\ Shorten(s, m) \in Seq(S) /\ Len(Shorten(s, m)) \in Nat
         /\ Len(Shorten(s, m)) <= m
         /\ Len(s) <= m => Shorten(s, m) = s
<1> DEFINE v == IF Len(s) <= m THEN Len(s) ELSE m
<1>1. Len(s) \in Nat /\ v \in {Len(s), m} /\ \A y \in {Len(s), m} : v <= y
  OBVIOUS
<1>2. Min({Len(s), m}) = v
  <2> HIDE DEF v
  <2>1. {Len(s), m} \in SUBSET Int
    BY <1>1
  <2> QED BY <1>1, <2>1, MinIs
<1>3. Shorten(s, m) = SubSeq(s, 1, v)
  BY <1>2 DEF Shorten
<1>4. SubSeq(s, 1, v) \in Seq(S) /\ Len(SubSeq(s, 1, v)) = v
  BY <1>1
<1>5. Len(s) <= m => SubSeq(s, 1, v) = s
  BY <1>1
<1> QED BY <1>1, <1>3, <1>4, <1>5

\* The threads of a domain as the notations see them: count of them from
\* place 0 on, those of T, in the order of ids.
Fills(tmp, ids, T, n, closed) ==
  /\ n \in Nat \ {0} /\ T \in SUBSET (0 .. n - 1)
  /\ Listed(ids, T) /\ (closed = 1 => SmtOrdered(ids))
  /\ Len(ids) \in 0 .. n /\ tmp.count = Len(ids)
  /\ DOMAIN tmp.ids = 0 .. n - 1
  /\ \A k \in 1 .. Len(ids) : tmp.ids[k - 1] = ids[k] /\ At(tmp.ids, k - 1) = ids[k]

LEMMA ListOfIds ==
  ASSUME NEW n \in Nat \ {0}, NEW T \in SUBSET (0 .. n - 1), NEW ids, Listed(ids, T),
         NEW rest, NEW tmp, tmp = [ids |-> ListOf(ids, n, rest), count |-> Len(ids)],
         NEW closed, closed = 1 => SmtOrdered(ids)
  PROVE  Fills(tmp, ids, T, n, closed)
<1>1. Len(ids) \in 0 .. n
  <2>0. n - 1 \in Int /\ 0 \in Int /\ ~ (0 > n - 1) /\ (n - 1) - 0 + 1 = n
    OBVIOUS
  <2>1. IsFiniteSet(0 .. n - 1) /\ Cardinality(0 .. n - 1) = n
    BY <2>0, FS_Interval
  <2>2. Cardinality(T) <= n /\ IsFiniteSet(T)
    BY <2>1, FS_Subset
  <2>3. Cardinality(T) \in Nat
    BY <2>2, FS_CardinalityType
  <2> QED BY <2>2, <2>3 DEF Listed
<1>2. tmp.count = Len(ids) /\ tmp.ids = [i \in 0 .. n - 1 |-> IF i < Len(ids) THEN ids[i + 1] ELSE rest]
  BY DEF ListOf
<1>3. DOMAIN tmp.ids = 0 .. n - 1
  BY <1>2
<1>4. ASSUME NEW k \in 1 .. Len(ids)
      PROVE  tmp.ids[k - 1] = ids[k] /\ At(tmp.ids, k - 1) = ids[k]
  <2>1. k - 1 \in 0 .. n - 1 /\ k - 1 < Len(ids) /\ (k - 1) + 1 = k
    BY <1>1
  <2>2. tmp.ids[k - 1] = ids[k]
    BY <1>2, <2>1
  <2> QED BY <1>3, <2>1, <2>2 DEF At
<1> QED BY <1>1, <1>2, <1>3, <1>4 DEF Fills

LEMMA TmpListOf ==
  ASSUME Ready, NEW dom \in {"N", "S", "M", "D"}, NEW i, NEW closed, closed \in {0, 1}
  PROVE  \E ids : Fills(TmpList(dom, i, closed), ids, ThreadsOf(dom, i), Len(hw), closed)
<1>1. Len(hw) \in Nat \ {0}
  BY EntryOf
<1>2. CASE dom = "N"
  <2> DEFINE ids == IF closed = 1 THEN AllThreadsBySmt(hw) ELSE AllThreads(hw)
  <2>1. ThreadsOf("N", i) = 0 .. Len(hw) - 1
    BY AllList
  <2>2. Listed(ids, ThreadsOf("N", i)) /\ (closed = 1 => SmtOrdered(ids))
    BY AllList, AllListBySmt
  <2>3. TmpList(dom, i, closed) = [ids |-> ListOf(ids, Len(hw), Outside), count |-> Len(ids)]
    BY <1>2 DEF TmpList
  <2> HIDE DEF ids
  <2>4. ThreadsOf("N", i) \in SUBSET (0 .. Len(hw) - 1)
    BY <2>1
  <2>5. Fills(TmpList(dom, i, closed), ids, ThreadsOf("N", i), Len(hw), closed)
    BY <1>1, <2>2, <2>3, <2>4, ListOfIds, Zenon
  <2> QED BY <1>2, <2>5
<1>3. CASE dom # "N"
  <2> DEFINE ids == DomainThreads(hw, dom, i, closed)
  <2>1. dom \in {"S", "M", "D"}
    BY <1>3
  <2>2. /\ ThreadsOf(dom, i) \in SUBSET (0 .. Len(hw) - 1)
        /\ Listed(ids, ThreadsOf(dom, i)) /\ (closed = 1 => SmtOrdered(ids))
    BY <2>1, DomainList
  <2>3. TmpList(dom, i, closed) = [ids |-> ListOf(ids, Len(hw), 0), count |-> Len(ids)]
    BY <1>3 DEF TmpList
  <2> HIDE DEF ids
  <2>4. Fills(TmpList(dom, i, closed), ids, ThreadsOf(dom, i), Len(hw), closed)
    BY <1>1, <2>2, <2>3, ListOfIds, Zenon
  <2> QED BY <2>4
<1> QED BY <1>2, <1>3

-----------------------------------------------------------------------------
(* The call.                                                               *)

\* As many threads as an expression is to give.
Wanted ==
  Min({Cardinality(ThreadsOf(text.domain, text.idx))}
        \cup (IF Count > 0 THEN {Count} ELSE {}))

\* The loop has given some threads of its domain and still owes the others.
InLoop ==
  /\ text.kind = "expression" /\ Chunk \in Nat /\ Stride \in Nat
  /\ idx \in Nat /\ left \in Nat
  /\ list \in Seq(ThreadsOf(text.domain, text.idx)) /\ Len(list) + left = Wanted
  /\ DOMAIN domain = 0 .. Len(hw) - 1
  /\ \A i \in 0 .. Len(hw) - 1 : domain[i] \in ThreadsOf(text.domain, text.idx)

Given == GivesItsThreads /\ SelectsPositions

CallInv ==
  /\ Ordinary(machine) /\ Written(text)
  /\ pc \in {"start", "call", "loop", "done"}
  /\ pc = "start" => hw = <<>>
  /\ pc # "start" => hw = check_hwthreads(machine)
  /\ pc \in {"start", "call"} => list = <<>>
  /\ pc = "loop" => InLoop
  /\ Given

\* How many threads are to be given is what the code computes.
LEMMA LengthOfLoop ==
  ASSUME Ready, Written(text), text.kind = "expression",
         NEW tmp, NEW ids,
         Fills(tmp, ids, ThreadsOf(text.domain, text.idx), Len(hw), 0)
  PROVE  LoopLength(tmp) = Wanted /\ Wanted \in 0 .. Len(ids)
<1> DEFINE c == Len(ids)
           C == IF Count > 0 THEN {Count} ELSE {}
           v == IF Count > 0 /\ Count < c THEN Count ELSE c
<1>1. c \in Nat /\ Len(hw) \in Nat /\ c <= Len(hw) /\ Count \in Int
  <2>1. text.fields \in Seq(Int) /\ (Len(text.fields) = 1 \/ Len(text.fields) = 3)
    BY Zenon DEF Written
  <2>2. Count \in Int
    BY <2>1 DEF Count
  <2> QED BY <2>2 DEF Fills
<1>2. tmp.count = c /\ Cardinality(ThreadsOf(text.domain, text.idx)) = c
  BY DEF Fills, Listed
<1> HIDE DEF c
<1>3. v \in {c} \cup C /\ \A y \in {c} \cup C : v <= y
  BY <1>1
<1>4. v \in {Len(hw), c} \cup C /\ \A y \in {Len(hw), c} \cup C : v <= y
  BY <1>1
<1>5. C \in SUBSET Int /\ v \in 0 .. c
  BY <1>1
<1> HIDE DEF C, v
<1>6. Min({c} \cup C) = v
  BY <1>1, <1>3, <1>5, MinIs
<1>7. Min({Len(hw), c} \cup C) = v
  <2>1. Len(hw) \in Int /\ c \in Int
    BY <1>1
  <2>2. {Len(hw), c} \cup C \in SUBSET Int
    BY <1>5, <2>1, Zenon
  <2> QED BY <1>4, <2>2, MinIs
<1>8. Wanted = v
  BY <1>2, <1>6 DEF Wanted, C
<1>9. LoopLength(tmp) = v
  BY <1>2, <1>7 DEF LoopLength, C, Length
<1> QED BY <1>5, <1>8, <1>9 DEF c

LEMMA PhysicalFits ==
  ASSUME NEW entries, IsEntries(entries, Int), Len(hw) \in Nat
  PROVE  Len(Shorten(Existing(IdsOf(entries)), Length)) \in 0 .. Len(hw)
<1> DEFINE ids == IdsOf(entries)
           places == {n \in DOMAIN ids : getHwThread(hw, ids[n])}
<1>1. ids \in Seq(Int)
  BY SpanOf, IdsOfEntries
<1> HIDE DEF ids
<1>2. Len(ids) \in Nat /\ places \in SUBSET (1 .. Len(ids))
  BY <1>1
<1> HIDE DEF places
<1>3. Selection(AtPlaces(ids, places), ids, Cardinality(places), places)
  BY <1>2, Picked
<1>4. AtPlaces(ids, places) \in Seq({ids[i] : i \in places})
  BY <1>3 DEF Selection
<1> DEFINE S == {ids[i] : i \in places}
           some == AtPlaces(ids, places)
<1>5. some \in Seq(S)
  BY <1>4
<1> HIDE DEF S, some
<1>6. Len(Shorten(some, Len(hw))) \in Nat /\ Len(Shorten(some, Len(hw))) <= Len(hw)
  BY <1>5, ShortenedTo
<1>7. Existing(ids) = some
  BY DEF Existing, some, places
<1> QED BY <1>6, <1>7 DEF Length, ids

LEMMA PhysicalStep ==
  ASSUME CallInv, lb_cpustr_to_cpulist_physical
  PROVE  CallInv'
<1>1. /\ pc = "call" /\ text.kind = "physical" /\ machine' = machine /\ hw' = hw
      /\ text' = text /\ pc' = "done"
      /\ list' = Shorten(Existing(IdsOf(text.entries)), Length)
  BY DEF lb_cpustr_to_cpulist_physical, Call, Return
<1>2. Ready /\ IsEntries(text.entries, Int)
  BY <1>1 DEF CallInv, Ready, Written
<1>3. Len(hw) \in Nat
  BY <1>2, EntryOf
<1>4. Len(list') \in 0 .. Len(hw)
  BY <1>1, <1>2, <1>3, PhysicalFits
<1>5. Given'
  BY <1>1, <1>3, <1>4 DEF Given, GivesItsThreads, FitsBuffer, OnlyOfDomain, GivesCount, SelectsPositions
<1> QED BY <1>1, <1>5 DEF CallInv

LEMMA Injective ==
  ASSUME NEW f, NEW S, DOMAIN f = S, \A i, j \in S : f[i] = f[j] => i = j
  PROVE  IsInjective(f)
BY DEF IsInjective

\* l has the asked positions of T.
Selected(l, out, asked, T) ==
  /\ Len(out) = Len(asked) /\ Range(l) \subseteq T /\ IsInjective(l)
  /\ asked = [i \in DOMAIN asked |-> i - 1] =>
       \A i \in DOMAIN l : \A u \in T \ Range(l) : SmtPlace(l[i]) <= SmtPlace(u)

\* A logical text whose positions exist gets them.
LEMMA LogicalGives ==
  ASSUME Ready, NEW asked \in Seq(Nat), asked # <<>>, NEW T, NEW tmp, NEW ids,
         Fills(tmp, ids, T, Len(hw), 1),
         \A i \in DOMAIN asked : asked[i] < Cardinality(T), IsInjective(asked),
         NEW out, out = Shorten(asked, Min({Length, tmp.count})),
         NEW l, l = [i \in DOMAIN out |-> At(tmp.ids, out[i])]
  PROVE  Selected(l, out, asked, T)
<1> DEFINE n == Len(hw)
           c == Len(ids)
<1>1. /\ n \in Nat /\ c \in 0 .. n /\ tmp.count = c /\ Cardinality(T) = c
      /\ \A k \in 1 .. c : ids[k] \in T
      /\ \A t \in T : \E k \in 1 .. c : ids[k] = t
      /\ \A k, j \in 1 .. c : k < j => ids[k] # ids[j]
      /\ \A k \in 1 .. c : At(tmp.ids, k - 1) = ids[k]
      /\ \A k, j \in 1 .. c : k < j => SmtPlace(ids[k]) <= SmtPlace(ids[j])
  BY DEF Fills, Listed, SmtOrdered
<1> HIDE DEF n, c
<1>0. \A k, j \in 1 .. c : ids[k] = ids[j] => k = j
  <2> TAKE k, j \in 1 .. c
  <2>1. k < j \/ j < k \/ k = j
    BY <1>1
  <2> QED BY <1>1, <2>1
<1> DEFINE a == Len(asked)
<1>2. a \in Nat /\ DOMAIN asked = 1 .. a /\ \A i \in 1 .. a : asked[i] \in 0 .. c - 1
  <2>1. a \in Nat /\ DOMAIN asked = 1 .. a /\ \A i \in 1 .. a : asked[i] \in Nat
    OBVIOUS
  <2> HIDE DEF a
  <2>2. \A i \in 1 .. a : asked[i] < c
    BY <1>1, <2>1
  <2> QED BY <1>1, <2>1, <2>2
<1>3. a <= c
  <2>1. asked \in Injection(1 .. a, 0 .. c - 1)
    BY SMTT(30), <1>2 DEF Injection, IsInjective
  <2>2. c - 1 \in Int /\ 0 \in Int /\ (c - 1) - 0 + 1 = c /\ (0 > c - 1 => c = 0)
    BY <1>1
  <2>3. IsFiniteSet(0 .. c - 1) /\ Cardinality(0 .. c - 1) = c
    BY <2>2, FS_Interval
  <2>4. IsFiniteSet(1 .. a) /\ Cardinality(1 .. a) = a
    BY <1>2, FS_Interval
  <2> HIDE DEF a
  <2> QED BY <2>1, <2>3, <2>4, FS_Injection
<1>4. Min({Length, tmp.count}) = c
  <2>1. Length = n /\ tmp.count = c
    BY <1>1 DEF Length, n
  <2>2. c \in {n, c} /\ (\A y \in {n, c} : c <= y) /\ {n, c} \in SUBSET Int
    BY <1>1
  <2> QED BY <2>1, <2>2, MinIs
<1>5. out = asked
  BY <1>1, <1>3, <1>4, ShortenedTo
<1>6. l = [i \in 1 .. a |-> ids[asked[i] + 1]]
  <2>1. \A i \in 1 .. a : At(tmp.ids, asked[i]) = ids[asked[i] + 1]
    <3> TAKE i \in 1 .. a
    <3>1. asked[i] + 1 \in 1 .. c /\ (asked[i] + 1) - 1 = asked[i]
      BY <1>1, <1>2
    <3> QED BY <1>1, <3>1
  <2> QED BY <1>2, <1>5, <2>1
<1> HIDE DEF a
<1>7. \A i \in 1 .. a : asked[i] + 1 \in 1 .. c /\ l[i] = ids[asked[i] + 1] /\ l[i] \in T
  <2> TAKE i \in 1 .. a
  <2>1. asked[i] \in 0 .. c - 1
    BY <1>2
  <2>2. asked[i] + 1 \in 1 .. c
    BY <1>1, <2>1
  <2>3. l[i] = ids[asked[i] + 1]
    BY <1>6
  <2> QED BY <1>1, <2>2, <2>3
<1>8. DOMAIN l = 1 .. a
  BY <1>6
<1>9. \A i, j \in 1 .. a : l[i] = l[j] => i = j
  <2> TAKE i, j \in 1 .. a
  <2> HAVE l[i] = l[j]
  <2>1. asked[i] + 1 \in 1 .. c /\ asked[j] + 1 \in 1 .. c /\ ids[asked[i] + 1] = ids[asked[j] + 1]
    BY <1>7
  <2>2. asked[i] + 1 = asked[j] + 1
    BY <1>0, <2>1, Zenon
  <2>3. asked[i] = asked[j]
    BY <1>2, <2>2
  <2> QED BY <1>2, <2>3 DEF IsInjective
<1>10. ASSUME asked = [i \in DOMAIN asked |-> i - 1],
              NEW i \in DOMAIN l, NEW u \in T \ Range(l)
       PROVE  SmtPlace(l[i]) <= SmtPlace(u)
  <2>1. \A j \in 1 .. a : asked[j] + 1 = j
    <3> TAKE j \in 1 .. a
    <3>1. asked[j] = j - 1
      BY <1>2, <1>10
    <3> QED BY <1>2, <3>1
  <2>2. PICK k \in 1 .. c : ids[k] = u
    BY <1>1
  <2>3. k \notin 1 .. a
    <3> SUFFICES ASSUME k \in 1 .. a PROVE FALSE
      OBVIOUS
    <3>1. l[k] = u
      BY <1>7, <2>1, <2>2
    <3> QED BY <1>8, <3>1 DEF Range
  <2>4. i \in 1 .. a /\ i \in 1 .. c /\ i < k
    BY <1>1, <1>2, <1>3, <1>8, <1>10, <2>3
  <2>5. l[i] = ids[i]
    <3>1. l[i] = ids[asked[i] + 1]
      BY <1>7, <2>4
    <3> QED BY <2>1, <2>4, <3>1
  <2> QED BY <1>1, <2>2, <2>4, <2>5
<1>11. Len(out) = Len(asked) /\ Range(l) \subseteq T /\ IsInjective(l)
  <2>1. Range(l) \subseteq T
    BY <1>7, <1>8 DEF Range
  <2>2. IsInjective(l)
    <3>1. DOMAIN l = 1 .. a
      BY <1>8
    <3>2. \A i, j \in 1 .. a : l[i] = l[j] => i = j
      BY <1>9
    <3>3. IsInjective(l)
      BY ONLY <3>1, <3>2, Injective
    <3> QED BY <3>3
  <2> QED BY <1>5, <2>1, <2>2
<1> QED BY <1>10, <1>11 DEF Selected

\* There are no threads in a domain whose number is negative.
LEMMA NoNegativeDomain ==
  ASSUME Ready, NEW dom \in {"S", "M", "D"}, NEW i \in Int, i < 0
  PROVE  ThreadsOf(dom, i) = {}
<1>1. \A t \in DOMAIN machine.cpus :
        /\ machine.cpus[t].package \in Nat /\ machine.cpus[t].die \in Nat
        /\ \E node \in machine.cpus[t].nodes : node \in Nat /\ machine.cpus[t].nodes = {node}
  BY DEF Ready, Ordinary
<1> SUFFICES ASSUME NEW t \in ThreadsOf(dom, i) PROVE FALSE
  OBVIOUS
<1>2. t \in DOMAIN machine.cpus
  BY DEF ThreadsOf
<1>3. CASE dom = "S"
  <2>1. machine.cpus[t].package = i
    BY <1>3 DEF ThreadsOf
  <2> QED BY <1>1, <1>2, <2>1
<1>4. CASE dom = "M"
  <2>1. i \in machine.cpus[t].nodes
    BY <1>4 DEF ThreadsOf
  <2> QED BY <1>1, <1>2, <2>1
<1>5. CASE dom = "D"
  <2>1. machine.cpus[t].die = i
    BY <1>5 DEF ThreadsOf
  <2> QED BY <1>1, <1>2, <2>1
<1> QED BY <1>3, <1>4, <1>5

LEMMA ThreadsStay ==
  ASSUME machine' = machine, text' = text
  PROVE  /\ ThreadsOf(text.domain, text.idx)' = ThreadsOf(text.domain, text.idx)
         /\ Wanted' = Wanted
         /\ \A t : SmtPlace(t)' = SmtPlace(t)
<1>1. ThreadsOf(text.domain, text.idx)' = ThreadsOf(text.domain, text.idx)
  BY DEF ThreadsOf, hwthread_online
<1>2. Count' = Count
  BY DEF Count
<1>3. \A t : SmtPlace(t)' = SmtPlace(t)
  BY DEF SmtPlace
<1> QED BY <1>1, <1>2, <1>3 DEF Wanted

LEMMA LogicalStep ==
  ASSUME CallInv, lb_cpustr_to_cpulist_logical
  PROVE  CallInv'
<1> DEFINE asked == resolve_list(text.entries)
           tmp == TmpList(text.domain, text.idx, 1)
           out == Shorten(asked, Min({Length, tmp.count}))
           T == ThreadsOf(text.domain, text.idx)
           n == Len(hw)
<1>1. /\ pc = "call" /\ text.kind = "logical" /\ machine' = machine /\ hw' = hw
      /\ text' = text /\ pc' = "done"
      /\ IF asked = <<>> \/ (text.domain # "N" /\ text.idx < 0)
         THEN ret' = -EINVAL /\ list' = <<>>
         ELSE IF NotThere(text.domain, tmp)
         THEN ret' = -ENODEV /\ list' = <<>>
         ELSE ret' = Len(out) /\ list' = [i \in DOMAIN out |-> At(tmp.ids, out[i])]
  BY DEF lb_cpustr_to_cpulist_logical, Call, Return
<1>2. /\ Ready /\ IsEntries(text.entries, Int)
      /\ text.domain \in {"N", "S", "M", "D"} /\ text.idx \in Int
  BY <1>1 DEF CallInv, Ready, Written, Letters
<1>3. n \in Nat /\ asked \in Seq(Nat)
  BY <1>2, EntryOf, ResolvedList
<1>4. PICK ids : Fills(tmp, ids, T, n, 1)
  BY <1>2, TmpListOf
<1>5. tmp.count \in 0 .. n /\ tmp.count = Cardinality(T) /\ IsFiniteSet(T)
  BY <1>4 DEF Fills, Listed
<1>6. /\ asked = resolve_list(text.entries)' /\ T = ThreadsOf(text.domain, text.idx)'
      /\ \A t : SmtPlace(t)' = SmtPlace(t)
  <2>1. resolve_list(text.entries)' = resolve_list(text'.entries)
    BY DEF resolve_list, IdsOf, Expand, Span
  <2> QED BY <1>1, <2>1, ThreadsStay
<1> HIDE DEF asked, tmp, T, n
<1>7. Len(list') \in 0 .. n
  <2>1. CASE list' = <<>>
    BY <1>3, <2>1
  <2>2. CASE list' = [i \in DOMAIN out |-> At(tmp.ids, out[i])]
    <3>1. Min({n, tmp.count}) = tmp.count
      <4>1. tmp.count \in {n, tmp.count} /\ {n, tmp.count} \in SUBSET Int
            /\ \A y \in {n, tmp.count} : tmp.count <= y
        BY <1>3, <1>5
      <4> QED BY <4>1, MinIs
    <3>2. out \in Seq(Nat) /\ Len(out) \in Nat /\ Len(out) <= tmp.count
      BY <1>3, <1>5, <3>1, ShortenedTo DEF Length, n
    <3>3. DOMAIN out = 1 .. Len(out)
      BY <3>2
    <3> HIDE DEF out
    <3>4. Len(list') = Len(out)
      BY <2>2, <3>2, <3>3
    <3> QED BY <1>3, <1>5, <3>2, <3>4
  <2> QED BY <1>1, <2>1, <2>2
<1>8. ASSUME T # {}, \A i \in DOMAIN asked : asked[i] < Cardinality(T),
             IsInjective(asked), asked # <<>>
      PROVE  /\ ret' = Len(asked) /\ Range(list') \subseteq T /\ IsInjective(list')
             /\ asked = [i \in DOMAIN asked |-> i - 1] =>
                  \A i \in DOMAIN list' : \A u \in T \ Range(list') :
                    SmtPlace(list'[i]) <= SmtPlace(u)
  <2>1. ~ (text.domain # "N" /\ text.idx < 0)
    BY <1>2, <1>8, NoNegativeDomain DEF T
  <2>2. ~ NotThere(text.domain, tmp)
    <3>1. Cardinality(T) # 0
      BY <1>5, <1>8, FS_EmptySet
    <3> QED BY <1>5, <3>1 DEF NotThere
  <2> HIDE DEF out
  <2>3. ret' = Len(out) /\ list' = [i \in DOMAIN out |-> At(tmp.ids, out[i])]
    BY <1>1, <1>8, <2>1, <2>2
  <2>4. Fills(tmp, ids, T, Len(hw), 1) /\ out = Shorten(asked, Min({Length, tmp.count}))
    BY <1>4 DEF n, out
  <2>5. Selected(list', out, asked, T)
    BY <1>2, <1>3, <1>8, <2>3, <2>4, LogicalGives, Zenon
  <2> QED BY <2>3, <2>5 DEF Selected
<1>9. SelectsPositions'
  <2>1. SelectsPositions' <=>
          (pc' = "done" /\ text'.kind = "logical" /\ T # {} =>
            ((\A i \in DOMAIN asked : asked[i] < Cardinality(T))
               /\ IsInjective(asked) /\ asked # <<>> =>
             /\ ret' = Len(asked) /\ Range(list') \subseteq T
             /\ IsInjective(list')
             /\ asked = [i \in DOMAIN asked |-> i - 1] =>
                  \A i \in DOMAIN list' : \A u \in T \ Range(list') :
                    SmtPlace(list'[i]) <= SmtPlace(u)))
    BY <1>6 DEF SelectsPositions
  <2> QED BY <1>8, <2>1
<1>10. GivesItsThreads'
  BY <1>1, <1>7 DEF GivesItsThreads, FitsBuffer, OnlyOfDomain, GivesCount, n
<1> QED BY <1>1, <1>9, <1>10 DEF CallInv, Given

\* An expression that is done has given what it is to give.
LEMMA ExpressionDone ==
  ASSUME Ready, text.kind = "expression", machine' = machine, hw' = hw, text' = text,
         list' \in Seq(ThreadsOf(text.domain, text.idx)), Len(list') <= Len(hw),
         ret' >= 0 => ret' = Wanted
  PROVE  Given'
<1> DEFINE T == ThreadsOf(text.domain, text.idx)
<1>1. T = ThreadsOf(text.domain, text.idx)' /\ Wanted' = Wanted
  BY ThreadsStay
<1>2. Range(list') \subseteq T
  BY DEF Range
<1> HIDE DEF T
<1>3. OnlyOfDomain'
  BY <1>1, <1>2 DEF OnlyOfDomain
<1>4. GivesCount'
  BY <1>1 DEF GivesCount, Wanted
<1>5. FitsBuffer' /\ SelectsPositions'
  BY DEF FitsBuffer, SelectsPositions
<1> QED BY <1>3, <1>4, <1>5 DEF Given, GivesItsThreads

LEMMA ExpressionStep ==
  ASSUME CallInv, lb_cpustr_to_cpulist_expression
  PROVE  CallInv'
<1> DEFINE tmp == TmpList(text.domain, text.idx, 0)
           T == ThreadsOf(text.domain, text.idx)
           n == Len(hw)
           l == LoopLength(tmp)
<1>1. /\ pc = "call" /\ text.kind = "expression"
      /\ machine' = machine /\ hw' = hw /\ text' = text
      /\ \/ pc' = "done" /\ ret' \in {-EINVAL, -ENODEV} /\ list' = <<>>
         \/ pc' = "done" /\ ret' = l /\ list' = [i \in 1 .. l |-> At(tmp.ids, i - 1)]
         \/ /\ ~ (Chunk = NotGiven /\ Stride = NotGiven)
            /\ domain' = tmp.ids /\ left' = l /\ idx' = 0 /\ pc' = "loop" /\ list' = list
  BY DEF lb_cpustr_to_cpulist_expression, Call, Return
<1>2. /\ Ready /\ Written(text)
      /\ text.domain \in {"N", "S", "M", "D"} /\ text.idx \in Int /\ list = <<>>
  BY <1>1 DEF CallInv, Ready, Written, Letters
<1>3. PICK ids : Fills(tmp, ids, T, n, 0)
  BY <1>2, TmpListOf
<1>4. l = Wanted /\ l \in 0 .. Len(ids)
  BY <1>1, <1>2, <1>3, LengthOfLoop
<1>5. /\ n \in Nat /\ Len(ids) \in 0 .. n /\ Len(ids) = Cardinality(T)
      /\ \A k \in 1 .. Len(ids) : /\ ids[k] \in T /\ tmp.ids[k - 1] = ids[k]
                                  /\ At(tmp.ids, k - 1) = ids[k]
      /\ DOMAIN tmp.ids = 0 .. n - 1
  BY <1>3 DEF Fills, Listed
<1> HIDE DEF tmp, l, n
<1>6. Ordinary(machine') /\ Written(text') /\ hw' = check_hwthreads(machine')
  BY <1>1, <1>2 DEF Ready
<1>7. CASE pc' = "done" /\ ret' \in {-EINVAL, -ENODEV} /\ list' = <<>>
  <2>1. list' \in Seq(T) /\ Len(list') <= Len(hw) /\ ~ ret' >= 0
    BY <1>5, <1>7 DEF EINVAL, ENODEV, n
  <2>2. Given'
    BY <1>1, <1>2, <2>1, ExpressionDone
  <2> QED BY <1>1, <1>6, <1>7, <2>2 DEF CallInv
<1>8. CASE pc' = "done" /\ ret' = l /\ list' = [i \in 1 .. l |-> At(tmp.ids, i - 1)]
  <2>1. \A i \in 1 .. l : At(tmp.ids, i - 1) \in T
    <3> TAKE i \in 1 .. l
    <3>1. i \in 1 .. Len(ids)
      BY <1>4, <1>5
    <3> QED BY <1>5, <3>1
  <2> HIDE DEF T
  <2>2. list' \in Seq(T) /\ Len(list') = l
    BY <1>4, <1>5, <1>8, <2>1
  <2>3. list' \in Seq(T) /\ Len(list') <= Len(hw) /\ (ret' >= 0 => ret' = Wanted)
    BY <1>4, <1>5, <1>8, <2>2 DEF n
  <2>4. Given'
    BY <1>1, <1>2, <2>3, ExpressionDone DEF T
  <2> QED BY <1>1, <1>6, <1>8, <2>4 DEF CallInv
<1>9. CASE /\ ~ (Chunk = NotGiven /\ Stride = NotGiven)
           /\ domain' = tmp.ids /\ left' = l /\ idx' = 0 /\ pc' = "loop" /\ list' = list
  <2>1. text.domain = "N" /\ Chunk \in Nat /\ Stride \in Nat
    <3>1. Len(text.fields) = 3 /\ text.domain = "N" /\ text.fields[2] \in Nat /\ text.fields[3] \in Nat
      <4>1. Len(text.fields) # 1
        BY <1>9 DEF Chunk, Stride
      <4> QED BY <1>1, <1>2, <4>1, Zenon DEF Written
    <3> QED BY <3>1 DEF Chunk, Stride
  <2>2. T = 0 .. n - 1
    BY <1>2, <2>1, AllList DEF n
  <2>3. Len(ids) = n
    <3>1. 0 \in Int /\ n - 1 \in Int /\ (n - 1) - 0 + 1 = n /\ (0 > n - 1 => n = 0)
      BY <1>5
    <3>2. Cardinality(0 .. n - 1) = n
      BY <1>5, <3>1, FS_Interval
    <3> QED BY <1>5, <2>2, <3>2
  <2>4. \A i \in 0 .. n - 1 : tmp.ids[i] \in T
    <3> TAKE i \in 0 .. n - 1
    <3>1. i + 1 \in 1 .. Len(ids) /\ (i + 1) - 1 = i
      BY <1>5, <2>3
    <3> QED BY <1>5, <3>1
  <2>5. Chunk' = Chunk /\ Stride' = Stride /\ T' = T /\ Wanted' = Wanted
    BY <1>1, ThreadsStay DEF Chunk, Stride
  <2>6. list' \in Seq(T) /\ Len(list') = 0
    BY <1>2, <1>9
  <2> HIDE DEF T
  <2>7. InLoop'
    <3>1. (ThreadsOf(text.domain, text.idx))' = T
      BY <2>5 DEF T
    <3>2. text'.kind = "expression" /\ Chunk' \in Nat /\ Stride' \in Nat /\ idx' \in Nat /\ left' \in Nat
      BY <1>1, <1>4, <1>5, <1>9, <2>1, <2>5
    <3>3. Len(list') + left' = Wanted'
      BY <1>4, <1>5, <1>9, <2>5, <2>6
    <3>4. DOMAIN domain' = 0 .. Len(hw') - 1 /\ \A i \in 0 .. Len(hw') - 1 : domain'[i] \in T
      BY <1>1, <1>5, <1>9, <2>4 DEF n
    <3> QED BY <2>6, <3>1, <3>2, <3>3, <3>4 DEF InLoop
  <2>8. Given'
    BY <1>1, <1>5, <1>9, <2>6 DEF Given, GivesItsThreads, FitsBuffer, OnlyOfDomain, GivesCount,
       SelectsPositions, n
  <2> QED BY <1>1, <1>6, <1>9, <2>7, <2>8 DEF CallInv
<1> QED BY <1>1, <1>7, <1>8, <1>9

\* A round of the loop gives threads that are still owed.
LEMMA ChunkStep ==
  ASSUME CallInv, TakeChunk
  PROVE  CallInv'
<1> DEFINE T == ThreadsOf(text.domain, text.idx)
           n == Len(hw)
           places == {i \in 0 .. Chunk - 1 : idx + i < Len(hw)}
           m == Min({left, Cardinality(places)})
           new == [i \in 1 .. m |-> At(domain, idx + i - 1)]
<1>1. /\ pc = "loop" /\ machine' = machine /\ hw' = hw /\ text' = text /\ domain' = domain
      /\ left > 0 /\ idx < n /\ pc' = pc
      /\ list' = list \o new /\ left' = left - m /\ idx' = idx + Stride
  BY DEF TakeChunk, Looping
<1>2. /\ Ready /\ Written(text) /\ text.kind = "expression" /\ Chunk \in Nat /\ Stride \in Nat
      /\ idx \in Nat /\ left \in Nat /\ list \in Seq(T) /\ Len(list) + left = Wanted
      /\ DOMAIN domain = 0 .. n - 1 /\ \A i \in 0 .. n - 1 : domain[i] \in T
  BY <1>1 DEF CallInv, InLoop, Ready
<1>3. n \in Nat
  BY <1>2, EntryOf
<1> HIDE DEF n
<1>4. IsFiniteSet(places) /\ Cardinality(places) \in 0 .. n - idx
  <2>1. n - idx - 1 \in Int /\ 0 \in Int /\ (n - idx - 1) - 0 + 1 = n - idx /\ ~ (0 > n - idx - 1)
    BY <1>1, <1>2, <1>3
  <2>2. IsFiniteSet(0 .. n - idx - 1) /\ Cardinality(0 .. n - idx - 1) = n - idx
    BY <2>1, FS_Interval
  <2>3. places \in SUBSET (0 .. n - idx - 1)
    BY <1>1, <1>2, <1>3 DEF n
  <2> HIDE DEF places
  <2>4. IsFiniteSet(places) /\ Cardinality(places) <= n - idx
    BY <2>2, <2>3, FS_Subset
  <2>5. Cardinality(places) \in Nat
    BY <2>4, FS_CardinalityType
  <2> QED BY <1>1, <1>2, <1>3, <2>4, <2>5
<1> HIDE DEF places
<1>5. m \in 0 .. left /\ m <= n - idx
  <2> DEFINE c == Cardinality(places)
             v == IF left <= c THEN left ELSE c
  <2>1. c \in Nat /\ c <= n - idx
    BY <1>2, <1>3, <1>4
  <2> HIDE DEF c
  <2>2. v \in {left, c} /\ (\A y \in {left, c} : v <= y) /\ {left, c} \in SUBSET Int
    BY <1>2, <2>1
  <2>3. m = v
    <3>1. Min({left, c}) = v
      BY <2>2, MinIs
    <3> QED BY <3>1 DEF c
  <2> HIDE DEF m
  <2> QED BY <1>1, <1>2, <1>3, <2>1, <2>3
<1> HIDE DEF m
<1>6. new \in Seq(T) /\ Len(new) = m
  <2>1. \A i \in 1 .. m : At(domain, idx + i - 1) \in T
    <3> TAKE i \in 1 .. m
    <3>1. idx + i - 1 \in 0 .. n - 1
      BY <1>1, <1>2, <1>3, <1>5
    <3> QED BY <1>2, <3>1 DEF At
  <2> HIDE DEF T
  <2> QED BY <1>2, <1>5, <2>1
<1> HIDE DEF new, T
<1>7. list' \in Seq(T) /\ Len(list') = Len(list) + m /\ Len(list) \in Nat
  <2>1. list \in Seq(T) /\ new \in Seq(T) /\ Len(new) = m
    BY <1>2, <1>6
  <2>2. list \o new \in Seq(T) /\ Len(list \o new) = Len(list) + Len(new) /\ Len(list) \in Nat
    BY <2>1
  <2> QED BY <1>1, <2>1, <2>2
<1>8. left' \in Nat /\ Len(list') + left' = Wanted /\ idx' \in Nat
  BY <1>1, <1>2, <1>5, <1>7
<1>9. Chunk' = Chunk /\ Stride' = Stride /\ T' = T /\ Wanted' = Wanted
  BY <1>1, ThreadsStay DEF Chunk, Stride, T
<1>10. InLoop'
  <2>1. (ThreadsOf(text.domain, text.idx))' = T
    BY <1>9 DEF T
  <2>2. text'.kind = "expression" /\ Chunk' \in Nat /\ Stride' \in Nat
    BY <1>1, <1>2, <1>9
  <2>3. DOMAIN domain' = 0 .. Len(hw') - 1 /\ \A i \in 0 .. Len(hw') - 1 : domain'[i] \in T
    BY <1>1, <1>2 DEF n
  <2> QED BY <1>7, <1>8, <1>9, <2>1, <2>2, <2>3 DEF InLoop
<1>11. Wanted <= n /\ Wanted \in Nat
  <2>1. PICK ids : Fills(TmpList(text.domain, text.idx, 0), ids, T, n, 0)
    <3>1. text.domain \in {"N", "S", "M", "D"}
      BY <1>2 DEF Written, Letters
    <3> QED BY <1>2, <3>1, TmpListOf DEF T, n
  <2>2. Wanted \in 0 .. Len(ids)
    BY <1>2, <2>1, LengthOfLoop DEF T, n
  <2>3. Len(ids) \in 0 .. n
    BY <2>1 DEF Fills
  <2> QED BY <1>3, <2>2, <2>3
<1>12. Len(list') <= n
  BY <1>3, <1>7, <1>8, <1>11
<1>13. Given'
  BY <1>1, <1>12 DEF Given, GivesItsThreads, FitsBuffer, OnlyOfDomain, GivesCount, SelectsPositions, n
<1> QED BY <1>1, <1>2, <1>10, <1>13 DEF CallInv, Ready

LEMMA EndStep ==
  ASSUME CallInv, EndOfLoop
  PROVE  CallInv'
<1>1. /\ pc = "loop" /\ machine' = machine /\ hw' = hw /\ text' = text /\ left <= 0
      /\ pc' = "done" /\ ret' = Len(list) /\ list' = list
  BY DEF EndOfLoop, Looping, Return
<1>2. /\ Ready /\ InLoop /\ Written(text) /\ Given
  BY <1>1 DEF CallInv, Ready
<1>3. /\ text.kind = "expression" /\ left \in Nat
      /\ list \in Seq(ThreadsOf(text.domain, text.idx)) /\ Len(list) + left = Wanted
      /\ Len(list) <= Len(hw)
  BY <1>2 DEF InLoop, Given, GivesItsThreads, FitsBuffer
<1>4. Len(list) = Wanted
  <2>1. left = 0 /\ Len(list) \in Nat
    BY <1>1, <1>3
  <2> QED BY <1>3, <2>1
<1>5. /\ list' \in Seq(ThreadsOf(text.domain, text.idx)) /\ Len(list') <= Len(hw)
      /\ (ret' >= 0 => ret' = Wanted)
  BY <1>1, <1>3, <1>4
<1>6. Given'
  BY <1>1, <1>2, <1>3, <1>5, ExpressionDone
<1> QED BY <1>1, <1>2, <1>6 DEF CallInv, Ready

LEMMA OtherStep ==
  ASSUME CallInv, get_num_hw_threads \/ Wrap \/ UNCHANGED vars
  PROVE  CallInv'
<1>1. CASE get_num_hw_threads
  <2>1. /\ pc = "start" /\ machine' = machine /\ text' = text /\ pc' = "call"
        /\ hw' = check_hwthreads(machine) /\ list' = list /\ list = <<>>
    BY <1>1 DEF get_num_hw_threads, CallInv
  <2>2. Ordinary(machine) /\ Written(text) /\ (Ready)'
    BY <2>1 DEF CallInv, Ready
  <2>3. Len(hw') \in Nat
    <3>1. /\ MaxOsId(machine) \in Nat
      BY <2>2, HighestId DEF Ordinary
    <3> QED BY <2>1, <3>1 DEF check_hwthreads
  <2>4. Given'
    BY <2>1, <2>3 DEF Given, GivesItsThreads, FitsBuffer, OnlyOfDomain, GivesCount, SelectsPositions
  <2> QED BY <2>1, <2>2, <2>4 DEF CallInv
<1>2. CASE Wrap
  <2>1. /\ pc = "loop" /\ machine' = machine /\ hw' = hw /\ text' = text /\ domain' = domain
        /\ idx' = 0 /\ left' = left /\ list' = list /\ pc' = pc /\ ret' = ret
    BY <1>2 DEF Wrap, Looping
  <2>2. Chunk' = Chunk /\ Stride' = Stride
    BY <2>1 DEF Chunk, Stride
  <2>3. Ready /\ InLoop /\ Written(text) /\ FitsBuffer
    BY <2>1 DEF CallInv, Ready, Given, GivesItsThreads
  <2>4. /\ (ThreadsOf(text.domain, text.idx))' = ThreadsOf(text.domain, text.idx)
        /\ Wanted' = Wanted
    BY <2>1, ThreadsStay
  <2>5. InLoop'
    BY <2>1, <2>2, <2>3, <2>4 DEF InLoop
  <2>6. Given'
    BY <2>1, <2>3 DEF Given, GivesItsThreads, FitsBuffer, OnlyOfDomain, GivesCount, SelectsPositions
  <2> QED BY <2>1, <2>3, <2>5, <2>6 DEF CallInv, Ready
<1>3. CASE UNCHANGED vars
  <2>1. CallInv' <=> CallInv
    <3>1. /\ machine' = machine /\ hw' = hw /\ text' = text /\ domain' = domain
          /\ idx' = idx /\ left' = left /\ list' = list /\ pc' = pc /\ ret' = ret
      BY <1>3 DEF vars
    <3>2. Chunk' = Chunk /\ Stride' = Stride
      BY <3>1 DEF Chunk, Stride
    <3>3. /\ (ThreadsOf(text.domain, text.idx))' = ThreadsOf(text.domain, text.idx)
          /\ Wanted' = Wanted
      BY <3>1, ThreadsStay
    <3>4. InLoop' <=> InLoop
      BY <3>1, <3>2, <3>3 DEF InLoop
    <3>5. Given' <=> Given
      <4>1. resolve_list(text.entries)' = resolve_list(text.entries)
        BY <3>1 DEF resolve_list, IdsOf, Expand, Span
      <4>2. \A t : SmtPlace(t)' = SmtPlace(t)
        BY <3>1, ThreadsStay
      <4>3. SelectsPositions' <=> SelectsPositions
        BY <3>1, <3>3, <4>1, <4>2 DEF SelectsPositions
      <4>4. Count' = Count
        BY <3>1 DEF Count
      <4>5. FitsBuffer' <=> FitsBuffer
        BY <3>1 DEF FitsBuffer
      <4>6. OnlyOfDomain' <=> OnlyOfDomain
        BY <3>1, <3>3 DEF OnlyOfDomain
      <4>7. GivesCount' <=> GivesCount
        BY <3>1, <3>3, <4>4 DEF GivesCount
      <4> QED BY <4>3, <4>5, <4>6, <4>7 DEF Given, GivesItsThreads
    <3> QED BY <3>1, <3>4, <3>5 DEF CallInv
  <2> QED BY <2>1
<1> QED BY <1>1, <1>2, <1>3

LEMMA CallKept ==
  ASSUME CallInv, [Next]_vars
  PROVE  CallInv'
<1>1. \/ lb_cpustr_to_cpulist_physical \/ lb_cpustr_to_cpulist_logical
      \/ lb_cpustr_to_cpulist_expression \/ TakeChunk \/ EndOfLoop
      \/ (get_num_hw_threads \/ Wrap \/ UNCHANGED vars)
  BY DEF Next, Loop, Done
<1> QED BY <1>1, PhysicalStep, LogicalStep, ExpressionStep, ChunkStep, EndStep, OtherStep

LEMMA CallStarts ==
  ASSUME \A m \in Machines : Ordinary(m), \A t \in Texts : Written(t), Init
  PROVE  CallInv
<1>1. Given
  BY DEF Init, Given, GivesItsThreads, FitsBuffer, OnlyOfDomain, GivesCount, SelectsPositions
<1> QED BY <1>1 DEF Init, CallInv

\* No notation of a workgroup overflows its buffer, and an expression gives as
\* many threads as it asks for or its domain has, all of that domain, on every
\* machine that is Ordinary and for every text that is Written
\* (lb_cpustr_to_cpulist_physical, lb_cpustr_to_cpulist_logical,
\* lb_cpustr_to_cpulist_expression).
THEOREM GivesThreadsAsked ==
  ASSUME \A m \in Machines : Ordinary(m), \A t \in Texts : Written(t)
  PROVE  Spec => []GivesItsThreads
<1>1. Init => CallInv
  BY CallStarts
<1>2. CallInv /\ [Next]_vars => CallInv'
  BY CallKept
<1>3. CallInv => GivesItsThreads
  BY DEF CallInv, Given
<1> QED BY <1>1, <1>2, <1>3, PTL DEF Spec

\* A logical text whose positions are all in its domain selects the threads at
\* these positions, each once, and the first ones are one of each core
\* (lb_cpustr_to_cpulist_logical, _hwthreads_sort).
THEOREM SelectsAsNamed ==
  ASSUME \A m \in Machines : Ordinary(m), \A t \in Texts : Written(t)
  PROVE  Spec => []SelectsPositions
<1>1. Init => CallInv
  BY CallStarts
<1>2. CallInv /\ [Next]_vars => CallInv'
  BY CallKept
<1>3. CallInv => SelectsPositions
  BY DEF CallInv, Given
<1> QED BY <1>1, <1>2, <1>3, PTL DEF Spec

-----------------------------------------------------------------------------
(* Bitmaps.                                                                *)

LEMMA QuotientBelow ==
  ASSUME NEW n \in Nat \ {0}, NEW a \in Int, NEW b \in Int, n * a < n * b + n
  PROVE  a <= b
<1> SUFFICES ASSUME a > b PROVE FALSE
  OBVIOUS
<1> DEFINE k == a - b - 1
<1>1. k \in Nat /\ a = b + 1 + k
  OBVIOUS
<1> HIDE DEF k
<1>2. n * a = n * b + n + n * k
  BY <1>1
<1>3. n * k \in Nat
  BY <1>1
<1> QED BY <1>2, <1>3

LEMMA QuotientIs ==
  ASSUME NEW a \in Int, NEW n \in Int, n > 0
  PROVE  a - (a % n) = n * (a \div n)
BY SMTT(60)

LEMMA QuotientAndRest ==
  ASSUME NEW a \in Nat, NEW n \in Nat \ {0}
  PROVE  /\ a \div n \in Nat /\ a % n \in 0 .. n - 1
         /\ a = n * (a \div n) + (a % n)
<1>1. a - (a % n) = n * (a \div n)
  BY QuotientIs
<1>2. a % n \in 0 .. n - 1
  OBVIOUS
<1>3. a \div n \in Nat
  OBVIOUS
<1> DEFINE q == a \div n
           r == a % n
<1>4. q \in Nat /\ r \in 0 .. n - 1 /\ a - r = n * q
  BY <1>1, <1>2, <1>3
<1> HIDE DEF q, r
<1>5. a = n * q + r
  BY <1>4
<1> QED BY <1>4, <1>5 DEF q, r

\* A bitmap of the size with the bits of S.
Bitmap(bm, size, S) ==
  /\ bm \in [size : {size}, data : [0 .. Elements(size) - 1 -> SUBSET Nat]]
  /\ \A x \in 0 .. size - 1 : is_bit_set(bm, x) <=> x \in S

LEMMA ElementThere ==
  ASSUME NEW size \in Nat, NEW i \in 0 .. size - 1
  PROVE  i \div BITS_PER_ELEMENT \in 0 .. Elements(size) - 1
<1> DEFINE b == BITS_PER_ELEMENT
           q == i \div b
           e == (size + b - 1) \div b
           r == (size + b - 1) % b
           s == i % b
<1>1. b \in Nat \ {0}
  BY BitsAssumption
<1> HIDE DEF b
<1>2. q \in Nat /\ s \in 0 .. b - 1 /\ i = b * q + s
  <2>1. i \in Nat
    OBVIOUS
  <2> QED BY <1>1, <2>1, QuotientAndRest
<1>3. e \in Nat /\ r \in 0 .. b - 1 /\ size + b - 1 = b * e + r
  <2> DEFINE z == size + b - 1
  <2>1. z \in Nat
    BY <1>1
  <2> HIDE DEF z
  <2>2. z \div b \in Nat /\ z % b \in 0 .. b - 1 /\ z = b * (z \div b) + (z % b)
    BY <1>1, <2>1, QuotientAndRest
  <2> QED BY <2>2 DEF z
<1> HIDE DEF q, e, r, s
<1>4. b * (q + 1) = b * q + b /\ b * q \in Int /\ b * e \in Int
  BY <1>1, <1>2, <1>3
<1> DEFINE x == b * q
           y == b * e
           z == b * (q + 1)
<1>5. x \in Int /\ y \in Int /\ z = x + b /\ i = x + s /\ size + b - 1 = y + r
  BY <1>2, <1>3, <1>4
<1> HIDE DEF x, y, z
<1>6. z < y + b
  BY <1>1, <1>2, <1>3, <1>5
<1>7. q + 1 <= e
  <2>1. b * (q + 1) < b * e + b
    BY <1>6 DEF y, z
  <2>2. q + 1 \in Int /\ e \in Int
    BY <1>2, <1>3
  <2> QED BY <1>1, <2>1, <2>2, QuotientBelow
<1>8. q \in 0 .. e - 1
  BY <1>2, <1>3, <1>7
<1> QED BY <1>8 DEF q, e, b, Elements

LEMMA EmptyBitmap ==
  ASSUME NEW size \in Nat
  PROVE  Bitmap(create_bitmap(size), size, {})
<1>1. /\ create_bitmap(size) \in [size : {size}, data : [0 .. Elements(size) - 1 -> SUBSET Nat]]
      /\ \A e \in 0 .. Elements(size) - 1 : create_bitmap(size).data[e] = {}
      /\ DOMAIN create_bitmap(size).data = 0 .. Elements(size) - 1
  BY DEF create_bitmap
<1>2. \A x \in 0 .. size - 1 : ~ is_bit_set(create_bitmap(size), x)
  BY <1>1 DEF is_bit_set, InData
<1> QED BY <1>1, <1>2 DEF Bitmap

LEMMA BitSet ==
  ASSUME NEW size \in Nat, NEW S, NEW bm, Bitmap(bm, size, S), NEW i \in 0 .. size - 1
  PROVE  InData(bm, i) /\ Bitmap(set_bit(bm, i), size, S \cup {i})
<1> DEFINE b == BITS_PER_ELEMENT
           q == i \div b
           r == i % b
           new == [bm EXCEPT !.data[q] = @ \cup {r}]
<1>1. /\ bm.size = size /\ DOMAIN bm.data = 0 .. Elements(size) - 1
      /\ bm \in [size : {size}, data : [0 .. Elements(size) - 1 -> SUBSET Nat]]
  BY DEF Bitmap
<1>2. InData(bm, i) /\ q \in DOMAIN bm.data
  BY <1>1, ElementThere DEF InData
<1>3. set_bit(bm, i) = new
  <2>1. IndexOfBitmap(bm, i)
    BY <1>1 DEF IndexOfBitmap
  <2> QED BY <1>2, <2>1 DEF set_bit
<1>4. b \in Nat \ {0} /\ q \in Nat /\ r \in Nat /\ i = b * q + r
  <2>1. b \in Nat \ {0} /\ i \in Nat
    BY BitsAssumption
  <2> QED BY <2>1, QuotientAndRest
<1> HIDE DEF b, q, r
<1>5. /\ new.size = size /\ DOMAIN new.data = 0 .. Elements(size) - 1
      /\ new \in [size : {size}, data : [0 .. Elements(size) - 1 -> SUBSET Nat]]
      /\ new.data[q] = bm.data[q] \cup {r}
      /\ \A e \in 0 .. Elements(size) - 1 : e # q => new.data[e] = bm.data[e]
  BY <1>1, <1>2, <1>4
<1> HIDE DEF new
<1>6. ASSUME NEW x \in 0 .. size - 1
      PROVE  is_bit_set(new, x) <=> x \in S \cup {i}
  <2> DEFINE qx == x \div b
             rx == x % b
  <2>1. /\ is_bit_set(bm, x) <=> rx \in bm.data[qx]
        /\ is_bit_set(new, x) <=> rx \in new.data[qx]
        /\ qx \in 0 .. Elements(size) - 1
    BY <1>1, <1>5, ElementThere DEF is_bit_set, InData, b
  <2>2. x = b * qx + rx
    <3>1. x \in Nat
      OBVIOUS
    <3> QED BY <1>4, <3>1, QuotientAndRest
  <2> HIDE DEF qx, rx
  <2>3. is_bit_set(bm, x) <=> x \in S
    BY DEF Bitmap
  <2>4. x = i => qx = q /\ rx = r
    BY DEF q, r, qx, rx
  <2>5. qx = q /\ rx = r => x = i
    BY <1>4, <2>2
  <2>6. CASE qx = q
    BY <1>5, <2>1, <2>3, <2>4, <2>5, <2>6
  <2>7. CASE qx # q
    BY <1>5, <2>1, <2>3, <2>4, <2>7
  <2> QED BY <2>6, <2>7
<1> QED BY <1>2, <1>3, <1>5, <1>6 DEF Bitmap

\* The recursion of set_bits defines a function.
IsBits(f, bm, ids, n) ==
  f = [i \in 0 .. n |-> IF i = 0 THEN bm ELSE set_bit(f[i - 1], ids[i])]

LEMMA BitsRecursion ==
  ASSUME NEW bm, NEW ids, NEW n \in Nat
  PROVE  \E f : IsBits(f, bm, ids, n)
<1> DEFINE Is(f, m) == IsBits(f, bm, ids, m)
           Bad == {m \in Nat : ~ \E f : Is(f, m)}
<1> SUFFICES ASSUME Bad # {} PROVE FALSE
  OBVIOUS
<1>0. Bad \in SUBSET Nat
  OBVIOUS
<1> HIDE DEF Bad
<1>1. PICK m \in Bad : \A y \in Bad : m <= y
  BY <1>0, Least
<1> USE DEF Bad
<1>2. m # 0
  <2> DEFINE g == [i \in 0 .. 0 |-> bm]
  <2>1. \A i \in 0 .. 0 : i = 0
    OBVIOUS
  <2>2. g = [i \in 0 .. 0 |-> IF i = 0 THEN bm ELSE set_bit(g[i - 1], ids[i])]
    BY <2>1
  <2>3. Is(g, 0)
    BY <2>2 DEF IsBits
  <2> QED BY <2>3
<1>3. m \in Nat /\ m - 1 \in Nat /\ m - 1 \notin Bad
  BY <1>1, <1>2
<1>4. PICK f : Is(f, m - 1)
  BY <1>3
<1>5. \A i \in 0 .. m - 1 : f[i] = IF i = 0 THEN bm ELSE set_bit(f[i - 1], ids[i])
  BY <1>4 DEF IsBits
<1> DEFINE top == set_bit(f[m - 1], ids[m])
           g == [i \in 0 .. m |-> IF i = m THEN top ELSE f[i]]
<1>6. \A i \in 0 .. m - 1 : g[i] = f[i]
  <2>1. \A i \in 0 .. m - 1 : i \in 0 .. m /\ i # m
    BY <1>3
  <2> HIDE DEF top
  <2> QED BY <2>1
<1>7. g[m] = top
  <2>1. m \in 0 .. m
    BY <1>3
  <2> HIDE DEF top
  <2> QED BY <2>1
<1> HIDE DEF g
<1>8. \A i \in 0 .. m : g[i] = IF i = 0 THEN bm ELSE set_bit(g[i - 1], ids[i])
  <2> TAKE i \in 0 .. m
  <2>1. CASE i = m
    <3>1. m - 1 \in 0 .. m - 1
      BY <1>3
    <3>2. g[m - 1] = f[m - 1]
      BY <1>6, <3>1
    <3> QED BY <1>2, <1>7, <2>1, <3>2
  <2>2. CASE i # m /\ i # 0
    <3>1. i \in 0 .. m - 1 /\ i - 1 \in 0 .. m - 1
      BY <1>3, <2>2
    <3> QED BY <1>5, <1>6, <2>2, <3>1
  <2>3. CASE i # m /\ i = 0
    <3>1. i \in 0 .. m - 1
      BY <1>3, <2>3
    <3> QED BY <1>5, <1>6, <2>3, <3>1
  <2> QED BY <2>1, <2>2, <2>3
<1>9. Is(g, m)
  <2>1. g = [i \in 0 .. m |-> g[i]]
    BY DEF g
  <2>2. [i \in 0 .. m |-> g[i]] = [i \in 0 .. m |-> IF i = 0 THEN bm ELSE set_bit(g[i - 1], ids[i])]
    BY <1>8, Zenon
  <2> QED BY <2>1, <2>2 DEF IsBits
<1> QED BY <1>3, <1>9, Zenon

\* The bits of all ids are set, and no others.
LEMMA BitsSet ==
  ASSUME NEW size \in Nat, NEW bm, Bitmap(bm, size, {}), NEW ids \in Seq(0 .. size - 1)
  PROVE  Bitmap(set_bits(bm, ids), size, {ids[k] : k \in 1 .. Len(ids)})
<1> DEFINE n == Len(ids)
           g == CHOOSE f : IsBits(f, bm, ids, n)
           first(m) == {ids[k] : k \in 1 .. m}
           Bad == {m \in 0 .. n : ~ Bitmap(g[m], size, first(m))}
<1>1. n \in Nat /\ \A k \in 1 .. n : ids[k] \in 0 .. size - 1
  OBVIOUS
<1> HIDE DEF n
<1>2. IsBits(g, bm, ids, n)
  BY <1>1, BitsRecursion, Zenon
<1>3. set_bits(bm, ids) = g[n]
  <2>1. set_bits(bm, ids) = LET after[i \in 0 .. Len(ids)] ==
                                  IF i = 0 THEN bm ELSE set_bit(after[i - 1], ids[i])
                            IN  after[Len(ids)]
    BY DEF set_bits
  <2> QED BY <2>1, Zenon DEF IsBits, n
<1> HIDE DEF g
<1>4. \A i \in 0 .. n : g[i] = IF i = 0 THEN bm ELSE set_bit(g[i - 1], ids[i])
  BY <1>2 DEF IsBits
<1>5. Bad = {}
  <2> SUFFICES ASSUME Bad # {} PROVE FALSE
    OBVIOUS
  <2>1. Bad \in SUBSET Nat
    OBVIOUS
  <2> HIDE DEF Bad
  <2>2. PICK m \in Bad : \A y \in Bad : m <= y
    BY <2>1, Least
  <2> USE DEF Bad
  <2>3. m \in 0 .. n /\ m # 0
    <3>1. g[0] = bm
      <4>1. 0 \in 0 .. n
        BY <1>1
      <4> QED BY <1>4, <4>1
    <3>2. first(0) = {}
      OBVIOUS
    <3> HIDE DEF first
    <3>3. Bitmap(g[0], size, first(0))
      BY <3>1, <3>2
    <3> QED BY <3>3
  <2>4. m - 1 \in 0 .. n /\ m - 1 \notin Bad /\ m \in 1 .. n
    <3>1. m - 1 \in 0 .. n /\ m \in 1 .. n /\ ~ (m <= m - 1)
      BY <1>1, <2>3
    <3> HIDE DEF Bad
    <3> QED BY <2>2, <3>1
  <2>5. Bitmap(g[m - 1], size, first(m - 1))
    BY <2>4
  <2>6. first(m) = first(m - 1) \cup {ids[m]}
    <3>1. \A k : k \in 1 .. m <=> k \in 1 .. m - 1 \/ k = m
      BY <2>4
    <3> QED BY <3>1, Zenon
  <2>7. g[m] = set_bit(g[m - 1], ids[m]) /\ ids[m] \in 0 .. size - 1
    BY <1>1, <1>4, <2>3, <2>4
  <2> HIDE DEF first
  <2>8. Bitmap(g[m], size, first(m))
    BY <2>5, <2>6, <2>7, BitSet
  <2> QED BY <2>8
<1>6. Bitmap(g[n], size, first(n))
  <2>1. n \in 0 .. n
    BY <1>1
  <2> HIDE DEF first
  <2> QED BY <1>5, <2>1
<1> QED BY <1>3, <1>6 DEF n

-----------------------------------------------------------------------------
(* The ids of a file.                                                      *)

\* what one entry stands for
IdsOfEntry(entry) ==
  LET s == entry[1] e == entry[Len(entry)]
  IN  [j \in 1 .. e - s + 1 |-> s + j - 1]

LEMMA EntryRead ==
  ASSUME NEW entry \in Seq(Nat), Len(entry) \in {1, 2}
  PROVE  /\ IdsOfEntry(entry) \in Seq(Nat)
         /\ \A i \in Nat : Covers(entry, i) <=>
              \E j \in 1 .. Len(IdsOfEntry(entry)) : IdsOfEntry(entry)[j] = i
<1> DEFINE s == entry[1]
           e == entry[Len(entry)]
           r == [j \in 1 .. e - s + 1 |-> s + j - 1]
<1>1. s \in Nat /\ e \in Nat
  BY FirstAndLast
<1>2. \A i \in Nat : Covers(entry, i) <=> s <= i /\ i <= e
  <2>1. CASE Len(entry) = 1
    <3>1. e = s
      BY <2>1
    <3> HIDE DEF e
    <3> QED BY <1>1, <2>1, <3>1 DEF Covers
  <2>2. CASE Len(entry) = 2
    BY <2>2 DEF Covers
  <2> QED BY <2>1, <2>2
<1>3. IdsOfEntry(entry) = r
  BY DEF IdsOfEntry
<1> HIDE DEF s, e
<1>4. CASE s <= e
  <2>1. r \in Seq(Nat) /\ Len(r) = e - s + 1 /\ \A j \in 1 .. e - s + 1 : r[j] = s + j - 1
    BY <1>1, <1>4
  <2> HIDE DEF r
  <2>2. ASSUME NEW i \in Nat
        PROVE  s <= i /\ i <= e <=> \E j \in 1 .. Len(r) : r[j] = i
    <3>1. s <= i /\ i <= e => i - s + 1 \in 1 .. e - s + 1 /\ s + (i - s + 1) - 1 = i
      BY <1>1, <1>4
    <3>2. \A j \in 1 .. e - s + 1 : s <= s + j - 1 /\ s + j - 1 <= e
      BY <1>1, <1>4
    <3>3. s <= i /\ i <= e => \E j \in 1 .. Len(r) : r[j] = i
      BY <2>1, <3>1
    <3>4. (\E j \in 1 .. Len(r) : r[j] = i) => s <= i /\ i <= e
      BY <2>1, <3>2
    <3> QED BY <3>3, <3>4
  <2> QED BY <1>2, <1>3, <2>1, <2>2
<1>5. CASE e < s
  <2>1. 1 .. e - s + 1 = {}
    BY <1>1, <1>5
  <2>2. r = <<>>
    BY <2>1
  <2>3. \A i \in Nat : ~ (s <= i /\ i <= e)
    BY <1>1, <1>5
  <2>4. IdsOfEntry(entry) = <<>>
    BY <1>3, <2>2
  <2>5. <<>> \in Seq(Nat) /\ Len(<<>>) = 0
    OBVIOUS
  <2>6. \A i \in Nat : ~ Covers(entry, i)
    BY <1>2, <2>3
  <2>7. ~ \E j \in 1 .. Len(IdsOfEntry(entry)) : TRUE
    BY <2>4, <2>5
  <2> QED BY <2>4, <2>5, <2>6, <2>7
<1> QED BY <1>1, <1>4, <1>5

LEMMA IdsRead ==
  ASSUME NEW entries, IsEntries(entries, Nat)
  PROVE  /\ IdsIn(entries) \in Seq(Nat)
         /\ \A i \in Nat : (\E k \in 1 .. Len(IdsIn(entries)) : IdsIn(entries)[k] = i)
                             <=> \E e \in Range(entries) : Covers(e, i)
<1> DEFINE n == Len(entries)
           seqs == [i \in DOMAIN entries |-> IdsOfEntry(entries[i])]
           ids == FlattenSeq(seqs)
<1>1. n \in Nat /\ DOMAIN entries = 1 .. n
      /\ \A i \in 1 .. n : entries[i] \in Seq(Nat) /\ Len(entries[i]) \in {1, 2}
  BY DEF IsEntries
<1>2. IdsIn(entries) = ids
  BY DEF IdsIn, IdsOfEntry
<1> HIDE DEF n
<1>3. \A i \in 1 .. n :
        /\ IdsOfEntry(entries[i]) \in Seq(Nat)
        /\ \A id \in Nat : Covers(entries[i], id) <=>
             \E j \in 1 .. Len(IdsOfEntry(entries[i])) : IdsOfEntry(entries[i])[j] = id
  BY <1>1, EntryRead, Zenon
<1>4. seqs \in [1 .. n -> Seq(Nat)] /\ \A i \in 1 .. n : seqs[i] = IdsOfEntry(entries[i])
  BY <1>1, <1>3
<1> HIDE DEF seqs
<1>5. Joins(ids, seqs, n, Nat)
  BY <1>1, <1>4, Flattened
<1>6. PICK a, b : Walks(a, b, ids, seqs, n)
  BY <1>5 DEF Joins
<1>7. ids \in Seq(Nat)
  BY <1>5 DEF Joins
<1> HIDE DEF ids
<1>8. ASSUME NEW id \in Nat
      PROVE  (\E k \in 1 .. Len(ids) : ids[k] = id) <=> \E e \in Range(entries) : Covers(e, id)
  <2>1. ASSUME NEW k \in 1 .. Len(ids), ids[k] = id
        PROVE  \E e \in Range(entries) : Covers(e, id)
    <3>1. a[k] \in 1 .. n /\ b[k] \in 1 .. Len(seqs[a[k]]) /\ seqs[a[k]][b[k]] = id
      BY <1>6, <2>1 DEF Walks
    <3>2. Covers(entries[a[k]], id)
      BY <1>3, <1>4, <3>1
    <3>3. entries[a[k]] \in Range(entries)
      BY <1>1, <3>1 DEF Range
    <3> QED BY <3>2, <3>3
  <2>2. ASSUME NEW e \in Range(entries), Covers(e, id)
        PROVE  \E k \in 1 .. Len(ids) : ids[k] = id
    <3>1. PICK i \in 1 .. n : e = entries[i]
      BY <1>1 DEF Range
    <3>2. PICK j \in 1 .. Len(seqs[i]) : seqs[i][j] = id
      BY <1>3, <1>4, <2>2, <3>1
    <3>3. PICK k \in 1 .. Len(ids) : a[k] = i /\ b[k] = j
      BY <1>6 DEF Walks
    <3>4. ids[k] = seqs[a[k]][b[k]]
      BY <1>6 DEF Walks
    <3> QED BY <3>2, <3>3, <3>4
  <2> QED BY <2>1, <2>2
<1> QED BY <1>2, <1>7, <1>8

-----------------------------------------------------------------------------
(* The checks of the machine.                                              *)

IdsOfFolder(f) ==
  {i \in Nat : \E e \in Range(host.folders[_cpu_folders[f]]) : Covers(e, i)}

\* The folders before the next one are in their bitmaps and the others are
\* still empty.
ReadSoFar ==
  /\ _max_processor = MaxProcessor(host) /\ folder \in 1 .. 6
  /\ DOMAIN cpu_lists = Range(_cpu_folders)
  /\ \A f \in 1 .. 5 :
       /\ f < folder =>
            /\ IdsOfFolder(f) \subseteq 0 .. _max_processor
            /\ host.folders[_cpu_folders[f]] # Unreadable
            /\ Bitmap(cpu_lists[_cpu_folders[f]], _max_processor + 1, IdsOfFolder(f))
       /\ f >= folder => Bitmap(cpu_lists[_cpu_folders[f]], _max_processor + 1, {})

FlagsThere == host.cpuinfo[1].flags \cap Interesting

\* The result of the look at the flags says whether they are there.
Looked ==
  \/ /\ result = 0
     /\ \A i \in DOMAIN hwthreads :
          hwthreads[i] \in 0 .. MaxProcessor(host) => flags \subseteq FlagsThere
  \/ result = -EINVAL /\ ~ flags \subseteq FlagsThere

MachineInv ==
  /\ Plain(host) /\ errno \in Nat /\ ~ outside
  /\ step \in {"start", "folders", "resolve", "flags", "run", "stopped"}
  /\ step \in {"start", "folders", "resolve"} => cpu_info = <<>>
  /\ step = "start" => folder = 1
  /\ step = "folders" => ReadSoFar
  /\ step \in {"resolve", "flags", "run"} => host.ids \subseteq 0 .. MaxProcessor(host)
  /\ step \in {"flags", "run"} => \E n \in Nat : hwthreads \in [1 .. n -> host.ids]
  /\ cpu_info # <<>> => Looked
  /\ step = "run" => cpu_info # <<>> /\ (result = 0 \/ errno = 0)
  /\ step = "stopped" /\ cpu_info # <<>> => result # 0

LEMMA MembersOf ==
  ASSUME NEW S, NEW s \in Seq(S)
  PROVE  (\A i \in 1 .. Len(s) : s[i] \in S) /\ \A x \in Range(s) : x \in S
BY DEF Range

LEMMA AllMembers ==
  ASSUME NEW R, NEW S, NEW s \in Seq(R), \A i \in 1 .. Len(s) : s[i] \in S
  PROVE  s \in Seq(S)
OBVIOUS

LEMMA HighestProcessor ==
  ASSUME NEW h, Plain(h)
  PROVE  /\ MaxProcessor(h) \in Nat
         /\ \A i \in DOMAIN h.cpuinfo : h.cpuinfo[i].processor \in 0 .. MaxProcessor(h)
<1> DEFINE S == {0} \cup {h.cpuinfo[i].processor : i \in DOMAIN h.cpuinfo}
<1>1. PICK last \in Nat : \A i \in DOMAIN h.cpuinfo : h.cpuinfo[i].processor \in 0 .. last
  BY DEF Plain
<1>2. S \in SUBSET (0 .. last) /\ S # {} /\ \A i \in DOMAIN h.cpuinfo : h.cpuinfo[i].processor \in S
  BY <1>1
<1> HIDE DEF S
<1>3. Max(S) \in S /\ \A x \in S : x <= Max(S)
  BY <1>2, MaxOf
<1>4. Max(S) \in Nat
  <2>1. Max(S) \in 0 .. last
    BY <1>2, <1>3
  <2> QED BY <1>1, <2>1
<1>5. MaxProcessor(h) = Max(S)
  BY DEF MaxProcessor, S
<1> HIDE DEF MaxProcessor
<1> QED BY <1>1, <1>2, <1>3, <1>4, <1>5

LEMMA Folders ==
  /\ DOMAIN _cpu_folders = 1 .. 5 /\ _cpu_folders[1] = "present"
  /\ \A f \in 1 .. 5 : _cpu_folders[f] \in Range(_cpu_folders)
  /\ \A f, g \in 1 .. 5 : _cpu_folders[f] = _cpu_folders[g] => f = g
<1>1. DOMAIN _cpu_folders = 1 .. 5 /\ _cpu_folders[1] = "present"
  BY DEF _cpu_folders
<1>2. \A f, g \in 1 .. 5 : _cpu_folders[f] = _cpu_folders[g] => f = g
  <2> SUFFICES ASSUME NEW f \in {1, 2, 3, 4, 5}, NEW g \in {1, 2, 3, 4, 5},
                      _cpu_folders[f] = _cpu_folders[g]
               PROVE  f = g
    OBVIOUS
  <2> QED BY DEF _cpu_folders
<1> QED BY <1>1, <1>2 DEF Range

\* What has been found out about the host is all that the checks promise.
LEMMA ChecksMachine ==
  ASSUME MachineInv
  PROVE  MachineChecked
<1>1. InBounds
  BY DEF MachineInv, InBounds
<1>2. FoldersRecorded
  <2> SUFFICES ASSUME step = "folders", NEW f \in 1 .. folder - 1, NEW i \in 0 .. _max_processor
               PROVE  is_bit_set(cpu_lists[_cpu_folders[f]], i)
                        <=> \E e \in Range(host.folders[_cpu_folders[f]]) : Covers(e, i)
    BY DEF FoldersRecorded
  <2>1. ReadSoFar /\ _max_processor \in Nat /\ f \in 1 .. 5 /\ f < folder
    BY HighestProcessor DEF MachineInv, ReadSoFar
  <2>2. Bitmap(cpu_lists[_cpu_folders[f]], _max_processor + 1, IdsOfFolder(f))
    BY <2>1 DEF ReadSoFar
  <2>3. i \in 0 .. (_max_processor + 1) - 1 /\ i \in Nat
    BY <2>1
  <2>4. is_bit_set(cpu_lists[_cpu_folders[f]], i) <=> i \in IdsOfFolder(f)
    BY <2>2, <2>3 DEF Bitmap
  <2> QED BY <2>3, <2>4 DEF IdsOfFolder
<1>3. RunsOnlyWithFlags
  <2> SUFFICES ASSUME step = "run", Alike, errno # 0, NEW i \in DOMAIN hwthreads, Online(hwthreads[i])
               PROVE  flags \subseteq FlagsOf(hwthreads[i])
    BY DEF RunsOnlyWithFlags
  <2>1. Looked /\ result = 0 /\ hwthreads[i] \in 0 .. MaxProcessor(host)
    BY DEF MachineInv, Looked, EINVAL
  <2>2. flags \subseteq host.cpuinfo[1].flags
    BY <2>1 DEF Looked, EINVAL, FlagsThere
  <2>3. PICK j \in DOMAIN host.cpuinfo : host.cpuinfo[j].processor = hwthreads[i]
    BY DEF Online
  <2>4. host.cpuinfo[j].flags = host.cpuinfo[1].flags
    BY DEF Alike
  <2> QED BY <2>2, <2>3, <2>4 DEF FlagsOf
<1>4. RefusesOnlyMissing
  <2> SUFFICES ASSUME step = "stopped", cpu_info # <<>>, flags \subseteq Interesting,
                      \A i \in DOMAIN host.cpuinfo : flags \subseteq host.cpuinfo[i].flags
               PROVE  FALSE
    BY DEF RefusesOnlyMissing
  <2>1. ~ flags \subseteq FlagsThere
    BY DEF MachineInv, Looked
  <2>2. 1 \in DOMAIN host.cpuinfo
    BY DEF MachineInv, Plain
  <2> QED BY <2>1, <2>2 DEF FlagsThere
<1> QED BY <1>1, <1>2, <1>3, <1>4 DEF MachineChecked

\* Reading a folder.
LEMMA FolderStep ==
  ASSUME MachineInv, read_cpu_cores
  PROVE  MachineInv'
<1> DEFINE n == folder
           f == _cpu_folders[n]
           entries == host.folders[f]
           ids == IdsIn(entries)
           bm == cpu_lists[f]
           ok == Accepted(bm, ids)
           size == _max_processor + 1
<1>1. /\ step = "folders" /\ n <= 5 /\ entries # Unreadable
      /\ cpu_lists' = [cpu_lists EXCEPT ![f] = set_bits(bm, ok)]
      /\ outside' = (outside \/ \E i \in Range(ok) : ~ InData(bm, i))
      /\ IF ok = ids THEN folder' = n + 1 /\ step' = step ELSE folder' = n /\ step' = "stopped"
      /\ host' = host /\ flags' = flags /\ _max_processor' = _max_processor
      /\ hwthreads' = hwthreads /\ cpu_info' = cpu_info /\ errno' = errno /\ result' = result
  BY DEF read_cpu_cores
<1>2. /\ MachineInv /\ ReadSoFar /\ n \in 1 .. 5 /\ cpu_info = <<>>
      /\ size \in Nat /\ _max_processor \in Nat
  BY <1>1, HighestProcessor DEF MachineInv, ReadSoFar
<1>3. f \in Range(_cpu_folders) /\ Bitmap(bm, size, {}) /\ DOMAIN cpu_lists = Range(_cpu_folders)
  BY <1>2, Folders DEF ReadSoFar
<1>4. IsEntries(entries, Nat)
  BY <1>1, <1>2, <1>3 DEF MachineInv, Plain
<1>5. /\ ids \in Seq(Nat)
      /\ \A i \in Nat : (\E k \in 1 .. Len(ids) : ids[k] = i) <=> i \in IdsOfFolder(n)
  BY <1>4, IdsRead DEF IdsOfFolder
<1> HIDE DEF ids, f, bm, entries, size, n
<1>6. ok \in Seq(0 .. size - 1)
  <2> DEFINE refused == {i \in DOMAIN ids : ~ IndexOfBitmap(bm, ids[i])}
  <2>1. \A i \in 1 .. Len(ids) : ids[i] \in Nat /\ (i \notin refused => ids[i] \in 0 .. size - 1)
    <3>1. bm.size = size
      BY <1>3 DEF Bitmap
    <3> QED BY <1>2, <1>5, <3>1 DEF IndexOfBitmap
  <2>2. refused \in SUBSET (1 .. Len(ids)) /\ Len(ids) \in Nat /\ DOMAIN ids = 1 .. Len(ids)
    BY <1>5
  <2> HIDE DEF refused
  <2>3. CASE refused = {}
    <3>1. ok = ids
      BY <2>3 DEF Accepted, refused
    <3>2. \A i \in 1 .. Len(ids) : ids[i] \in 0 .. size - 1
      BY <2>1, <2>3
    <3> QED BY <1>5, <3>1, <3>2, AllMembers
  <2>4. CASE refused # {}
    <3> DEFINE m == Min(refused)
    <3>1. m \in 1 .. Len(ids) /\ \A i \in refused : m <= i
      <4>1. refused \in SUBSET Nat
        BY <2>2
      <4>2. \E x \in refused : \A y \in refused : x <= y
        BY <2>4, <4>1, Least
      <4>3. m \in refused /\ \A y \in refused : m <= y
        BY <4>2 DEF Min
      <4> QED BY <2>2, <4>3
    <3>2. ok = SubSeq(ids, 1, m - 1)
      BY <2>4 DEF Accepted, refused
    <3> HIDE DEF m
    <3>3. \A i \in 1 .. m - 1 : i \in 1 .. Len(ids) /\ i \notin refused
      <4> TAKE i \in 1 .. m - 1
      <4>1. i \in 1 .. Len(ids) /\ ~ (m <= i)
        BY <2>2, <3>1
      <4> QED BY <3>1, <4>1
    <3>4. \A i \in 1 .. m - 1 : ids[i] \in 0 .. size - 1
      BY <2>1, <3>3
    <3>5. SubSeq(ids, 1, m - 1) = [i \in 1 .. m - 1 |-> ids[i]]
      BY <1>5, <2>2, <3>1
    <3> QED BY <2>2, <3>1, <3>2, <3>4, <3>5
  <2> QED BY <2>3, <2>4
<1> HIDE DEF ok
<1>7. \A i \in Range(ok) : i \in 0 .. size - 1 /\ InData(bm, i)
  <2>1. \A i \in Range(ok) : i \in 0 .. size - 1
    BY <1>6, MembersOf
  <2> QED BY <1>2, <1>3, <2>1, BitSet
<1>8. ~ outside'
  BY <1>1, <1>2, <1>7 DEF MachineInv
<1>9. CASE ok # ids
  <2>1. step' = "stopped" /\ host' = host /\ errno' = errno /\ cpu_info' = <<>>
    BY <1>1, <1>2, <1>9
  <2> QED BY <1>2, <1>8, <2>1 DEF MachineInv
<1>10. CASE ok = ids
  <2>1. folder' = n + 1 /\ step' = "folders"
    BY <1>1, <1>10
  <2>2. IdsOfFolder(n) = {ids[k] : k \in 1 .. Len(ids)}
    <3>1. \A i \in IdsOfFolder(n) : i \in Nat
      BY DEF IdsOfFolder
    <3>2. \A k \in 1 .. Len(ids) : ids[k] \in Nat
      BY <1>5
    <3> QED BY <1>5, <3>1, <3>2
  <2>3. IdsOfFolder(n) \subseteq 0 .. _max_processor
    <3>1. \A k \in 1 .. Len(ids) : ids[k] \in 0 .. size - 1
      BY <1>6, <1>10, MembersOf
    <3>2. size - 1 = _max_processor
      BY <1>2 DEF size
    <3> QED BY <2>2, <3>1, <3>2
  <2>4. Bitmap(set_bits(bm, ok), size, IdsOfFolder(n))
    BY <1>2, <1>3, <1>6, <1>10, <2>2, BitsSet
  <2>5. ReadSoFar'
    <3>1. \A g \in 1 .. 5 : IdsOfFolder(g)' = IdsOfFolder(g)
      BY <1>1 DEF IdsOfFolder
    <3>2. /\ DOMAIN cpu_lists' = Range(_cpu_folders) /\ cpu_lists'[f] = set_bits(bm, ok)
          /\ \A g \in 1 .. 5 : g # n => cpu_lists'[_cpu_folders[g]] = cpu_lists[_cpu_folders[g]]
      BY <1>1, <1>2, <1>3, Folders DEF f
    <3>3. ASSUME NEW g \in 1 .. 5
          PROVE  /\ g < folder' =>
                      /\ IdsOfFolder(g)' \subseteq 0 .. _max_processor'
                      /\ host'.folders[_cpu_folders[g]] # Unreadable
                      /\ Bitmap(cpu_lists'[_cpu_folders[g]], _max_processor' + 1, IdsOfFolder(g)')
                 /\ g >= folder' => Bitmap(cpu_lists'[_cpu_folders[g]], _max_processor' + 1, {})
      <4>1. CASE g = n
        <5>1. ~ g >= folder'
          BY <1>2, <2>1, <4>1
        <5>2. cpu_lists'[_cpu_folders[g]] = set_bits(bm, ok)
          BY <3>2, <4>1 DEF f
        <5>3. host'.folders[_cpu_folders[g]] # Unreadable
          BY <1>1, <4>1 DEF entries, f
        <5> QED BY <1>1, <2>3, <2>4, <3>1, <4>1, <5>1, <5>2, <5>3 DEF size
      <4>2. CASE g # n
        <5>1. (g < folder' <=> g < folder) /\ (g >= folder' => g >= folder)
          BY <1>2, <2>1, <4>2 DEF n
        <5> QED BY <1>1, <1>2, <3>1, <3>2, <4>2, <5>1 DEF ReadSoFar
      <4> QED BY <4>1, <4>2
    <3>4. _max_processor' = MaxProcessor(host)' /\ folder' \in 1 .. 6
      BY <1>1, <1>2, <2>1 DEF ReadSoFar, MaxProcessor
    <3> QED BY <3>2, <3>3, <3>4 DEF ReadSoFar
  <2> QED BY <1>1, <1>2, <1>8, <2>1, <2>5 DEF MachineInv
<1> QED BY <1>9, <1>10

LEMMA FlagsStep ==
  ASSUME MachineInv,
         \/ parse_cpu_folders \/ FolderUnreadable \/ FoldersDone \/ resolve_workgroups
         \/ _read_cpuinfo \/ check_feature_flags \/ UNCHANGED flagsvars
  PROVE  MachineInv'
<1>0. MaxProcessor(host) \in Nat
  BY HighestProcessor DEF MachineInv
<1>1. CASE parse_cpu_folders
  <2> DEFINE size == MaxProcessor(host) + 1
  <2>1. /\ step = "start" /\ _max_processor' = MaxProcessor(host) /\ host' = host /\ folder' = folder
        /\ cpu_lists' = [f \in Range(_cpu_folders) |-> create_bitmap(size)]
        /\ step' = "folders" /\ cpu_info' = cpu_info /\ errno' = errno /\ outside' = outside
        /\ folder = 1 /\ cpu_info = <<>>
    BY <1>1 DEF parse_cpu_folders, MachineInv
  <2>2. Bitmap(create_bitmap(size), size, {})
    BY <1>0, EmptyBitmap
  <2>3. \A f \in 1 .. 5 : cpu_lists'[_cpu_folders[f]] = create_bitmap(size)
    BY <2>1, Folders
  <2>4. MaxProcessor(host)' = MaxProcessor(host) /\ _max_processor' + 1 = size
    BY <2>1 DEF MaxProcessor
  <2> HIDE DEF size
  <2>5. ReadSoFar'
    <3>1. \A f \in 1 .. 5 : ~ f < folder'
      BY <2>1
    <3>2. \A f \in 1 .. 5 : Bitmap(cpu_lists'[_cpu_folders[f]], _max_processor' + 1, {})
      BY <2>2, <2>3, <2>4
    <3>3. DOMAIN cpu_lists' = Range(_cpu_folders) /\ folder' \in 1 .. 6
      BY <2>1
    <3> QED BY <2>1, <2>4, <3>1, <3>2, <3>3 DEF ReadSoFar
  <2> QED BY <2>1, <2>5 DEF MachineInv
<1>2. CASE FolderUnreadable
  BY <1>2 DEF FolderUnreadable, MachineInv, ENOENT
<1>3. CASE FoldersDone
  <2>1. /\ step = "folders" /\ folder > 5 /\ host' = host /\ step' = "resolve"
        /\ cpu_info' = cpu_info /\ errno' = errno /\ outside' = outside /\ hwthreads' = hwthreads
    BY <1>3 DEF FoldersDone
  <2>2. ReadSoFar /\ 1 \in 1 .. 5 /\ 1 < folder /\ cpu_info = <<>>
    BY <2>1 DEF MachineInv, ReadSoFar
  <2>3. IdsOfFolder(1) \subseteq 0 .. _max_processor /\ host.folders["present"] # Unreadable
    BY <2>2, Folders DEF ReadSoFar
  <2>4. host.ids \subseteq IdsOfFolder(1)
    BY <2>3, Folders DEF MachineInv, Plain, IdsOfFolder
  <2>5. host.ids \subseteq 0 .. MaxProcessor(host)
    BY <2>2, <2>3, <2>4 DEF ReadSoFar
  <2>6. MaxProcessor(host)' = MaxProcessor(host)
    BY <2>1 DEF MaxProcessor
  <2> HIDE DEF MaxProcessor
  <2> QED BY <2>1, <2>2, <2>5, <2>6 DEF MachineInv
<1>4. CASE resolve_workgroups
  <2>1. /\ step = "resolve" /\ host' = host /\ step' = "flags" /\ cpu_info' = cpu_info
        /\ outside' = outside /\ errno' \in Nat /\ cpu_info = <<>>
        /\ \E n \in 1 .. 2 : hwthreads' \in [1 .. n -> host.ids]
    BY <1>4, ErrnoAssumption DEF resolve_workgroups, MachineInv
  <2>2. \E n \in Nat : hwthreads' \in [1 .. n -> host.ids]
    BY <2>1
  <2>3. MaxProcessor(host)' = MaxProcessor(host)
    BY <2>1 DEF MaxProcessor
  <2> QED BY <2>1, <2>2, <2>3 DEF MachineInv
<1>5. CASE _read_cpuinfo
  <2> DEFINE info == CpuInfo(host)
             miss == {i \in DOMAIN hwthreads :
                        /\ hwthreads[i] \in DOMAIN info
                        /\ ~ FlagsFound(info, flags, hwthreads[i])}
             seen == IF miss = {} THEN DOMAIN hwthreads ELSE 1 .. Min(miss)
  <2>1. /\ step = "flags" /\ host' = host /\ flags' = flags /\ hwthreads' = hwthreads
        /\ errno' = errno /\ step' = step /\ result' = IF miss = {} THEN 0 ELSE -EINVAL
        /\ outside' = (outside \/ \E i \in seen : hwthreads[i] \notin DOMAIN info)
    BY <1>5 DEF _read_cpuinfo
  <2>2. /\ ~ outside /\ Plain(host) /\ errno \in Nat
        /\ \E n \in Nat : hwthreads \in [1 .. n -> host.ids]
        /\ \A i \in DOMAIN hwthreads : hwthreads[i] \in host.ids
        /\ host.ids \subseteq 0 .. MaxProcessor(host)
    BY <2>1 DEF MachineInv
  <2>3. DOMAIN info = 0 .. MaxProcessor(host)
    BY DEF CpuInfo
  <2>4. \A h \in 0 .. MaxProcessor(host) : FlagsFound(info, flags, h) <=> flags \subseteq FlagsThere
    BY DEF CpuInfo, FlagsFound, FlagsThere
  <2> HIDE DEF info
  <2>5. \A i \in miss : ~ flags \subseteq FlagsThere
    BY <2>3, <2>4
  <2>6. \A i \in DOMAIN hwthreads : i \notin miss => flags \subseteq FlagsThere
    BY <2>2, <2>3, <2>4
  <2>7. MaxProcessor(host)' = MaxProcessor(host) /\ FlagsThere' = FlagsThere
    BY <2>1 DEF MaxProcessor, FlagsThere
  <2>8. \A i \in seen : i \in DOMAIN hwthreads
    <3>1. PICK n \in Nat : DOMAIN hwthreads = 1 .. n
      BY <2>2
    <3>2. CASE miss # {}
      <4>1. miss \in SUBSET (1 .. n) /\ miss \in SUBSET Nat
        BY <3>1
      <4> HIDE DEF miss
      <4>2. Min(miss) \in 1 .. n
        BY <3>2, <4>1, MinOf
      <4> HIDE DEF Min
      <4>3. seen = 1 .. Min(miss)
        BY <3>2
      <4> QED BY <3>1, <4>2, <4>3
    <3> QED BY <3>2
  <2>9. \A i \in seen : hwthreads[i] \in DOMAIN info
    BY <2>2, <2>3, <2>8
  <2> QED BY <2>1, <2>2, <2>5, <2>6, <2>7, <2>9 DEF MachineInv, Looked
<1>6. CASE check_feature_flags
  <2>1. /\ step = "flags" /\ cpu_info # <<>> /\ host' = host /\ flags' = flags
        /\ hwthreads' = hwthreads /\ cpu_info' = cpu_info /\ errno' = errno /\ result' = result
        /\ outside' = outside
        /\ step' = IF result # 0 /\ -errno < 0 THEN "stopped" ELSE "run"
    BY <1>6 DEF check_feature_flags
  <2>2. MaxProcessor(host)' = MaxProcessor(host) /\ FlagsThere' = FlagsThere
    BY <2>1 DEF MaxProcessor, FlagsThere
  <2>3. Looked' <=> Looked
    BY <2>1, <2>2 DEF Looked
  <2>4. /\ Looked /\ errno \in Nat /\ Plain(host) /\ ~ outside
        /\ \E n \in Nat : hwthreads \in [1 .. n -> host.ids]
        /\ host.ids \subseteq 0 .. MaxProcessor(host)
    BY <2>1 DEF MachineInv
  <2>5. CASE result # 0 /\ -errno < 0
    BY <2>1, <2>2, <2>3, <2>4, <2>5 DEF MachineInv
  <2>6. CASE ~ (result # 0 /\ -errno < 0)
    <3>1. step' = "run" /\ (result' = 0 \/ errno' = 0)
      BY <2>1, <2>4, <2>6
    <3> QED BY <2>1, <2>2, <2>3, <2>4, <3>1 DEF MachineInv
  <2> QED BY <2>5, <2>6
<1>7. CASE UNCHANGED flagsvars
  <2>1. /\ host' = host /\ flags' = flags /\ _max_processor' = _max_processor
        /\ cpu_lists' = cpu_lists /\ folder' = folder /\ hwthreads' = hwthreads
        /\ cpu_info' = cpu_info /\ errno' = errno /\ result' = result
        /\ outside' = outside /\ step' = step
    BY <1>7 DEF flagsvars
  <2>2. MaxProcessor(host)' = MaxProcessor(host) /\ FlagsThere' = FlagsThere
        /\ \A f : IdsOfFolder(f)' = IdsOfFolder(f)
    BY <2>1 DEF MaxProcessor, FlagsThere, IdsOfFolder
  <2>3. Looked' <=> Looked
    BY <2>1, <2>2 DEF Looked
  <2>4. ReadSoFar' <=> ReadSoFar
    BY <2>1, <2>2 DEF ReadSoFar
  <2> QED BY <2>1, <2>2, <2>3, <2>4 DEF MachineInv
<1> QED BY <1>1, <1>2, <1>3, <1>4, <1>5, <1>6, <1>7

LEMMA MachineKept ==
  ASSUME MachineInv, [FlagsNext]_flagsvars
  PROVE  MachineInv'
<1>1. \/ read_cpu_cores
      \/ parse_cpu_folders \/ FolderUnreadable \/ FoldersDone \/ resolve_workgroups
      \/ _read_cpuinfo \/ check_feature_flags \/ UNCHANGED flagsvars
  BY DEF FlagsNext, FlagsDone
<1> QED BY <1>1, FolderStep, FlagsStep

\* On every host that is Plain and however wide an element of a bitmap is, no
\* array is used beyond its end, the folders are in their bitmaps, and
\* a test runs or is refused according to the flags (parse_cpu_folders,
\* read_cpu_cores, _read_cpuinfo, check_feature_flags).
THEOREM ChecksBeforeRun ==
  ASSUME \A h \in Hosts : Plain(h)
  PROVE  FlagsSpec => []MachineChecked
<1>1. FlagsInit => MachineInv
  BY DEF FlagsInit, MachineInv
<1>2. MachineInv /\ [FlagsNext]_flagsvars => MachineInv'
  BY MachineKept
<1>3. MachineInv => MachineChecked
  BY ChecksMachine
<1> QED BY <1>1, <1>2, <1>3, PTL DEF FlagsSpec
=============================================================================
