----------------------------- MODULE HwThreads -----------------------------
(***************************************************************************)
(* What src/topology.c knows about the hardware threads: the table read    *)
(* from sysfs, its orders and the lists of a domain's threads.             *)
(*                                                                         *)
(* A machine is what sysfs and the scheduler say of it:                    *)
(*   cpus      a function on the ids of the folders cpu0, cpu1, ...        *)
(*   online    the entries of the file cpu/online                          *)
(*   affinity  the ids the process may run on                              *)
(* A list of ids in a file is a sequence of entries, <<s>> for "s" and     *)
(* <<s, e>> for "s-e".                                                     *)
(***************************************************************************)
EXTENDS Integers, SequencesExt

ENODEV == 19
EINVAL == 22

Covers(entry, id) ==
  IF Len(entry) = 1 THEN entry[1] = id ELSE entry[1] <= id /\ id <= entry[2]

hwthread_online(m, os_id) == \E e \in Range(m.online) : Covers(e, os_id)

\* Mutant: the id is looked for among all threads, not among the siblings.
hwthread_smt_id_Any(m, os_id) == os_id % 2

\* The place of the thread among its siblings.  Only an entry of one id is
\* compared; with a range the id stays -1.
hwthread_smt_id(m, os_id) ==
  LET siblings == m.cpus[os_id].siblings
      here     == {i \in DOMAIN siblings : siblings[i] = <<os_id>>}
  IN  IF here = {} THEN -1 ELSE Min(here) - 1

\* The id of the first cache of the level, 0 if there is none.
hwthread_cache_id(m, os_id, level) ==
  LET caches == m.cpus[os_id].caches
      hits   == {i \in DOMAIN caches : caches[i].level = level}
  IN  IF hits = {} THEN 0 ELSE caches[Min(hits)].id

read_hwthread_data(m, os_id) ==
  IF os_id \notin DOMAIN m.cpus
  THEN [smt |-> 0, core |-> 0, die |-> 0, socket |-> 0, numa |-> 0,
        l1 |-> 0, l2 |-> 0, llc |-> 0]
  ELSE LET c == m.cpus[os_id]
       IN  [smt |-> hwthread_smt_id(m, os_id), core |-> c.core, die |-> c.die,
            socket |-> c.package, numa |-> IF c.nodes = {} THEN 0 ELSE Min(c.nodes),
            l1 |-> hwthread_cache_id(m, os_id, 1),
            l2 |-> hwthread_cache_id(m, os_id, 2),
            llc |-> hwthread_cache_id(m, os_id, 3)]

\* check_hwthreads_count: the highest id that has a folder
MaxOsId(m) == Max(DOMAIN m.cpus)

\* check_hwthreads: an entry for each id up to the highest, also for those
\* without a folder.
check_hwthreads(m) ==
  [i \in 1 .. MaxOsId(m) + 1 |->
     LET cur == read_hwthread_data(m, i - 1)
     IN  [os |-> i - 1, usable |-> i - 1 \in m.affinity /\ hwthread_online(m, i - 1),
          smt |-> cur.smt, core |-> cur.core, die |-> cur.die, socket |-> cur.socket,
          numa |-> cur.numa, l1 |-> cur.l1, l2 |-> cur.l2, llc |-> cur.llc]]

getHwThread(hw, os_id) == os_id \in {hw[i].os : i \in DOMAIN hw}

\* The elements of a list that are at the places, in their order.
AtPlaces(list, places) ==
  [n \in 1 .. Cardinality(places) |->
     list[CHOOSE i \in places : Cardinality({j \in places : j <= i}) = n]]

-----------------------------------------------------------------------------
(* Orders.                                                                 *)

\* most significant key first
SortKeys(closed) ==
  IF closed = 0
  THEN <<"socket", "die", "numa", "llc", "l2", "l1", "core", "smt", "os">>
  ELSE <<"smt", "socket", "die", "numa", "llc", "l2", "l1", "core", "os">>

\* Mutant: elements of the same key are placed from the front, below each other.
PlaceUnstable(list, key, i) ==
  Cardinality({j \in DOMAIN list : list[j][key] < list[i][key]})
    + Cardinality({j \in i .. Len(list) : list[j][key] = list[i][key]})

\* The place of element i after counting: behind all smaller ones and behind
\* those equal to it that come before it.
Place(list, key, i) ==
  Cardinality({j \in DOMAIN list : list[j][key] < list[i][key]})
    + Cardinality({j \in 1 .. i : list[j][key] = list[i][key]})

\* every element at its place
Placed(key, list) ==
  [p \in DOMAIN list |-> list[CHOOSE i \in DOMAIN list : Place(list, key, i) = p]]

\* one level of _hwthreads_sort (as a concatenation TLC evaluates it once)
CountingSort(key, list) == <<>> \o Placed(key, list)

\* the levels from the least significant key to the most significant one
_hwthreads_sort(hw, closed) ==
  LET By(n, list) == CountingSort(SortKeys(closed)[n], list)
  IN  By(1, By(2, By(3, By(4, By(5, By(6, By(7, By(8, By(9, hw)))))))))

-----------------------------------------------------------------------------
(* Domains.                                                                *)

BelongsTo(t, domain, idx) ==
  CASE domain = "S" -> t.socket = idx
    [] domain = "M" -> t.numa = idx
    [] domain = "D" -> t.die = idx

\* Mutant: one of the two orders lists threads that cannot be used.
DomainThreadsAll(hw, domain, idx, closed) ==
  LET all == _hwthreads_sort(hw, closed)
      ofDomain == AtPlaces(all, {i \in DOMAIN all :
                                   /\ BelongsTo(all[i], domain, idx)
                                   /\ all[i].usable \/ closed = 0})
  IN  [i \in DOMAIN ofDomain |-> ofDomain[i].os]

\* _hwthread_list_for_socket, _for_numa_domain and _for_cpu_die: the ids of
\* the usable threads; none is -ENODEV.
DomainThreads(hw, domain, idx, closed) ==
  LET all == _hwthreads_sort(hw, closed)
      ofDomain == AtPlaces(all, {i \in DOMAIN all :
                                   BelongsTo(all[i], domain, idx) /\ all[i].usable})
  IN  [i \in DOMAIN ofDomain |-> ofDomain[i].os]

\* Domain N of an expression: all threads.
AllThreads(hw) ==
  LET all == _hwthreads_sort(hw, 0)
  IN  [i \in DOMAIN all |-> all[i].os]

\* Domain N of a logical list: all threads, one SMT level after the other.
AllThreadsBySmt(hw) ==
  LET maxSmtId == Max({0} \cup {hw[i].smt : i \in DOMAIN hw})
      all == _hwthreads_sort(hw, 1)
      ofLevel(t) == AtPlaces(all, {i \in DOMAIN all : all[i].smt = t})
      levels == FlattenSeq([t \in 1 .. maxSmtId + 1 |-> ofLevel(t - 1)])
  IN  [i \in DOMAIN levels |-> levels[i].os]

-----------------------------------------------------------------------------
(* What files can say.                                                     *)

IsEntries(entries, S) ==
  entries \in Seq(Seq(S)) /\ \A n \in 1 .. Len(entries) : Len(entries[n]) \in {1, 2}

\* Folders for finitely many threads, and numbers in the files.
Sysfs(m) ==
  /\ \E last \in DOMAIN m.cpus : last \in Nat /\ DOMAIN m.cpus \subseteq 0 .. last
  /\ \A t \in DOMAIN m.cpus :
       LET c == m.cpus[t]
       IN  /\ c.core \in Int /\ c.die \in Int /\ c.package \in Int
           /\ c.nodes \subseteq Nat
           /\ Len(c.siblings) \in Nat /\ Len(c.caches) \in Nat
           /\ DOMAIN c.siblings = 1 .. Len(c.siblings)
           /\ DOMAIN c.caches = 1 .. Len(c.caches)
           /\ \A i \in DOMAIN c.caches : c.caches[i].id \in Int

\* A machine whose ids have no gaps, whose threads are in one NUMA domain
\* each, and for which sysfs lists the siblings of a thread by single ids in
\* ascending order.
Ordinary(m) ==
  /\ Sysfs(m)
  /\ DOMAIN m.cpus = 0 .. MaxOsId(m)
  /\ \A t \in DOMAIN m.cpus :
       LET c == m.cpus[t]
           place == Cardinality({u \in DOMAIN m.cpus :
                      u < t /\ m.cpus[u].package = c.package /\ m.cpus[u].core = c.core})
       IN  /\ c.package \in Nat /\ c.die \in Nat
           /\ \E node \in c.nodes : node \in Nat /\ c.nodes = {node}
           /\ place + 1 \in DOMAIN c.siblings
           /\ \A i \in DOMAIN c.siblings : c.siblings[i] = <<t>> <=> i = place + 1
=============================================================================
