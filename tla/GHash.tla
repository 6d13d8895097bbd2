------------------------------- MODULE GHash -------------------------------
(***************************************************************************)
(* The hash table of src/ghash.c: open addressing with tombstones,         *)
(* triangular probing and resizing.  A table is a record; an operation     *)
(* maps a table to a table.  The three arrays of the code are one function *)
(* from buckets to nodes [hash, key, value].  That keys and values share   *)
(* an array until a value differs from its key is not visible outside.     *)
(*                                                                         *)
(* Keys are opaque; HashOf gives their hash values and two keys are equal  *)
(* iff they are the same element (the equality functions compare contents).*)
(***************************************************************************)
EXTENDS Integers, FiniteSetsExt

CONSTANTS
  HASH_TABLE_MIN_SHIFT,   \* 3 in the code
  HashOf,                 \* hash_func: a function on all keys asked for
  NULL                    \* no key, no value

UNUSED_HASH_VALUE == 0
TOMBSTONE_HASH_VALUE == 1

\* the primes for tables of 2^0 .. 2^31 buckets
prime_mod ==
  [s \in 0 .. 31 |->
     <<1, 2, 3, 7, 13, 31, 61, 127, 251, 509, 1021, 2039, 4093, 8191,
       16381, 32749, 65521, 131071, 262139, 524287, 1048573, 2097143,
       4194301, 8388593, 16777213, 33554393, 67108859, 134217689,
       268435399, 536870909, 1073741789, 2147483647>>[s + 1]]

UnusedNode == [hash |-> UNUSED_HASH_VALUE, key |-> NULL, value |-> NULL]
Tombstone  == [hash |-> TOMBSTONE_HASH_VALUE, key |-> NULL, value |-> NULL]

IsReal(node) == node.hash >= 2

Buckets(t) == 0 .. t.size - 1

\* g_hash_table_set_shift on empty arrays
EmptyTable(shift) ==
  [size |-> 2 ^ shift, mod |-> prime_mod[shift], nnodes |-> 0, noccupied |-> 0,
   nodes |-> [i \in 0 .. 2 ^ shift - 1 |-> UnusedNode]]

g_hash_table_new_full == EmptyTable(HASH_TABLE_MIN_SHIFT)

\* number of bits of n
g_hash_table_find_closest_shift(n) == Min({i \in 0 .. n : n < 2 ^ i})

-----------------------------------------------------------------------------
(* Probing.                                                                *)

HashValue(k) == IF HashOf[k] < 2 THEN 2 ELSE HashOf[k]

\* The bucket looked at after i steps: step grows by one each time.
Probe(t, h, i) == ((h % t.mod) + (i * (i + 1)) \div 2) % t.size

\* Mutant: the search ends at a tombstone.
EndsSearchAtTombstone(t, k, b) ==
  \/ t.nodes[b].hash \in {UNUSED_HASH_VALUE, TOMBSTONE_HASH_VALUE}
  \/ t.nodes[b].hash = HashValue(k) /\ t.nodes[b].key = k

\* The search for k ends at bucket b.
EndsSearch(t, k, b) ==
  \/ t.nodes[b].hash = UNUSED_HASH_VALUE
  \/ t.nodes[b].hash = HashValue(k) /\ t.nodes[b].key = k

\* The search for k ends after i steps.  In a table of 2^n buckets the first
\* 2^n steps of a probe sequence visit every bucket, so later ones find
\* nothing new.
EndsAfter(t, k, i) ==
  /\ EndsSearch(t, k, Probe(t, HashValue(k), i))
  /\ \A j \in 0 .. i - 1 : ~ EndsSearch(t, k, Probe(t, HashValue(k), j))

SearchEnds(t, k) ==
  {} # {i \in 0 .. t.size - 1 : EndsSearch(t, k, Probe(t, HashValue(k), i))}

\* The bucket of k; if k is not there, the bucket an insertion may use.
g_hash_table_lookup_node(t, k) ==
  LET h      == HashValue(k)
      last   == CHOOSE i \in 0 .. t.size - 1 : EndsAfter(t, k, i)
      graves == {i \in 0 .. last - 1 :
                   t.nodes[Probe(t, h, i)].hash = TOMBSTONE_HASH_VALUE}
  IN  IF t.nodes[Probe(t, h, last)].hash # UNUSED_HASH_VALUE \/ graves = {}
      THEN Probe(t, h, last)
      ELSE Probe(t, h, Min(graves))

g_hash_table_lookup(t, k) ==
  LET node == t.nodes[g_hash_table_lookup_node(t, k)]
  IN  IF IsReal(node) THEN node.value ELSE NULL

\* The nodes in the order in which g_hash_table_foreach visits them
g_hash_table_foreach(t) == {b \in Buckets(t) : IsReal(t.nodes[b])}

-----------------------------------------------------------------------------
(* Changing a table.                                                       *)

\* The first unused bucket of the probe sequence.
FreeBucket(t, h) ==
  LET IsFree(i) == t.nodes[Probe(t, h, i)].hash = UNUSED_HASH_VALUE
  IN  Probe(t, h, CHOOSE i \in 0 .. t.size - 1 :
                    IsFree(i) /\ \A j \in 0 .. i - 1 : ~ IsFree(j))

Moved(t, node) ==
  IF IsReal(node) THEN [t EXCEPT !.nodes[FreeBucket(t, node.hash)] = node] ELSE t

\* the real nodes of t, in the order of their buckets, moved to the empty table
Rehashed(t, empty) ==
  LET moved[b \in 0 .. t.size] ==
        IF b = 0 THEN empty ELSE Moved(moved[b - 1], t.nodes[b - 1])
  IN  moved[t.size]

g_hash_table_resize(t) ==
  LET need  == g_hash_table_find_closest_shift(2 * (IF t.nnodes < 0
                                                    THEN 0 - t.nnodes
                                                    ELSE t.nnodes))
      empty == EmptyTable(Max({need, HASH_TABLE_MIN_SHIFT}))
  IN  [Rehashed(t, empty) EXCEPT !.nnodes = t.nnodes, !.noccupied = t.nnodes]

\* Mutant: tombstones are left out of the account.
g_hash_table_maybe_resize_by_nodes(t) ==
  IF \/ t.size > t.nnodes * 4 /\ t.size > 2 ^ HASH_TABLE_MIN_SHIFT
     \/ t.size <= t.nnodes + t.nnodes \div 16
  THEN g_hash_table_resize(t)
  ELSE t

g_hash_table_maybe_resize(t) ==
  IF \/ t.size > t.nnodes * 4 /\ t.size > 2 ^ HASH_TABLE_MIN_SHIFT
     \/ t.size <= t.noccupied + t.noccupied \div 16
  THEN g_hash_table_resize(t)
  ELSE t

\* Mutant: a reused tombstone is counted once more.
g_hash_table_insert_recounted(t, k, v) ==
  LET b     == g_hash_table_lookup_node(t, k)
      fresh == [t EXCEPT !.nodes[b] = [hash |-> HashValue(k), key |-> k,
                                       value |-> v],
                         !.nnodes = @ + 1, !.noccupied = @ + 1]
  IN  IF IsReal(t.nodes[b]) THEN [t EXCEPT !.nodes[b].value = v]
      ELSE g_hash_table_maybe_resize(fresh)

\* g_hash_table_insert_node at the bucket the lookup has found; the old key
\* of a node that exists is kept.
g_hash_table_insert(t, k, v) ==
  LET b     == g_hash_table_lookup_node(t, k)
      old   == t.nodes[b]
      fresh == [t EXCEPT !.nodes[b] = [hash |-> HashValue(k), key |-> k,
                                       value |-> v],
                         !.nnodes = @ + 1]
  IN  IF IsReal(old) THEN [t EXCEPT !.nodes[b].value = v]
      ELSE IF old.hash = UNUSED_HASH_VALUE
      THEN g_hash_table_maybe_resize([fresh EXCEPT !.noccupied = @ + 1])
      ELSE fresh

\* Whatever the lookup returns is removed, an unused bucket included.
g_hash_table_remove(t, k) ==
  [t EXCEPT !.nodes[g_hash_table_lookup_node(t, k)] = Tombstone,
            !.nnodes = @ - 1]

\* The real nodes become tombstones, the tombstones unused; the counters
\* are set to 0 before g_hash_table_remove_node counts down.
g_hash_table_remove_all(t) ==
  g_hash_table_maybe_resize(
    [t EXCEPT !.nodes = [b \in Buckets(t) |->
                           IF IsReal(@[b]) THEN Tombstone ELSE UnusedNode],
              !.nnodes = 0 - Cardinality(g_hash_table_foreach(t)),
              !.noccupied = 0])
=============================================================================
