-------------------------------- MODULE Map --------------------------------
(***************************************************************************)
(* The map of src/map.c: an array of entries and a hash table (GHash) from *)
(* keys to indices of the array.  Deleting leaves a hole in the array that *)
(* a later addition fills; users keep indices, so an entry stays where it  *)
(* is.  The functions exist for strings, bstrings and two integer types;   *)
(* an integer is handed to the hash table as a pointer, so that the key 0  *)
(* is the null pointer there.                                              *)
(*                                                                         *)
(* Indices are counted from 1.  Values are never NULL: no caller stores a  *)
(* NULL, and an entry without value counts as free.                        *)
(***************************************************************************)
EXTENDS GHash, Sequences

CONSTANTS
  Keys,
  ValuesOf,     \* key -> the values stored under it
  MaxSizes,     \* for max_size; without limit the code has -1, here 0
  NullKeys      \* keys whose pointer is NULL: the integer 0, or none

\* HashOf of GHash gives every key a number; NULL is neither key nor value.

VARIABLES
  tab,          \* ghash
  values,       \* values[0 .. size - 1]
  num_values,
  max_size,
  open,         \* between init_*map and destroy_*map
  dict          \* history: what the calls so far have made of the map

mapvars == <<tab, values, num_values, max_size, open, dict>>

Values == UNION {ValuesOf[k] : k \in Keys}

Hole == [key |-> NULL, value |-> NULL]

\* what the hash table says about k: its index or NULL
EntryIndex(k) == g_hash_table_lookup(tab, k)

Present(k) == EntryIndex(k) # NULL

\* get_*map_by_key
get_by_key(k) == IF Present(k) THEN values[EntryIndex(k)].value ELSE NULL

\* A search for k comes to an end.
Returns(k) == SearchEnds(tab, k)

Call == open /\ UNCHANGED <<open, max_size>>

-----------------------------------------------------------------------------

\* Mutant: the last entry is taken without a look at its value.
FreeIndexLast(vals) == Len(vals)

\* the last entry without a value
FreeIndex(vals) == Max({0} \cup {i \in DOMAIN vals : vals[i].value = NULL})

\* add_*map: the array grows by one only if it has no hole.
Add(k, v) ==
  /\ Call
  /\ Returns(k)
  /\ ~ Present(k)
  /\ num_values = Len(values) => ~ (max_size > 0 /\ Len(values) = max_size)
  /\ LET grown == IF num_values = Len(values) THEN Append(values, Hole)
                                              ELSE values
         idx   == FreeIndex(grown)
     IN  /\ values' = [grown EXCEPT ![idx] = [key |-> k, value |-> v]]
         /\ tab' = g_hash_table_insert(tab, k, idx)
  /\ num_values' = num_values + 1
  /\ dict' = [dict EXCEPT ![k] = v]

\* Mutant: the new value gets an entry of its own.
UpdateAnew(k, v) ==
  /\ Call
  /\ Returns(k)
  /\ num_values = Len(values)
  /\ Present(k)
  /\ values' = Append([values EXCEPT ![EntryIndex(k)] = Hole],
                      [key |-> k, value |-> v])
  /\ tab' = g_hash_table_insert(tab, k, Len(values) + 1)
  /\ dict' = [dict EXCEPT ![k] = v]
  /\ UNCHANGED num_values

\* update_*map: only in a map without holes
Update(k, v) ==
  /\ Call
  /\ Returns(k)
  /\ num_values = Len(values)
  /\ Present(k)
  /\ values' = [values EXCEPT ![EntryIndex(k)].value = v]
  /\ dict' = [dict EXCEPT ![k] = v]
  /\ UNCHANGED <<tab, num_values>>

\* del_*map: g_hash_table_remove ignores a null pointer.
Delete(k) ==
  /\ Call
  /\ Returns(k)
  /\ Present(k)
  /\ values' = [values EXCEPT ![EntryIndex(k)] = Hole]
  /\ tab' = IF k \in NullKeys THEN tab ELSE g_hash_table_remove(tab, k)
  /\ num_values' = num_values - 1
  /\ dict' = [dict EXCEPT ![k] = NULL]

\* destroy_*map
Destroy ==
  /\ open
  /\ open' = FALSE
  /\ tab' = g_hash_table_remove_all(tab)
  /\ values' = <<>>
  /\ num_values' = 0
  /\ dict' = [k \in Keys |-> NULL]
  /\ UNCHANGED max_size

\* _init_map: a map is created anew
Create ==
  /\ ~ open
  /\ open' = TRUE
  /\ tab' = g_hash_table_new_full
  /\ max_size' \in MaxSizes
  /\ UNCHANGED <<values, num_values, dict>>

MapInit ==
  /\ tab = g_hash_table_new_full
  /\ values = <<>>
  /\ num_values = 0
  /\ max_size \in MaxSizes
  /\ open = TRUE
  /\ dict = [k \in Keys |-> NULL]

MapNext ==
  \/ \E k \in Keys : \/ \E v \in ValuesOf[k] : Add(k, v) \/ Update(k, v)
                    \/ Delete(k)
  \/ Destroy \/ Create

MapSpec == MapInit /\ [][MapNext]_mapvars

-----------------------------------------------------------------------------
(* Properties.                                                             *)

\* Every search ends, that of a key that is not there included: between two
\* calls the table has an unused bucket and its probe sequences visit all
\* buckets, however many additions and deletions have left tombstones
\* (g_hash_table_lookup_node has no other way out of its loop).
SearchesEnd == open => \A k \in Keys : Returns(k)

\* The three counts of entries agree: the map's, the table's, the array's
\* (growing, resizing and the test of update_*map rely on them).
CountsAgree ==
  open =>
    /\ num_values = tab.nnodes
    /\ num_values = Cardinality({i \in DOMAIN values : values[i].value # NULL})
    /\ tab.noccupied = Cardinality({b \in Buckets(tab) :
                         tab.nodes[b].hash # UNUSED_HASH_VALUE})

\* The table leads from the key of every entry to that entry and from no
\* other key to any, so collisions, tombstones and resizing neither lose a
\* key nor make one appear twice; and the counts agree.
TableMatchesArray ==
  /\ open =>
       /\ \A i \in DOMAIN values :
            values[i].value # NULL => EntryIndex(values[i].key) = i
       /\ \A k \in Keys : Present(k) => values[EntryIndex(k)].key = k
  /\ CountsAgree

\* An entry keeps its index as long as it is there (add_*map, update_*map):
\* callers hold indices.
IndexStable ==
  [][\A k \in Keys : open /\ open' /\ Present(k) /\ Present(k)'
       => EntryIndex(k)' = EntryIndex(k)]_mapvars

\* get_*map_by_key returns what the last successful call for this key has
\* stored, and nothing after a deletion.
IsDictionary == open => \A k \in Keys : get_by_key(k) = dict[k]
=============================================================================
