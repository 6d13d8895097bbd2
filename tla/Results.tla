------------------------------ MODULE Results ------------------------------
(***************************************************************************)
(* The result stores and the numbers that are reported: fill_results and   *)
(* replace_all (src/results.c), the dimensions of manage_streams,          *)
(* update_results with its aggregation and update_table (src/workgroups.c).*)
(*                                                                         *)
(* A store maps names to texts, once for variables and once for values.    *)
(* The calculator is in Calculator: a metric is stored as the text it is   *)
(* given, an aggregate as the list of texts.                               *)
(***************************************************************************)
EXTENDS Texts, FiniteSets, TLC

CONSTANTS
  Benchmarks,  \* [groups, params, streams, vars, metrics]: threads of each group,
               \* parameters in bytes, [size, dims] of streams, [name, text] of
               \* variables, [name, tokens] of metrics
  HashOrder,   \* the order in which the maps are traversed
  Alphabet,    \* the stats as bstrListSort puts them
  Wild,        \* what an uninitialized size_t may hold
  MaxNumber    \* bound on the sizes in a benchmark

VARIABLES
  bench,     \* the benchmark that is run
  detailed,
  global,    \* runcfg->global_results
  group,     \* group -> its group_results
  thread,    \* <<group, thread>> -> its results
  dimsizes,  \* group -> size of each dimension of its streams, in bytes
  pc,
  done,      \* workgroups handled in this phase
  lists,     \* bgrp_values: for each key the texts of all threads so far
  table      \* the rows of the three tables

vars == <<bench, detailed, global, group, thread, dimsizes, pc, done, lists, table>>

(* A map of one entry, and two maps in one: the first has its entries.     *)
Entry(name, text) == [n \in {name} |-> text]
map ++ more ==
  [n \in DOMAIN map \cup DOMAIN more |-> IF n \in DOMAIN map THEN map[n] ELSE more[n]]

Numeral == [n \in 0 .. MaxNumber |-> ToString(n)]
Number(n) == <<Numeral[n]>>
Numbers == [x \in Range(Numeral) |-> CHOOSE n \in DOMAIN Numeral : Numeral[n] = x]

(* Different numbers are written differently. *)
ASSUME NumbersAssumption ==
  /\ MaxNumber \in Nat /\ Wild \subseteq 0 .. MaxNumber
  /\ \A n \in DOMAIN Numeral : Numbers[Numeral[n]] = n

(* What is not a number is read as 0. *)
strtoumax(text) == IF text # <<>> /\ text[1] \in DOMAIN Numbers THEN Numbers[text[1]] ELSE 0

(***************************************************************************)
(* Names the program defines.                                              *)
(***************************************************************************)
biterations == <<"ITER">>
bnumthreads == <<"N", "UM_THREADS">>
bgroupid == <<"GROUP_ID">>
bglobalid == <<"GLOBAL_ID">>
bthreadid == <<"THREAD_ID">>
bbytesperiter == <<"BYTES_PER_", "ITER">>
cycles == <<"cycles">>
freq == <<"freq">>
time == <<"time">>

_SizeOfStreamType ==
  Entry(<<"SIZEOF_SI", "N", "GLE">>, Number(4)) ++ Entry(<<"SIZEOF_DOUBLE">>, Number(8))
    ++ Entry(<<"SIZEOF_I", "N", "T">>, Number(4)) ++ Entry(<<"SIZEOF_HALF">>, Number(2))
    ++ Entry(<<"SIZEOF_I", "N", "T", "64">>, Number(8))

ASSUME AlphabetAssumption == Alphabet = <<cycles, freq, time>>

(* A benchmark has workgroups with threads; its metrics have names of      *)
(* their own.                                                              *)
ASSUME BenchmarksAssumption ==
  \A b \in Benchmarks :
    /\ b.groups \in Seq(Nat \ {0}) /\ b.groups # <<>>
    /\ b.streams \in Seq([size : Nat \ {0}, dims : Seq(Seq(STRING))])
    /\ b.metrics \in Seq([name : Seq(STRING) \ {cycles, freq, time}, tokens : Seq(Seq(STRING))])

(* Names can be told apart: none is in a number, and no other name is in   *)
(* that of a dimension, as N is in NUM_THREADS.                            *)
ASSUME NamesAssumption ==
  /\ HashOrder \in Seq(Seq(STRING))
  /\ \A name \in Range(HashOrder), n \in DOMAIN Numeral : ~ binstr(Number(n), name)
  /\ \A b \in Benchmarks : \A s \in Index(b.streams) : \A d \in Range(b.streams[s].dims) :
       /\ d # <<>> /\ d[1] \notin DOMAIN Numbers /\ d # bbytesperiter
       /\ \A name \in Range(HashOrder) \ {d} : ~ binstr(d, name)

bstats == IF detailed THEN {cycles, freq, time} ELSE {time}
aggregations == {"min", "max", "sum", "median"}

Members(b, w) == {<<w, t>> : t \in 0 .. b.groups[w] - 1}
Groups(b) == Index(b.groups)
AllThreads(b) == UNION {Members(b, w) : w \in Groups(b)}
Visited(b, w) == [i \in 1 .. b.groups[w] |-> <<w, i - 1>>]
Total(b, w) == FoldLeft(LAMBDA n, m : n + m, 0, SubSeq(b.groups, 1, w))

-----------------------------------------------------------------------------
(***************************************************************************)
(* Stores.                                                                 *)
(***************************************************************************)
init_result == [variables |-> <<>>, values |-> <<>>]

(* add_variable and add_value keep what is there: -EEXIST. *)
add_variable(r, name, text) == [r EXCEPT !.variables = @ ++ Entry(name, text)]
add_value(r, name, text) == [r EXCEPT !.values = @ ++ Entry(name, text)]
add_variables(r, map) == [r EXCEPT !.variables = @ ++ map]

(* update_variable and update_value change only what is there: -ENOENT. *)
update_variable(r, name, text) ==
  IF name \in DOMAIN r.variables THEN [r EXCEPT !.variables[name] = text] ELSE r
update_value(r, name, text) ==
  IF name \in DOMAIN r.values THEN [r EXCEPT !.values[name] = text] ELSE r

(***************************************************************************)
(* Replacement in formulas.                                                *)
(***************************************************************************)
(* The keys of a map in the order in which they are come upon.             *)
Listed(order, keys) ==
  FoldLeft(LAMBDA list, k : IF k \in keys THEN Append(list, k) ELSE list, <<>>, order)

foreach_in_bmap(map, text) ==
  FoldLeft(LAMBDA t, name : bfindreplace(t, name, map[name]), text,
           Listed(HashOrder, DOMAIN map))

replace_all(r, text) == foreach_in_bmap(r.values, foreach_in_bmap(r.variables, text))

-----------------------------------------------------------------------------
(***************************************************************************)
(* fill_results.  add_variable keeps the first of two definitions.         *)
(***************************************************************************)
Params(b) ==
  [n \in {p \in DOMAIN b.params : \E s \in Index(b.streams) : Contains(b.streams[s].dims, p)}
     |-> Number(b.params[n])]

(* The first definition of a name stays. *)
Variables(b) ==
  FoldLeft(LAMBDA map, v : map ++ Entry(v.name, v.text), <<>>, b.vars)

GlobalFilled(b) ==
  add_variables(global, Params(b) ++ Variables(b)
    ++ Entry(bnumthreads, Number(Total(b, Len(b.groups)))) ++ _SizeOfStreamType)

GroupFilled(b, w) ==
  add_variables(group[w],
    Entry(bnumthreads, Number(b.groups[w])) ++ Entry(bgroupid, Number(w - 1)))

ThreadFilled(b, g) ==
  add_variables(thread[g], Params(b) ++ Entry(biterations, Number(0)) ++ Variables(b)
    ++ Entry(bnumthreads, Number(b.groups[g[1]])) ++ Entry(bgroupid, Number(g[1] - 1))
    ++ Entry(bglobalid, Number(Total(b, g[1] - 1) + g[2])) ++ Entry(bthreadid, Number(g[2])))

(***************************************************************************)
(* Sizes are rounded down to whole iterations of all threads.  The         *)
(* conditions of bitmask.h return -EINVAL, which counts as true.           *)
(***************************************************************************)
PowersOfTwo == {2 ^ n : n \in 0 .. 20}
EINVAL == 22

is_multipleof_pow2(in, nbits) ==
  IF nbits \notin PowersOfTwo THEN -EINVAL ELSE IF in % nbits = 0 THEN 1 ELSE 0

is_multipleof_nbits(in, nbits) ==
  IF nbits = 0 THEN -EINVAL ELSE IF in % nbits = 0 THEN 1 ELSE 0

rounddown_nbits_pow2(in, nbits) == IF nbits \notin PowersOfTwo THEN in ELSE in - (in % nbits)
rounddown_nbits(in, nbits) == IF nbits = 0 THEN in ELSE (in \div nbits) * nbits

Rounded_Invalid(in, factor) ==
  IF factor = 0 \/ in % factor = 0 THEN in
  ELSE IF is_multipleof_pow2(in, factor) # 1 THEN rounddown_nbits_pow2(in, factor)
  ELSE rounddown_nbits(in, factor)

Rounded(in, factor) ==
  IF factor = 0 \/ in % factor = 0 THEN in
  ELSE IF is_multipleof_pow2(in, factor) = 0 THEN rounddown_nbits_pow2(in, factor)
  ELSE IF is_multipleof_nbits(in, factor) = 0 THEN rounddown_nbits(in, factor)
  ELSE in

(* A variable that does not exist leaves the caller's size as it is: wild. *)
get_variable(r, name, wild) ==
  IF name \in DOMAIN r.variables THEN strtoumax(r.variables[name]) ELSE wild

(* One dimension of a stream for all threads of a group; the global size   *)
(* is that of the last thread.                                             *)
RoundDimension(b, wild, acc, w, s, dim) ==
  LET bytesperiter == get_variable(acc.thread[<<w, 0>>], bbytesperiter, wild)
      factor == bytesperiter * b.groups[w] * b.streams[s].size
      elems == [g \in Members(b, w) |->
                  Rounded(get_variable(acc.thread[g], dim, wild), factor)]
      Text(g) == Number(elems[g])
  IN  IF ~acc.ok \/ \E g \in Members(b, w) : elems[g] = 0
      THEN [acc EXCEPT !.ok = FALSE]
      ELSE [ok |-> TRUE,
            thread |-> [g \in DOMAIN acc.thread |->
                          IF g \in Members(b, w)
                          THEN update_variable(acc.thread[g], dim, Text(g))
                          ELSE acc.thread[g]],
            global |-> update_variable(acc.global, dim, Text(<<w, b.groups[w] - 1>>))]

AllRounded(b, wild, filled) ==
  LET Stream(w, acc, s) == FoldLeft(LAMBDA a, d : RoundDimension(b, wild, a, w, s, d),
                                    acc, b.streams[s].dims)
      OfGroup(acc, w) == FoldLeft(LAMBDA a, s : Stream(w, a, s), acc,
                                  [s \in Index(b.streams) |-> s])
  IN  FoldLeft(OfGroup, filled, [w \in Groups(b) |-> w])

fill_results ==
  /\ pc = "fill"
  /\ \E wild \in Wild :
       LET rounded == AllRounded(bench, wild,
                        [ok |-> TRUE, global |-> GlobalFilled(bench),
                         thread |-> [g \in DOMAIN thread |-> ThreadFilled(bench, g)]])
       IN  /\ global' = rounded.global
           /\ thread' = rounded.thread
           /\ pc' = IF rounded.ok THEN "streams" ELSE "refused"
  /\ group' = [w \in Groups(bench) |-> GroupFilled(bench, w)]
  /\ UNCHANGED <<bench, detailed, dimsizes, done, lists, table>>

(* The sizes of a group's streams are those in the global store. *)
manage_streams ==
  /\ pc = "streams"
  /\ LET w == done + 1
         dims == UNION {Range(bench.streams[s].dims) : s \in Index(bench.streams)}
         size == [d \in dims |-> strtoumax(replace_all(global, d))]
     IN  IF \E d \in dims : size[d] = 0
         THEN pc' = "refused" /\ UNCHANGED <<dimsizes, done>>
         ELSE /\ dimsizes' = [dimsizes EXCEPT ![w] = size]
              /\ done' = IF w = Len(bench.groups) THEN 0 ELSE w
              /\ pc' = IF w = Len(bench.groups) THEN "iterations" ELSE pc
  /\ UNCHANGED <<bench, detailed, global, group, thread, lists, table>>

-----------------------------------------------------------------------------
(***************************************************************************)
(* update_results, after the threads have run.  What a thread measures is  *)
(* known by the thread it belongs to.                                      *)
(***************************************************************************)
Measured(what, g) == <<what \o ToString(g)>>

(* collect_keys takes the values of the first thread of the first group. *)
bkeys_unsorted == Listed(HashOrder, DOMAIN thread[<<1, 0>>].values)
bkeys_sorted == Listed(Alphabet, DOMAIN thread[<<1, 0>>].values)

(* values[], by position. *)
StatValues(g) ==
  IF detailed
  THEN <<Measured("cycles", g), Measured("freq", g), Measured("time", g)>>
  ELSE <<Measured("time", g)>>

update_iterations ==
  /\ pc = "iterations"
  /\ thread' = [g \in DOMAIN thread |->
                  update_variable(thread[g], biterations, Measured("iters", g))]
  /\ lists' = [k \in Range(bkeys_sorted) \cup {m.name : m \in Range(bench.metrics)} |-> <<>>]
  /\ pc' = "group"
  /\ UNCHANGED <<bench, detailed, global, group, dimsizes, done, table>>

Formula(b, r, m) ==
  replace_all(r, replace_all(global, ReplaceKeys(b.vars, FlattenSeq(m.tokens))))

(* A text with a name left in it is an error of the calculator; what has   *)
(* not been set is stored then.                                            *)
Letters == UNION {Range(n) : n \in Range(HashOrder)} \ DOMAIN Numbers
calculator_calc(text) == IF Range(text) \cap Letters = {} THEN text ELSE <<"uninitialized">>

WithStats(r, g) ==
  FoldLeft(LAMBDA q, i : update_value(q, bkeys_sorted[i], StatValues(g)[i]), r,
           [i \in Index(bkeys_sorted) |-> i])

ThreadUpdated(g) ==
  FoldLeft(LAMBDA r, m : add_value(r, m.name, calculator_calc(Formula(bench, r, m))),
           WithStats(thread[g], g), bench.metrics)

Aggregate(a, texts) ==
  <<a, "(">> \o FlattenSeq([i \in Index(texts) |-> texts[i] \o <<",">>]) \o <<")">>

AggregateNames(keys) == {key \o <<a>> : key \in keys, a \in aggregations}

Aggregates(values) ==
  [x \in AggregateNames(DOMAIN values) |-> Aggregate(Last(x), values[Front(x)])]

_aggregate_results(r, values) == [r EXCEPT !.values = @ ++ Aggregates(values)]

(* bvalues, made anew for each group. *)
GroupLists_Kept(updated, w) ==
  [k \in DOMAIN lists |->
     lists[k] \o [i \in 1 .. bench.groups[w] |-> updated[Visited(bench, w)[i]].values[k]]]

GroupLists(updated, w) ==
  [k \in DOMAIN lists |->
     [i \in 1 .. bench.groups[w] |-> updated[Visited(bench, w)[i]].values[k]]]

update_group ==
  /\ pc = "group"
  /\ LET w == done + 1
         updated == [g \in Members(bench, w) |-> ThreadUpdated(g)]
         values == GroupLists(updated, w)
     IN  /\ thread' = updated ++ thread
         /\ group' = [group EXCEPT ![w] = _aggregate_results(@, values)]
         /\ lists' = [k \in DOMAIN lists |-> lists[k] \o values[k]]
         /\ done' = w
         /\ pc' = IF w = Len(bench.groups) THEN "global" ELSE pc
  /\ UNCHANGED <<bench, detailed, global, dimsizes, table>>

update_global ==
  /\ pc = "global"
  /\ global' = _aggregate_results(global, lists)
  /\ pc' = "table"
  /\ UNCHANGED <<bench, detailed, group, thread, dimsizes, done, lists, table>>

-----------------------------------------------------------------------------
(***************************************************************************)
(* update_table.  The columns are the values of the first thread, of the   *)
(* first group and of the global store, and the ids; a row that lacks a    *)
(* cell is refused by table_addrow.                                        *)
(***************************************************************************)
ThreadIds == {bthreadid, bgroupid, bglobalid, bnumthreads}
GroupIds == {bgroupid, bnumthreads}
GlobalIds_Copied == {bgroupid, bnumthreads}
GlobalIds == {bnumthreads}

Row(r, ids) ==
  [c \in ids \cap DOMAIN r.variables |-> r.variables[c]]
    ++ [c \in DOMAIN r.values \ ids |-> r.values[c]]

table_addrow(rows, columns, row) == IF DOMAIN row = columns THEN Append(rows, row) ELSE rows

Rows(stores, columns, ids) ==
  LET Cells(r) == Restrict(Row(r, ids), columns \cap DOMAIN Row(r, ids))
  IN  FoldLeft(LAMBDA rows, r : table_addrow(rows, columns, Cells(r)), <<>>, stores)

update_table ==
  LET all == FlattenSeq([w \in Groups(bench) |-> Visited(bench, w)])
      Columns(r, ids) == DOMAIN r.values \cup ids
  IN  /\ pc = "table"
      /\ table' =
           [thread |-> Rows([i \in Index(all) |-> thread[all[i]]],
                            Columns(thread[<<1, 0>>], ThreadIds), ThreadIds),
            group |-> Rows(group, Columns(group[1], GroupIds), GroupIds),
            global |-> Rows(<<global>>, Columns(global, GlobalIds), GlobalIds)]
      /\ pc' = "done"
      /\ UNCHANGED <<bench, detailed, global, group, thread, dimsizes, done, lists>>

-----------------------------------------------------------------------------
Init ==
  /\ bench \in Benchmarks
  /\ detailed \in BOOLEAN
  /\ global = init_result
  /\ group = [w \in Groups(bench) |-> init_result]
  /\ thread = [g \in AllThreads(bench) |->
                 [init_result EXCEPT !.values = [k \in bstats |-> Number(0)]]]
  /\ dimsizes = [w \in Groups(bench) |-> <<>>]
  /\ pc = "fill"
  /\ done = 0
  /\ lists = <<>>
  /\ table = <<>>

Next ==
  \/ fill_results \/ manage_streams \/ update_iterations
  \/ update_group \/ update_global \/ update_table

Spec == Init /\ [][Next]_vars

-----------------------------------------------------------------------------
(***************************************************************************)
(* What the numbers must be.                                               *)
(***************************************************************************)
HaveStreams == pc \notin {"fill", "streams", "refused"}
Updated(g) == pc \in {"global", "table", "done"} \/ (pc = "group" /\ g[1] <= done)

(* The part of every thread is a whole number of iterations of the kernel, *)
(* which fill_results rounds sizes for: the unrolled loop leaves nothing   *)
(* out and does not run past the end.  The size that counts is the one     *)
(* rounded for the last workgroup, so this is said of workgroups with as   *)
(* many threads as that one.                                               *)
WholeIterations ==
  HaveStreams =>
    \A w \in {v \in Groups(bench) : bench.groups[v] = Last(bench.groups)} :
      LET known == Variables(bench)
          step  == IF bbytesperiter \in DOMAIN known
                   THEN strtoumax(known[bbytesperiter]) * bench.groups[w] ELSE 0
      IN  step > 0 => \A d \in DOMAIN dimsizes[w] : dimsizes[w][d] % step = 0

(* What a name in a metric stands for: what its thread measured, the size  *)
(* of the arrays it worked on and the threads that shared them.            *)
OwnValues(g) ==
  [d \in DOMAIN dimsizes[g[1]] |-> Number(dimsizes[g[1]][d])] ++ Variables(bench)
    ++ Entry(bnumthreads, Number(bench.groups[g[1]])) ++ Entry(biterations, Measured("iters", g))
    ++ Entry(time, Measured("time", g)) ++ _SizeOfStreamType

(* Every metric of a thread is computed from the thread's own work, after  *)
(* the replacements of update_results over three stores.                   *)
MetricsOfOwnWork ==
  \A g \in DOMAIN thread : Updated(g) =>
    \A m \in Range(bench.metrics) :
      LET own == OwnValues(g)
          Meaning(token) == IF token \in DOMAIN own THEN own[token] ELSE token
      IN  thread[g].values[m.name] = FlattenSeq([i \in Index(m.tokens) |-> Meaning(m.tokens[i])])

(* Each stat holds what the thread measured under that name, although      *)
(* update_results matches names with values by their position.             *)
StatsInPlace ==
  \A g \in DOMAIN thread : Updated(g) =>
    /\ thread[g].values[time] = Measured("time", g)
    /\ detailed => /\ thread[g].values[cycles] = Measured("cycles", g)
                   /\ thread[g].values[freq] = Measured("freq", g)

TextsOf(threads, k) == [i \in Index(threads) |-> thread[threads[i]].values[k]]

(* The aggregates of a group are over its own threads, each counted once,  *)
(* and the global ones over the threads of all groups.                     *)
AggregatesComplete ==
  \A k \in DOMAIN lists, a \in aggregations :
    /\ \A w \in Groups(bench) : Updated(<<w, 0>>) =>
         group[w].values[k \o <<a>>] = Aggregate(a, TextsOf(Visited(bench, w), k))
    /\ pc \in {"table", "done"} =>
         global.values[k \o <<a>>] =
           Aggregate(a, FlattenSeq([w \in Groups(bench) |-> TextsOf(Visited(bench, w), k)]))

(* Every thread, every group and the whole run have their row in the       *)
(* tables, with every value that was computed for them.                    *)
RowsComplete ==
  pc = "done" =>
    /\ Len(table.thread) = Cardinality(DOMAIN thread)
    /\ Len(table.group) = Len(bench.groups)
    /\ Len(table.global) = 1
    /\ \A g \in DOMAIN thread :
         Row(thread[g], ThreadIds) = table.thread[Total(bench, g[1] - 1) + g[2] + 1]
    /\ \A w \in Groups(bench) : Row(group[w], GroupIds) = table.group[w]

\* What the threads measured is stored under its name, aggregated once over
\* each group and over all threads, and shown in the three tables with all
\* that was computed (update_results, _aggregate_results, update_table).
EveryNumberInPlace == StatsInPlace /\ AggregatesComplete /\ RowsComplete
=============================================================================
