---------------------------- MODULE ResultProofs ----------------------------
(***************************************************************************)
(* What is proved of Results, for every kernel, every division into        *)
(* workgroups and every number of threads: every number it computes is     *)
(* stored where the tables read it, and what it says of iterations and     *)
(* sizes is whole.                                                         *)
(*                                                                         *)
(* update_results goes over its lists in loops, which the model writes as  *)
(* folds. A fold is taken step by step (FoldSteps): what its step keeps    *)
(* of a store holds of the result. So the stores of the threads, of the    *)
(* groups and of all of them are followed through what fills them, key by  *)
(* key; and the sizes of the streams through the rounding, which replaces  *)
(* the names of the dimensions in the formula of a kernel by their sizes.  *)
(***************************************************************************)
EXTENDS Results, Recursion, FiniteSetTheorems

-----------------------------------------------------------------------------
(* Flattening.                                                             *)

LEMMA FlattenNone ==
  FlattenSeq(<<>>) = <<>>
BY DEF FlattenSeq

\* The function FlattenSeq takes its result from.
LEMMA FlattenFunction ==
  ASSUME NEW n \in Nat \ {0}, NEW seqs, Len(seqs) = n
  PROVE  \E f : FlattenSeq(seqs) = f[n] /\ IsFlatten(f, seqs, n)
<1> DEFINE g == CHOOSE f : IsFlatten(f, seqs, n)
<1>1. IsFlatten(g, seqs, n)
  BY FlattenRecursion, Zenon
<1>2. FlattenSeq(seqs) = g[n]
  <2>1. FlattenSeq(seqs) = LET flatten[i \in 1 .. Len(seqs)] ==
                                 IF i = 1 THEN seqs[i] ELSE flatten[i - 1] \o seqs[i]
                           IN  flatten[Len(seqs)]
    BY DEF FlattenSeq
  <2> QED BY <2>1, Zenon DEF IsFlatten
<1> QED BY <1>1, <1>2, Zenon

LEMMA FlattenNext ==
  ASSUME NEW S, NEW n \in Nat, NEW seqs \in [1 .. n + 1 -> Seq(S)]
  PROVE  FlattenSeq(seqs) = FlattenSeq([i \in 1 .. n |-> seqs[i]]) \o seqs[n + 1]
<1> DEFINE less == [i \in 1 .. n |-> seqs[i]]
<1>1. /\ seqs \in Seq(Seq(S)) /\ Len(seqs) = n + 1 /\ less \in Seq(Seq(S)) /\ Len(less) = n
      /\ \A i \in 1 .. n : less[i] = seqs[i]
  OBVIOUS
<1>2. n + 1 \in Nat \ {0}
  OBVIOUS
<1>3. PICK f : FlattenSeq(seqs) = f[n + 1] /\ IsFlatten(f, seqs, n + 1)
  BY <1>1, <1>2, FlattenFunction
<1>4. \A i \in 1 .. n + 1 : f[i] = IF i = 1 THEN seqs[i] ELSE f[i - 1] \o seqs[i]
  BY <1>3, Zenon DEF IsFlatten
<1> HIDE DEF less
<1>5. CASE n = 0
  <2>1. less = <<>>
    BY <1>1, <1>5
  <2>2. FlattenSeq(less) = <<>>
    BY <2>1, FlattenNone
  <2>3. seqs[n + 1] \in Seq(S) /\ 1 \in 1 .. n + 1
    BY <1>2
  <2>4. f[n + 1] = seqs[n + 1]
    BY <1>4, <1>5, <2>3
  <2>5. <<>> \o seqs[n + 1] = seqs[n + 1]
    BY <2>3
  <2> QED BY <1>3, <2>2, <2>4, <2>5 DEF less
<1>6. CASE n # 0
  <2>1. PICK g : FlattenSeq(less) = g[n] /\ IsFlatten(g, less, n)
    BY <1>1, <1>6, FlattenFunction
  <2>2. \A i \in 1 .. n : g[i] = IF i = 1 THEN less[i] ELSE g[i - 1] \o less[i]
    BY <2>1, Zenon DEF IsFlatten
  <2> DEFINE Good == {k \in 0 .. n : k = 0 \/ f[k] = g[k]}
  <2>3. 0 \in Good
    OBVIOUS
  <2>4. ASSUME NEW k \in 1 .. n, k - 1 \in Good
        PROVE  k \in Good
    <3>1. k \in 1 .. n + 1 /\ less[k] = seqs[k] /\ k \in 0 .. n
      BY <1>1
    <3>2. f[k] = IF k = 1 THEN seqs[k] ELSE f[k - 1] \o seqs[k]
      BY <1>4, <3>1
    <3>3. g[k] = IF k = 1 THEN seqs[k] ELSE g[k - 1] \o seqs[k]
      BY <2>2, <3>1
    <3>4. k # 1 => f[k - 1] = g[k - 1]
      BY <2>4
    <3>5. f[k] = g[k]
      BY <3>2, <3>3, <3>4, Zenon
    <3> QED BY <3>1, <3>5
  <2> HIDE DEF Good
  <2>5. \A k \in 0 .. n : k \in Good
    BY <2>3, <2>4, Induction
  <2>6. n \in Good
    BY <2>5
  <2>7. f[n] = g[n]
    BY <1>6, <2>6 DEF Good
  <2>8. f[n + 1] = f[n] \o seqs[n + 1]
    <3>1. n + 1 \in 1 .. n + 1 /\ n + 1 # 1 /\ (n + 1) - 1 = n
      BY <1>6
    <3> QED BY <1>4, <3>1
  <2> QED BY <1>3, <2>1, <2>7, <2>8, Zenon DEF less
<1> QED BY <1>5, <1>6

\* The lists joined so far.
Joined(seqs, k) == FlattenSeq([i \in 1 .. k |-> seqs[i]])

LEMMA JoinedStep ==
  ASSUME NEW S, NEW n \in Nat, NEW seqs \in [1 .. n -> Seq(S)]
  PROVE  /\ Joined(seqs, 0) = <<>>
         /\ \A k \in 1 .. n : Joined(seqs, k) = Joined(seqs, k - 1) \o seqs[k]
         /\ \A k \in 0 .. n : Joined(seqs, k) \in Seq(S)
         /\ FlattenSeq(seqs) = Joined(seqs, n)
<1>1. Joined(seqs, 0) = <<>>
  <2>1. [i \in 1 .. 0 |-> seqs[i]] = <<>>
    OBVIOUS
  <2> QED BY <2>1, FlattenNone DEF Joined
<1>2. ASSUME NEW k \in 1 .. n
      PROVE  Joined(seqs, k) = Joined(seqs, k - 1) \o seqs[k]
  <2> DEFINE upto == [i \in 1 .. k |-> seqs[i]]
             before == [i \in 1 .. k - 1 |-> seqs[i]]
  <2>1. k - 1 \in Nat /\ (k - 1) + 1 = k /\ upto \in [1 .. (k - 1) + 1 -> Seq(S)]
    OBVIOUS
  <2>2. [i \in 1 .. k - 1 |-> upto[i]] = before
    OBVIOUS
  <2>3. upto[k] = seqs[k]
    OBVIOUS
  <2> HIDE DEF upto
  <2>4. FlattenSeq(upto) = FlattenSeq([i \in 1 .. k - 1 |-> upto[i]]) \o upto[(k - 1) + 1]
    BY <2>1, FlattenNext
  <2>5. FlattenSeq(upto) = FlattenSeq(before) \o seqs[k]
    BY <2>1, <2>2, <2>3, <2>4
  <2> QED BY <2>5, Zenon DEF Joined, upto
<1>3. \A k \in 0 .. n : Joined(seqs, k) \in Seq(S)
  <2> DEFINE Good == {k \in 0 .. n : Joined(seqs, k) \in Seq(S)}
  <2>1. 0 \in Good
    <3>1. <<>> \in Seq(S) /\ 0 \in 0 .. n
      OBVIOUS
    <3> QED BY <1>1, <3>1
  <2>2. ASSUME NEW k \in 1 .. n, k - 1 \in Good
        PROVE  k \in Good
    <3>1. Joined(seqs, k - 1) \in Seq(S) /\ seqs[k] \in Seq(S)
      BY <2>2
    <3>2. Joined(seqs, k - 1) \o seqs[k] \in Seq(S)
      BY <3>1
    <3>3. Joined(seqs, k) \in Seq(S)
      BY <1>2, <3>2, Zenon
    <3>4. k \in 0 .. n
      OBVIOUS
    <3> QED BY <3>3, <3>4
  <2> HIDE DEF Good
  <2>3. \A k \in 0 .. n : k \in Good
    BY <2>1, <2>2, Induction
  <2> QED BY <2>3 DEF Good
<1>4. FlattenSeq(seqs) = Joined(seqs, n)
  <2>1. [i \in 1 .. n |-> seqs[i]] = seqs
    OBVIOUS
  <2> QED BY <2>1, Zenon DEF Joined
<1> QED BY <1>1, <1>2, <1>3, <1>4

-----------------------------------------------------------------------------
(* Stores.                                                                 *)

IsStore(r) == r = [variables |-> r.variables, values |-> r.values]

LEMMA Merge ==
  ASSUME NEW f, NEW g
  PROVE  /\ f ++ g = [x \in DOMAIN f \cup DOMAIN g |-> IF x \in DOMAIN f THEN f[x] ELSE g[x]]
         /\ DOMAIN (f ++ g) = DOMAIN f \cup DOMAIN g
         /\ \A x \in DOMAIN f : (f ++ g)[x] = f[x]
         /\ \A x \in DOMAIN g : x \notin DOMAIN f => (f ++ g)[x] = g[x]
<1>1. f ++ g = [x \in DOMAIN f \cup DOMAIN g |-> IF x \in DOMAIN f THEN f[x] ELSE g[x]]
  BY DEF ++
<1> QED BY <1>1

LEMMA One ==
  ASSUME NEW x, NEW y
  PROVE  DOMAIN Entry(x, y) = {x} /\ Entry(x, y)[x] = y
BY DEF Entry

LEMMA ValueAdded ==
  ASSUME NEW r, IsStore(r), NEW name, NEW text
  PROVE  /\ IsStore(add_value(r, name, text))
         /\ add_value(r, name, text).variables = r.variables
         /\ DOMAIN add_value(r, name, text).values = DOMAIN r.values \cup {name}
         /\ \A n \in DOMAIN r.values : add_value(r, name, text).values[n] = r.values[n]
<1>1. add_value(r, name, text) = [variables |-> r.variables, values |-> r.values ++ Entry(name, text)]
  BY DEF add_value, IsStore
<1>2. DOMAIN Entry(name, text) = {name}
  BY One
<1> DEFINE values == r.values ++ Entry(name, text)
<1>3. DOMAIN values = DOMAIN r.values \cup {name} /\ \A n \in DOMAIN r.values : values[n] = r.values[n]
  <2>1. DOMAIN values = DOMAIN r.values \cup DOMAIN Entry(name, text)
    BY Merge, Zenon
  <2>2. \A n \in DOMAIN r.values : values[n] = r.values[n]
    BY Merge, Zenon
  <2> QED BY <1>2, <2>1, <2>2
<1> HIDE DEF values
<1>4. add_value(r, name, text) = [variables |-> r.variables, values |-> values]
  BY <1>1 DEF values
<1> QED BY <1>3, <1>4 DEF IsStore

LEMMA ValueUpdated ==
  ASSUME NEW r, IsStore(r), NEW name, NEW text
  PROVE  /\ IsStore(update_value(r, name, text))
         /\ update_value(r, name, text).variables = r.variables
         /\ DOMAIN update_value(r, name, text).values = DOMAIN r.values
         /\ \A n \in DOMAIN r.values :
              update_value(r, name, text).values[n] = IF n = name THEN text ELSE r.values[n]
<1>1. CASE name \in DOMAIN r.values
  <2>1. update_value(r, name, text)
          = [variables |-> r.variables, values |-> [r.values EXCEPT ![name] = text]]
    BY <1>1 DEF update_value, IsStore
  <2> QED BY <1>1, <2>1 DEF IsStore
<1>2. CASE name \notin DOMAIN r.values
  BY <1>2 DEF update_value, IsStore
<1> QED BY <1>1, <1>2

LEMMA VariableUpdated ==
  ASSUME NEW r, IsStore(r), NEW name, NEW text
  PROVE  /\ IsStore(update_variable(r, name, text))
         /\ update_variable(r, name, text).values = r.values
         /\ DOMAIN update_variable(r, name, text).variables = DOMAIN r.variables
         /\ \A n \in DOMAIN r.variables :
              update_variable(r, name, text).variables[n]
                = IF n = name THEN text ELSE r.variables[n]
<1>1. CASE name \in DOMAIN r.variables
  <2>1. update_variable(r, name, text)
          = [variables |-> [r.variables EXCEPT ![name] = text], values |-> r.values]
    BY <1>1 DEF update_variable, IsStore
  <2> QED BY <1>1, <2>1 DEF IsStore
<1>2. CASE name \notin DOMAIN r.variables
  BY <1>2 DEF update_variable, IsStore
<1> QED BY <1>1, <1>2

LEMMA VariablesAdded ==
  ASSUME NEW r, IsStore(r), NEW map
  PROVE  /\ IsStore(add_variables(r, map))
         /\ add_variables(r, map).values = r.values
         /\ add_variables(r, map).variables = r.variables ++ map
BY DEF add_variables, IsStore

-----------------------------------------------------------------------------
(* Folds.                                                                  *)

AnyState(c, k, x) == TRUE

AddStep(c, n, m) == n + m
Totals == INSTANCE FoldSteps WITH Step <- AddStep, Inv <- AnyState

LEMMA TotalFolds ==
  ASSUME NEW b, NEW w
  PROVE  Total(b, w) = Totals!Folded(0, 0, SubSeq(b.groups, 1, w))
BY Zenon DEF Total, FoldLeft, MapThenFoldSet, Max, Totals!Folded, Totals!IsFold,
             Totals!Greatest, AddStep

LEMMA TotalSteps ==
  ASSUME NEW b, b.groups \in Seq(Nat \ {0})
  PROVE  /\ Total(b, 0) = 0
         /\ \A w \in 1 .. Len(b.groups) : Total(b, w) = Total(b, w - 1) + b.groups[w]
<1>1. Total(b, 0) = 0
  <2>1. SubSeq(b.groups, 1, 0) = <<>>
    OBVIOUS
  <2> QED BY <2>1, TotalFolds, Totals!FoldedNone, Zenon
<1>2. ASSUME NEW w \in 1 .. Len(b.groups)
      PROVE  Total(b, w) = Total(b, w - 1) + b.groups[w]
  <2> DEFINE seq == SubSeq(b.groups, 1, w)
             less == SubSeq(b.groups, 1, w - 1)
  <2>1. /\ w - 1 \in Nat /\ DOMAIN seq = 1 .. (w - 1) + 1 /\ DOMAIN less = 1 .. w - 1
        /\ seq[(w - 1) + 1] = b.groups[w]
    OBVIOUS
  <2>2. \A k \in 1 .. w - 1 : less[k] = seq[k]
    OBVIOUS
  <2> HIDE DEF seq, less
  <2>3. Totals!Begins(less, seq, w - 1)
    BY <2>1, <2>2, Zenon DEF Totals!Begins
  <2>4. Totals!Folded(0, 0, seq) = AddStep(0, Totals!Folded(0, 0, less), seq[(w - 1) + 1])
    BY <2>3, Totals!FoldedNext, Zenon
  <2> QED BY <2>1, <2>4, TotalFolds, Zenon DEF seq, less, AddStep
<1> QED BY <1>1, <1>2

LEMMA TotalType ==
  ASSUME NEW b, b.groups \in Seq(Nat \ {0})
  PROVE  \A w \in 0 .. Len(b.groups) : Total(b, w) \in Nat
<1> DEFINE n == Len(b.groups)
           Good == {w \in 0 .. n : Total(b, w) \in Nat}
<1>1. 0 \in Good
  <2>1. Total(b, 0) \in Nat
    BY TotalSteps
  <2>2. 0 \in 0 .. n
    OBVIOUS
  <2> QED BY <2>1, <2>2
<1>2. ASSUME NEW w \in 1 .. n, w - 1 \in Good
      PROVE  w \in Good
  <2>1. b.groups[w] \in Nat /\ w \in 0 .. n /\ Total(b, w - 1) \in Nat
    BY <1>2
  <2>2. Total(b, w) = Total(b, w - 1) + b.groups[w]
    BY TotalSteps
  <2>3. Total(b, w) \in Nat
    BY <2>1, <2>2
  <2> QED BY <2>1, <2>3
<1>3. n \in Nat
  OBVIOUS
<1> HIDE DEF Good, n
<1>4. \A w \in 0 .. n : w \in Good
  BY <1>1, <1>2, <1>3, Induction
<1> QED BY <1>4 DEF Good, n

\* The rows of a table.
RowStep(c, rows, r) ==
  table_addrow(rows, c.columns,
               Restrict(Row(r, c.ids), c.columns \cap DOMAIN Row(r, c.ids)))
RowsSoFar(c, k, rows) ==
  /\ rows \in Seq({Row(c.stores[i], c.ids) : i \in DOMAIN c.stores})
  /\ Len(rows) = k
  /\ \A i \in 1 .. k : rows[i] = Row(c.stores[i], c.ids)
Tables == INSTANCE FoldSteps WITH Step <- RowStep, Inv <- RowsSoFar

LEMMA RowsFold ==
  ASSUME NEW c, NEW stores
  PROVE  Rows(stores, c.columns, c.ids) = Tables!Folded(c, <<>>, stores)
BY Zenon DEF Rows, FoldLeft, MapThenFoldSet, Max, Tables!Folded, Tables!IsFold,
             Tables!Greatest, RowStep

LEMMA RowIsMap ==
  ASSUME NEW r, NEW ids
  PROVE  /\ DOMAIN Row(r, ids) = (ids \cap DOMAIN r.variables) \cup (DOMAIN r.values \ ids)
         /\ Restrict(Row(r, ids), DOMAIN Row(r, ids)) = Row(r, ids)
<1> DEFINE f == [c \in ids \cap DOMAIN r.variables |-> r.variables[c]]
           g == [c \in DOMAIN r.values \ ids |-> r.values[c]]
<1>1. Row(r, ids) = f ++ g
  BY Zenon DEF Row
<1>2. DOMAIN f = ids \cap DOMAIN r.variables /\ DOMAIN g = DOMAIN r.values \ ids
  OBVIOUS
<1> HIDE DEF f, g
<1>3. DOMAIN (f ++ g) = DOMAIN f \cup DOMAIN g
  BY Merge, Zenon
<1>4. f ++ g = [x \in DOMAIN (f ++ g) |-> (f ++ g)[x]]
  BY Zenon DEF ++
<1>5. Restrict(f ++ g, DOMAIN (f ++ g)) = f ++ g
  BY <1>4, Zenon DEF Restrict
<1> QED BY <1>1, <1>2, <1>3, <1>5, Zenon

LEMMA RowsAll ==
  ASSUME NEW n \in Nat, NEW stores, DOMAIN stores = 1 .. n, NEW columns, NEW ids,
         \A i \in 1 .. n : DOMAIN Row(stores[i], ids) = columns
  PROVE  /\ Len(Rows(stores, columns, ids)) = n
         /\ \A i \in 1 .. n : Rows(stores, columns, ids)[i] = Row(stores[i], ids)
<1> DEFINE c == [columns |-> columns, ids |-> ids, stores |-> stores]
           rows == Rows(stores, columns, ids)
<1>1. c.columns = columns /\ c.ids = ids /\ c.stores = stores
  OBVIOUS
<1> HIDE DEF c
<1>2. rows = Tables!Folded(c, <<>>, stores)
  BY <1>1, RowsFold, Zenon
<1>3. RowsSoFar(c, 0, <<>>)
  BY DEF RowsSoFar
<1>4. ASSUME NEW k \in 1 .. n, NEW x, RowsSoFar(c, k - 1, x)
      PROVE  RowsSoFar(c, k, RowStep(c, x, stores[k]))
  <2> DEFINE row == Row(stores[k], ids)
             S == {Row(stores[i], ids) : i \in 1 .. n}
  <2>1. RowStep(c, x, stores[k]) = Append(x, row)
    <3>1. columns \cap DOMAIN row = columns
      OBVIOUS
    <3>2. Restrict(row, columns) = row /\ DOMAIN row = columns
      BY RowIsMap, Zenon
    <3> HIDE DEF row
    <3>3. table_addrow(x, columns, row) = Append(x, row)
      BY <3>2 DEF table_addrow
    <3> QED BY <1>1, <3>1, <3>2, <3>3, Zenon DEF RowStep, row
  <2>2. row \in S
    OBVIOUS
  <2> HIDE DEF S
  <2>3. x \in Seq(S) /\ Len(x) = k - 1 /\ \A i \in 1 .. k - 1 : x[i] = Row(stores[i], ids)
    BY <1>1, <1>4, Zenon DEF RowsSoFar, S
  <2> HIDE DEF row
  <2>4. /\ Append(x, row) \in Seq(S) /\ Len(Append(x, row)) = k
        /\ \A i \in 1 .. k - 1 : Append(x, row)[i] = x[i]
        /\ Append(x, row)[k] = row
    BY <2>2, <2>3
  <2>5. ASSUME NEW i \in 1 .. k
        PROVE  Append(x, row)[i] = Row(stores[i], ids)
    <3>1. CASE i = k
      BY <2>4, <3>1, Zenon DEF row
    <3>2. CASE i # k
      <4>1. i \in 1 .. k - 1
        BY <3>2
      <4> QED BY <2>3, <2>4, <4>1
    <3> QED BY <3>1, <3>2
  <2>6. {Row(c.stores[i], c.ids) : i \in DOMAIN c.stores} = S
    BY <1>1, Zenon DEF S
  <2>7. \A i \in 1 .. k : Append(x, row)[i] = Row(c.stores[i], c.ids)
    BY <1>1, <2>5, Zenon
  <2>8. RowsSoFar(c, k, Append(x, row))
    BY <2>4, <2>6, <2>7, Zenon DEF RowsSoFar
  <2> QED BY <2>1, <2>8, Zenon
<1>5. RowsSoFar(c, n, Tables!Folded(c, <<>>, stores))
  BY <1>3, <1>4, Tables!Kept
<1> QED BY <1>1, <1>2, <1>5, Zenon DEF RowsSoFar

\* The keys of a map in a given order.
ListStep(c, list, k) == IF k \in c THEN Append(list, k) ELSE list
Listings == INSTANCE FoldSteps WITH Step <- ListStep, Inv <- AnyState

LEMMA ListedFold ==
  ASSUME NEW order, NEW keys
  PROVE  Listed(order, keys) = Listings!Folded(keys, <<>>, order)
BY Zenon DEF Listed, FoldLeft, MapThenFoldSet, Max, Listings!Folded, Listings!IsFold,
             Listings!Greatest, ListStep

LEMMA ListedAmong ==
  ASSUME NEW S, NEW order \in Seq(S), NEW keys
  PROVE  Listed(order, keys) \in Seq(keys \cap Range(order))
<1> DEFINE n == Len(order)
           among == keys \cap Range(order)
<1>1. n \in Nat /\ DOMAIN order = 1 .. n
  OBVIOUS
<1> HIDE DEF n
<1>2. PICK list : Listings!Folds(list, keys, <<>>, order, n)
                  /\ list[n] = Listings!Folded(keys, <<>>, order)
  BY <1>1, Listings!StepByStep, Zenon
<1>3. list[0] = <<>> /\ \A k \in 1 .. n : list[k] = ListStep(keys, list[k - 1], order[k])
  BY <1>2, Zenon DEF Listings!Folds
<1> DEFINE Good == {k \in 0 .. n : list[k] \in Seq(among)}
<1>4. 0 \in Good
  <2> HIDE DEF among
  <2>1. 0 \in 0 .. n /\ <<>> \in Seq(among)
    BY <1>1
  <2>2. list[0] \in Seq(among)
    BY <1>3, <2>1, Zenon
  <2> QED BY <2>1, <2>2
<1>5. ASSUME NEW k \in 1 .. n, k - 1 \in Good
      PROVE  k \in Good
  <2>1. k \in 0 .. n /\ list[k - 1] \in Seq(among)
    BY <1>5
  <2>2. order[k] \in Range(order)
    BY <1>1, Zenon DEF Range
  <2> HIDE DEF among
  <2>3. CASE order[k] \in keys
    <3>1. order[k] \in among
      BY <2>2, <2>3 DEF among
    <3>2. Append(list[k - 1], order[k]) \in Seq(among)
      BY <2>1, <3>1
    <3>3. list[k] = Append(list[k - 1], order[k])
      BY <1>3, <2>3, Zenon DEF ListStep
    <3> QED BY <2>1, <3>2, <3>3
  <2>4. CASE order[k] \notin keys
    BY <1>3, <2>1, <2>4, Zenon DEF ListStep
  <2> QED BY <2>3, <2>4
<1> HIDE DEF Good
<1>6. \A k \in 0 .. n : k \in Good
  BY <1>1, <1>4, <1>5, Induction
<1>7. list[n] \in Seq(among)
  BY <1>1, <1>6 DEF Good
<1> QED BY <1>2, <1>7, ListedFold, Zenon

LEMMA ThreeAppended ==
  ASSUME NEW x, NEW y, NEW z
  PROVE  Append(Append(Append(<<>>, x), y), z) = <<x, y, z>>
<1> DEFINE s == Append(Append(Append(<<>>, x), y), z)
<1>1. s \in Seq({x, y, z}) /\ Len(s) = 3 /\ s[1] = x /\ s[2] = y /\ s[3] = z
  OBVIOUS
<1> HIDE DEF s
<1>2. s = <<s[1], s[2], s[3]>>
  BY <1>1
<1> QED BY <1>1, <1>2 DEF s

LEMMA SortedKeys ==
  ASSUME NEW keys, time \in keys
  PROVE  /\ cycles \in keys /\ freq \in keys
              => Listed(Alphabet, keys) = <<cycles, freq, time>>
         /\ cycles \notin keys /\ freq \notin keys => Listed(Alphabet, keys) = <<time>>
<1>1. /\ DOMAIN Alphabet = 1 .. 3 /\ 3 \in Nat
      /\ Alphabet[1] = cycles /\ Alphabet[2] = freq /\ Alphabet[3] = time
  BY AlphabetAssumption
<1>2. PICK list : /\ Listings!Folds(list, keys, <<>>, Alphabet, 3)
                  /\ list[3] = Listings!Folded(keys, <<>>, Alphabet)
  BY <1>1, Listings!StepByStep, Zenon
<1>3. Listed(Alphabet, keys) = list[3]
  BY <1>2, ListedFold, Zenon
<1>4. list[0] = <<>> /\ \A k \in 1 .. 3 : list[k] = ListStep(keys, list[k - 1], Alphabet[k])
  BY <1>2, Zenon DEF Listings!Folds
<1>5. /\ list[1] = ListStep(keys, <<>>, cycles)
      /\ list[2] = ListStep(keys, list[1], freq)
      /\ list[3] = ListStep(keys, list[2], time)
  <2>1. 1 \in 1 .. 3 /\ 2 \in 1 .. 3 /\ 3 \in 1 .. 3 /\ 1 - 1 = 0 /\ 2 - 1 = 1 /\ 3 - 1 = 2
    OBVIOUS
  <2> QED BY <1>1, <1>4, <2>1, Zenon
<1>6. CASE cycles \in keys /\ freq \in keys
  <2>1. list[1] = Append(<<>>, cycles)
    BY <1>5, <1>6, Zenon DEF ListStep
  <2>2. list[2] = Append(list[1], freq)
    BY <1>5, <1>6, Zenon DEF ListStep
  <2>3. list[3] = Append(list[2], time)
    BY <1>5, Zenon DEF ListStep
  <2>4. list[3] = Append(Append(Append(<<>>, cycles), freq), time)
    BY <2>1, <2>2, <2>3, Zenon
  <2>5. Append(Append(Append(<<>>, cycles), freq), time) = <<cycles, freq, time>>
    BY ThreeAppended, Zenon
  <2> QED BY <1>3, <1>6, <2>4, <2>5, Zenon
<1>7. CASE cycles \notin keys /\ freq \notin keys
  <2>1. list[1] = <<>>
    BY <1>5, <1>7, Zenon DEF ListStep
  <2>2. list[2] = <<>>
    BY <1>5, <1>7, <2>1, Zenon DEF ListStep
  <2>3. list[3] = Append(<<>>, time)
    BY <1>5, <2>2, Zenon DEF ListStep
  <2>4. Append(<<>>, time) = <<time>>
    BY DEF time
  <2> QED BY <1>3, <1>7, <2>3, <2>4, Zenon
<1> QED BY <1>6, <1>7, Zenon

\* The stats of a thread.
StatStep(c, q, i) == update_value(q, c.keys[i], c.texts[i])
StatsSoFar(c, k, q) ==
  /\ IsStore(q) /\ q.variables = c.r.variables /\ DOMAIN q.values = DOMAIN c.r.values
  /\ \A i \in 1 .. k : q.values[c.keys[i]] = c.texts[i]
Stats == INSTANCE FoldSteps WITH Step <- StatStep, Inv <- StatsSoFar

WithAll(keys, texts, r) ==
  FoldLeft(LAMBDA q, i : update_value(q, keys[i], texts[i]), r, [i \in Index(keys) |-> i])

LEMMA StatsFold ==
  ASSUME NEW c, NEW r
  PROVE  WithAll(c.keys, c.texts, r) = Stats!Folded(c, r, [i \in Index(c.keys) |-> i])
BY Zenon DEF WithAll, FoldLeft, MapThenFoldSet, Max, Stats!Folded, Stats!IsFold,
             Stats!Greatest, StatStep

LEMMA StatsAll ==
  ASSUME NEW n \in Nat, NEW keys, Len(keys) = n, NEW texts, NEW r, IsStore(r),
         \A i \in 1 .. n : keys[i] \in DOMAIN r.values,
         \A i, j \in 1 .. n : keys[i] = keys[j] => i = j
  PROVE  StatsSoFar([keys |-> keys, texts |-> texts, r |-> r], n, WithAll(keys, texts, r))
<1> DEFINE c == [keys |-> keys, texts |-> texts, r |-> r]
           seq == [i \in Index(keys) |-> i]
<1>1. c.keys = keys /\ c.texts = texts /\ c.r = r
  OBVIOUS
<1>2. DOMAIN seq = 1 .. n /\ \A i \in 1 .. n : seq[i] = i
  BY DEF Index
<1> HIDE DEF c
<1>3. WithAll(keys, texts, r) = Stats!Folded(c, r, seq)
  BY <1>1, StatsFold, Zenon
<1> HIDE DEF seq
<1>4. StatsSoFar(c, 0, r)
  <2>1. 1 .. 0 = {}
    OBVIOUS
  <2> QED BY <1>1, <2>1, Zenon DEF StatsSoFar
<1>5. ASSUME NEW k \in 1 .. n, NEW x, StatsSoFar(c, k - 1, x)
      PROVE  StatsSoFar(c, k, StatStep(c, x, seq[k]))
  <2> DEFINE q == update_value(x, keys[k], texts[k])
  <2>1. StatStep(c, x, seq[k]) = q
    BY <1>1, <1>2, Zenon DEF StatStep
  <2>2. /\ IsStore(x) /\ x.variables = r.variables /\ DOMAIN x.values = DOMAIN r.values
        /\ \A i \in 1 .. k - 1 : x.values[keys[i]] = texts[i]
    BY <1>1, <1>5, Zenon DEF StatsSoFar
  <2>3. /\ IsStore(q) /\ q.variables = x.variables /\ DOMAIN q.values = DOMAIN x.values
        /\ \A m \in DOMAIN x.values : q.values[m] = IF m = keys[k] THEN texts[k] ELSE x.values[m]
    <3>1. IsStore(x)
      BY <2>2
    <3> QED BY <3>1, ValueUpdated
  <2> HIDE DEF q
  <2>4. ASSUME NEW i \in 1 .. k
        PROVE  q.values[keys[i]] = texts[i]
    <3>1. i \in 1 .. n /\ keys[i] \in DOMAIN x.values
      BY <2>2
    <3>2. CASE i = k
      BY <2>3, <3>1, <3>2, Zenon
    <3>3. CASE i # k
      <4>1. i \in 1 .. k - 1 /\ keys[i] # keys[k]
        BY <3>1, <3>3
      <4> QED BY <2>2, <2>3, <3>1, <4>1, Zenon
    <3> QED BY <3>2, <3>3, Zenon
  <2>5. StatsSoFar(c, k, q)
    BY <1>1, <2>2, <2>3, <2>4, Zenon DEF StatsSoFar
  <2> QED BY <2>1, <2>5, Zenon
<1>6. StatsSoFar(c, n, Stats!Folded(c, r, seq))
  BY <1>2, <1>4, <1>5, Stats!Kept
<1> QED BY <1>3, <1>6, Zenon DEF c

\* The metrics of a thread.
MetricStep(c, r, m) ==
  add_value(r, m.name, calculator_calc(
    replace_all(r, replace_all(c.global, ReplaceKeys(c.vars, FlattenSeq(m.tokens))))))
MetricsSoFar(c, k, q) ==
  /\ IsStore(q) /\ q.variables = c.r.variables
  /\ DOMAIN q.values = DOMAIN c.r.values \cup {c.metrics[i].name : i \in 1 .. k}
  /\ \A n \in DOMAIN c.r.values : q.values[n] = c.r.values[n]
Metrics == INSTANCE FoldSteps WITH Step <- MetricStep, Inv <- MetricsSoFar

WithMetrics(store, keys, metrics, base) ==
  FoldLeft(LAMBDA r, m : add_value(r, m.name, calculator_calc(
             replace_all(r, replace_all(store, ReplaceKeys(keys, FlattenSeq(m.tokens)))))),
           base, metrics)

LEMMA MetricsFold ==
  ASSUME NEW c, NEW r, NEW metrics
  PROVE  WithMetrics(c.global, c.vars, metrics, r) = Metrics!Folded(c, r, metrics)
BY Zenon DEF WithMetrics, FoldLeft, MapThenFoldSet, Max, Metrics!Folded, Metrics!IsFold,
             Metrics!Greatest, MetricStep

LEMMA MetricsAll ==
  ASSUME NEW n \in Nat, NEW metrics, DOMAIN metrics = 1 .. n, NEW r, IsStore(r),
         NEW store, NEW keys
  PROVE  LET q == WithMetrics(store, keys, metrics, r)
         IN  /\ IsStore(q) /\ q.variables = r.variables
             /\ DOMAIN q.values = DOMAIN r.values \cup {metrics[i].name : i \in 1 .. n}
             /\ \A m \in DOMAIN r.values : q.values[m] = r.values[m]
<1> DEFINE c == [global |-> store, vars |-> keys, metrics |-> metrics, r |-> r]
<1>1. c.global = store /\ c.vars = keys /\ c.metrics = metrics /\ c.r = r
  OBVIOUS
<1> HIDE DEF c
<1>2. WithMetrics(store, keys, metrics, r) = Metrics!Folded(c, r, metrics)
  BY <1>1, MetricsFold, Zenon
<1>3. MetricsSoFar(c, 0, r)
  <2>1. {metrics[i].name : i \in 1 .. 0} = {}
    OBVIOUS
  <2>2. DOMAIN r.values \cup {metrics[i].name : i \in 1 .. 0} = DOMAIN r.values
    BY <2>1
  <2> QED BY <1>1, <2>2, Zenon DEF MetricsSoFar
<1>4. ASSUME NEW k \in 1 .. n, NEW x, MetricsSoFar(c, k - 1, x)
      PROVE  MetricsSoFar(c, k, MetricStep(c, x, metrics[k]))
  <2>1. PICK text : MetricStep(c, x, metrics[k]) = add_value(x, metrics[k].name, text)
    BY Zenon DEF MetricStep
  <2> DEFINE q == add_value(x, metrics[k].name, text)
  <2>2. /\ IsStore(x) /\ x.variables = r.variables
        /\ DOMAIN x.values = DOMAIN r.values \cup {metrics[i].name : i \in 1 .. k - 1}
        /\ \A m \in DOMAIN r.values : x.values[m] = r.values[m]
    BY <1>1, <1>4, Zenon DEF MetricsSoFar
  <2>3. /\ IsStore(q) /\ q.variables = x.variables
        /\ DOMAIN q.values = DOMAIN x.values \cup {metrics[k].name}
        /\ \A m \in DOMAIN x.values : q.values[m] = x.values[m]
    <3>1. IsStore(x)
      BY <2>2
    <3> QED BY <3>1, ValueAdded
  <2> HIDE DEF q
  <2>4. {metrics[i].name : i \in 1 .. k}
          = {metrics[i].name : i \in 1 .. k - 1} \cup {metrics[k].name}
    <3>1. \A i : i \in 1 .. k <=> i \in 1 .. k - 1 \/ i = k
      OBVIOUS
    <3> QED BY <3>1, Zenon
  <2>5. DOMAIN q.values = DOMAIN r.values \cup {metrics[i].name : i \in 1 .. k}
    BY <2>2, <2>3, <2>4, Zenon
  <2>6. \A m \in DOMAIN r.values : q.values[m] = r.values[m]
    BY <2>2, <2>3, Zenon
  <2>7. MetricsSoFar(c, k, q)
    <3>1. /\ q.variables = c.r.variables
          /\ DOMAIN q.values = DOMAIN c.r.values \cup {c.metrics[i].name : i \in 1 .. k}
          /\ \A m \in DOMAIN c.r.values : q.values[m] = c.r.values[m]
      BY <1>1, <2>2, <2>3, <2>5, <2>6
    <3> QED BY <2>3, <3>1, Zenon DEF MetricsSoFar
  <2> QED BY <2>1, <2>7, Zenon DEF q
<1>5. MetricsSoFar(c, n, Metrics!Folded(c, r, metrics))
  BY <1>3, <1>4, Metrics!Kept
<1> QED BY <1>1, <1>2, <1>5, Zenon DEF MetricsSoFar

-----------------------------------------------------------------------------
(* The rounding of sizes.                                                  *)

\* Rounding changes numbers, but neither the names in a store nor its values.
SameNames(r, q) ==
  IsStore(r) /\ r.values = q.values /\ DOMAIN r.variables = DOMAIN q.variables

Shape(acc, filled) ==
  /\ acc = [ok |-> acc.ok, thread |-> acc.thread, global |-> acc.global]
  /\ DOMAIN acc.thread = DOMAIN filled.thread
  /\ \A g \in DOMAIN filled.thread : SameNames(acc.thread[g], filled.thread[g])
  /\ SameNames(acc.global, filled.global)

LEMMA NamesStay ==
  ASSUME NEW q, NEW r, SameNames(r, q), NEW name, NEW text
  PROVE  SameNames(update_variable(r, name, text), q)
<1>1. IsStore(r) /\ r.values = q.values /\ DOMAIN r.variables = DOMAIN q.variables
  BY Zenon DEF SameNames
<1>2. /\ IsStore(update_variable(r, name, text))
      /\ update_variable(r, name, text).values = r.values
      /\ DOMAIN update_variable(r, name, text).variables = DOMAIN r.variables
  BY <1>1, VariableUpdated
<1> QED BY <1>1, <1>2, Zenon DEF SameNames

\* What RoundDimension does, with the sizes it has rounded named.
RoundedTo(b, acc, w, dim, elems) ==
  [ok |-> TRUE,
   thread |-> [g \in DOMAIN acc.thread |->
                 IF g \in Members(b, w)
                 THEN update_variable(acc.thread[g], dim, Number(elems[g]))
                 ELSE acc.thread[g]],
   global |-> update_variable(acc.global, dim, Number(elems[<<w, b.groups[w] - 1>>]))]

Elements(b, wild, acc, w, s, dim) ==
  [g \in Members(b, w) |->
     Rounded(get_variable(acc.thread[g], dim, wild),
             get_variable(acc.thread[<<w, 0>>], bbytesperiter, wild) * b.groups[w]
               * b.streams[s].size)]

LEMMA RoundingIs ==
  ASSUME NEW b, NEW wild, NEW acc, NEW w, NEW s, NEW dim
  PROVE  LET elems == Elements(b, wild, acc, w, s, dim)
         IN  RoundDimension(b, wild, acc, w, s, dim)
               = IF ~ acc.ok \/ \E g \in Members(b, w) : elems[g] = 0
                 THEN [acc EXCEPT !.ok = FALSE]
                 ELSE RoundedTo(b, acc, w, dim, elems)
BY Zenon DEF RoundDimension, RoundedTo, Elements

LEMMA RefusalKeepsShape ==
  ASSUME NEW filled, NEW acc, Shape(acc, filled)
  PROVE  /\ Shape([acc EXCEPT !.ok = FALSE], filled)
         /\ [acc EXCEPT !.ok = FALSE].ok = FALSE
<1> DEFINE no == [acc EXCEPT !.ok = FALSE]
<1>1. acc = [ok |-> acc.ok, thread |-> acc.thread, global |-> acc.global]
  BY Zenon DEF Shape
<1>2. no = [ok |-> FALSE, thread |-> acc.thread, global |-> acc.global]
  <2>1. \A x : [acc EXCEPT !.ok = x]
                   = [ok |-> x, thread |-> acc.thread, global |-> acc.global]
    BY <1>1
  <2> QED BY <2>1, Zenon
<1> HIDE DEF no
<1>3. /\ no = [ok |-> no.ok, thread |-> no.thread, global |-> no.global]
      /\ no.ok = FALSE /\ no.thread = acc.thread /\ no.global = acc.global
  BY <1>2
<1>4. Shape(no, filled)
  BY <1>3, Zenon DEF Shape
<1> QED BY <1>3, <1>4, Zenon DEF no

LEMMA RoundingKeepsShape ==
  ASSUME NEW filled, NEW acc, Shape(acc, filled), NEW b, NEW w, NEW elems,
         NEW dim
  PROVE  Shape(RoundedTo(b, acc, w, dim, elems), filled)
<1> DEFINE to == RoundedTo(b, acc, w, dim, elems)
           there == [g \in DOMAIN acc.thread |->
                       IF g \in Members(b, w)
                       THEN update_variable(acc.thread[g], dim, Number(elems[g]))
                       ELSE acc.thread[g]]
           all == update_variable(acc.global, dim, Number(elems[<<w, b.groups[w] - 1>>]))
<1>1. to = [ok |-> TRUE, thread |-> there, global |-> all]
  BY Zenon DEF RoundedTo
<1>2. DOMAIN there = DOMAIN filled.thread /\ DOMAIN acc.thread = DOMAIN filled.thread
  BY Zenon DEF Shape
<1>3. \A g \in DOMAIN filled.thread : SameNames(there[g], filled.thread[g])
  <2> TAKE g \in DOMAIN filled.thread
  <2>1. SameNames(acc.thread[g], filled.thread[g])
    BY Zenon DEF Shape
  <2>2. SameNames(update_variable(acc.thread[g], dim, Number(elems[g])), filled.thread[g])
    BY <2>1, NamesStay, Zenon
  <2>3. \/ there[g] = update_variable(acc.thread[g], dim, Number(elems[g]))
        \/ there[g] = acc.thread[g]
    BY <1>2, Zenon
  <2> HIDE DEF there
  <2> QED BY <2>1, <2>2, <2>3, Zenon
<1>4. SameNames(all, filled.global)
  <2>1. SameNames(acc.global, filled.global)
    BY Zenon DEF Shape
  <2> QED BY <2>1, NamesStay, Zenon
<1> HIDE DEF there, all
<1>5. to.ok = TRUE /\ to.thread = there /\ to.global = all
  BY <1>1
<1>6. to = [ok |-> to.ok, thread |-> to.thread, global |-> to.global]
  BY <1>1, <1>5, Zenon
<1> HIDE DEF to
<1>7. Shape(to, filled)
  BY <1>2, <1>3, <1>4, <1>5, <1>6, Zenon DEF Shape
<1> QED BY <1>7, Zenon DEF to

LEMMA WithoutRest ==
  ASSUME NEW n \in Nat, NEW f \in Nat \ {0}
  PROVE  (n - (n % f)) % f = 0
<1>1. \A k \in Nat, q \in Nat, r \in 0 .. f - 1 : k = q * f + r => k % f = r
  OBVIOUS
<1> DEFINE q == n \div f
           m == n - (n % f)
<1>2. n = f * q + (n % f) /\ q \in Nat
  OBVIOUS
<1>3. m = q * f + 0 /\ 0 \in 0 .. f - 1
  BY <1>2
<1>4. m \in Nat
  BY <1>2, <1>3
<1> HIDE DEF m, q
<1>5. m % f = 0
  BY <1>1, <1>2, <1>3, <1>4
<1> QED BY <1>5 DEF m

\* What is left is a multiple of the factor.
LEMMA RoundedMultiple ==
  ASSUME NEW in \in Nat, NEW factor \in Nat
  PROVE  /\ Rounded(in, factor) \in 0 .. in
         /\ factor > 0 => Rounded(in, factor) % factor = 0
<1>1. CASE factor = 0 \/ in % factor = 0
  BY <1>1 DEF Rounded
<1>2. CASE factor # 0 /\ in % factor # 0
  <2> DEFINE q == in \div factor
             r == in % factor
  <2>1. in = factor * q + r /\ r \in 0 .. factor - 1 /\ q \in Nat
    BY <1>2
  <2>2. CASE factor \in PowersOfTwo
    <3>1. is_multipleof_pow2(in, factor) = 0
      BY <1>2, <2>2 DEF is_multipleof_pow2
    <3>2. Rounded(in, factor) = in - r
      BY <1>2, <2>2, <3>1 DEF Rounded, rounddown_nbits_pow2
    <3>3. in - r \in 0 .. in
      <4>1. factor * q \in Nat
        BY <1>2, <2>1
      <4> QED BY <2>1, <4>1
    <3>4. (in - r) % factor = 0
      BY <1>2, WithoutRest
    <3> QED BY <3>2, <3>3, <3>4, Zenon
  <2>3. CASE factor \notin PowersOfTwo
    <3>1. is_multipleof_pow2(in, factor) # 0 /\ is_multipleof_nbits(in, factor) = 0
      BY <1>2, <2>3 DEF is_multipleof_pow2, is_multipleof_nbits, EINVAL
    <3>2. Rounded(in, factor) = q * factor
      BY <1>2, <3>1 DEF Rounded, rounddown_nbits
    <3>3. q * factor = in - r
      BY <2>1
    <3>4. in - r \in 0 .. in
      <4>1. factor * q \in Nat
        BY <1>2, <2>1
      <4> QED BY <2>1, <4>1
    <3>5. (in - r) % factor = 0
      BY <1>2, WithoutRest
    <3> QED BY <3>2, <3>3, <3>4, <3>5, Zenon
  <2> QED BY <2>2, <2>3
<1> QED BY <1>1, <1>2

LEMMA NumbersRead ==
  ASSUME NEW text
  PROVE  strtoumax(text) \in 0 .. MaxNumber
<1>1. 0 \in 0 .. MaxNumber
  BY NumbersAssumption
<1>2. ASSUME NEW x \in DOMAIN Numbers
      PROVE  Numbers[x] \in 0 .. MaxNumber
  <2>1. DOMAIN Numeral = 0 .. MaxNumber
    BY DEF Numeral
  <2>2. x \in Range(Numeral) /\ Numbers[x] = CHOOSE n \in DOMAIN Numeral : Numeral[n] = x
    BY Zenon DEF Numbers
  <2>3. \E n \in DOMAIN Numeral : Numeral[n] = x
    BY <2>2, Zenon DEF Range
  <2> QED BY <2>1, <2>2, <2>3, Zenon
<1> QED BY <1>1, <1>2, Zenon DEF strtoumax

\* A multiple of all bytes of a step of all threads is one of the bytes.
LEMMA MultipleOfPart ==
  ASSUME NEW e \in Nat, NEW a \in Nat \ {0}, NEW n \in Nat \ {0}, NEW size \in Nat \ {0},
         e % (a * n * size) = 0
  PROVE  e % (a * n) = 0
<1> DEFINE f == a * n
           g == f * size
<1>1. f \in Nat \ {0}
  BY SMT
<1>2. g \in Nat \ {0}
  <2> HIDE DEF f
  <2> QED BY <1>1
<1>3. e % g = 0
  OBVIOUS
<1> HIDE DEF g, f
<1>4. PICK q \in Nat : e = q * g
  BY <1>2, <1>3
<1>5. e = (q * size) * f /\ q * size \in Nat
  BY <1>1, <1>4 DEF g
<1> DEFINE p == q * size
<1>6. \A k \in Nat, r \in 0 .. f - 1 : e = k * f + r => e % f = r
  BY <1>1
<1>7. e = p * f + 0 /\ p \in Nat /\ 0 \in 0 .. f - 1
  BY <1>1, <1>5
<1> HIDE DEF p
<1>8. e % f = 0
  BY <1>6, <1>7
<1> QED BY <1>8 DEF f

\* The dimensions of a stream, and those of the first k streams.
DimsOf(b, s) == Range(b.streams[s].dims)
DimsTo(b, k) == UNION {DimsOf(b, s) : s \in 1 .. k}

Apart(b) == \A s \in Index(b.streams) : bbytesperiter \notin DimsOf(b, s)

\* What the parts of all threads of the last group must be multiples of.
StepOf(b) ==
  IF bbytesperiter \in DOMAIN Variables(b)
  THEN strtoumax(Variables(b)[bbytesperiter]) * b.groups[Len(b.groups)] ELSE 0

BytesKept(b, acc) ==
  bbytesperiter \in DOMAIN Variables(b) =>
    \A g \in DOMAIN acc.thread :
      /\ bbytesperiter \in DOMAIN acc.thread[g].variables
      /\ acc.thread[g].variables[bbytesperiter] = Variables(b)[bbytesperiter]

WholeNumber(b, text) ==
  \E e \in 0 .. MaxNumber : text = Number(e) /\ (StepOf(b) > 0 => e % StepOf(b) = 0)

SizesWhole(b, acc, dims) ==
  acc.ok => \A d \in dims : d \in DOMAIN acc.global.variables =>
                               WholeNumber(b, acc.global.variables[d])

\* The last group decides.
Whole(b, w, acc, dims) ==
  BytesKept(b, acc) /\ (w = Len(b.groups) => SizesWhole(b, acc, dims))

LEMMA ElementsWhole ==
  ASSUME NEW b \in Benchmarks, NEW wild \in Wild, NEW acc, BytesKept(b, acc),
         NEW s \in Index(b.streams), NEW dim, NEW g \in Members(b, Len(b.groups)),
         <<Len(b.groups), 0>> \in DOMAIN acc.thread
  PROVE  LET n == Len(b.groups)
         IN  WholeNumber(b, Number(Elements(b, wild, acc, n, s, dim)[g]))
<1> DEFINE n == Len(b.groups)
           in == get_variable(acc.thread[g], dim, wild)
           a == get_variable(acc.thread[<<n, 0>>], bbytesperiter, wild)
           t == b.groups[n]
           size == b.streams[s].size
           e == Elements(b, wild, acc, n, s, dim)[g]
<1>1. MaxNumber \in Nat /\ wild \in 0 .. MaxNumber
  BY NumbersAssumption
<1>2. in \in 0 .. MaxNumber
  BY <1>1, NumbersRead, Zenon DEF get_variable
<1>3. a \in 0 .. MaxNumber
  BY <1>1, NumbersRead, Zenon DEF get_variable
<1>4. t \in Nat \ {0} /\ size \in Nat \ {0}
  <2>1. /\ b.groups \in Seq(Nat \ {0}) /\ b.groups # <<>>
        /\ b.streams \in Seq([size : Nat \ {0}, dims : Seq(Seq(STRING))])
    BY BenchmarksAssumption, Zenon
  <2>2. b.groups[Len(b.groups)] \in Nat \ {0}
    BY <2>1
  <2> DEFINE Stream == [size : Nat \ {0}, dims : Seq(Seq(STRING))]
             streams == b.streams
  <2> HIDE DEF Stream, streams
  <2>3. streams \in Seq(Stream) /\ s \in 1 .. Len(streams)
    BY <2>1, Zenon DEF Stream, streams, Index
  <2>4. streams[s] \in Stream
    BY <2>3
  <2>5. b.streams[s].size \in Nat \ {0}
    BY <2>4 DEF Stream, streams
  <2> QED BY <2>2, <2>5
<1>5. e = Rounded(in, a * t * size)
  BY Zenon DEF Elements
<1>6. bbytesperiter \in DOMAIN Variables(b) => a = strtoumax(Variables(b)[bbytesperiter])
  BY Zenon DEF BytesKept, get_variable
<1>7. StepOf(b) = IF bbytesperiter \in DOMAIN Variables(b) THEN a * t ELSE 0
  BY <1>6, Zenon DEF StepOf
<1> HIDE DEF in, a, t, size, e
<1>8. in \in Nat /\ a \in Nat
  BY <1>1, <1>2, <1>3
<1>9. a * t * size \in Nat
  BY <1>4, <1>8
<1>10. e \in 0 .. in /\ (a * t * size > 0 => e % (a * t * size) = 0)
  BY <1>5, <1>8, <1>9, RoundedMultiple
<1>11. e \in 0 .. MaxNumber
  BY <1>1, <1>2, <1>10
<1>12. ASSUME StepOf(b) > 0
       PROVE  e % StepOf(b) = 0
  <2>1. StepOf(b) = a * t /\ a * t > 0
    BY <1>7, <1>12
  <2>2. a # 0
    BY <2>1, <1>4
  <2>3. a \in Nat \ {0}
    BY <1>8, <2>2
  <2>4. \A x, y \in Nat \ {0} : x * y \in Nat \ {0}
    BY SMT
  <2>5. a * t * size \in Nat \ {0}
    BY <1>4, <2>3, <2>4
  <2>6. e % (a * t * size) = 0 /\ e \in Nat
    BY <1>1, <1>10, <1>11, <2>5
  <2>7. e % (a * t) = 0
    BY <1>4, <2>3, <2>6, MultipleOfPart
  <2> QED BY <2>1, <2>7
<1>13. WholeNumber(b, Number(e))
  BY <1>11, <1>12, Zenon DEF WholeNumber
<1> QED BY <1>13, Zenon DEF e

LEMMA RefusalKeepsWhole ==
  ASSUME NEW b, NEW w, NEW filled, NEW acc, Shape(acc, filled), NEW dims, NEW more,
         Whole(b, w, acc, dims)
  PROVE  Whole(b, w, [acc EXCEPT !.ok = FALSE], more)
<1> DEFINE no == [acc EXCEPT !.ok = FALSE]
<1>1. acc = [ok |-> acc.ok, thread |-> acc.thread, global |-> acc.global]
  BY Zenon DEF Shape
<1>2. no.ok = FALSE /\ no.thread = acc.thread
  <2>1. \A x : /\ [acc EXCEPT !.ok = x].ok = x
               /\ [acc EXCEPT !.ok = x].thread = acc.thread
    BY <1>1
  <2> QED BY <2>1, Zenon
<1> HIDE DEF no
<1>3. BytesKept(b, no)
  BY <1>2, Zenon DEF Whole, BytesKept
<1>4. SizesWhole(b, no, more)
  BY <1>2, Zenon DEF SizesWhole
<1> QED BY <1>3, <1>4, Zenon DEF Whole, no

LEMMA RoundingKeepsWhole ==
  ASSUME NEW b \in Benchmarks, NEW wild \in Wild, NEW filled, NEW acc, Shape(acc, filled),
         DOMAIN filled.thread = AllThreads(b), NEW w \in Groups(b),
         NEW s \in Index(b.streams), NEW dim, dim # bbytesperiter, NEW dims,
         Whole(b, w, acc, dims), acc.ok
  PROVE  Whole(b, w, RoundedTo(b, acc, w, dim, Elements(b, wild, acc, w, s, dim)),
               dims \cup {dim})
<1> DEFINE elems == Elements(b, wild, acc, w, s, dim)
           to == RoundedTo(b, acc, w, dim, elems)
           there == [g \in DOMAIN acc.thread |->
                       IF g \in Members(b, w)
                       THEN update_variable(acc.thread[g], dim, Number(elems[g]))
                       ELSE acc.thread[g]]
           last == <<w, b.groups[w] - 1>>
           all == update_variable(acc.global, dim, Number(elems[last]))
<1>1. to = [ok |-> TRUE, thread |-> there, global |-> all]
  BY Zenon DEF RoundedTo
<1>2. DOMAIN there = AllThreads(b) /\ DOMAIN acc.thread = AllThreads(b)
  BY Zenon DEF Shape
<1>3. IsStore(acc.global) /\ \A g \in AllThreads(b) : IsStore(acc.thread[g])
  BY Zenon DEF Shape, SameNames
<1>4. /\ DOMAIN all.variables = DOMAIN acc.global.variables
      /\ \A d \in DOMAIN all.variables :
           all.variables[d] = IF d = dim THEN Number(elems[last]) ELSE acc.global.variables[d]
  BY <1>3, VariableUpdated
<1>5. ASSUME NEW g \in AllThreads(b), bbytesperiter \in DOMAIN acc.thread[g].variables
      PROVE  /\ bbytesperiter \in DOMAIN there[g].variables
             /\ there[g].variables[bbytesperiter] = acc.thread[g].variables[bbytesperiter]
  <2> DEFINE u == update_variable(acc.thread[g], dim, Number(elems[g]))
  <2>0. IsStore(acc.thread[g])
    BY <1>3
  <2>1. /\ DOMAIN u.variables = DOMAIN acc.thread[g].variables
        /\ \A d \in DOMAIN acc.thread[g].variables :
             u.variables[d] = IF d = dim THEN Number(elems[g]) ELSE acc.thread[g].variables[d]
    BY <2>0, VariableUpdated
  <2>2. there[g] = u \/ there[g] = acc.thread[g]
    BY <1>2, Zenon
  <2> HIDE DEF u, there
  <2>3. /\ bbytesperiter \in DOMAIN u.variables
        /\ u.variables[bbytesperiter] = acc.thread[g].variables[bbytesperiter]
    BY <1>5, <2>1, Zenon
  <2> QED BY <1>5, <2>2, <2>3, Zenon
<1> HIDE DEF there, all, elems
<1>6. to.ok = TRUE /\ to.thread = there /\ to.global = all
  BY <1>1
<1> HIDE DEF to
<1>7. BytesKept(b, acc)
  BY Zenon DEF Whole
<1>8. BytesKept(b, to)
  BY <1>2, <1>5, <1>6, <1>7, Zenon DEF BytesKept
<1>9. ASSUME w = Len(b.groups)
      PROVE  SizesWhole(b, to, dims \cup {dim})
  <2>1. SizesWhole(b, acc, dims)
    BY <1>9, Zenon DEF Whole
  <2>2. WholeNumber(b, Number(elems[last]))
    <3>1. b.groups[w] \in Nat \ {0}
      BY BenchmarksAssumption DEF Groups, Index
    <3>2. 0 \in 0 .. b.groups[w] - 1 /\ b.groups[w] - 1 \in 0 .. b.groups[w] - 1
      BY <3>1
    <3>3. last \in Members(b, w) /\ <<w, 0>> \in Members(b, w)
      BY <3>2, Zenon DEF Members
    <3>4. <<w, 0>> \in DOMAIN acc.thread
      BY <1>2, <3>3, Zenon DEF AllThreads
    <3> QED BY <1>7, <1>9, <3>3, <3>4, ElementsWhole, Zenon DEF elems
  <2>3. ASSUME NEW d \in dims \cup {dim}, d \in DOMAIN all.variables
        PROVE  WholeNumber(b, all.variables[d])
    <3>1. CASE d = dim
      BY <1>4, <2>2, <2>3, <3>1, Zenon
    <3>2. CASE d # dim
      <4>1. d \in dims
        BY <3>2
      <4> QED BY <1>4, <2>1, <2>3, <3>2, <4>1, Zenon DEF SizesWhole
    <3> QED BY <3>1, <3>2, Zenon
  <2> QED BY <1>6, <2>3, Zenon DEF SizesWhole
<1>10. Whole(b, w, to, dims \cup {dim})
  BY <1>8, <1>9, Zenon DEF Whole
<1> QED BY <1>10, Zenon DEF to, elems

\* The rounding of one dimension after another.
Rounding(b, filled, w, acc, dims) ==
  Shape(acc, filled) /\ (Apart(b) => Whole(b, w, acc, dims))

DimStep(c, acc, d) == RoundDimension(c.b, c.wild, acc, c.w, c.s, d)
DimsSoFar(c, k, acc) ==
  Rounding(c.b, c.filled, c.w, acc,
           c.before \cup {c.b.streams[c.s].dims[i] : i \in 1 .. k})
Dims == INSTANCE FoldSteps WITH Step <- DimStep, Inv <- DimsSoFar

OfStream(b, wild, w, s, acc) ==
  FoldLeft(LAMBDA a, d : RoundDimension(b, wild, a, w, s, d), acc, b.streams[s].dims)

LEMMA DimsFold ==
  ASSUME NEW c, NEW acc
  PROVE  OfStream(c.b, c.wild, c.w, c.s, acc) = Dims!Folded(c, acc, c.b.streams[c.s].dims)
BY Zenon DEF OfStream, FoldLeft, MapThenFoldSet, Max, Dims!Folded, Dims!IsFold,
             Dims!Greatest, DimStep

StreamStep(c, acc, s) == OfStream(c.b, c.wild, c.w, s, acc)
StreamsSoFar(c, k, acc) == Rounding(c.b, c.filled, c.w, acc, DimsTo(c.b, k))
Streams == INSTANCE FoldSteps WITH Step <- StreamStep, Inv <- StreamsSoFar

OfGroup(b, wild, w, acc) ==
  FoldLeft(LAMBDA a, s : OfStream(b, wild, w, s, a), acc, [s \in Index(b.streams) |-> s])

LEMMA StreamsFold ==
  ASSUME NEW c, NEW acc
  PROVE  OfGroup(c.b, c.wild, c.w, acc)
           = Streams!Folded(c, acc, [s \in Index(c.b.streams) |-> s])
BY Zenon DEF OfGroup, FoldLeft, MapThenFoldSet, Max, Streams!Folded, Streams!IsFold,
             Streams!Greatest, StreamStep

GroupStep(c, acc, w) == OfGroup(c.b, c.wild, w, acc)
GroupsSoFar(c, k, acc) ==
  Rounding(c.b, c.filled, k, acc, DimsTo(c.b, Len(c.b.streams)))
PerGroup == INSTANCE FoldSteps WITH Step <- GroupStep, Inv <- GroupsSoFar

LEMMA GroupsFold ==
  ASSUME NEW c, NEW acc
  PROVE  AllRounded(c.b, c.wild, acc) = PerGroup!Folded(c, acc, [w \in Groups(c.b) |-> w])
BY Zenon DEF AllRounded, OfGroup, OfStream, FoldLeft, MapThenFoldSet, Max, PerGroup!Folded,
             PerGroup!IsFold, PerGroup!Greatest, GroupStep

LEMMA DimensionRounded ==
  ASSUME NEW b \in Benchmarks, NEW wild \in Wild, NEW filled,
         DOMAIN filled.thread = AllThreads(b), NEW w \in Groups(b),
         NEW s \in Index(b.streams), NEW dim \in DimsOf(b, s), NEW acc, NEW dims,
         Rounding(b, filled, w, acc, dims)
  PROVE  Rounding(b, filled, w, RoundDimension(b, wild, acc, w, s, dim), dims \cup {dim})
<1> DEFINE elems == Elements(b, wild, acc, w, s, dim)
           to == RoundDimension(b, wild, acc, w, s, dim)
<1>1. to = IF ~ acc.ok \/ \E g \in Members(b, w) : elems[g] = 0
           THEN [acc EXCEPT !.ok = FALSE] ELSE RoundedTo(b, acc, w, dim, elems)
  BY RoundingIs, Zenon
<1>2. Shape(acc, filled) /\ (Apart(b) => Whole(b, w, acc, dims))
  BY Zenon DEF Rounding
<1>3. Apart(b) => dim # bbytesperiter
  BY Zenon DEF Apart
<1> HIDE DEF to
<1>4. CASE ~ acc.ok \/ \E g \in Members(b, w) : elems[g] = 0
  <2>1. to = [acc EXCEPT !.ok = FALSE]
    BY <1>1, <1>4, Zenon
  <2>2. Shape([acc EXCEPT !.ok = FALSE], filled)
    BY <1>2, RefusalKeepsShape, Zenon
  <2>3. Apart(b) => Whole(b, w, [acc EXCEPT !.ok = FALSE], dims \cup {dim})
    BY <1>2, RefusalKeepsWhole, Zenon
  <2> QED BY <2>1, <2>2, <2>3, Zenon DEF to, Rounding
<1>5. CASE ~ (~ acc.ok \/ \E g \in Members(b, w) : elems[g] = 0)
  <2>1. to = RoundedTo(b, acc, w, dim, elems) /\ acc.ok
    BY <1>1, <1>5, Zenon
  <2> HIDE DEF elems
  <2>2. Shape(RoundedTo(b, acc, w, dim, elems), filled)
    BY <1>2, RoundingKeepsShape, Zenon
  <2>3. Apart(b) => Whole(b, w, RoundedTo(b, acc, w, dim, elems), dims \cup {dim})
    BY <1>2, <1>3, <2>1, RoundingKeepsWhole, Zenon DEF elems
  <2> QED BY <2>1, <2>2, <2>3, Zenon DEF to, Rounding
<1> QED BY <1>4, <1>5, Zenon

LEMMA StreamRounded ==
  ASSUME NEW b \in Benchmarks, NEW wild \in Wild, NEW filled,
         DOMAIN filled.thread = AllThreads(b), NEW w \in Groups(b),
         NEW s \in Index(b.streams), NEW acc, NEW dims, Rounding(b, filled, w, acc, dims)
  PROVE  Rounding(b, filled, w, OfStream(b, wild, w, s, acc), dims \cup DimsOf(b, s))
<1> DEFINE c == [b |-> b, wild |-> wild, filled |-> filled, w |-> w, s |-> s, before |-> dims]
           seq == b.streams[s].dims
           n == Len(seq)
           Upto(k) == {seq[i] : i \in 1 .. k}
<1>1. /\ c.b = b /\ c.wild = wild /\ c.filled = filled /\ c.w = w /\ c.s = s
      /\ c.before = dims
  OBVIOUS
<1> HIDE DEF c
<1>2. n \in Nat /\ DOMAIN seq = 1 .. n
  <2> DEFINE Stream == [size : Nat \ {0}, dims : Seq(Seq(STRING))]
             streams == b.streams
  <2>1. streams \in Seq(Stream) /\ s \in 1 .. Len(streams)
    BY BenchmarksAssumption, Zenon DEF Index
  <2> HIDE DEF Stream, streams
  <2>2. streams[s] \in Stream
    BY <2>1
  <2>3. seq \in Seq(Seq(STRING))
    BY <2>2 DEF Stream, streams
  <2> HIDE DEF seq
  <2> QED BY <2>3
<1>3. OfStream(b, wild, w, s, acc) = Dims!Folded(c, acc, seq)
  <2>1. OfStream(c.b, c.wild, c.w, c.s, acc) = Dims!Folded(c, acc, c.b.streams[c.s].dims)
    BY DimsFold, Zenon
  <2> QED BY <1>1, <2>1, Zenon
<1>4. \A k, x : DimsSoFar(c, k, x) <=> Rounding(b, filled, w, x, dims \cup Upto(k))
  BY <1>1, Zenon DEF DimsSoFar
<1>5. DimsSoFar(c, 0, acc)
  <2>1. dims \cup Upto(0) = dims
    OBVIOUS
  <2> QED BY <1>4, <2>1, Zenon
<1>6. ASSUME NEW k \in 1 .. n, NEW x, DimsSoFar(c, k - 1, x)
      PROVE  DimsSoFar(c, k, DimStep(c, x, seq[k]))
  <2>1. Rounding(b, filled, w, x, dims \cup Upto(k - 1))
    BY <1>4, <1>6, Zenon
  <2>2. seq[k] \in DimsOf(b, s)
    BY <1>2, Zenon DEF DimsOf, Range
  <2>3. Rounding(b, filled, w, RoundDimension(b, wild, x, w, s, seq[k]),
                 (dims \cup Upto(k - 1)) \cup {seq[k]})
    BY <2>1, <2>2, DimensionRounded, Zenon
  <2>4. (dims \cup Upto(k - 1)) \cup {seq[k]} = dims \cup Upto(k)
    <3>1. \A i : i \in 1 .. k <=> i \in 1 .. k - 1 \/ i = k
      OBVIOUS
    <3>2. Upto(k) = Upto(k - 1) \cup {seq[k]}
      BY <3>1, Zenon
    <3> HIDE DEF Upto, seq
    <3> QED BY <3>2
  <2>5. DimStep(c, x, seq[k]) = RoundDimension(b, wild, x, w, s, seq[k])
    BY <1>1, Zenon DEF DimStep
  <2> QED BY <1>4, <2>3, <2>4, <2>5, Zenon
<1>7. DimsSoFar(c, n, Dims!Folded(c, acc, seq))
  BY <1>2, <1>5, <1>6, Dims!Kept
<1>8. Upto(n) = DimsOf(b, s)
  BY <1>2, Zenon DEF DimsOf, Range
<1> QED BY <1>3, <1>4, <1>7, <1>8, Zenon

LEMMA GroupRounded ==
  ASSUME NEW b \in Benchmarks, NEW wild \in Wild, NEW filled,
         DOMAIN filled.thread = AllThreads(b), NEW w \in Groups(b), NEW acc,
         Rounding(b, filled, w, acc, {})
  PROVE  Rounding(b, filled, w, OfGroup(b, wild, w, acc), DimsTo(b, Len(b.streams)))
<1> DEFINE c == [b |-> b, wild |-> wild, filled |-> filled, w |-> w]
           n == Len(b.streams)
           seq == [s \in Index(b.streams) |-> s]
<1>1. c.b = b /\ c.wild = wild /\ c.filled = filled /\ c.w = w
  OBVIOUS
<1> HIDE DEF c
<1>2. n \in Nat
  <2> DEFINE Stream == [size : Nat \ {0}, dims : Seq(Seq(STRING))]
             streams == b.streams
  <2>1. streams \in Seq(Stream)
    BY BenchmarksAssumption, Zenon
  <2> HIDE DEF Stream
  <2> QED BY <2>1
<1>3. DOMAIN seq = 1 .. n /\ \A k \in 1 .. n : seq[k] = k
  BY Zenon DEF Index
<1>4. OfGroup(b, wild, w, acc) = Streams!Folded(c, acc, seq)
  BY <1>1, StreamsFold, Zenon
<1> HIDE DEF seq
<1>5. \A k, x : StreamsSoFar(c, k, x) <=> Rounding(b, filled, w, x, DimsTo(b, k))
  BY <1>1, Zenon DEF StreamsSoFar
<1>6. StreamsSoFar(c, 0, acc)
  <2>1. DimsTo(b, 0) = {}
    BY DEF DimsTo
  <2> QED BY <1>5, <2>1, Zenon
<1>7. ASSUME NEW k \in 1 .. n, NEW x, StreamsSoFar(c, k - 1, x)
      PROVE  StreamsSoFar(c, k, StreamStep(c, x, seq[k]))
  <2>1. Rounding(b, filled, w, x, DimsTo(b, k - 1))
    BY <1>5, <1>7, Zenon
  <2>2. k \in Index(b.streams)
    BY Zenon DEF Index
  <2>3. Rounding(b, filled, w, OfStream(b, wild, w, k, x), DimsTo(b, k - 1) \cup DimsOf(b, k))
    BY <2>1, <2>2, StreamRounded, Zenon
  <2>4. DimsTo(b, k - 1) \cup DimsOf(b, k) = DimsTo(b, k)
    <3>1. \A i : i \in 1 .. k <=> i \in 1 .. k - 1 \/ i = k
      OBVIOUS
    <3> QED BY <3>1, Zenon DEF DimsTo
  <2>5. StreamStep(c, x, seq[k]) = OfStream(b, wild, w, k, x)
    BY <1>1, <1>3, Zenon DEF StreamStep
  <2> QED BY <1>5, <2>3, <2>4, <2>5, Zenon
<1>8. StreamsSoFar(c, n, Streams!Folded(c, acc, seq))
  BY <1>2, <1>3, <1>6, <1>7, Streams!Kept
<1> QED BY <1>4, <1>5, <1>8, Zenon

LEMMA RoundedAll ==
  ASSUME NEW b \in Benchmarks, NEW wild \in Wild, NEW filled,
         Shape(filled, filled), DOMAIN filled.thread = AllThreads(b),
         Apart(b) => BytesKept(b, filled)
  PROVE  /\ Shape(AllRounded(b, wild, filled), filled)
         /\ Apart(b) => SizesWhole(b, AllRounded(b, wild, filled), DimsTo(b, Len(b.streams)))
<1> DEFINE c == [b |-> b, wild |-> wild, filled |-> filled]
           n == Len(b.groups)
           dims == DimsTo(b, Len(b.streams))
           seq == [w \in Groups(b) |-> w]
<1>1. c.b = b /\ c.wild = wild /\ c.filled = filled
  OBVIOUS
<1> HIDE DEF c
<1>2. n \in Nat \ {0}
  BY BenchmarksAssumption
<1>3. DOMAIN seq = 1 .. n /\ \A k \in 1 .. n : seq[k] = k
  BY Zenon DEF Index, Groups
<1>4. AllRounded(b, wild, filled) = PerGroup!Folded(c, filled, seq)
  BY <1>1, GroupsFold, Zenon
<1> HIDE DEF seq
<1>5. \A k, x : GroupsSoFar(c, k, x) <=> Rounding(b, filled, k, x, dims)
  BY <1>1, Zenon DEF GroupsSoFar
<1>6. GroupsSoFar(c, 0, filled)
  <2>1. Apart(b) => Whole(b, 0, filled, dims)
    BY <1>2, Zenon DEF Whole
  <2> QED BY <1>5, <2>1, Zenon DEF Rounding
<1>7. ASSUME NEW k \in 1 .. n, NEW x, GroupsSoFar(c, k - 1, x)
      PROVE  GroupsSoFar(c, k, GroupStep(c, x, seq[k]))
  <2>1. Rounding(b, filled, k - 1, x, dims)
    BY <1>5, <1>7, Zenon
  <2>2. k \in Groups(b)
    BY Zenon DEF Index, Groups
  <2>3. Rounding(b, filled, k, x, {})
    <3>1. \A y : SizesWhole(b, y, {})
      BY DEF SizesWhole
    <3> QED BY <2>1, <3>1, Zenon DEF Rounding, Whole
  <2>4. Rounding(b, filled, k, OfGroup(b, wild, k, x), dims)
    BY <2>2, <2>3, GroupRounded, Zenon
  <2>5. GroupStep(c, x, seq[k]) = OfGroup(b, wild, k, x)
    BY <1>1, <1>3, Zenon DEF GroupStep
  <2> QED BY <1>5, <2>4, <2>5, Zenon
<1>8. GroupsSoFar(c, n, PerGroup!Folded(c, filled, seq))
  <2>1. n \in Nat
    BY <1>2
  <2> HIDE DEF n
  <2> QED BY <1>3, <1>6, <1>7, <2>1, PerGroup!Kept
<1>9. Rounding(b, filled, n, AllRounded(b, wild, filled), dims)
  BY <1>4, <1>5, <1>8, Zenon
<1> QED BY <1>9, Zenon DEF Rounding, Whole

-----------------------------------------------------------------------------
(* The threads in their order.                                             *)

LEMMA CountMembers ==
  ASSUME NEW b, NEW w \in Groups(b), b.groups[w] \in Nat
  PROVE  IsFiniteSet(Members(b, w)) /\ Cardinality(Members(b, w)) = b.groups[w]
<1> DEFINE n == b.groups[w]
           S == Members(b, w)
           f == [i \in 1 .. n |-> <<w, i - 1>>]
<1>1. S = {<<w, t>> : t \in 0 .. n - 1}
  BY DEF Members
<1> HIDE DEF S, n
<1>2. n \in Nat
  BY DEF n
<1>3. f \in [1 .. n -> S]
  BY <1>1, <1>2
<1>4. \A i, j \in 1 .. n : f[i] = f[j] => i = j
  BY <1>2
<1>5. \A x \in S : \E i \in 1 .. n : f[i] = x
  <2> TAKE x \in S
  <2>1. PICK t \in 0 .. n - 1 : x = <<w, t>>
    BY <1>1
  <2>2. t + 1 \in 1 .. n /\ f[t + 1] = x
    BY <1>2, <2>1
  <2> QED BY <2>2
<1> HIDE DEF f
<1>6. f \in Bijection(1 .. n, S)
  BY <1>3, <1>4, <1>5 DEF Bijection, Injection, Surjection, IsInjective
<1>7. ExistsBijection(1 .. n, S)
  BY <1>6 DEF ExistsBijection
<1> QED BY <1>2, <1>7, FS_NatBijection, FS_CountingElements, Zenon DEF n, S

\* The threads of the first k groups.
FirstThreads(b, k) == UNION {Members(b, w) : w \in 1 .. k}

LEMMA CountThreads ==
  ASSUME NEW b, b.groups \in Seq(Nat \ {0})
  PROVE  Cardinality(AllThreads(b)) = Total(b, Len(b.groups))
<1> DEFINE n == Len(b.groups)
           Good == {k \in 0 .. n : /\ IsFiniteSet(FirstThreads(b, k))
                                   /\ Cardinality(FirstThreads(b, k)) = Total(b, k)}
<1>1. 0 \in Good
  <2>1. FirstThreads(b, 0) = {} /\ 0 \in 0 .. n
    BY DEF FirstThreads
  <2>2. Total(b, 0) = 0
    BY TotalSteps
  <2> QED BY <2>1, <2>2, FS_EmptySet, Zenon
<1>2. ASSUME NEW k \in 1 .. n, k - 1 \in Good
      PROVE  k \in Good
  <2> DEFINE S == FirstThreads(b, k - 1)
             T == Members(b, k)
  <2>1. IsFiniteSet(S) /\ Cardinality(S) = Total(b, k - 1)
    BY <1>2, Zenon
  <2>2. IsFiniteSet(T) /\ Cardinality(T) = b.groups[k]
    <3>1. k \in Groups(b) /\ b.groups[k] \in Nat
      BY DEF Groups, Index
    <3> QED BY <3>1, CountMembers, Zenon
  <2>3. S \cap T = {}
    <3>1. \A g \in S : g[1] \in 1 .. k - 1
      BY DEF FirstThreads, Members
    <3>2. \A g \in T : g[1] = k
      BY DEF Members
    <3> HIDE DEF S, T
    <3> QED BY <3>1, <3>2
  <2>4. FirstThreads(b, k) = S \cup T
    <3>1. \A i : i \in 1 .. k <=> i \in 1 .. k - 1 \/ i = k
      OBVIOUS
    <3> QED BY <3>1, Zenon DEF FirstThreads
  <2>5. Total(b, k) = Total(b, k - 1) + b.groups[k]
    BY TotalSteps
  <2>6. Total(b, k - 1) \in Nat /\ b.groups[k] \in Nat
    <3>1. k - 1 \in 0 .. n
      OBVIOUS
    <3> QED BY <3>1, TotalType
  <2> HIDE DEF S, T
  <2>7. /\ IsFiniteSet(S \cup T)
        /\ Cardinality(S \cup T) = Cardinality(S) + Cardinality(T) - Cardinality({})
    BY <2>1, <2>2, <2>3, FS_Union
  <2>8. Cardinality(S \cup T) = Total(b, k)
    <3>1. Cardinality({}) = 0
      BY FS_EmptySet
    <3> QED BY <2>1, <2>2, <2>5, <2>6, <2>7, <3>1
  <2>9. k \in 0 .. n
    OBVIOUS
  <2> QED BY <2>4, <2>7, <2>8, <2>9, Zenon
<1>3. n \in Nat
  OBVIOUS
<1> HIDE DEF Good, n
<1>4. \A k \in 0 .. n : k \in Good
  BY <1>1, <1>2, <1>3, Induction
<1>5. n \in Good
  BY <1>3, <1>4
<1>6. FirstThreads(b, n) = AllThreads(b)
  BY Zenon DEF FirstThreads, AllThreads, Groups, Index, n
<1> QED BY <1>5, <1>6, Zenon DEF Good, n

LEMMA Appended ==
  ASSUME NEW S, NEW s \in Seq(S), NEW t \in Seq(S)
  PROVE  /\ s \o t \in Seq(S) /\ Len(s \o t) = Len(s) + Len(t)
         /\ \A i \in 1 .. Len(s) : (s \o t)[i] = s[i]
         /\ \A i \in 1 .. Len(t) : (s \o t)[Len(s) + i] = t[i]
OBVIOUS

\* The list of all threads has thread t of group w at the position of its
\* global number.
InOrderTo(b, k, list) ==
  /\ list \in Seq(AllThreads(b)) /\ Len(list) = Total(b, k)
  /\ \A w \in 1 .. k : \A t \in 0 .. b.groups[w] - 1 :
       /\ Total(b, w - 1) + t + 1 \in 1 .. Len(list)
       /\ list[Total(b, w - 1) + t + 1] = <<w, t>>

LEMMA ThreadsInOrder ==
  ASSUME NEW b, b.groups \in Seq(Nat \ {0})
  PROVE  InOrderTo(b, Len(b.groups), FlattenSeq([w \in Groups(b) |-> Visited(b, w)]))
<1> DEFINE n == Len(b.groups)
           V == [w \in 1 .. n |-> Visited(b, w)]
           S == AllThreads(b)
           Good == {k \in 0 .. n : InOrderTo(b, k, Joined(V, k))}
<1>1. n \in Nat
  OBVIOUS
<1>2. ASSUME NEW w \in 1 .. n
      PROVE  /\ Visited(b, w) \in Seq(S) /\ Len(Visited(b, w)) = b.groups[w]
             /\ \A i \in 1 .. b.groups[w] : Visited(b, w)[i] = <<w, i - 1>>
  <2> DEFINE m == b.groups[w]
  <2>1. m \in Nat
    OBVIOUS
  <2>2. \A i \in 1 .. m : <<w, i - 1>> \in S
    <3> TAKE i \in 1 .. m
    <3>1. i - 1 \in 0 .. m - 1 /\ w \in Groups(b)
      BY <2>1 DEF Groups, Index
    <3>2. <<w, i - 1>> \in Members(b, w)
      BY <3>1, Zenon DEF Members
    <3> QED BY <3>1, <3>2, Zenon DEF AllThreads
  <2>3. Visited(b, w) = [i \in 1 .. m |-> <<w, i - 1>>]
    BY Zenon DEF Visited
  <2> HIDE DEF m, S
  <2>4. [i \in 1 .. m |-> <<w, i - 1>>] \in Seq(S) /\ Len([i \in 1 .. m |-> <<w, i - 1>>]) = m
    BY <2>1, <2>2
  <2>5. \A i \in 1 .. m : [j \in 1 .. m |-> <<w, j - 1>>][i] = <<w, i - 1>>
    OBVIOUS
  <2> QED BY <2>3, <2>4, <2>5, Zenon DEF m
<1>3. V \in [1 .. n -> Seq(S)]
  BY <1>2, Zenon
<1>4. /\ Joined(V, 0) = <<>>
      /\ \A k \in 1 .. n : Joined(V, k) = Joined(V, k - 1) \o V[k]
      /\ \A k \in 0 .. n : Joined(V, k) \in Seq(S)
      /\ FlattenSeq(V) = Joined(V, n)
  <2> HIDE DEF S, V, n
  <2> QED BY <1>1, <1>3, JoinedStep
<1>5. \A k \in 1 .. n : V[k] = Visited(b, k)
  OBVIOUS
<1> HIDE DEF V
<1>6. 0 \in Good
  <2>1. Total(b, 0) = 0 /\ 0 \in 0 .. n
    BY TotalSteps
  <2>2. <<>> \in Seq(S) /\ Len(<<>>) = 0 /\ 1 .. 0 = {}
    OBVIOUS
  <2>3. InOrderTo(b, 0, <<>>)
    BY <2>1, <2>2, Zenon DEF InOrderTo
  <2> QED BY <1>4, <2>1, <2>3, Zenon
<1>7. ASSUME NEW k \in 1 .. n, k - 1 \in Good
      PROVE  k \in Good
  <2> DEFINE less == Joined(V, k - 1)
             next == Visited(b, k)
             list == less \o next
             m == b.groups[k]
             T == Total(b, k - 1)
  <2>1. less \in Seq(S) /\ Len(less) = T
    BY <1>7, Zenon DEF InOrderTo
  <2>2. \A w \in 1 .. k - 1 : \A t \in 0 .. b.groups[w] - 1 :
          /\ Total(b, w - 1) + t + 1 \in 1 .. T
          /\ less[Total(b, w - 1) + t + 1] = <<w, t>>
    BY <1>7, Zenon DEF InOrderTo
  <2>3. next \in Seq(S) /\ Len(next) = m /\ \A i \in 1 .. m : next[i] = <<k, i - 1>>
    BY <1>2
  <2>4. Joined(V, k) = list
    BY <1>4, <1>5
  <2>5. Total(b, k) = T + m /\ T \in Nat /\ m \in Nat
    <3>1. k - 1 \in 0 .. n
      OBVIOUS
    <3> QED BY <3>1, TotalType, TotalSteps
  <2> HIDE DEF less, next, m, T, S
  <2>6. /\ list \in Seq(S) /\ Len(list) = T + m
        /\ \A i \in 1 .. T : list[i] = less[i]
        /\ \A i \in 1 .. m : list[T + i] = next[i]
    <3>1. /\ list \in Seq(S) /\ Len(list) = Len(less) + Len(next)
          /\ \A i \in 1 .. Len(less) : list[i] = less[i]
          /\ \A i \in 1 .. Len(next) : list[Len(less) + i] = next[i]
      <4>1. less \in Seq(S) /\ next \in Seq(S)
        BY <2>1, <2>3
      <4> QED BY <4>1, Appended
    <3> HIDE DEF list
    <3> QED BY <2>1, <2>3, <3>1
  <2> HIDE DEF list
  <2>7. ASSUME NEW w \in 1 .. k, NEW t \in 0 .. b.groups[w] - 1
        PROVE  /\ Total(b, w - 1) + t + 1 \in 1 .. Len(list)
               /\ list[Total(b, w - 1) + t + 1] = <<w, t>>
    <3>1. CASE w = k
      <4>1. t + 1 \in 1 .. m /\ t \in 0 .. m - 1 /\ (t + 1) - 1 = t
        BY <2>5, <2>7, <3>1 DEF m
      <4>2. T + (t + 1) \in 1 .. Len(list) /\ list[T + (t + 1)] = <<k, t>>
        <5>1. list[T + (t + 1)] = next[t + 1] /\ next[t + 1] = <<k, (t + 1) - 1>>
          BY <2>3, <2>6, <4>1, Zenon
        <5>2. T + (t + 1) \in 1 .. T + m
          BY <2>5, <4>1
        <5> QED BY <2>6, <4>1, <5>1, <5>2, Zenon
      <4>3. T + (t + 1) = Total(b, w - 1) + t + 1
        BY <2>5, <3>1, <4>1 DEF T
      <4> QED BY <3>1, <4>2, <4>3
    <3>2. CASE w # k
      <4>1. w \in 1 .. k - 1
        BY <3>2
      <4>2. /\ Total(b, w - 1) + t + 1 \in 1 .. T
            /\ less[Total(b, w - 1) + t + 1] = <<w, t>>
        BY <2>2, <4>1
      <4> HIDE DEF T
      <4> QED BY <2>5, <2>6, <4>2
    <3> QED BY <3>1, <3>2
  <2>8. InOrderTo(b, k, list)
    BY <2>5, <2>6, <2>7, Zenon DEF InOrderTo, S
  <2>9. k \in 0 .. n
    OBVIOUS
  <2> QED BY <2>4, <2>8, <2>9, Zenon
<1> HIDE DEF Good
<1>8. \A k \in 0 .. n : k \in Good
  <2> HIDE DEF n
  <2> QED BY <1>1, <1>6, <1>7, Induction
<1>9. n \in Good
  BY <1>8
<1>10. [w \in Groups(b) |-> Visited(b, w)] = V
  BY Zenon DEF Groups, Index, V
<1> QED BY <1>4, <1>9, <1>10, Zenon DEF Good

-----------------------------------------------------------------------------
(* What the stores hold.                                                   *)

LEMMA Merged ==
  \A f, g : DOMAIN (f ++ g) = DOMAIN f \cup DOMAIN g
BY Merge, Zenon

LEMMA MergedOne ==
  \A f, x, y : DOMAIN (f ++ Entry(x, y)) = DOMAIN f \cup {x}
<1> TAKE f, x, y
<1>1. DOMAIN (f ++ Entry(x, y)) = DOMAIN f \cup DOMAIN Entry(x, y)
  BY Merged, Zenon
<1>2. DOMAIN Entry(x, y) = {x}
  BY One, Zenon
<1> QED BY <1>1, <1>2

LEMMA ThreadFill ==
  ASSUME NEW b, NEW g, IsStore(thread[g])
  PROVE  /\ IsStore(ThreadFilled(b, g)) /\ ThreadFilled(b, g).values = thread[g].values
         /\ ThreadIds \subseteq DOMAIN ThreadFilled(b, g).variables
<1> DEFINE M == Params(b) ++ Entry(biterations, Number(0)) ++ Variables(b)
                  ++ Entry(bnumthreads, Number(b.groups[g[1]])) ++ Entry(bgroupid, Number(g[1] - 1))
                  ++ Entry(bglobalid, Number(Total(b, g[1] - 1) + g[2])) ++ Entry(bthreadid, Number(g[2]))
<1>1. ThreadFilled(b, g) = add_variables(thread[g], M)
  BY Zenon DEF ThreadFilled
<1>2. ThreadIds \subseteq DOMAIN M
  <2> DEFINE base == Params(b) ++ Entry(biterations, Number(0)) ++ Variables(b)
             one == base ++ Entry(bnumthreads, Number(b.groups[g[1]]))
             two == one ++ Entry(bgroupid, Number(g[1] - 1))
             three == two ++ Entry(bglobalid, Number(Total(b, g[1] - 1) + g[2]))
  <2>1. DOMAIN one = DOMAIN base \cup {bnumthreads}
    BY MergedOne
  <2>2. DOMAIN two = DOMAIN one \cup {bgroupid}
    BY MergedOne
  <2>3. DOMAIN three = DOMAIN two \cup {bglobalid}
    BY MergedOne
  <2>4. DOMAIN M = DOMAIN three \cup {bthreadid}
    BY MergedOne
  <2> HIDE DEF M, base, one, two, three
  <2> QED BY <2>1, <2>2, <2>3, <2>4, Zenon DEF ThreadIds
<1> HIDE DEF M
<1>3. /\ IsStore(add_variables(thread[g], M))
      /\ add_variables(thread[g], M).values = thread[g].values
      /\ add_variables(thread[g], M).variables = thread[g].variables ++ M
  BY VariablesAdded
<1>4. DOMAIN (thread[g].variables ++ M) = DOMAIN thread[g].variables \cup DOMAIN M
  BY Merged, Zenon
<1>5. ThreadIds \subseteq DOMAIN add_variables(thread[g], M).variables
  BY <1>2, <1>3, <1>4, Zenon
<1> QED BY <1>1, <1>3, <1>5, Zenon

LEMMA GroupFill ==
  ASSUME NEW b, NEW w, IsStore(group[w])
  PROVE  /\ IsStore(GroupFilled(b, w)) /\ GroupFilled(b, w).values = group[w].values
         /\ GroupIds \subseteq DOMAIN GroupFilled(b, w).variables
<1> DEFINE M == Entry(bnumthreads, Number(b.groups[w])) ++ Entry(bgroupid, Number(w - 1))
<1>1. GroupFilled(b, w) = add_variables(group[w], M)
  BY Zenon DEF GroupFilled
<1>2. GroupIds \subseteq DOMAIN M
  <2>1. DOMAIN Entry(bnumthreads, Number(b.groups[w])) = {bnumthreads}
    BY One, Zenon
  <2>2. DOMAIN M = {bnumthreads} \cup {bgroupid}
    BY <2>1, MergedOne
  <2> HIDE DEF M
  <2> QED BY <2>2, Zenon DEF GroupIds
<1> HIDE DEF M
<1>3. /\ IsStore(add_variables(group[w], M))
      /\ add_variables(group[w], M).values = group[w].values
      /\ add_variables(group[w], M).variables = group[w].variables ++ M
  BY VariablesAdded
<1>4. DOMAIN (group[w].variables ++ M) = DOMAIN group[w].variables \cup DOMAIN M
  BY Merged, Zenon
<1>5. GroupIds \subseteq DOMAIN add_variables(group[w], M).variables
  BY <1>2, <1>3, <1>4, Zenon
<1> QED BY <1>1, <1>3, <1>5, Zenon

LEMMA GlobalFill ==
  ASSUME NEW b, IsStore(global)
  PROVE  /\ IsStore(GlobalFilled(b)) /\ GlobalFilled(b).values = global.values
         /\ GlobalIds \subseteq DOMAIN GlobalFilled(b).variables
<1> DEFINE M == Params(b) ++ Variables(b) ++ Entry(bnumthreads, Number(Total(b, Len(b.groups))))
                  ++ _SizeOfStreamType
<1>1. GlobalFilled(b) = add_variables(global, M)
  BY Zenon DEF GlobalFilled
<1>2. GlobalIds \subseteq DOMAIN M
  <2> DEFINE base == Params(b) ++ Variables(b)
             some == base ++ Entry(bnumthreads, Number(Total(b, Len(b.groups))))
  <2>1. DOMAIN some = DOMAIN base \cup {bnumthreads}
    BY MergedOne
  <2>2. DOMAIN M = DOMAIN some \cup DOMAIN _SizeOfStreamType
    BY Merged, Zenon
  <2> HIDE DEF M, base, some
  <2> QED BY <2>1, <2>2, Zenon DEF GlobalIds
<1> HIDE DEF M
<1>3. /\ IsStore(add_variables(global, M))
      /\ add_variables(global, M).values = global.values
      /\ add_variables(global, M).variables = global.variables ++ M
  BY VariablesAdded
<1>4. DOMAIN (global.variables ++ M) = DOMAIN global.variables \cup DOMAIN M
  BY Merged, Zenon
<1>5. GlobalIds \subseteq DOMAIN add_variables(global, M).variables
  BY <1>2, <1>3, <1>4, Zenon
<1> QED BY <1>1, <1>3, <1>5, Zenon

\* The names a thread has values for after the run.
Keys == bstats \cup {m.name : m \in Range(bench.metrics)}

LEMMA Names ==
  cycles # freq /\ cycles # time /\ freq # time
BY DEF cycles, freq, time

LEMMA NamesOfMetrics ==
  ASSUME NEW b \in Benchmarks
  PROVE  /\ Len(b.metrics) \in Nat /\ DOMAIN b.metrics = 1 .. Len(b.metrics)
         /\ \A i \in 1 .. Len(b.metrics) :
              b.metrics[i].name \in Seq(STRING) \ {cycles, freq, time}
<1> DEFINE Name == Seq(STRING) \ {cycles, freq, time}
           Tokens == Seq(Seq(STRING))
           metrics == b.metrics
           Metric == [name : Name, tokens : Tokens]
<1>1. metrics \in Seq(Metric)
  BY BenchmarksAssumption, Zenon
<1> HIDE DEF Name, Tokens, metrics, Metric
<1>2. Len(metrics) \in Nat /\ DOMAIN metrics = 1 .. Len(metrics)
  BY <1>1
<1>3. \A i \in 1 .. Len(metrics) : metrics[i].name \in Name
  <2> TAKE i \in 1 .. Len(metrics)
  <2>1. metrics[i] \in Metric
    BY <1>1
  <2> QED BY <2>1 DEF Metric
<1> QED BY <1>2, <1>3 DEF Name, metrics

\* The keys in the order of the alphabet are the stats, in that of the values.
LEMMA KeysAre ==
  ASSUME bench \in Benchmarks, detailed \in BOOLEAN,
         \/ DOMAIN thread[<<1, 0>>].values = Keys
         \/ DOMAIN thread[<<1, 0>>].values = bstats
  PROVE  bkeys_sorted = IF detailed THEN <<cycles, freq, time>> ELSE <<time>>
<1> DEFINE keys == DOMAIN thread[<<1, 0>>].values
<1>1. bkeys_sorted = Listed(Alphabet, keys)
  BY Zenon DEF bkeys_sorted
<1>2. \A m \in Range(bench.metrics) : m.name \notin {cycles, freq, time}
  BY NamesOfMetrics, Zenon DEF Range
<1> HIDE DEF keys
<1>3. CASE detailed
  <2>1. bstats = {cycles, freq, time}
    BY <1>3, Zenon DEF bstats
  <2>2. cycles \in keys /\ freq \in keys /\ time \in keys
    BY <2>1, Zenon DEF Keys, keys
  <2> QED BY <1>1, <1>3, <2>2, SortedKeys, Zenon
<1>4. CASE ~ detailed
  <2>1. bstats = {time}
    BY <1>4, Zenon DEF bstats
  <2>2. time \in keys
    BY <2>1, Zenon DEF Keys, keys
  <2>3. cycles \notin keys /\ freq \notin keys
    BY <1>2, <2>1, Names DEF Keys, keys
  <2> QED BY <1>1, <1>4, <2>2, <2>3, SortedKeys, Zenon
<1> QED BY <1>3, <1>4

\* A store with the stats has, after an update, values for all keys and the
\* stats that were measured.
Measures(g, r) ==
  /\ r.values[time] = Measured("time", g)
  /\ detailed => /\ r.values[cycles] = Measured("cycles", g)
                 /\ r.values[freq] = Measured("freq", g)

LEMMA ThreadUpdate ==
  ASSUME bench \in Benchmarks, detailed \in BOOLEAN,
         \/ DOMAIN thread[<<1, 0>>].values = Keys
         \/ DOMAIN thread[<<1, 0>>].values = bstats,
         NEW g, IsStore(thread[g]), DOMAIN thread[g].values = bstats
  PROVE  LET u == ThreadUpdated(g)
         IN  /\ IsStore(u) /\ u.variables = thread[g].variables
             /\ DOMAIN u.values = Keys /\ Measures(g, u)
<1> DEFINE keys == bkeys_sorted
           texts == StatValues(g)
           n == Len(keys)
           m == Len(bench.metrics)
           q == WithAll(keys, texts, thread[g])
           u == WithMetrics(global, bench.vars, bench.metrics, q)
<1>1. keys = IF detailed THEN <<cycles, freq, time>> ELSE <<time>>
  BY KeysAre
<1>2. /\ n \in Nat
      /\ \A i \in 1 .. n : keys[i] \in DOMAIN thread[g].values
      /\ \A i, j \in 1 .. n : keys[i] = keys[j] => i = j
  <2>1. CASE detailed
    <3>1. n = 3 /\ keys[1] = cycles /\ keys[2] = freq /\ keys[3] = time
      BY <1>1, <2>1
    <3>2. \A i \in 1 .. 3 : i = 1 \/ i = 2 \/ i = 3
      OBVIOUS
    <3>3. cycles \in bstats /\ freq \in bstats /\ time \in bstats
      BY <2>1, Zenon DEF bstats
    <3> HIDE DEF keys, n
    <3> QED BY <3>1, <3>2, <3>3, Names
  <2>2. CASE ~ detailed
    <3>1. n = 1 /\ keys[1] = time
      BY <1>1, <2>2
    <3>2. time \in bstats
      BY <2>2, Zenon DEF bstats
    <3> HIDE DEF keys, n
    <3> QED BY <3>1, <3>2
  <2> QED BY <2>1, <2>2
<1>3. StatsSoFar([keys |-> keys, texts |-> texts, r |-> thread[g]], n, q)
  <2> HIDE DEF keys, texts
  <2> QED BY <1>2, StatsAll
<1>4. /\ IsStore(q) /\ q.variables = thread[g].variables
      /\ DOMAIN q.values = bstats /\ \A i \in 1 .. n : q.values[keys[i]] = texts[i]
  <2> HIDE DEF keys, texts, q, n
  <2> DEFINE c == [keys |-> keys, texts |-> texts, r |-> thread[g]]
  <2>1. c.keys = keys /\ c.texts = texts /\ c.r = thread[g]
    OBVIOUS
  <2> HIDE DEF c
  <2>2. StatsSoFar(c, n, q)
    BY <1>3, Zenon DEF c
  <2> QED BY <2>1, <2>2, Zenon DEF StatsSoFar
<1>5. Measures(g, q)
  <2>1. CASE detailed
    <3>1. n = 3 /\ keys[1] = cycles /\ keys[2] = freq /\ keys[3] = time
      BY <1>1, <2>1
    <3>2. texts = <<Measured("cycles", g), Measured("freq", g), Measured("time", g)>>
      BY <2>1, Zenon DEF StatValues
    <3> HIDE DEF keys, n, q, texts
    <3>3. /\ texts[1] = Measured("cycles", g) /\ texts[2] = Measured("freq", g)
          /\ texts[3] = Measured("time", g)
      BY <3>2
    <3>4. 1 \in 1 .. n /\ 2 \in 1 .. n /\ 3 \in 1 .. n
      BY <3>1
    <3> QED BY <1>4, <3>1, <3>3, <3>4, Zenon DEF Measures
  <2>2. CASE ~ detailed
    <3>1. n = 1 /\ keys[1] = time
      BY <1>1, <2>2
    <3>2. texts = <<Measured("time", g)>>
      BY <2>2, Zenon DEF StatValues
    <3> HIDE DEF keys, n, q, texts
    <3>3. texts[1] = Measured("time", g) /\ 1 \in 1 .. n
      BY <3>1, <3>2
    <3> QED BY <1>4, <2>2, <3>1, <3>3, Zenon DEF Measures
  <2> QED BY <2>1, <2>2
<1>6. WithStats(thread[g], g) = q
  BY Zenon DEF WithStats, WithAll
<1>7. ThreadUpdated(g) = u
  BY <1>6, Zenon DEF ThreadUpdated, WithMetrics, Formula
<1>8. m \in Nat /\ DOMAIN bench.metrics = 1 .. m
  BY NamesOfMetrics
<1> HIDE DEF q
<1>9. /\ IsStore(u) /\ u.variables = q.variables
      /\ DOMAIN u.values = DOMAIN q.values \cup {bench.metrics[i].name : i \in 1 .. m}
      /\ \A x \in DOMAIN q.values : u.values[x] = q.values[x]
  BY <1>4, <1>8, MetricsAll
<1>10. {bench.metrics[i].name : i \in 1 .. m} = {x.name : x \in Range(bench.metrics)}
  BY <1>8, Zenon DEF Range
<1> HIDE DEF u, keys, texts, n, m
<1>11. DOMAIN u.values = Keys
  BY <1>4, <1>9, <1>10, Zenon DEF Keys
<1>12. Measures(g, u)
  <2>1. time \in bstats /\ (detailed => cycles \in bstats /\ freq \in bstats)
    BY DEF bstats
  <2> QED BY <1>4, <1>5, <1>9, <2>1, Zenon DEF Measures
<1> QED BY <1>4, <1>7, <1>9, <1>11, <1>12, Zenon

-----------------------------------------------------------------------------
(* The stores of the groups and of all threads.                            *)

\* The texts of a key, of the threads of one group and of those of all.
TextsIn(threads, b, w, k) == [i \in 1 .. b.groups[w] |-> threads[<<w, i - 1>>].values[k]]
TextsPerGroup(threads, b, k) == [w \in Groups(b) |-> TextsIn(threads, b, w, k)]

LEMMA VisitedIs ==
  ASSUME NEW b, NEW w, b.groups[w] \in Nat
  PROVE  /\ Index(Visited(b, w)) = 1 .. b.groups[w]
         /\ \A i \in 1 .. b.groups[w] : Visited(b, w)[i] = <<w, i - 1>>
<1> DEFINE m == b.groups[w]
<1>1. Visited(b, w) = [i \in 1 .. m |-> <<w, i - 1>>]
  BY Zenon DEF Visited
<1> HIDE DEF m
<1>2. Len([i \in 1 .. m |-> <<w, i - 1>>]) = m
  BY DEF m
<1>3. \A i \in 1 .. m : Visited(b, w)[i] = <<w, i - 1>>
  BY <1>1
<1> QED BY <1>1, <1>2, <1>3, Zenon DEF Index, m

LEMMA GroupSizes ==
  ASSUME NEW b \in Benchmarks
  PROVE  /\ Len(b.groups) \in Nat \ {0} /\ Groups(b) = 1 .. Len(b.groups)
         /\ \A w \in Groups(b) : b.groups[w] \in Nat \ {0}
<1> DEFINE groups == b.groups
<1>1. groups \in Seq(Nat \ {0}) /\ groups # <<>>
  BY BenchmarksAssumption, Zenon
<1>2. Groups(b) = 1 .. Len(groups)
  BY Zenon DEF Groups, Index
<1> HIDE DEF groups
<1>3. Len(groups) \in Nat \ {0} /\ \A w \in 1 .. Len(groups) : groups[w] \in Nat \ {0}
  BY <1>1
<1> QED BY <1>2, <1>3, Zenon DEF groups

LEMMA ThreadsOf ==
  ASSUME NEW b \in Benchmarks
  PROVE  /\ \A g \in AllThreads(b) : g[1] \in Groups(b)
         /\ \A w \in Groups(b) : Members(b, w) \subseteq AllThreads(b)
         /\ \A g \in AllThreads(b), w \in Groups(b) : g \in Members(b, w) <=> g[1] = w
         /\ \A w \in Groups(b) : \A i \in 1 .. b.groups[w] : <<w, i - 1>> \in Members(b, w)
         /\ \A w \in Groups(b) : <<w, 0>> \in Members(b, w)
<1>1. ASSUME NEW g \in AllThreads(b)
      PROVE  /\ g[1] \in Groups(b) /\ g \in Members(b, g[1])
             /\ \A w \in Groups(b) : g \in Members(b, w) => g[1] = w
  <2>1. PICK w \in Groups(b) : g \in Members(b, w)
    BY Zenon DEF AllThreads
  <2>2. \A v : g \in Members(b, v) => g[1] = v
    BY DEF Members
  <2> QED BY <2>1, <2>2, Zenon
<1>2. \A w \in Groups(b) : Members(b, w) \subseteq AllThreads(b)
  BY Zenon DEF AllThreads
<1>3. ASSUME NEW w \in Groups(b), NEW i \in 1 .. b.groups[w]
      PROVE  <<w, i - 1>> \in Members(b, w)
  <2>1. b.groups[w] \in Nat
    BY GroupSizes
  <2>2. i - 1 \in 0 .. b.groups[w] - 1
    BY <2>1
  <2> QED BY <2>2, Zenon DEF Members
<1>4. ASSUME NEW w \in Groups(b)
      PROVE  <<w, 0>> \in Members(b, w)
  <2>1. b.groups[w] \in Nat \ {0}
    BY GroupSizes
  <2>2. 0 \in 0 .. b.groups[w] - 1
    BY <2>1
  <2> QED BY <2>2, Zenon DEF Members
<1> QED BY <1>1, <1>2, <1>3, <1>4, Zenon

LEMMA TextsJoined ==
  ASSUME NEW b \in Benchmarks, NEW threads, NEW k
  PROVE  LET T == TextsPerGroup(threads, b, k)
         IN  /\ Joined(T, 0) = <<>>
             /\ \A w \in Groups(b) : Joined(T, w) = Joined(T, w - 1) \o TextsIn(threads, b, w, k)
             /\ FlattenSeq(T) = Joined(T, Len(b.groups))
<1> DEFINE S == {threads[g].values[k] : g \in AllThreads(b)}
           T == TextsPerGroup(threads, b, k)
           n == Len(b.groups)
<1>1. n \in Nat /\ Groups(b) = 1 .. n
  BY GroupSizes
<1>2. ASSUME NEW w \in Groups(b)
      PROVE  TextsIn(threads, b, w, k) \in Seq(S)
  <2> DEFINE m == b.groups[w]
             Text(i) == threads[<<w, i - 1>>].values[k]
  <2>1. m \in Nat
    BY GroupSizes
  <2>2. \A i \in 1 .. m : Text(i) \in S
    <3> TAKE i \in 1 .. m
    <3>1. <<w, i - 1>> \in AllThreads(b)
      BY ThreadsOf, Zenon
    <3> QED BY <3>1, Zenon
  <2>3. TextsIn(threads, b, w, k) = [i \in 1 .. m |-> Text(i)]
    BY Zenon DEF TextsIn
  <2> HIDE DEF m, Text, S
  <2>4. [i \in 1 .. m |-> Text(i)] \in Seq(S)
    BY <2>1, <2>2
  <2> QED BY <2>3, <2>4, Zenon
<1>3. T \in [1 .. n -> Seq(S)] /\ \A w \in 1 .. n : T[w] = TextsIn(threads, b, w, k)
  <2>1. T = [w \in Groups(b) |-> TextsIn(threads, b, w, k)]
    BY Zenon DEF TextsPerGroup
  <2> HIDE DEF T, S
  <2> QED BY <1>1, <1>2, <2>1, Zenon
<1> HIDE DEF T, S, n
<1>4. /\ Joined(T, 0) = <<>>
      /\ \A w \in 1 .. n : Joined(T, w) = Joined(T, w - 1) \o T[w]
      /\ FlattenSeq(T) = Joined(T, n)
  BY <1>1, <1>3, JoinedStep
<1> QED BY <1>1, <1>3, <1>4, Zenon DEF T, n

LEMMA JoinedAlike ==
  ASSUME NEW b, NEW threads, NEW others, NEW k, NEW m \in 0 .. Len(b.groups),
         \A w \in 1 .. m : w \in Groups(b) /\ TextsIn(threads, b, w, k) = TextsIn(others, b, w, k)
  PROVE  Joined(TextsPerGroup(threads, b, k), m) = Joined(TextsPerGroup(others, b, k), m)
<1> DEFINE T == TextsPerGroup(threads, b, k)
           U == TextsPerGroup(others, b, k)
<1>1. \A w \in 1 .. m : T[w] = U[w]
  BY Zenon DEF TextsPerGroup
<1> HIDE DEF T, U
<1>2. [i \in 1 .. m |-> T[i]] = [i \in 1 .. m |-> U[i]]
  BY <1>1, Zenon
<1> QED BY <1>2, Zenon DEF Joined, T, U

LEMMA NameAndKind ==
  ASSUME NEW A, NEW key \in Seq(A), NEW a
  PROVE  Last(key \o <<a>>) = a /\ Front(key \o <<a>>) = key
<1> DEFINE x == key \o <<a>>
           n == Len(key)
           S == A \cup {a}
<1>1. key \in Seq(S) /\ a \in S
  OBVIOUS
<1> HIDE DEF S
<1>2. <<a>> \in Seq(S) /\ Len(<<a>>) = 1 /\ <<a>>[1] = a /\ 1 \in 1 .. 1 /\ n \in Nat
  BY <1>1
<1>3. /\ x \in Seq(S) /\ Len(x) = Len(key) + Len(<<a>>)
      /\ \A i \in 1 .. Len(key) : x[i] = key[i]
      /\ \A i \in 1 .. Len(<<a>>) : x[Len(key) + i] = <<a>>[i]
  BY <1>1, <1>2, Appended
<1> HIDE DEF x
<1>4. Len(x) = n + 1 /\ x[n + 1] = a
  BY <1>2, <1>3
<1>5. Last(x) = a
  BY <1>4 DEF Last
<1>6. SubSeq(x, 1, n) = key
  BY <1>1, <1>2, <1>3
<1>7. Front(x) = key
  BY <1>2, <1>4, <1>6 DEF Front
<1> QED BY <1>5, <1>7 DEF x

LEMMA AggregatesAre ==
  ASSUME NEW A, NEW values, DOMAIN values \subseteq Seq(A)
  PROVE  \A k \in DOMAIN values, a \in aggregations :
           Aggregates(values)[k \o <<a>>] = Aggregate(a, values[k])
<1> TAKE k \in DOMAIN values, a \in aggregations
<1>1. Last(k \o <<a>>) = a /\ Front(k \o <<a>>) = k
  BY NameAndKind
<1>2. k \o <<a>> \in AggregateNames(DOMAIN values)
  BY DEF AggregateNames
<1>3. Aggregates(values)[k \o <<a>>] = Aggregate(Last(k \o <<a>>), values[Front(k \o <<a>>)])
  BY <1>2, Zenon DEF Aggregates
<1> QED BY <1>1, <1>3, Zenon

LEMMA Aggregated ==
  ASSUME NEW r, IsStore(r), r.values = <<>>, NEW values
  PROVE  /\ IsStore(_aggregate_results(r, values))
         /\ _aggregate_results(r, values).variables = r.variables
         /\ _aggregate_results(r, values).values = Aggregates(values)
<1> DEFINE more == Aggregates(values)
<1>1. _aggregate_results(r, values) = [r EXCEPT !.values = @ ++ more]
  BY Zenon DEF _aggregate_results
<1>2. more = [x \in DOMAIN more |-> more[x]]
  BY Zenon DEF Aggregates
<1> HIDE DEF more
<1>3. r.values ++ more = more
  <2>1. DOMAIN r.values = {}
    OBVIOUS
  <2>2. r.values ++ more = [x \in DOMAIN r.values \cup DOMAIN more |->
                              IF x \in DOMAIN r.values THEN r.values[x] ELSE more[x]]
    BY Zenon DEF ++
  <2>3. DOMAIN r.values \cup DOMAIN more = DOMAIN more
    BY <2>1
  <2>4. \A x : x \notin DOMAIN r.values
    BY <2>1
  <2>5. [x \in DOMAIN more |-> IF x \in DOMAIN r.values THEN r.values[x] ELSE more[x]]
          = [x \in DOMAIN more |-> more[x]]
    BY <2>4, Zenon
  <2> QED BY <1>2, <2>2, <2>3, <2>5, Zenon
<1>4. [r EXCEPT !.values = @ ++ more] = [variables |-> r.variables, values |-> r.values ++ more]
  BY DEF IsStore
<1>5. _aggregate_results(r, values) = [variables |-> r.variables, values |-> more]
  BY <1>1, <1>3, <1>4, Zenon
<1> QED BY <1>5 DEF IsStore, more

LEMMA MergeFirst ==
  \A f, g, x : x \in DOMAIN f => (f ++ g)[x] = f[x]
<1> TAKE f, g, x
<1> HAVE x \in DOMAIN f
<1>1. x \in DOMAIN f \cup DOMAIN g
  OBVIOUS
<1> QED BY <1>1, Zenon DEF ++

LEMMA MergeSecond ==
  \A f, g, x : x \notin DOMAIN f /\ x \in DOMAIN g => (f ++ g)[x] = g[x]
<1> TAKE f, g, x
<1> HAVE x \notin DOMAIN f /\ x \in DOMAIN g
<1>1. x \in DOMAIN f \cup DOMAIN g
  OBVIOUS
<1> QED BY <1>1, Zenon DEF ++

LEMMA StreamsAre ==
  ASSUME NEW b \in Benchmarks
  PROVE  /\ Len(b.streams) \in Nat /\ Index(b.streams) = 1 .. Len(b.streams)
         /\ \A s \in Index(b.streams) :
              /\ b.streams[s].size \in Nat \ {0} /\ b.streams[s].dims \in Seq(Seq(STRING))
              /\ DOMAIN b.streams[s].dims = 1 .. Len(b.streams[s].dims)
<1> DEFINE Size == Nat \ {0}
           Dimensions == Seq(Seq(STRING))
           Stream == [size : Size, dims : Dimensions]
           streams == b.streams
<1>1. streams \in Seq(Stream)
  BY BenchmarksAssumption, Zenon
<1> HIDE DEF Size, Dimensions, Stream, streams
<1>2. Len(streams) \in Nat
  BY <1>1
<1>3. ASSUME NEW s \in 1 .. Len(streams)
      PROVE  streams[s].size \in Size /\ streams[s].dims \in Dimensions
  <2>1. streams[s] \in Stream
    BY <1>1
  <2> QED BY <2>1 DEF Stream
<1>4. \A d \in Dimensions : DOMAIN d = 1 .. Len(d)
  BY DEF Dimensions
<1> QED BY <1>2, <1>3, <1>4, Zenon DEF Size, Dimensions, streams, Index

\* A thread knows the bytes per iteration of its kernel.
LEMMA BytesFilled ==
  ASSUME NEW b \in Benchmarks, Apart(b), NEW g, IsStore(thread[g]), thread[g].variables = <<>>,
         bbytesperiter \in DOMAIN Variables(b)
  PROVE  /\ bbytesperiter \in DOMAIN ThreadFilled(b, g).variables
         /\ ThreadFilled(b, g).variables[bbytesperiter] = Variables(b)[bbytesperiter]
<1> DEFINE known == Variables(b)
           zero == Params(b) ++ Entry(biterations, Number(0))
           base == zero ++ known
           one == base ++ Entry(bnumthreads, Number(b.groups[g[1]]))
           two == one ++ Entry(bgroupid, Number(g[1] - 1))
           three == two ++ Entry(bglobalid, Number(Total(b, g[1] - 1) + g[2]))
           four == three ++ Entry(bthreadid, Number(g[2]))
<1>1. ThreadFilled(b, g) = add_variables(thread[g], four)
  BY Zenon DEF ThreadFilled
<1>2. bbytesperiter \notin DOMAIN zero
  <2>1. bbytesperiter # biterations
    BY DEF bbytesperiter, biterations
  <2>2. bbytesperiter \notin DOMAIN Params(b)
    <3>1. \A s \in Index(b.streams) : ~ Contains(b.streams[s].dims, bbytesperiter)
      <4>1. ASSUME NEW s \in Index(b.streams), Contains(b.streams[s].dims, bbytesperiter)
            PROVE  FALSE
        BY <4>1, StreamsAre, Zenon DEF Apart, DimsOf, Range, Contains
      <4> QED BY <4>1, Zenon
    <3> QED BY <3>1, Zenon DEF Params
  <2>3. DOMAIN zero = DOMAIN Params(b) \cup {biterations}
    BY MergedOne
  <2> HIDE DEF zero
  <2> QED BY <2>1, <2>2, <2>3
<1>3. \A f, h, x : x \in DOMAIN f => x \in DOMAIN (f ++ h) /\ (f ++ h)[x] = f[x]
  <2> TAKE f, h, x
  <2> HAVE x \in DOMAIN f
  <2>1. DOMAIN (f ++ h) = DOMAIN f \cup DOMAIN h
    BY Merge, Zenon
  <2>2. (f ++ h)[x] = f[x]
    BY MergeFirst, Zenon
  <2> QED BY <2>1, <2>2
<1> HIDE DEF zero, known
<1>4. bbytesperiter \in DOMAIN base /\ base[bbytesperiter] = known[bbytesperiter]
  <2>1. DOMAIN base = DOMAIN zero \cup DOMAIN known
    BY Merge, Zenon
  <2>2. bbytesperiter \in DOMAIN known
    BY DEF known
  <2>3. base[bbytesperiter] = known[bbytesperiter]
    BY <1>2, <2>2, MergeSecond
  <2> QED BY <2>1, <2>2, <2>3, Zenon
<1> HIDE DEF base
<1>5. bbytesperiter \in DOMAIN one /\ one[bbytesperiter] = known[bbytesperiter]
  BY <1>3, <1>4, Zenon
<1> HIDE DEF one
<1>6. bbytesperiter \in DOMAIN two /\ two[bbytesperiter] = known[bbytesperiter]
  BY <1>3, <1>5, Zenon
<1> HIDE DEF two
<1>7. bbytesperiter \in DOMAIN three /\ three[bbytesperiter] = known[bbytesperiter]
  BY <1>3, <1>6, Zenon
<1> HIDE DEF three
<1>8. bbytesperiter \in DOMAIN four /\ four[bbytesperiter] = known[bbytesperiter]
  BY <1>3, <1>7, Zenon
<1> HIDE DEF four
<1>9. add_variables(thread[g], four).variables = thread[g].variables ++ four
  BY VariablesAdded
<1>10. /\ bbytesperiter \in DOMAIN (thread[g].variables ++ four)
       /\ (thread[g].variables ++ four)[bbytesperiter] = four[bbytesperiter]
  <2>1. bbytesperiter \notin DOMAIN thread[g].variables
    <3>1. DOMAIN <<>> = {}
      OBVIOUS
    <3> QED BY <3>1
  <2>2. DOMAIN (thread[g].variables ++ four) = DOMAIN thread[g].variables \cup DOMAIN four
    BY Merge, Zenon
  <2>3. (thread[g].variables ++ four)[bbytesperiter] = four[bbytesperiter]
    BY <1>8, <2>1, MergeSecond
  <2> QED BY <1>8, <2>2, <2>3, Zenon
<1> QED BY <1>1, <1>8, <1>9, <1>10, Zenon DEF known

-----------------------------------------------------------------------------
(* The inductive invariant.                                                *)

Phase ==
  /\ bench \in Benchmarks /\ detailed \in BOOLEAN
  /\ pc \in {"fill", "streams", "refused", "iterations", "group", "global", "table", "done"}
  /\ done \in 0 .. Len(bench.groups)
  /\ pc \in {"streams", "group"} => done < Len(bench.groups)
  /\ pc \in {"fill", "iterations"} => done = 0
  /\ pc \in {"global", "table", "done"} => done = Len(bench.groups)

Stores ==
  /\ DOMAIN thread = AllThreads(bench)
  /\ \A g \in AllThreads(bench) : IsStore(thread[g])
  /\ group = [w \in Groups(bench) |-> group[w]]
  /\ \A w \in Groups(bench) : IsStore(group[w])
  /\ IsStore(global)

\* The ids are in the stores once these are filled.
Named ==
  IF pc = "fill" THEN \A g \in AllThreads(bench) : thread[g].variables = <<>>
  ELSE /\ \A g \in AllThreads(bench) : ThreadIds \subseteq DOMAIN thread[g].variables
       /\ \A w \in Groups(bench) : GroupIds \subseteq DOMAIN group[w].variables
       /\ GlobalIds \subseteq DOMAIN global.variables

TextsPerKey(threads, w) == [k \in Keys |-> TextsIn(threads, bench, w, k)]
ListsTo(threads, n) == [k \in Keys |-> Joined(TextsPerGroup(threads, bench, k), n)]

ThreadValues ==
  \A g \in AllThreads(bench) : DOMAIN thread[g].values = IF Updated(g) THEN Keys ELSE bstats

GroupValues ==
  \A w \in Groups(bench) :
    group[w].values = IF Updated(<<w, 0>>) THEN Aggregates(TextsPerKey(thread, w)) ELSE <<>>

GlobalValues ==
  /\ lists = IF pc \in {"group", "global", "table", "done"} THEN ListsTo(thread, done) ELSE <<>>
  /\ global.values = IF pc \in {"table", "done"} THEN Aggregates(lists) ELSE <<>>

StoresRight ==
  /\ Phase /\ Stores /\ Named /\ ThreadValues /\ GroupValues /\ GlobalValues
  /\ StatsInPlace /\ RowsComplete

LEMMA StoresInit ==
  Init => StoresRight
<1> SUFFICES ASSUME Init PROVE StoresRight
  OBVIOUS
<1> USE DEF Init
<1>1. Phase
  <2>1. Len(bench.groups) \in Nat
    BY GroupSizes
  <2> QED BY <2>1 DEF Phase
<1>2. Stores
  <2>1. /\ DOMAIN thread = AllThreads(bench)
        /\ \A g \in AllThreads(bench) :
             thread[g] = [init_result EXCEPT !.values = [k \in bstats |-> Number(0)]]
    BY Zenon
  <2>2. \A f : IsStore([init_result EXCEPT !.values = f])
    BY DEF init_result, IsStore
  <2>3. IsStore(init_result)
    BY DEF init_result, IsStore
  <2>4. \A w \in Groups(bench) : group[w] = init_result
    BY Zenon
  <2>5. group = [w \in Groups(bench) |-> group[w]]
    BY <2>4, Zenon
  <2> QED BY <2>1, <2>2, <2>3, <2>4, <2>5, Zenon DEF Stores
<1>3. Named
  <2>1. \A f : [init_result EXCEPT !.values = f].variables = <<>>
    BY DEF init_result
  <2>2. \A g \in AllThreads(bench) : thread[g].variables = <<>>
    BY <2>1, Zenon
  <2> QED BY <2>2, Zenon DEF Named
<1>4. ThreadValues
  <2>1. \A f : [init_result EXCEPT !.values = f].values = f
    BY DEF init_result
  <2>2. \A g \in AllThreads(bench) : thread[g].values = [k \in bstats |-> Number(0)]
    BY <2>1, Zenon
  <2>3. \A g : ~ Updated(g)
    BY DEF Updated
  <2> QED BY <2>2, <2>3, Zenon DEF ThreadValues
<1>5. GroupValues /\ GlobalValues
  <2>1. init_result.values = <<>>
    BY DEF init_result
  <2>2. \A g : ~ Updated(g)
    BY DEF Updated
  <2>3. \A w \in Groups(bench) : group[w] = init_result
    BY Zenon
  <2>4. GroupValues
    BY <2>1, <2>2, <2>3, Zenon DEF GroupValues
  <2>5. GlobalValues
    BY <2>1 DEF GlobalValues
  <2> QED BY <2>4, <2>5
<1>6. StatsInPlace /\ RowsComplete
  BY DEF StatsInPlace, RowsComplete, Updated
<1> QED BY <1>1, <1>2, <1>3, <1>4, <1>5, <1>6, Zenon DEF StoresRight

\* The stores as fill_results has filled them, before it rounds sizes.
Filled ==
  [ok |-> TRUE, global |-> GlobalFilled(bench),
   thread |-> [g \in DOMAIN thread |-> ThreadFilled(bench, g)]]

LEMMA FilledIs ==
  ASSUME StoresRight, pc = "fill"
  PROVE  /\ DOMAIN Filled.thread = AllThreads(bench)
         /\ \A g \in AllThreads(bench) :
              /\ IsStore(Filled.thread[g]) /\ Filled.thread[g].values = thread[g].values
              /\ ThreadIds \subseteq DOMAIN Filled.thread[g].variables
         /\ IsStore(Filled.global) /\ Filled.global.values = global.values
         /\ GlobalIds \subseteq DOMAIN Filled.global.variables
         /\ Shape(Filled, Filled)
         /\ Apart(bench) => BytesKept(bench, Filled)
<1>1. Phase /\ Stores /\ Named
  BY Zenon DEF StoresRight
<1>2. bench \in Benchmarks
  BY <1>1 DEF Phase
<1>3. /\ DOMAIN Filled.thread = AllThreads(bench)
      /\ \A g \in AllThreads(bench) : Filled.thread[g] = ThreadFilled(bench, g)
      /\ Filled.global = GlobalFilled(bench)
      /\ Filled = [ok |-> Filled.ok, thread |-> Filled.thread, global |-> Filled.global]
  <2>1. DOMAIN thread = AllThreads(bench)
    BY <1>1, Zenon DEF Stores
  <2> DEFINE there == [g \in DOMAIN thread |-> ThreadFilled(bench, g)]
  <2>2. DOMAIN there = AllThreads(bench) /\ \A g \in AllThreads(bench) : there[g] = ThreadFilled(bench, g)
    BY <2>1, Zenon
  <2>3. Filled = [ok |-> TRUE, global |-> GlobalFilled(bench), thread |-> there]
    BY Zenon DEF Filled
  <2> HIDE DEF there
  <2>4. /\ Filled.thread = there /\ Filled.global = GlobalFilled(bench)
        /\ Filled = [ok |-> Filled.ok, thread |-> Filled.thread, global |-> Filled.global]
    BY <2>3
  <2> QED BY <2>2, <2>4, Zenon
<1>4. \A g \in AllThreads(bench) :
        /\ IsStore(Filled.thread[g]) /\ Filled.thread[g].values = thread[g].values
        /\ ThreadIds \subseteq DOMAIN Filled.thread[g].variables
  <2> TAKE g \in AllThreads(bench)
  <2>1. IsStore(thread[g]) /\ Filled.thread[g] = ThreadFilled(bench, g)
    BY <1>1, <1>3, Zenon DEF Stores
  <2>2. /\ IsStore(ThreadFilled(bench, g)) /\ ThreadFilled(bench, g).values = thread[g].values
        /\ ThreadIds \subseteq DOMAIN ThreadFilled(bench, g).variables
    BY <2>1, ThreadFill
  <2> QED BY <2>1, <2>2, Zenon
<1>5. /\ IsStore(Filled.global) /\ Filled.global.values = global.values
      /\ GlobalIds \subseteq DOMAIN Filled.global.variables
  BY <1>1, <1>3, GlobalFill, Zenon DEF Stores
<1>6. Shape(Filled, Filled)
  BY <1>3, <1>4, <1>5, Zenon DEF Shape, SameNames
<1>7. Apart(bench) => BytesKept(bench, Filled)
  <2> SUFFICES ASSUME Apart(bench), bbytesperiter \in DOMAIN Variables(bench),
                      NEW g \in AllThreads(bench)
               PROVE  /\ bbytesperiter \in DOMAIN Filled.thread[g].variables
                      /\ Filled.thread[g].variables[bbytesperiter]
                           = Variables(bench)[bbytesperiter]
    BY <1>3, Zenon DEF BytesKept
  <2>1. IsStore(thread[g]) /\ thread[g].variables = <<>>
    BY <1>1, Zenon DEF Stores, Named
  <2>2. /\ bbytesperiter \in DOMAIN ThreadFilled(bench, g).variables
        /\ ThreadFilled(bench, g).variables[bbytesperiter] = Variables(bench)[bbytesperiter]
    BY <1>2, <2>1, BytesFilled
  <2> QED BY <1>3, <2>2, Zenon
<1> QED BY <1>3, <1>4, <1>5, <1>6, <1>7, Zenon

LEMMA StoresFill ==
  ASSUME StoresRight, fill_results
  PROVE  StoresRight'
<1>1. PICK wild \in Wild :
        LET rounded == AllRounded(bench, wild, Filled)
        IN  /\ global' = rounded.global /\ thread' = rounded.thread
            /\ pc' = IF rounded.ok THEN "streams" ELSE "refused"
  BY Zenon DEF fill_results, Filled
<1> DEFINE rounded == AllRounded(bench, wild, Filled)
<1>2. /\ global' = rounded.global /\ thread' = rounded.thread
      /\ pc' \in {"streams", "refused"}
  BY <1>1, Zenon
<1>3. /\ pc = "fill" /\ group' = [w \in Groups(bench) |-> GroupFilled(bench, w)]
      /\ bench' = bench /\ detailed' = detailed /\ done' = done /\ lists' = lists
  BY Zenon DEF fill_results
<1>4. /\ Phase /\ Stores /\ Named /\ ThreadValues /\ GroupValues /\ GlobalValues
  BY Zenon DEF StoresRight
<1>5. bench \in Benchmarks /\ Len(bench.groups) \in Nat \ {0} /\ done = 0
  BY <1>3, <1>4, GroupSizes DEF Phase
<1> HIDE DEF rounded
<1>6. /\ DOMAIN Filled.thread = AllThreads(bench)
      /\ \A g \in AllThreads(bench) :
           /\ IsStore(Filled.thread[g]) /\ Filled.thread[g].values = thread[g].values
           /\ ThreadIds \subseteq DOMAIN Filled.thread[g].variables
      /\ IsStore(Filled.global) /\ Filled.global.values = global.values
      /\ GlobalIds \subseteq DOMAIN Filled.global.variables
  BY <1>3, FilledIs, Zenon
<1>7. Shape(rounded, Filled)
  BY <1>3, <1>5, FilledIs, RoundedAll, Zenon DEF rounded
<1>8. DOMAIN thread' = AllThreads(bench)
  BY <1>2, <1>6, <1>7, Zenon DEF Shape
<1>9. \A g \in AllThreads(bench) :
        /\ IsStore(thread'[g]) /\ thread'[g].values = thread[g].values
        /\ ThreadIds \subseteq DOMAIN thread'[g].variables
  BY <1>2, <1>6, <1>7, Zenon DEF Shape, SameNames
<1>10. /\ IsStore(global') /\ global'.values = global.values
       /\ GlobalIds \subseteq DOMAIN global'.variables
  BY <1>2, <1>6, <1>7, Zenon DEF Shape, SameNames
<1>11. \A w \in Groups(bench) :
         /\ IsStore(group'[w]) /\ group'[w].values = group[w].values
         /\ GroupIds \subseteq DOMAIN group'[w].variables
  <2> TAKE w \in Groups(bench)
  <2>1. IsStore(group[w])
    BY <1>4, Zenon DEF Stores
  <2>2. group'[w] = GroupFilled(bench, w)
    BY <1>3, Zenon
  <2>3. /\ IsStore(GroupFilled(bench, w)) /\ GroupFilled(bench, w).values = group[w].values
        /\ GroupIds \subseteq DOMAIN GroupFilled(bench, w).variables
    BY <2>1, GroupFill
  <2> QED BY <2>2, <2>3, Zenon
<1>12. Phase'
  BY <1>2, <1>3, <1>4, <1>5 DEF Phase
<1>13. Stores'
  <2>1. group' = [w \in Groups(bench) |-> group'[w]]
    BY <1>3, Zenon
  <2> QED BY <1>3, <1>8, <1>9, <1>10, <1>11, <2>1, Zenon DEF Stores
<1>14. pc' # "fill"
  BY <1>2
<1>15. Named'
  BY <1>3, <1>9, <1>10, <1>11, <1>14, Zenon DEF Named
<1>16. \A g : ~ Updated(g) /\ ~ Updated(g)'
  BY <1>2, <1>3 DEF Updated
<1>17. ThreadValues' /\ GroupValues'
  <2>1. bstats' = bstats
    BY <1>3, Zenon DEF bstats
  <2>2. ThreadValues'
    BY <1>3, <1>4, <1>9, <1>16, <2>1, Zenon DEF ThreadValues
  <2>3. GroupValues'
    BY <1>3, <1>4, <1>11, <1>16, Zenon DEF GroupValues
  <2> QED BY <2>2, <2>3
<1>18. GlobalValues'
  <2>1. lists = <<>> /\ global.values = <<>>
    BY <1>3, <1>4 DEF GlobalValues
  <2> QED BY <1>2, <1>3, <1>10, <2>1 DEF GlobalValues
<1>19. StatsInPlace' /\ RowsComplete'
  BY <1>2, <1>16 DEF StatsInPlace, RowsComplete
<1> QED BY <1>12, <1>13, <1>15, <1>17, <1>18, <1>19, Zenon DEF StoresRight

LEMMA StoresManage ==
  ASSUME StoresRight, manage_streams
  PROVE  StoresRight'
<1>1. /\ Phase /\ Stores /\ Named /\ ThreadValues /\ GroupValues /\ GlobalValues
  BY Zenon DEF StoresRight
<1>2. /\ pc = "streams" /\ bench' = bench /\ detailed' = detailed /\ global' = global
      /\ group' = group /\ thread' = thread /\ lists' = lists
  BY Zenon DEF manage_streams
<1>3. \/ pc' = "refused" /\ done' = done
      \/ pc' = "iterations" /\ done' = 0
      \/ pc' = "streams" /\ done' = done + 1 /\ done + 1 # Len(bench.groups)
  BY DEF manage_streams
<1>4. Len(bench.groups) \in Nat \ {0}
  BY <1>1, GroupSizes DEF Phase
<1>5. Phase'
  BY <1>1, <1>2, <1>3, <1>4 DEF Phase
<1>6. Stores'
  BY <1>1, <1>2, Zenon DEF Stores
<1>7. pc' # "fill" /\ pc # "fill"
  BY <1>2, <1>3
<1>8. Named'
  BY <1>1, <1>2, <1>7, Zenon DEF Named
<1>9. \A g : ~ Updated(g) /\ ~ Updated(g)'
  BY <1>2, <1>3 DEF Updated
<1>10. ThreadValues' /\ GroupValues'
  <2>1. bstats' = bstats
    BY <1>2, Zenon DEF bstats
  <2>2. ThreadValues'
    BY <1>1, <1>2, <1>9, <2>1, Zenon DEF ThreadValues
  <2>3. GroupValues'
    BY <1>1, <1>2, <1>9, Zenon DEF GroupValues
  <2> QED BY <2>2, <2>3
<1>11. GlobalValues'
  BY <1>1, <1>2, <1>3 DEF GlobalValues
<1>12. StatsInPlace' /\ RowsComplete'
  BY <1>3, <1>9 DEF StatsInPlace, RowsComplete
<1> QED BY <1>5, <1>6, <1>8, <1>10, <1>11, <1>12, Zenon DEF StoresRight

\* The first thread of the first group has the names the others have.
LEMMA FirstThread ==
  ASSUME bench \in Benchmarks, ThreadValues
  PROVE  /\ <<1, 0>> \in AllThreads(bench) /\ 1 \in Groups(bench)
         /\ \/ DOMAIN thread[<<1, 0>>].values = Keys
            \/ DOMAIN thread[<<1, 0>>].values = bstats
<1>1. 1 \in Groups(bench)
  BY GroupSizes
<1>2. <<1, 0>> \in AllThreads(bench)
  BY <1>1, ThreadsOf, Zenon
<1> QED BY <1>1, <1>2, Zenon DEF ThreadValues

LEMMA StoresIterations ==
  ASSUME StoresRight, update_iterations
  PROVE  StoresRight'
<1>1. /\ Phase /\ Stores /\ Named /\ ThreadValues /\ GroupValues /\ GlobalValues
  BY Zenon DEF StoresRight
<1>2. /\ pc = "iterations" /\ pc' = "group" /\ bench' = bench /\ detailed' = detailed
      /\ global' = global /\ group' = group /\ done' = done
  BY Zenon DEF update_iterations
<1>3. /\ thread' = [g \in DOMAIN thread |->
                      update_variable(thread[g], biterations, Measured("iters", g))]
      /\ lists' = [k \in Range(bkeys_sorted) \cup {m.name : m \in Range(bench.metrics)} |-> <<>>]
  BY Zenon DEF update_iterations
<1>4. bench \in Benchmarks /\ Len(bench.groups) \in Nat \ {0} /\ done = 0 /\ detailed \in BOOLEAN
  BY <1>1, <1>2, GroupSizes DEF Phase
<1>5. ASSUME NEW g \in AllThreads(bench)
      PROVE  /\ IsStore(thread'[g]) /\ thread'[g].values = thread[g].values
             /\ DOMAIN thread'[g].variables = DOMAIN thread[g].variables
  <2>1. IsStore(thread[g]) /\ DOMAIN thread = AllThreads(bench)
    BY <1>1, Zenon DEF Stores
  <2>2. thread'[g] = update_variable(thread[g], biterations, Measured("iters", g))
    BY <1>3, <2>1, Zenon
  <2> DEFINE u == update_variable(thread[g], biterations, Measured("iters", g))
  <2>3. /\ IsStore(u) /\ u.values = thread[g].values
        /\ DOMAIN u.variables = DOMAIN thread[g].variables
    BY <2>1, VariableUpdated
  <2> QED BY <2>2, <2>3, Zenon
<1>6. DOMAIN thread' = AllThreads(bench)
  BY <1>1, <1>3, Zenon DEF Stores
<1>7. lists' = ListsTo(thread', 0)
  <2>1. Range(bkeys_sorted) = bstats
    <3>1. bkeys_sorted = IF detailed THEN <<cycles, freq, time>> ELSE <<time>>
      <4>1. \/ DOMAIN thread[<<1, 0>>].values = Keys
            \/ DOMAIN thread[<<1, 0>>].values = bstats
        BY <1>1, <1>4, FirstThread
      <4> QED BY <1>4, <4>1, KeysAre
    <3>2. Range(<<cycles, freq, time>>) = {cycles, freq, time}
      BY DEF Range
    <3>3. Range(<<time>>) = {time}
      BY DEF Range
    <3> QED BY <3>1, <3>2, <3>3, Zenon DEF bstats
  <2>2. lists' = [k \in Keys |-> <<>>]
    BY <1>3, <2>1, Zenon DEF Keys
  <2>3. \A k \in Keys : Joined(TextsPerGroup(thread', bench, k), 0) = <<>>
    BY <1>4, TextsJoined, Zenon
  <2> QED BY <2>2, <2>3, Zenon DEF ListsTo
<1>8. Keys' = Keys /\ bstats' = bstats
  BY <1>2, Zenon DEF Keys, bstats
<1>9. Phase'
  BY <1>1, <1>2, <1>4 DEF Phase
<1>10. Stores'
  BY <1>1, <1>2, <1>5, <1>6, Zenon DEF Stores
<1>11. pc' # "fill" /\ pc # "fill"
  BY <1>2
<1>12. Named'
  BY <1>1, <1>2, <1>5, <1>11, Zenon DEF Named
<1>13. \A g \in AllThreads(bench) : ~ Updated(g) /\ ~ Updated(g)'
  <2> TAKE g \in AllThreads(bench)
  <2>1. g[1] \in 1 .. Len(bench.groups)
    BY <1>4, GroupSizes, ThreadsOf
  <2> QED BY <1>2, <1>4, <2>1 DEF Updated
<1>14. \A w \in Groups(bench) : <<w, 0>> \in AllThreads(bench)
  BY <1>4, ThreadsOf, Zenon
<1>15. ThreadValues' /\ GroupValues'
  <2>2. ThreadValues'
    BY <1>1, <1>2, <1>5, <1>8, <1>13, Zenon DEF ThreadValues
  <2>3. GroupValues'
    BY <1>1, <1>2, <1>13, <1>14, Zenon DEF GroupValues
  <2> QED BY <2>2, <2>3
<1>16. GlobalValues'
  <2>1. global.values = <<>>
    BY <1>1, <1>2 DEF GlobalValues
  <2>2. ListsTo(thread, done)' = ListsTo(thread', 0)
    BY <1>2, <1>4, <1>8, Zenon DEF ListsTo
  <2> QED BY <1>2, <1>7, <2>1, <2>2 DEF GlobalValues
<1>17. StatsInPlace' /\ RowsComplete'
  BY <1>2, <1>6, <1>13 DEF StatsInPlace, RowsComplete
<1> QED BY <1>9, <1>10, <1>12, <1>15, <1>16, <1>17, Zenon DEF StoresRight

LEMMA StoresGlobal ==
  ASSUME StoresRight, update_global
  PROVE  StoresRight'
<1>1. /\ Phase /\ Stores /\ Named /\ ThreadValues /\ GroupValues /\ GlobalValues
      /\ StatsInPlace
  BY Zenon DEF StoresRight
<1>2. /\ pc = "global" /\ pc' = "table" /\ bench' = bench /\ detailed' = detailed
      /\ group' = group /\ thread' = thread /\ done' = done /\ lists' = lists
      /\ global' = _aggregate_results(global, lists)
  BY Zenon DEF update_global
<1>3. bench \in Benchmarks /\ Len(bench.groups) \in Nat \ {0} /\ done = Len(bench.groups)
  BY <1>1, <1>2, GroupSizes DEF Phase
<1>4. IsStore(global) /\ global.values = <<>> /\ lists = ListsTo(thread, done)
  BY <1>1, <1>2 DEF Stores, GlobalValues
<1>5. /\ IsStore(global') /\ global'.variables = global.variables
      /\ global'.values = Aggregates(lists)
  BY <1>2, <1>4, Aggregated
<1>6. Keys' = Keys /\ bstats' = bstats
  BY <1>2, Zenon DEF Keys, bstats
<1>7. Phase'
  BY <1>1, <1>2, <1>3 DEF Phase
<1>8. Stores'
  BY <1>1, <1>2, <1>5, Zenon DEF Stores
<1>9. pc' # "fill" /\ pc # "fill"
  BY <1>2
<1>10. Named'
  BY <1>1, <1>2, <1>5, <1>9, Zenon DEF Named
<1>11. \A g : Updated(g) /\ Updated(g)'
  BY <1>2 DEF Updated
<1>12. ThreadValues' /\ GroupValues'
  <2>1. ThreadValues'
    BY <1>1, <1>2, <1>6, <1>11, Zenon DEF ThreadValues
  <2>2. \A w : TextsPerKey(thread, w)' = TextsPerKey(thread, w)
    BY <1>2, <1>6, Zenon DEF TextsPerKey
  <2>3. GroupValues'
    BY <1>1, <1>2, <1>11, <2>2, Zenon DEF GroupValues
  <2> QED BY <2>1, <2>3
<1>13. GlobalValues'
  <2>1. ListsTo(thread, done)' = ListsTo(thread, done)
    BY <1>2, <1>6, Zenon DEF ListsTo
  <2> QED BY <1>2, <1>4, <1>5, <2>1 DEF GlobalValues
<1>14. StatsInPlace' /\ RowsComplete'
  BY <1>1, <1>2, <1>11 DEF StatsInPlace, RowsComplete, Measured
<1> QED BY <1>7, <1>8, <1>10, <1>12, <1>13, <1>14, Zenon DEF StoresRight

LEMMA FullRow ==
  ASSUME NEW r, NEW ids, ids \subseteq DOMAIN r.variables
  PROVE  DOMAIN Row(r, ids) = DOMAIN r.values \cup ids
<1>1. DOMAIN Row(r, ids) = (ids \cap DOMAIN r.variables) \cup (DOMAIN r.values \ ids)
  BY RowIsMap
<1> QED BY <1>1

LEMMA StoresTable ==
  ASSUME StoresRight, update_table
  PROVE  StoresRight'
<1>1. /\ Phase /\ Stores /\ Named /\ ThreadValues /\ GroupValues /\ GlobalValues
      /\ StatsInPlace
  BY Zenon DEF StoresRight
<1>2. /\ pc = "table" /\ pc' = "done" /\ bench' = bench /\ detailed' = detailed
      /\ global' = global /\ group' = group /\ thread' = thread /\ done' = done
      /\ lists' = lists
  BY Zenon DEF update_table
<1> DEFINE all == FlattenSeq([w \in Groups(bench) |-> Visited(bench, w)])
           stores == [i \in Index(all) |-> thread[all[i]]]
           threadcolumns == DOMAIN thread[<<1, 0>>].values \cup ThreadIds
           groupcolumns == DOMAIN group[1].values \cup GroupIds
           globalcolumns == DOMAIN global.values \cup GlobalIds
           threadrows == Rows(stores, threadcolumns, ThreadIds)
           grouprows == Rows(group, groupcolumns, GroupIds)
           globalrows == Rows(<<global>>, globalcolumns, GlobalIds)
           n == Len(bench.groups)
           T == Total(bench, n)
<1>3. table' = [thread |-> threadrows, group |-> grouprows, global |-> globalrows]
  BY Zenon DEF update_table
<1>4. /\ bench \in Benchmarks /\ n \in Nat \ {0} /\ done = n /\ Groups(bench) = 1 .. n
      /\ bench.groups \in Seq(Nat \ {0})
  BY <1>1, <1>2, GroupSizes, BenchmarksAssumption DEF Phase
<1>5. InOrderTo(bench, n, all)
  BY <1>4, ThreadsInOrder, Zenon
<1>6. T \in Nat /\ Cardinality(AllThreads(bench)) = T
  <2>1. n \in 0 .. n
    BY <1>4
  <2> QED BY <1>4, <2>1, TotalType, CountThreads, Zenon
<1>7. /\ all \in Seq(AllThreads(bench)) /\ Len(all) = T
      /\ \A w \in 1 .. n : \A t \in 0 .. bench.groups[w] - 1 :
           /\ Total(bench, w - 1) + t + 1 \in 1 .. Len(all)
           /\ all[Total(bench, w - 1) + t + 1] = <<w, t>>
  BY <1>5, Zenon DEF InOrderTo
<1>8. \A g : Updated(g) /\ Updated(g)'
  BY <1>2 DEF Updated
<1>9. pc' # "fill" /\ pc # "fill"
  BY <1>2
<1> HIDE DEF T, n, all
<1>10. /\ Len(threadrows) = T
       /\ \A i \in 1 .. T : threadrows[i] = Row(thread[all[i]], ThreadIds)
  <2>1. DOMAIN stores = 1 .. T /\ \A i \in 1 .. T : stores[i] = thread[all[i]]
    BY <1>7, Zenon DEF Index
  <2>2. ASSUME NEW i \in 1 .. T
        PROVE  DOMAIN Row(stores[i], ThreadIds) = threadcolumns
    <3>1. all[i] \in AllThreads(bench)
      BY <1>6, <1>7
    <3>2. ThreadIds \subseteq DOMAIN thread[all[i]].variables
      BY <1>1, <1>9, <3>1, Zenon DEF Named
    <3>3. DOMAIN thread[all[i]].values = DOMAIN thread[<<1, 0>>].values
      <4>1. <<1, 0>> \in AllThreads(bench)
        BY <1>1, <1>4, FirstThread
      <4> QED BY <1>1, <1>8, <3>1, <4>1, Zenon DEF ThreadValues
    <3>4. DOMAIN Row(thread[all[i]], ThreadIds) = DOMAIN thread[all[i]].values \cup ThreadIds
      BY <3>2, FullRow
    <3> QED BY <2>1, <3>3, <3>4, Zenon
  <2> HIDE DEF stores, threadcolumns
  <2>3. /\ Len(threadrows) = T
        /\ \A i \in 1 .. T : threadrows[i] = Row(stores[i], ThreadIds)
    BY <1>6, <2>1, <2>2, RowsAll
  <2> QED BY <2>1, <2>3, Zenon
<1>11. /\ Len(grouprows) = n
       /\ \A w \in 1 .. n : grouprows[w] = Row(group[w], GroupIds)
  <2>1. DOMAIN group = 1 .. n
    BY <1>1, <1>4, Zenon DEF Stores
  <2>2. ASSUME NEW w \in 1 .. n
        PROVE  DOMAIN Row(group[w], GroupIds) = groupcolumns
    <3>1. ASSUME NEW v \in 1 .. n
          PROVE  DOMAIN group[v].values = AggregateNames(Keys)
      <4>1. group[v].values = Aggregates(TextsPerKey(thread, v))
        BY <1>1, <1>4, <1>8, Zenon DEF GroupValues
      <4>2. DOMAIN TextsPerKey(thread, v) = Keys
        BY Zenon DEF TextsPerKey
      <4> QED BY <4>1, <4>2, Zenon DEF Aggregates
    <3>2. GroupIds \subseteq DOMAIN group[w].variables
      BY <1>1, <1>4, <1>9, Zenon DEF Named
    <3>3. DOMAIN Row(group[w], GroupIds) = DOMAIN group[w].values \cup GroupIds
      BY <3>2, FullRow
    <3>4. 1 \in 1 .. n
      BY <1>4
    <3> QED BY <3>1, <3>3, <3>4, Zenon
  <2>3. n \in Nat
    BY <1>4
  <2> HIDE DEF groupcolumns
  <2> QED BY <2>1, <2>2, <2>3, RowsAll
<1>12. Len(globalrows) = 1
  <2>1. DOMAIN <<global>> = 1 .. 1 /\ 1 \in Nat /\ \A i \in 1 .. 1 : <<global>>[i] = global
    OBVIOUS
  <2>2. GlobalIds \subseteq DOMAIN global.variables
    BY <1>1, <1>9, Zenon DEF Named
  <2>3. DOMAIN Row(global, GlobalIds) = globalcolumns
    BY <2>2, FullRow
  <2>4. \A i \in 1 .. 1 : DOMAIN Row(<<global>>[i], GlobalIds) = globalcolumns
    BY <2>1, <2>3, Zenon
  <2> HIDE DEF globalcolumns
  <2> DEFINE one == <<global>>
             m == Len(one)
  <2>5. m \in Nat /\ DOMAIN one = 1 .. m
    OBVIOUS
  <2>6. m = 1
    OBVIOUS
  <2> HIDE DEF one, m
  <2>7. \A i \in 1 .. m : DOMAIN Row(one[i], GlobalIds) = globalcolumns
    BY <2>4, <2>6, Zenon DEF one
  <2>8. /\ Len(Rows(one, globalcolumns, GlobalIds)) = m
        /\ \A i \in 1 .. m : Rows(one, globalcolumns, GlobalIds)[i] = Row(one[i], GlobalIds)
    BY <2>5, <2>7, RowsAll
  <2> QED BY <2>6, <2>8 DEF one
<1> HIDE DEF threadrows, grouprows, globalrows
<1>13. RowsComplete'
  <2>1. /\ table'.thread = threadrows /\ table'.group = grouprows /\ table'.global = globalrows
    BY <1>3
  <2>2. DOMAIN thread' = AllThreads(bench)
    BY <1>1, <1>2, Zenon DEF Stores
  <2>3. ASSUME NEW g \in AllThreads(bench)
        PROVE  Row(thread[g], ThreadIds) = threadrows[Total(bench, g[1] - 1) + g[2] + 1]
    <3>1. PICK w \in 1 .. n : g \in Members(bench, w)
      BY <1>4, Zenon DEF AllThreads
    <3>2. PICK t \in 0 .. bench.groups[w] - 1 : g = <<w, t>>
      BY <3>1, Zenon DEF Members
    <3>3. g[1] = w /\ g[2] = t
      BY <3>2
    <3>4. /\ Total(bench, w - 1) + t + 1 \in 1 .. T
          /\ all[Total(bench, w - 1) + t + 1] = <<w, t>>
      BY <1>7, Zenon
    <3> QED BY <1>10, <3>2, <3>3, <3>4, Zenon
  <2> QED BY <1>2, <1>4, <1>6, <1>10, <1>11, <1>12, <2>1, <2>2, <2>3, Zenon DEF RowsComplete, n
<1>14. Keys' = Keys /\ bstats' = bstats
  BY <1>2, Zenon DEF Keys, bstats
<1>15. Phase'
  BY <1>1, <1>2, <1>4 DEF Phase, n
<1>16. Stores'
  BY <1>1, <1>2, Zenon DEF Stores
<1>17. Named'
  BY <1>1, <1>2, <1>9, Zenon DEF Named
<1>18. ThreadValues' /\ GroupValues'
  <2>1. ThreadValues'
    BY <1>1, <1>2, <1>8, <1>14, Zenon DEF ThreadValues
  <2>2. \A w : TextsPerKey(thread, w)' = TextsPerKey(thread, w)
    BY <1>2, <1>14, Zenon DEF TextsPerKey
  <2>3. GroupValues'
    BY <1>1, <1>2, <1>8, <2>2, Zenon DEF GroupValues
  <2> QED BY <2>1, <2>3
<1>19. GlobalValues'
  <2>1. ListsTo(thread, done)' = ListsTo(thread, done)
    BY <1>2, <1>14, Zenon DEF ListsTo
  <2> QED BY <1>1, <1>2, <2>1 DEF GlobalValues
<1>20. StatsInPlace'
  BY <1>1, <1>2, <1>8 DEF StatsInPlace, Measured
<1> QED BY <1>13, <1>15, <1>16, <1>17, <1>18, <1>19, <1>20, Zenon DEF StoresRight

LEMMA StoresGroup ==
  ASSUME StoresRight, update_group
  PROVE  StoresRight'
<1> DEFINE w == done + 1
           n == Len(bench.groups)
           updated == [g \in Members(bench, w) |-> ThreadUpdated(g)]
           values == GroupLists(updated, w)
<1>1. /\ Phase /\ Stores /\ Named /\ ThreadValues /\ GroupValues /\ GlobalValues
      /\ StatsInPlace
  BY Zenon DEF StoresRight
<1>2. /\ pc = "group" /\ bench' = bench /\ detailed' = detailed /\ global' = global
      /\ done' = w /\ pc' = IF w = n THEN "global" ELSE pc
  BY Zenon DEF update_group
<1>3. /\ thread' = updated ++ thread
      /\ group' = [group EXCEPT ![w] = _aggregate_results(@, values)]
      /\ lists' = [k \in DOMAIN lists |-> lists[k] \o values[k]]
  BY Zenon DEF update_group
<1>4. /\ bench \in Benchmarks /\ detailed \in BOOLEAN /\ n \in Nat \ {0}
      /\ done \in Nat /\ done < n /\ Groups(bench) = 1 .. n
  BY <1>1, <1>2, GroupSizes DEF Phase
<1>5. w \in Groups(bench) /\ w \in 1 .. n /\ w - 1 = done
  BY <1>4
<1>6. \A g : g[1] \in 1 .. n =>
         /\ Updated(g) <=> g[1] < w
         /\ Updated(g)' <=> g[1] <= w
  BY <1>2, <1>4 DEF Updated
<1>7. \A g \in AllThreads(bench) : g[1] \in 1 .. n
  BY <1>4, ThreadsOf, Zenon
<1>8. Keys' = Keys /\ bstats' = bstats
  BY <1>2, Zenon DEF Keys, bstats
<1>9. /\ DOMAIN thread = AllThreads(bench)
      /\ \A g \in Members(bench, w) : g \in AllThreads(bench) /\ g[1] = w
  <2>1. DOMAIN thread = AllThreads(bench)
    BY <1>1, Zenon DEF Stores
  <2>2. Members(bench, w) \subseteq AllThreads(bench)
    BY <1>4, <1>5, ThreadsOf, Zenon
  <2>3. \A g \in AllThreads(bench) : g \in Members(bench, w) => g[1] = w
    BY <1>4, <1>5, ThreadsOf, Zenon
  <2> QED BY <2>1, <2>2, <2>3, Zenon
<1> HIDE DEF w, n
<1>10. ASSUME NEW g \in Members(bench, w)
       PROVE  /\ IsStore(ThreadUpdated(g)) /\ ThreadUpdated(g).variables = thread[g].variables
              /\ DOMAIN ThreadUpdated(g).values = Keys /\ Measures(g, ThreadUpdated(g))
  <2>1. \/ DOMAIN thread[<<1, 0>>].values = Keys
        \/ DOMAIN thread[<<1, 0>>].values = bstats
    BY <1>1, <1>4, FirstThread
  <2>2. IsStore(thread[g])
    BY <1>1, <1>9, Zenon DEF Stores
  <2>3. ~ Updated(g)
    BY <1>4, <1>5, <1>6, <1>9
  <2>4. DOMAIN thread[g].values = bstats
    BY <1>1, <1>9, <2>3, Zenon DEF ThreadValues
  <2> QED BY <1>4, <2>1, <2>2, <2>4, ThreadUpdate
<1>11. /\ DOMAIN thread' = AllThreads(bench)
       /\ \A g \in Members(bench, w) : thread'[g] = ThreadUpdated(g)
       /\ \A g \in AllThreads(bench) : g[1] # w => thread'[g] = thread[g]
  <2>1. DOMAIN updated = Members(bench, w) /\ \A g \in Members(bench, w) : updated[g] = ThreadUpdated(g)
    OBVIOUS
  <2> HIDE DEF updated
  <2>2. DOMAIN thread' = Members(bench, w) \cup AllThreads(bench)
    BY <1>3, <1>9, <2>1, Merged
  <2>3. DOMAIN thread' = AllThreads(bench)
    BY <1>9, <2>2
  <2>4. \A g \in Members(bench, w) : thread'[g] = ThreadUpdated(g)
    BY <1>3, <2>1, MergeFirst, Zenon
  <2>5. \A g \in AllThreads(bench) : g[1] # w => thread'[g] = thread[g]
    BY <1>3, <1>9, <2>1, MergeSecond
  <2> QED BY <2>3, <2>4, <2>5, Zenon
<1>12. \A g \in AllThreads(bench) : g[1] = w => g \in Members(bench, w)
  BY <1>4, <1>5, ThreadsOf, Zenon
<1>13. \A g \in AllThreads(bench) :
         IsStore(thread'[g]) /\ thread'[g].variables = thread[g].variables
  BY <1>1, <1>10, <1>11, <1>12, Zenon DEF Stores
<1>14. values = TextsPerKey(thread', w)
  <2>1. lists = ListsTo(thread, done)
    BY <1>1, <1>2 DEF GlobalValues
  <2>2. DOMAIN lists = Keys
    BY <2>1, Zenon DEF ListsTo
  <2>3. ASSUME NEW k
        PROVE  [i \in 1 .. bench.groups[w] |-> updated[Visited(bench, w)[i]].values[k]]
                 = TextsIn(thread', bench, w, k)
    <3>1. \A i \in 1 .. bench.groups[w] : Visited(bench, w)[i] = <<w, i - 1>>
      <4>1. bench.groups[w] \in Nat
        BY <1>4, <1>5, GroupSizes
      <4> QED BY <4>1, VisitedIs
    <3>2. \A i \in 1 .. bench.groups[w] : <<w, i - 1>> \in Members(bench, w)
      BY <1>4, <1>5, ThreadsOf, Zenon
    <3>3. \A i \in 1 .. bench.groups[w] : updated[Visited(bench, w)[i]] = thread'[<<w, i - 1>>]
      BY <1>11, <3>1, <3>2, Zenon
    <3> HIDE DEF updated
    <3>4. \A i \in 1 .. bench.groups[w] :
            updated[Visited(bench, w)[i]].values[k] = thread'[<<w, i - 1>>].values[k]
      BY <3>3, Zenon
    <3> QED BY <3>4, Zenon DEF TextsIn
  <2> HIDE DEF updated
  <2> QED BY <2>2, <2>3, Zenon DEF GroupLists, TextsPerKey
<1>15. ASSUME NEW v \in Groups(bench), v # w, NEW k
       PROVE  TextsIn(thread', bench, v, k) = TextsIn(thread, bench, v, k)
  <2>1. \A i \in 1 .. bench.groups[v] : thread'[<<v, i - 1>>] = thread[<<v, i - 1>>]
    <3> TAKE i \in 1 .. bench.groups[v]
    <3>1. <<v, i - 1>> \in AllThreads(bench)
      <4>1. <<v, i - 1>> \in Members(bench, v) /\ Members(bench, v) \subseteq AllThreads(bench)
        BY <1>4, ThreadsOf, Zenon
      <4> QED BY <4>1, Zenon
    <3>2. <<v, i - 1>>[1] = v
      OBVIOUS
    <3> QED BY <1>11, <1>15, <3>1, <3>2, Zenon
  <2>2. \A i \in 1 .. bench.groups[v] :
          thread'[<<v, i - 1>>].values[k] = thread[<<v, i - 1>>].values[k]
    BY <2>1, Zenon
  <2> QED BY <2>2, Zenon DEF TextsIn
<1> HIDE DEF values, updated
<1>16. /\ group' = [v \in Groups(bench) |-> group'[v]]
       /\ \A v \in Groups(bench) : v # w => group'[v] = group[v]
       /\ group'[w] = _aggregate_results(group[w], values)
  <2>1. group = [v \in Groups(bench) |-> group[v]]
    BY <1>1, Zenon DEF Stores
  <2> QED BY <1>3, <1>5, <2>1
<1>17. /\ IsStore(group'[w]) /\ group'[w].variables = group[w].variables
       /\ group'[w].values = Aggregates(TextsPerKey(thread', w))
  <2>1. ~ Updated(<<w, 0>>)
    <3>1. <<w, 0>>[1] = w
      OBVIOUS
    <3> QED BY <1>4, <1>5, <1>6, <3>1
  <2>2. IsStore(group[w]) /\ group[w].values = <<>>
    BY <1>1, <1>5, <2>1, Zenon DEF Stores, GroupValues
  <2>3. /\ IsStore(_aggregate_results(group[w], values))
        /\ _aggregate_results(group[w], values).variables = group[w].variables
        /\ _aggregate_results(group[w], values).values = Aggregates(values)
    BY <2>2, Aggregated
  <2> QED BY <1>14, <1>16, <2>3, Zenon
<1>18. Phase'
  BY <1>1, <1>2, <1>4, <1>5 DEF Phase, n
<1>19. Stores'
  BY <1>1, <1>2, <1>11, <1>13, <1>16, <1>17, Zenon DEF Stores
<1>20. pc' # "fill" /\ pc # "fill"
  BY <1>2
<1>21. Named'
  BY <1>1, <1>2, <1>13, <1>16, <1>17, <1>20, Zenon DEF Named
<1>22. ThreadValues'
  <2> SUFFICES ASSUME NEW g \in AllThreads(bench)
               PROVE  DOMAIN thread'[g].values = IF Updated(g)' THEN Keys ELSE bstats
    BY <1>2, <1>8, Zenon DEF ThreadValues
  <2>1. CASE g[1] = w
    <3>1. Updated(g)'
      BY <1>4, <1>5, <1>6, <2>1
    <3> QED BY <1>10, <1>11, <1>12, <2>1, <3>1, Zenon
  <2>2. CASE g[1] # w
    <3>1. g[1] \in Int /\ w \in Int
      BY <1>4, <1>5, <1>7
    <3>2. Updated(g)' <=> Updated(g)
      BY <1>6, <1>7, <2>2, <3>1
    <3> QED BY <1>1, <1>11, <2>2, <3>2, Zenon DEF ThreadValues
  <2> QED BY <2>1, <2>2
<1>23. GroupValues'
  <2> SUFFICES ASSUME NEW v \in Groups(bench)
               PROVE  group'[v].values = IF Updated(<<v, 0>>)'
                                         THEN Aggregates(TextsPerKey(thread', v)) ELSE <<>>
    BY <1>2, <1>8, Zenon DEF GroupValues, TextsPerKey
  <2>0. <<v, 0>>[1] = v /\ v \in 1 .. n
    BY <1>4
  <2>1. CASE v = w
    <3>1. Updated(<<v, 0>>)'
      BY <1>4, <1>5, <1>6, <2>0, <2>1
    <3> QED BY <1>17, <2>1, <3>1, Zenon
  <2>2. CASE v # w
    <3>1. v \in Int /\ w \in Int
      BY <1>4, <1>5
    <3>2. Updated(<<v, 0>>)' <=> Updated(<<v, 0>>)
      BY <1>6, <2>0, <2>2, <3>1
    <3>3. TextsPerKey(thread', v) = TextsPerKey(thread, v)
      BY <1>15, <2>2, Zenon DEF TextsPerKey
    <3> QED BY <1>1, <1>16, <2>2, <3>2, <3>3, Zenon DEF GroupValues
  <2> QED BY <2>1, <2>2
<1>24. GlobalValues'
  <2>1. lists = ListsTo(thread, done) /\ global.values = <<>>
    BY <1>1, <1>2 DEF GlobalValues
  <2>2. DOMAIN lists = Keys
    BY <2>1, Zenon DEF ListsTo
  <2>3. ASSUME NEW k \in Keys
        PROVE  lists[k] \o values[k] = Joined(TextsPerGroup(thread', bench, k), w)
    <3>1. lists[k] = Joined(TextsPerGroup(thread, bench, k), done)
      BY <2>1, Zenon DEF ListsTo
    <3>2. Joined(TextsPerGroup(thread, bench, k), done)
            = Joined(TextsPerGroup(thread', bench, k), done)
      <4>1. done \in 0 .. Len(bench.groups)
        BY <1>4 DEF n
      <4>2. \A v \in 1 .. done : v \in Groups(bench) /\ v # w
        BY <1>4, <1>5
      <4>3. \A v \in 1 .. done : /\ v \in Groups(bench)
                                 /\ TextsIn(thread, bench, v, k) = TextsIn(thread', bench, v, k)
        BY <1>15, <4>2, Zenon
      <4> QED BY <4>1, <4>3, JoinedAlike
    <3>3. values[k] = TextsIn(thread', bench, w, k)
      BY <1>14, Zenon DEF TextsPerKey
    <3>4. Joined(TextsPerGroup(thread', bench, k), w)
            = Joined(TextsPerGroup(thread', bench, k), w - 1) \o TextsIn(thread', bench, w, k)
      BY <1>4, <1>5, TextsJoined, Zenon
    <3> QED BY <1>5, <3>1, <3>2, <3>3, <3>4, Zenon
  <2>4. lists' = ListsTo(thread', w)
    BY <1>3, <2>2, <2>3, Zenon DEF ListsTo
  <2>5. ListsTo(thread, done)' = ListsTo(thread', w)
    BY <1>2, <1>8, Zenon DEF ListsTo
  <2>6. pc' \in {"group", "global"}
    BY <1>2
  <2> QED BY <1>2, <2>1, <2>4, <2>5, <2>6 DEF GlobalValues
<1>25. StatsInPlace'
  <2> SUFFICES ASSUME NEW g \in AllThreads(bench), Updated(g)'
               PROVE  Measures(g, thread'[g])
    BY <1>2, <1>11, Zenon DEF StatsInPlace, Measures, Measured
  <2>1. CASE g[1] = w
    BY <1>10, <1>11, <1>12, <2>1, Zenon
  <2>2. CASE g[1] # w
    <3>1. g[1] \in Int /\ w \in Int
      BY <1>4, <1>5, <1>7
    <3>2. Updated(g)
      BY <1>6, <1>7, <2>2, <3>1
    <3> QED BY <1>1, <1>9, <1>11, <2>2, <3>2, Zenon DEF StatsInPlace, Measures
  <2> QED BY <2>1, <2>2
<1>26. RowsComplete'
  BY <1>2 DEF RowsComplete
<1> QED BY <1>18, <1>19, <1>21, <1>22, <1>23, <1>24, <1>25, <1>26, Zenon DEF StoresRight

LEMMA StoresStutter ==
  ASSUME StoresRight, UNCHANGED vars
  PROVE  StoresRight'
<1>1. /\ bench' = bench /\ detailed' = detailed /\ global' = global /\ group' = group
      /\ thread' = thread /\ pc' = pc /\ done' = done /\ lists' = lists /\ table' = table
  BY DEF vars
<1>2. /\ Phase /\ Stores /\ Named /\ ThreadValues /\ GroupValues /\ GlobalValues
      /\ StatsInPlace /\ RowsComplete
  BY Zenon DEF StoresRight
<1>3. Keys' = Keys /\ bstats' = bstats
  BY <1>1, Zenon DEF Keys, bstats
<1>4. \A g : Updated(g)' <=> Updated(g)
  BY <1>1, Zenon DEF Updated
<1>5. Phase' /\ Stores' /\ Named'
  BY <1>1, <1>2, Zenon DEF Phase, Stores, Named
<1>6. ThreadValues'
  BY <1>1, <1>2, <1>3, <1>4, Zenon DEF ThreadValues
<1>7. GroupValues'
  <2>1. \A w : TextsPerKey(thread, w)' = TextsPerKey(thread, w)
    BY <1>1, <1>3, Zenon DEF TextsPerKey
  <2> QED BY <1>1, <1>2, <1>4, <2>1, Zenon DEF GroupValues
<1>8. GlobalValues'
  <2>1. ListsTo(thread, done)' = ListsTo(thread, done)
    BY <1>1, <1>3, Zenon DEF ListsTo
  <2> QED BY <1>1, <1>2, <2>1, Zenon DEF GlobalValues
<1>9. StatsInPlace'
  BY <1>1, <1>2, <1>4, Zenon DEF StatsInPlace, Measured
<1>10. RowsComplete'
  BY <1>1, <1>2, Zenon DEF RowsComplete
<1> QED BY <1>2, <1>5, <1>6, <1>7, <1>8, <1>9, <1>10, Zenon DEF StoresRight

LEMMA StoresNext ==
  StoresRight /\ [Next]_vars => StoresRight'
<1> SUFFICES ASSUME StoresRight, [Next]_vars PROVE StoresRight'
  OBVIOUS
<1>1. CASE fill_results
  BY <1>1, StoresFill
<1>2. CASE manage_streams
  BY <1>2, StoresManage
<1>3. CASE update_iterations
  BY <1>3, StoresIterations
<1>4. CASE update_group
  BY <1>4, StoresGroup
<1>5. CASE update_global
  BY <1>5, StoresGlobal
<1>6. CASE update_table
  BY <1>6, StoresTable
<1>7. CASE UNCHANGED vars
  BY <1>7, StoresStutter
<1> QED BY <1>1, <1>2, <1>3, <1>4, <1>5, <1>6, <1>7, Zenon DEF Next

LEMMA NumbersRight ==
  StoresRight => EveryNumberInPlace
<1> SUFFICES ASSUME StoresRight PROVE EveryNumberInPlace
  OBVIOUS
<1>1. /\ Phase /\ GroupValues /\ GlobalValues /\ StatsInPlace /\ RowsComplete
  BY Zenon DEF StoresRight
<1>2. bench \in Benchmarks /\ detailed \in BOOLEAN
  BY <1>1 DEF Phase
<1> DEFINE A == STRING \cup {"cycles", "freq", "time"}
<1>3. Keys \subseteq Seq(A)
  <2>1. cycles \in Seq(A) /\ freq \in Seq(A) /\ time \in Seq(A)
    BY DEF cycles, freq, time
  <2>2. \A m \in Range(bench.metrics) : m.name \in Seq(A)
    <3>1. \A m \in Range(bench.metrics) : m.name \in Seq(STRING)
      BY <1>2, NamesOfMetrics, Zenon DEF Range
    <3>2. \A s \in Seq(STRING) : s \in Seq(A)
      OBVIOUS
    <3> QED BY <3>1, <3>2, Zenon
  <2> QED BY <2>1, <2>2, Zenon DEF Keys, bstats
<1> HIDE DEF A
<1>4. ASSUME NEW w \in Groups(bench), NEW k
      PROVE  TextsOf(Visited(bench, w), k) = TextsIn(thread, bench, w, k)
  <2>1. bench.groups[w] \in Nat
    BY <1>2, GroupSizes
  <2>2. /\ Index(Visited(bench, w)) = 1 .. bench.groups[w]
        /\ \A i \in 1 .. bench.groups[w] : Visited(bench, w)[i] = <<w, i - 1>>
    BY <2>1, VisitedIs
  <2> QED BY <2>2, Zenon DEF TextsOf, TextsIn
<1>5. ASSUME NEW k \in DOMAIN lists, NEW a \in aggregations
      PROVE  /\ \A w \in Groups(bench) : Updated(<<w, 0>>) =>
                  group[w].values[k \o <<a>>] = Aggregate(a, TextsOf(Visited(bench, w), k))
             /\ pc \in {"table", "done"} =>
                  global.values[k \o <<a>>] =
                    Aggregate(a, FlattenSeq([w \in Groups(bench) |-> TextsOf(Visited(bench, w), k)]))
  <2>1. lists = ListsTo(thread, done)
    <3>1. DOMAIN <<>> = {}
      OBVIOUS
    <3>2. lists # <<>>
      BY <1>5, <3>1
    <3> QED BY <1>1, <3>2, Zenon DEF GlobalValues
  <2>2. DOMAIN lists = Keys /\ k \in Keys
    BY <1>5, <2>1, Zenon DEF ListsTo
  <2>3. ASSUME NEW w \in Groups(bench), Updated(<<w, 0>>)
        PROVE  group[w].values[k \o <<a>>] = Aggregate(a, TextsOf(Visited(bench, w), k))
    <3> DEFINE texts == TextsPerKey(thread, w)
    <3>1. group[w].values = Aggregates(texts)
      BY <1>1, <2>3, Zenon DEF GroupValues
    <3>2. DOMAIN texts = Keys /\ texts[k] = TextsIn(thread, bench, w, k)
      BY <2>2, Zenon DEF TextsPerKey
    <3> HIDE DEF texts
    <3>3. Aggregates(texts)[k \o <<a>>] = Aggregate(a, texts[k])
      <4>1. DOMAIN texts \subseteq Seq(A) /\ k \in DOMAIN texts
        BY <1>3, <2>2, <3>2, Zenon
      <4> QED BY <4>1, AggregatesAre
    <3> QED BY <1>4, <3>1, <3>2, <3>3, Zenon
  <2>4. ASSUME pc \in {"table", "done"}
        PROVE  global.values[k \o <<a>>] =
                 Aggregate(a, FlattenSeq([w \in Groups(bench) |-> TextsOf(Visited(bench, w), k)]))
    <3> DEFINE T == TextsPerGroup(thread, bench, k)
    <3>1. global.values = Aggregates(lists)
      BY <1>1, <2>4, Zenon DEF GlobalValues
    <3>2. Aggregates(lists)[k \o <<a>>] = Aggregate(a, lists[k])
      <4>1. DOMAIN lists \subseteq Seq(A)
        BY <1>3, <2>2, Zenon
      <4> QED BY <4>1, AggregatesAre
    <3>3. lists[k] = Joined(T, Len(bench.groups))
      <4>1. done = Len(bench.groups)
        BY <1>1, <2>4, Zenon DEF Phase
      <4> QED BY <2>1, <2>2, <4>1, Zenon DEF ListsTo
    <3>4. FlattenSeq(T) = Joined(T, Len(bench.groups))
      BY <1>2, TextsJoined, Zenon
    <3>5. T = [w \in Groups(bench) |-> TextsOf(Visited(bench, w), k)]
      BY <1>4, Zenon DEF TextsPerGroup
    <3> QED BY <3>1, <3>2, <3>3, <3>4, <3>5, Zenon
  <2> QED BY <2>3, <2>4, Zenon
<1>6. AggregatesComplete
  BY <1>5, Zenon DEF AggregatesComplete
<1> QED BY <1>1, <1>6, Zenon DEF EveryNumberInPlace

\* In every state of every run, what the threads measured is stored under its
\* name, aggregated once over each group and over all threads, and shown in
\* the three tables with all that was computed (update_results,
\* _aggregate_results, update_table).
THEOREM NumbersInPlace ==
  Spec => []EveryNumberInPlace
<1>1. Init => StoresRight
  BY StoresInit
<1>2. StoresRight /\ [Next]_vars => StoresRight'
  BY StoresNext
<1>3. StoresRight => EveryNumberInPlace
  BY NumbersRight
<1> QED BY <1>1, <1>2, <1>3, PTL DEF Spec

-----------------------------------------------------------------------------
(* The replacement of names.                                               *)

\* The recursion of bfindreplace.
IsReplaced(f, text, name, by) ==
  f = [i \in 1 .. Len(text) + 1 |->
         IF i > Len(text) THEN <<>>
         ELSE IF OccursAt(name, text, i) THEN by \o f[i + Len(name)]
         ELSE <<text[i]>> \o f[i + 1]]

LEMMA ReplacedIs ==
  ASSUME NEW text, NEW name, NEW by, \E f : IsReplaced(f, text, name, by)
  PROVE  \E f : IsReplaced(f, text, name, by) /\ bfindreplace(text, name, by) = f[1]
<1> DEFINE f == CHOOSE f : IsReplaced(f, text, name, by)
<1>1. IsReplaced(f, text, name, by)
  BY Zenon
<1>2. bfindreplace(text, name, by) = f[1]
  BY Zenon DEF bfindreplace, IsReplaced
<1> QED BY <1>1, <1>2, Zenon

LEMMA WithFirst ==
  ASSUME NEW S, NEW text \in Seq(S), NEW i \in 1 .. Len(text)
  PROVE  SubSeq(text, i, Len(text)) = <<text[i]>> \o SubSeq(text, i + 1, Len(text))
<1> DEFINE n == Len(text)
           all == SubSeq(text, i, n)
           rest == SubSeq(text, i + 1, n)
<1>1. n \in Nat /\ \A k \in 1 .. n : text[k] \in S
  OBVIOUS
<1>2. /\ all \in Seq(S) /\ Len(all) = n - i + 1
      /\ \A k \in 1 .. n - i + 1 : all[k] = text[i + k - 1]
  OBVIOUS
<1>3. /\ rest \in Seq(S) /\ Len(rest) = n - i
      /\ \A k \in 1 .. n - i : rest[k] = text[i + k]
  OBVIOUS
<1>4. <<text[i]>> \in Seq(S) /\ Len(<<text[i]>>) = 1 /\ <<text[i]>>[1] = text[i]
  BY <1>1
<1> HIDE DEF n, all, rest
<1> DEFINE one == <<text[i]>>
           both == one \o rest
<1>5. /\ both \in Seq(S) /\ Len(both) = Len(one) + Len(rest)
      /\ \A k \in 1 .. Len(one) : both[k] = one[k]
      /\ \A k \in 1 .. Len(rest) : both[Len(one) + k] = rest[k]
  BY <1>3, <1>4, Appended
<1> HIDE DEF one, both
<1>6. Len(one) = 1 /\ one[1] = text[i]
  BY <1>4 DEF one
<1>7. i \in 1 .. n
  BY DEF n
<1>8. Len(both) = Len(all)
  BY <1>1, <1>2, <1>3, <1>5, <1>6, <1>7
<1>9. ASSUME NEW k \in 1 .. n - i + 1
      PROVE  both[k] = all[k]
  <2>1. CASE k = 1
    BY <1>1, <1>2, <1>5, <1>6, <1>7, <2>1
  <2>2. CASE k # 1
    <3>1. k - 1 \in 1 .. n - i /\ 1 + (k - 1) = k /\ i + k - 1 = i + (k - 1)
      BY <1>1, <1>7, <2>2
    <3>2. both[1 + (k - 1)] = rest[k - 1]
      BY <1>3, <1>5, <1>6, <3>1
    <3>3. rest[k - 1] = text[i + (k - 1)]
      BY <1>3, <3>1
    <3> QED BY <1>2, <3>1, <3>2, <3>3
  <2> QED BY <2>1, <2>2
<1>10. both = all
  BY <1>2, <1>5, <1>8, <1>9
<1> QED BY <1>10 DEF both, one, all, rest, n

\* A text in which the name does not occur stays.
LEMMA NothingReplaced ==
  ASSUME NEW S, NEW text \in Seq(S), NEW name, NEW by, ~ binstr(text, name)
  PROVE  bfindreplace(text, name, by) = text
<1> DEFINE n == Len(text)
           Rest(i) == SubSeq(text, i, n)
           g == [i \in 1 .. n + 1 |-> Rest(i)]
<1>1. n \in Nat /\ Rest(n + 1) = <<>> /\ Rest(1) = text
  OBVIOUS
<1>2. \A i \in 1 .. n : ~ OccursAt(name, text, i)
  BY DEF binstr, Index
<1>3. \A i \in 1 .. n : Rest(i) = <<text[i]>> \o Rest(i + 1)
  BY WithFirst
<1> HIDE DEF Rest
<1>4. ASSUME NEW i \in 1 .. n + 1
      PROVE  Rest(i) = IF i > n THEN <<>>
                       ELSE IF OccursAt(name, text, i) THEN by \o g[i + Len(name)]
                       ELSE <<text[i]>> \o g[i + 1]
  <2> HIDE DEF n
  <2>1. CASE i > n
    <3>1. i = n + 1
      BY <1>1, <2>1
    <3> QED BY <1>1, <2>1, <3>1, Zenon
  <2>2. CASE ~ (i > n)
    <3>1. i \in 1 .. n /\ i + 1 \in 1 .. n + 1
      BY <1>1, <2>2
    <3>2. g[i + 1] = Rest(i + 1)
      BY <3>1, Zenon
    <3> QED BY <1>2, <1>3, <2>2, <3>1, <3>2, Zenon
  <2> QED BY <2>1, <2>2
<1>5. IsReplaced(g, text, name, by)
  <2>1. g = [i \in 1 .. n + 1 |-> Rest(i)]
    OBVIOUS
  <2> HIDE DEF g
  <2> QED BY <1>4, <2>1, Zenon DEF IsReplaced
<1>6. PICK f : IsReplaced(f, text, name, by) /\ bfindreplace(text, name, by) = f[1]
  BY <1>5, ReplacedIs, Zenon
<1>7. \A i \in 1 .. n + 1 :
        f[i] = IF i > n THEN <<>>
               ELSE IF OccursAt(name, text, i) THEN by \o f[i + Len(name)]
               ELSE <<text[i]>> \o f[i + 1]
  BY <1>6, Zenon DEF IsReplaced
<1> DEFINE Good == {k \in 0 .. n : f[n + 1 - k] = Rest(n + 1 - k)}
<1> HIDE DEF n
<1>8. 0 \in Good
  <2>1. n + 1 \in 1 .. n + 1 /\ n + 1 > n /\ n + 1 - 0 = n + 1 /\ 0 \in 0 .. n
    BY <1>1
  <2>2. f[n + 1] = <<>>
    BY <1>7, <2>1
  <2> QED BY <1>1, <2>1, <2>2
<1>9. ASSUME NEW k \in 1 .. n, k - 1 \in Good
      PROVE  k \in Good
  <2> DEFINE i == n + 1 - k
  <2>1. i \in 1 .. n /\ i \in 1 .. n + 1 /\ i + 1 = n + 1 - (k - 1) /\ ~ (i > n) /\ k \in 0 .. n
    BY <1>1
  <2>2. f[n + 1 - (k - 1)] = Rest(n + 1 - (k - 1))
    BY <1>9
  <2> HIDE DEF i
  <2>3. f[i] = <<text[i]>> \o f[i + 1]
    BY <1>2, <1>7, <2>1, Zenon
  <2>4. f[i] = Rest(i)
    BY <1>3, <2>1, <2>2, <2>3, Zenon
  <2> QED BY <2>1, <2>4, Zenon DEF i
<1> HIDE DEF Good
<1>10. \A k \in 0 .. n : k \in Good
  BY <1>1, <1>8, <1>9, Induction
<1>11. f[1] = Rest(1)
  <2>1. n \in Good
    BY <1>1, <1>10
  <2>2. n + 1 - n = 1
    BY <1>1
  <2>3. f[n + 1 - n] = Rest(n + 1 - n)
    BY <2>1, Zenon DEF Good
  <2> QED BY <2>2, <2>3, Zenon
<1> QED BY <1>1, <1>6, <1>11, Zenon

\* A text that is the name is replaced.
LEMMA AllReplaced ==
  ASSUME NEW S, NEW text \in Seq(S), text # <<>>, NEW by \in Seq(S)
  PROVE  bfindreplace(text, text, by) = by
<1> DEFINE n == Len(text)
           Rest(i) == SubSeq(text, i, n)
           g == [i \in 1 .. n + 1 |-> IF i = 1 THEN by ELSE Rest(i)]
<1>1. n \in Nat \ {0} /\ Rest(n + 1) = <<>> /\ by \o <<>> = by
  OBVIOUS
<1>2. OccursAt(text, text, 1)
  <2>1. 1 + n - 1 <= n /\ \A j \in 1 .. n : 1 + j - 1 = j
    OBVIOUS
  <2> HIDE DEF n
  <2>2. \A j \in 1 .. n : text[1 + j - 1] = text[j]
    BY <2>1
  <2> QED BY <2>1, <2>2, Zenon DEF OccursAt, Index, n
<1>3. \A i \in 2 .. n : ~ OccursAt(text, text, i)
  BY DEF OccursAt
<1>4. \A i \in 1 .. n : Rest(i) = <<text[i]>> \o Rest(i + 1)
  BY WithFirst
<1> HIDE DEF Rest, n
<1>5. ASSUME NEW i \in 1 .. n + 1
      PROVE  (IF i = 1 THEN by ELSE Rest(i))
               = IF i > n THEN <<>>
                 ELSE IF OccursAt(text, text, i) THEN by \o g[i + n]
                 ELSE <<text[i]>> \o g[i + 1]
  <2>1. CASE i = 1
    <3>1. ~ (i > n) /\ i + n \in 1 .. n + 1 /\ i + n # 1 /\ i + n = n + 1
      BY <1>1, <2>1
    <3>2. g[i + n] = <<>>
      BY <1>1, <3>1, Zenon
    <3> HIDE DEF g
    <3> QED BY <1>1, <1>2, <2>1, <3>1, <3>2, Zenon
  <2>2. CASE i = n + 1
    <3>1. i > n /\ i # 1
      BY <1>1, <2>2
    <3> QED BY <1>1, <2>2, <3>1, Zenon
  <2>3. CASE i # 1 /\ i # n + 1
    <3>1. i \in 2 .. n /\ i \in 1 .. n /\ ~ (i > n) /\ i + 1 \in 1 .. n + 1 /\ i + 1 # 1
      BY <1>1, <2>3
    <3>2. g[i + 1] = Rest(i + 1)
      BY <3>1, Zenon
    <3> HIDE DEF g
    <3> QED BY <1>3, <1>4, <2>3, <3>1, <3>2, Zenon
  <2> QED BY <2>1, <2>2, <2>3
<1>6. IsReplaced(g, text, text, by)
  <2>1. g = [i \in 1 .. n + 1 |-> IF i = 1 THEN by ELSE Rest(i)]
    OBVIOUS
  <2> HIDE DEF g
  <2> QED BY <1>5, <2>1, Zenon DEF IsReplaced, n
<1>7. PICK f : IsReplaced(f, text, text, by) /\ bfindreplace(text, text, by) = f[1]
  BY <1>6, ReplacedIs, Zenon
<1>8. \A i \in 1 .. n + 1 :
        f[i] = IF i > n THEN <<>>
               ELSE IF OccursAt(text, text, i) THEN by \o f[i + n]
               ELSE <<text[i]>> \o f[i + 1]
  BY <1>7, Zenon DEF IsReplaced, n
<1>9. f[n + 1] = <<>>
  <2>1. n + 1 \in 1 .. n + 1 /\ n + 1 > n
    BY <1>1
  <2> QED BY <1>8, <2>1, Zenon
<1>10. f[1] = by \o f[1 + n]
  <2>1. 1 \in 1 .. n + 1 /\ ~ (1 > n)
    BY <1>1
  <2> QED BY <1>2, <1>8, <2>1, Zenon
<1>11. 1 + n = n + 1
  BY <1>1
<1> QED BY <1>1, <1>7, <1>9, <1>10, <1>11, Zenon


\* The replacement of one name after another.
ReplaceStep(c, t, name) == bfindreplace(t, name, c.map[name])
TextsKept(c, k, t) == t \in c.texts
Replacements == INSTANCE FoldSteps WITH Step <- ReplaceStep, Inv <- TextsKept

LEMMA ReplacementsFold ==
  ASSUME NEW c, NEW text
  PROVE  foreach_in_bmap(c.map, text)
           = Replacements!Folded(c, text, Listed(HashOrder, DOMAIN c.map))
BY Zenon DEF foreach_in_bmap, FoldLeft, MapThenFoldSet, Max, Replacements!Folded,
             Replacements!IsFold, Replacements!Greatest, ReplaceStep

LEMMA ReplacedWithin ==
  ASSUME NEW map, NEW texts, NEW text \in texts,
         \A t \in texts, name \in Range(HashOrder) :
           name \in DOMAIN map => bfindreplace(t, name, map[name]) \in texts
  PROVE  foreach_in_bmap(map, text) \in texts
<1> DEFINE c == [map |-> map, texts |-> texts]
           list == Listed(HashOrder, DOMAIN map)
           n == Len(list)
<1>1. c.map = map /\ c.texts = texts
  OBVIOUS
<1> HIDE DEF c
<1>2. list \in Seq(DOMAIN map \cap Range(HashOrder))
  <2>1. HashOrder \in Seq(Seq(STRING))
    BY NamesAssumption, Zenon
  <2> QED BY <2>1, ListedAmong
<1> HIDE DEF list
<1>3. n \in Nat /\ DOMAIN list = 1 .. n
      /\ \A k \in 1 .. n : list[k] \in DOMAIN map \cap Range(HashOrder)
  BY <1>2
<1> HIDE DEF n
<1>4. foreach_in_bmap(map, text) = Replacements!Folded(c, text, list)
  BY <1>1, ReplacementsFold, Zenon DEF list
<1>5. TextsKept(c, 0, text)
  BY <1>1, Zenon DEF TextsKept
<1>6. ASSUME NEW k \in 1 .. n, NEW t, TextsKept(c, k - 1, t)
      PROVE  TextsKept(c, k, ReplaceStep(c, t, list[k]))
  <2>1. list[k] \in Range(HashOrder) /\ list[k] \in DOMAIN map
    BY <1>3
  <2>2. t \in texts
    BY <1>1, <1>6, Zenon DEF TextsKept
  <2> QED BY <1>1, <2>1, <2>2, Zenon DEF TextsKept, ReplaceStep
<1>7. TextsKept(c, n, Replacements!Folded(c, text, list))
  BY <1>3, <1>5, <1>6, Replacements!Kept
<1> QED BY <1>1, <1>4, <1>7, Zenon DEF TextsKept

LEMMA NumberRead ==
  ASSUME NEW e \in 0 .. MaxNumber
  PROVE  strtoumax(Number(e)) = e
<1>1. DOMAIN Numeral = 0 .. MaxNumber
  BY Zenon DEF Numeral
<1>2. Numbers[Numeral[e]] = e
  BY <1>1, NumbersAssumption, Zenon
<1>3. Numeral[e] \in DOMAIN Numbers
  BY <1>1, Zenon DEF Numbers, Range
<1>4. Number(e) # <<>> /\ Number(e)[1] = Numeral[e]
  BY DEF Number
<1> QED BY <1>2, <1>3, <1>4, Zenon DEF strtoumax

LEMMA DimensionsAre ==
  ASSUME NEW b \in Benchmarks, NEW d \in DimsTo(b, Len(b.streams))
  PROVE  /\ d \in Seq(STRING) /\ d # <<>> /\ strtoumax(d) = 0
         /\ \A name \in Range(HashOrder) : name # d => ~ binstr(d, name)
<1>1. PICK s \in 1 .. Len(b.streams) : d \in Range(b.streams[s].dims)
  BY Zenon DEF DimsTo, DimsOf
<1>2. s \in Index(b.streams)
  BY Zenon DEF Index
<1>3. /\ d # <<>> /\ d[1] \notin DOMAIN Numbers
      /\ \A name \in Range(HashOrder) \ {d} : ~ binstr(d, name)
  BY <1>1, <1>2, NamesAssumption, Zenon
<1>4. strtoumax(d) = 0
  BY <1>3, Zenon DEF strtoumax
<1>5. d \in Seq(STRING)
  <2> DEFINE AnyName == Seq(STRING)
             dims == b.streams[s].dims
  <2>1. dims \in Seq(AnyName)
    BY <1>2, StreamsAre, Zenon
  <2> HIDE DEF AnyName, dims
  <2>2. \A i \in DOMAIN dims : dims[i] \in AnyName
    BY <2>1
  <2>3. d \in AnyName
    BY <1>1, <2>2, Zenon DEF Range, dims
  <2> QED BY <2>3, Zenon DEF AnyName
<1>6. \A name \in Range(HashOrder) : name # d => ~ binstr(d, name)
  BY <1>3
<1> QED BY <1>3, <1>4, <1>5, <1>6, Zenon

LEMMA AreApart ==
  ASSUME NEW b \in Benchmarks
  PROVE  Apart(b)
BY NamesAssumption, Zenon DEF Apart, DimsOf

\* A dimension is replaced by its size, if there is one, and that stays.
LEMMA DimensionReplaced ==
  ASSUME NEW b \in Benchmarks, NEW d \in DimsTo(b, Len(b.streams)), NEW r, r.values = <<>>,
         NEW e \in 0 .. MaxNumber, d \in DOMAIN r.variables => r.variables[d] = Number(e)
  PROVE  \/ replace_all(r, d) = d
         \/ d \in DOMAIN r.variables /\ replace_all(r, d) = Number(e)
<1> DEFINE S == STRING \cup {Numeral[e]}
           text == foreach_in_bmap(r.variables, d)
           texts == {d} \cup IF d \in DOMAIN r.variables THEN {Number(e)} ELSE {}
<1>1. d \in Seq(S) /\ d # <<>>
  <2>1. d \in Seq(STRING) /\ d # <<>>
    BY DimensionsAre
  <2>2. \A s \in Seq(STRING) : s \in Seq(S)
    OBVIOUS
  <2> QED BY <2>1, <2>2, Zenon
<1>2. Number(e) \in Seq(S)
  BY DEF Number
<1> HIDE DEF S
<1>3. \A name \in Range(HashOrder) : ~ binstr(Number(e), name)
  <2>1. e \in DOMAIN Numeral
    BY Zenon DEF Numeral
  <2> QED BY <2>1, NamesAssumption, Zenon
<1>4. ASSUME NEW t \in texts, NEW name \in Range(HashOrder), NEW by
      PROVE  t # d \/ name # d => bfindreplace(t, name, by) = t
  <2>1. CASE t = d
    <3>1. name # d => ~ binstr(d, name)
      BY DimensionsAre
    <3> QED BY <1>1, <2>1, <3>1, NothingReplaced, Zenon
  <2>2. CASE t = Number(e)
    <3>1. ~ binstr(t, name)
      BY <1>3, <2>2, Zenon
    <3> QED BY <1>2, <2>2, <3>1, NothingReplaced, Zenon
  <2> QED BY <2>1, <2>2
<1>5. ASSUME NEW t \in texts, NEW name \in Range(HashOrder), name \in DOMAIN r.variables
      PROVE  bfindreplace(t, name, r.variables[name]) \in texts
  <2>1. CASE t = d /\ name = d
    <3>1. bfindreplace(d, d, Number(e)) = Number(e)
      BY <1>1, <1>2, AllReplaced, Zenon
    <3>2. Number(e) \in texts
      BY <1>5, <2>1
    <3> QED BY <1>5, <2>1, <3>1, <3>2, Zenon
  <2>2. CASE t # d \/ name # d
    BY <1>4, <2>2, Zenon
  <2> QED BY <2>1, <2>2, Zenon
<1>6. text \in texts
  <2>1. d \in texts
    OBVIOUS
  <2> HIDE DEF texts
  <2> QED BY <1>5, <2>1, ReplacedWithin, Zenon
<1>7. replace_all(r, d) = text
  <2>1. \A name : name \notin DOMAIN r.values
    OBVIOUS
  <2>2. text \in {text}
    OBVIOUS
  <2> HIDE DEF text
  <2>3. foreach_in_bmap(r.values, text) \in {text}
    BY <2>1, <2>2, ReplacedWithin, Zenon
  <2>4. foreach_in_bmap(r.values, text) = text
    BY <2>3
  <2> QED BY <2>4, Zenon DEF replace_all, text
<1> HIDE DEF text
<1> QED BY <1>6, <1>7

-----------------------------------------------------------------------------
(* Whole iterations.                                                       *)

IsWhole(b, n) == StepOf(b) > 0 => n % StepOf(b) = 0

GlobalWhole ==
  \A d \in DimsTo(bench, Len(bench.streams)) :
    d \in DOMAIN global.variables => WholeNumber(bench, global.variables[d])

SizesRight ==
  /\ pc \notin {"fill", "refused"} => GlobalWhole
  /\ DOMAIN dimsizes = Groups(bench)
  /\ \A w \in Groups(bench) : HaveStreams \/ w <= done =>
       \A d \in DOMAIN dimsizes[w] : IsWhole(bench, dimsizes[w][d])

LEMMA SizesInit ==
  Init => SizesRight
<1> SUFFICES ASSUME Init PROVE SizesRight
  OBVIOUS
<1>1. pc = "fill" /\ done = 0 /\ dimsizes = [w \in Groups(bench) |-> <<>>] /\ bench \in Benchmarks
  BY Zenon DEF Init
<1>2. \A w \in Groups(bench) : ~ (w <= done)
  BY <1>1, GroupSizes
<1>3. ~ HaveStreams /\ pc = "fill"
  BY <1>1 DEF HaveStreams
<1>4. DOMAIN dimsizes = Groups(bench)
  BY <1>1, Zenon
<1> QED BY <1>2, <1>3, <1>4, Zenon DEF SizesRight

LEMMA SizesFill ==
  ASSUME StoresRight, SizesRight, fill_results
  PROVE  SizesRight'
<1>1. PICK wild \in Wild :
        LET rounded == AllRounded(bench, wild, Filled)
        IN  global' = rounded.global /\ pc' = IF rounded.ok THEN "streams" ELSE "refused"
  BY Zenon DEF fill_results, Filled
<1> DEFINE rounded == AllRounded(bench, wild, Filled)
<1>2. global' = rounded.global /\ pc' = IF rounded.ok THEN "streams" ELSE "refused"
  BY <1>1, Zenon
<1>3. pc = "fill" /\ bench' = bench /\ done' = done /\ dimsizes' = dimsizes
  BY Zenon DEF fill_results
<1>4. bench \in Benchmarks /\ done = 0
  BY <1>3 DEF StoresRight, Phase
<1>5. SizesWhole(bench, rounded, DimsTo(bench, Len(bench.streams)))
  BY <1>3, <1>4, FilledIs, AreApart, RoundedAll, Zenon DEF rounded
<1> HIDE DEF rounded
<1>6. pc' \notin {"fill", "refused"} => GlobalWhole'
  <2>1. pc' # "refused" => rounded.ok
    BY <1>2
  <2> QED BY <1>2, <1>3, <1>5, <2>1, Zenon DEF SizesWhole, GlobalWhole
<1>7. \A w \in Groups(bench) : ~ (w <= done)
  BY <1>4, GroupSizes
<1>8. ~ HaveStreams'
  BY <1>2 DEF HaveStreams
<1>9. DOMAIN dimsizes = Groups(bench)
  BY Zenon DEF SizesRight
<1> QED BY <1>3, <1>6, <1>7, <1>8, <1>9, Zenon DEF SizesRight

LEMMA SizesManage ==
  ASSUME StoresRight, SizesRight, manage_streams
  PROVE  SizesRight'
<1> DEFINE w == done + 1
           n == Len(bench.groups)
           dims == DimsTo(bench, Len(bench.streams))
           size == [d \in dims |-> strtoumax(replace_all(global, d))]
<1>1. /\ pc = "streams" /\ bench' = bench /\ global' = global
      /\ \/ pc' = "refused" /\ dimsizes' = dimsizes /\ done' = done
         \/ /\ \A d \in dims : size[d] # 0
            /\ dimsizes' = [dimsizes EXCEPT ![w] = size]
            /\ done' = IF w = n THEN 0 ELSE w
            /\ pc' = IF w = n THEN "iterations" ELSE pc
  BY Zenon DEF manage_streams, DimsTo, DimsOf, Index
<1>2. /\ bench \in Benchmarks /\ n \in Nat /\ Groups(bench) = 1 .. n /\ done \in 0 .. n
      /\ done < n /\ global.values = <<>>
  BY <1>1, GroupSizes DEF StoresRight, Phase, GlobalValues
<1>3. /\ GlobalWhole /\ DOMAIN dimsizes = Groups(bench)
      /\ \A v \in Groups(bench) : v <= done =>
           \A d \in DOMAIN dimsizes[v] : IsWhole(bench, dimsizes[v][d])
  BY <1>1, Zenon DEF SizesRight
<1>4. CASE pc' = "refused" /\ dimsizes' = dimsizes /\ done' = done
  <2>1. ~ HaveStreams' /\ ~ (pc' \notin {"fill", "refused"})
    BY <1>4 DEF HaveStreams
  <2> QED BY <1>1, <1>3, <1>4, <2>1, Zenon DEF SizesRight
<1>5. CASE /\ \A d \in dims : size[d] # 0
           /\ dimsizes' = [dimsizes EXCEPT ![w] = size]
           /\ done' = IF w = n THEN 0 ELSE w
           /\ pc' = IF w = n THEN "iterations" ELSE pc
  <2>1. ASSUME NEW d \in dims
        PROVE  IsWhole(bench, size[d])
    <3>1. size[d] = strtoumax(replace_all(global, d)) /\ size[d] # 0
      BY <1>5, Zenon
    <3>2. strtoumax(d) = 0
      BY <1>2, DimensionsAre
    <3>3. d \in DOMAIN global.variables => WholeNumber(bench, global.variables[d])
      BY <1>3, Zenon DEF GlobalWhole
    <3>4. PICK e \in 0 .. MaxNumber :
            d \in DOMAIN global.variables => global.variables[d] = Number(e) /\ IsWhole(bench, e)
      <4>1. 0 \in 0 .. MaxNumber
        BY NumbersAssumption
      <4> QED BY <3>3, <4>1, Zenon DEF WholeNumber, IsWhole
    <3> HIDE DEF dims, size
    <3>5. \/ replace_all(global, d) = d
          \/ d \in DOMAIN global.variables /\ replace_all(global, d) = Number(e)
      BY <1>2, <3>4, DimensionReplaced, Zenon DEF dims
    <3>6. d \in DOMAIN global.variables /\ replace_all(global, d) = Number(e)
      BY <3>1, <3>2, <3>5, Zenon
    <3>7. size[d] = e
      BY <3>1, <3>6, NumberRead, Zenon
    <3> QED BY <3>4, <3>6, <3>7, Zenon
  <2>2. DOMAIN size = dims
    OBVIOUS
  <2> HIDE DEF size, dims
  <2>3. \A v \in Groups(bench) : dimsizes'[v] = IF v = w THEN size ELSE dimsizes[v]
    BY <1>3, <1>5, Zenon
  <2>4. ASSUME NEW v \in Groups(bench), v <= w
        PROVE  \A d \in DOMAIN dimsizes'[v] : IsWhole(bench, dimsizes'[v][d])
    <3>1. CASE v = w
      BY <2>1, <2>2, <2>3, <3>1, Zenon
    <3>2. CASE v # w
      <4>1. v <= done
        BY <1>2, <2>4, <3>2
      <4> QED BY <1>3, <2>3, <3>2, <4>1, Zenon
    <3> QED BY <3>1, <3>2
  <2>5. \A v \in Groups(bench) : HaveStreams' \/ v <= done' => v <= w
    BY <1>1, <1>2, <1>5 DEF HaveStreams
  <2>6. DOMAIN dimsizes' = Groups(bench)
    BY <1>3, <1>5, Zenon
  <2>7. GlobalWhole'
    BY <1>1, <1>3, Zenon DEF GlobalWhole
  <2>8. \A d, v : IsWhole(bench, dimsizes'[v][d]) => IsWhole(bench, dimsizes[v][d])'
    BY <1>1, Zenon DEF IsWhole
  <2> QED BY <1>1, <2>4, <2>5, <2>6, <2>7, <2>8, Zenon DEF SizesRight
<1> QED BY <1>1, <1>4, <1>5

\* The other actions do not change sizes.
LEMMA SizesElse ==
  ASSUME StoresRight, SizesRight,
         \/ update_iterations \/ update_group \/ update_global \/ update_table
         \/ UNCHANGED vars
  PROVE  SizesRight'
<1>1. bench' = bench /\ dimsizes' = dimsizes
  BY DEF update_iterations, update_group, update_global, update_table, vars
<1>2. global'.variables = global.variables
  <2>1. CASE update_global
    <3>1. IsStore(global) /\ global.values = <<>> /\ global' = _aggregate_results(global, lists)
      BY <2>1 DEF StoresRight, Stores, GlobalValues, update_global
    <3> QED BY <3>1, Aggregated
  <2>2. CASE ~ update_global
    BY <2>2 DEF update_iterations, update_group, update_table, vars
  <2> QED BY <2>1, <2>2
<1>3. \/ HaveStreams /\ HaveStreams' /\ pc # "fill" /\ pc # "refused"
      \/ pc' = pc /\ done' = done
  BY DEF update_iterations, update_group, update_global, update_table, vars, HaveStreams
<1>4. /\ pc \notin {"fill", "refused"} => GlobalWhole
      /\ DOMAIN dimsizes = Groups(bench)
      /\ \A w \in Groups(bench) : HaveStreams \/ w <= done =>
           \A d \in DOMAIN dimsizes[w] : IsWhole(bench, dimsizes[w][d])
  BY Zenon DEF SizesRight
<1>5. GlobalWhole => GlobalWhole'
  BY <1>1, <1>2, Zenon DEF GlobalWhole
<1>6. \A w, d : IsWhole(bench, dimsizes[w][d]) => IsWhole(bench, dimsizes[w][d])'
  BY <1>1, Zenon DEF IsWhole
<1>7. pc' \notin {"fill", "refused"} => GlobalWhole'
  BY <1>3, <1>4, <1>5
<1>8. \A w : HaveStreams' \/ w <= done' => HaveStreams \/ w <= done
  BY <1>3 DEF HaveStreams
<1> QED BY <1>1, <1>4, <1>6, <1>7, <1>8, Zenon DEF SizesRight

LEMMA SizesNext ==
  StoresRight /\ SizesRight /\ [Next]_vars => SizesRight'
<1> SUFFICES ASSUME StoresRight, SizesRight, [Next]_vars PROVE SizesRight'
  OBVIOUS
<1>1. CASE fill_results
  BY <1>1, SizesFill
<1>2. CASE manage_streams
  BY <1>2, SizesManage
<1>3. CASE \/ update_iterations \/ update_group \/ update_global \/ update_table
           \/ UNCHANGED vars
  BY <1>3, SizesElse
<1> QED BY <1>1, <1>2, <1>3, Zenon DEF Next

LEMMA PartsWhole ==
  StoresRight /\ SizesRight => WholeIterations
<1> SUFFICES ASSUME StoresRight, SizesRight, HaveStreams,
                    NEW w \in Groups(bench), bench.groups[w] = Last(bench.groups),
                    bbytesperiter \in DOMAIN Variables(bench),
                    strtoumax(Variables(bench)[bbytesperiter]) * bench.groups[w] > 0,
                    NEW d \in DOMAIN dimsizes[w]
             PROVE  dimsizes[w][d] % (strtoumax(Variables(bench)[bbytesperiter])
                                        * bench.groups[w]) = 0
  BY DEF WholeIterations
<1>1. StepOf(bench) = strtoumax(Variables(bench)[bbytesperiter]) * bench.groups[w]
  BY Zenon DEF StepOf, Last
<1>2. IsWhole(bench, dimsizes[w][d])
  BY Zenon DEF SizesRight
<1> QED BY <1>1, <1>2 DEF IsWhole

\* The part of every thread is a whole number of iterations of the kernel,
\* in workgroups with as many threads as the last one, for which the sizes
\* are rounded (fill_results, manage_streams).
THEOREM RoundsToIterations ==
  Spec => []WholeIterations
<1>1. Init => StoresRight /\ SizesRight
  BY StoresInit, SizesInit
<1>2. StoresRight /\ SizesRight /\ [Next]_vars => (StoresRight /\ SizesRight)'
  BY StoresNext, SizesNext
<1>3. StoresRight /\ SizesRight => WholeIterations
  BY PartsWhole
<1> QED BY <1>1, <1>2, <1>3, PTL DEF Spec
=============================================================================
