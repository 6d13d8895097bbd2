------------------------------ MODULE CpuList ------------------------------
(***************************************************************************)
(* How the text of a workgroup becomes a list of hardware threads: the     *)
(* three notations of lb_cpustr_to_cpulist and resolve_workgroup, on any   *)
(* machine of Machines.  Texts are given as their parts:                   *)
(*   [kind |-> "physical", entries]                      "0,2-3"           *)
(*   [kind |-> "logical", domain, idx, entries]          "S0:0,2-3"        *)
(*   [kind |-> "expression", domain, idx, fields]        "E:S0:4:1:2"      *)
(* An index that is not there is NoIdx, a chunk or stride that is not      *)
(* there NotGiven, as the variables are before sscanf.                     *)
(***************************************************************************)
EXTENDS HwThreads

CONSTANTS
  Machines,    \* what sysfs may say
  Texts        \* workgroup texts

VARIABLES
  machine,
  hw,          \* _hwthreads, empty before check_hwthreads
  text,
  pc,          \* "start", "call", "loop" (of an expression), "done"
  domain,      \* tmpList: the threads of the domain, a function on places 0, 1, ...
  idx, left,   \* idx and tmpcount of the loop
  list,        \* list[0 .. outcount - 1]
  ret

vars == <<machine, hw, text, pc, domain, idx, left, list, ret>>

\* A text as a user writes it.  Chunks and strides are those of domain N.
Letters == {"N", "S", "M", "D"}

Written(t) ==
  \/ t.kind = "physical" /\ IsEntries(t.entries, Int)
  \/ t.kind = "logical" /\ t.domain \in Letters /\ t.idx \in Int /\ IsEntries(t.entries, Int)
  \/ /\ t.kind = "expression" /\ t.domain \in Letters /\ t.idx \in Int
     /\ t.fields \in Seq(Int)
     /\ \/ Len(t.fields) = 1
        \/ /\ t.domain = "N" /\ Len(t.fields) = 3
           /\ t.fields[2] \in Nat /\ t.fields[3] \in Nat

NoIdx == -1
NotGiven == -1
Outside == -1   \* what lies outside of a list or was never written there

\* the size of the buffer: resolve_workgroup passes the number of threads
Length == Len(hw)

Init ==
  /\ machine \in Machines
  /\ text \in Texts
  /\ hw = <<>> /\ pc = "start" /\ domain = <<>> /\ list = <<>>
  /\ idx = 0 /\ left = 0 /\ ret = 0

\* resolve_workgroups asks for the number of threads first.
get_num_hw_threads ==
  /\ pc = "start"
  /\ hw' = check_hwthreads(machine)
  /\ pc' = "call"
  /\ UNCHANGED <<machine, text, domain, idx, left, list, ret>>

Call(kind) == pc = "call" /\ text.kind = kind /\ UNCHANGED <<machine, hw, text>>

Return(r, l) == ret' = r /\ list' = l /\ pc' = "done"

Shorten(s, n) == SubSeq(s, 1, Min({Len(s), n}))

\* s, s+1, ..., e or s, s-1, ..., e
Span(s, e) ==
  IF s <= e THEN [i \in 1 .. e - s + 1 |-> s + i - 1]
            ELSE [i \in 1 .. s - e + 1 |-> s - i + 1]

Expand(entry) == Span(entry[1], entry[Len(entry)])

IdsOf(entries) == FlattenSeq([i \in DOMAIN entries |-> Expand(entries[i])])

\* resolve_list: as IdsOf, without entries that have a negative number
resolve_list(entries) ==
  IdsOf(AtPlaces(entries, {n \in DOMAIN entries :
                             \A i \in DOMAIN entries[n] : entries[n][i] >= 0}))

\* the ids of a physical list that exist
Existing(ids) == AtPlaces(ids, {n \in DOMAIN ids : getHwThread(hw, ids[n])})

\* A list of n places, with the given ids at the front and beyond them rest.
ListOf(ids, n, rest) ==
  [i \in 0 .. n - 1 |-> IF i < Len(ids) THEN ids[i + 1] ELSE rest]

At(l, i) == IF i \in DOMAIN l THEN l[i] ELSE Outside

-----------------------------------------------------------------------------

\* Mutant: the buffer's length is not looked at.
lb_cpustr_to_cpulist_physical_Unbounded ==
  /\ Call("physical")
  /\ LET ids == Existing(IdsOf(text.entries))
     IN  Return(Len(ids), ids)
  /\ UNCHANGED <<domain, idx, left>>

lb_cpustr_to_cpulist_physical ==
  /\ Call("physical")
  /\ LET out == Shorten(Existing(IdsOf(text.entries)), Length)
     IN  Return(Len(out), out)
  /\ UNCHANGED <<domain, idx, left>>

\* The list of a domain and how many threads it has.  Only the lists of
\* sockets, NUMA domains and dies are filled with zeros.
TmpList(dom, i, closed) ==
  IF dom = "N"
  THEN LET ids == IF closed = 1 THEN AllThreadsBySmt(hw) ELSE AllThreads(hw)
       IN  [ids |-> ListOf(ids, Len(hw), Outside), count |-> Len(ids)]
  ELSE LET ids == DomainThreads(hw, dom, i, closed)
       IN  [ids |-> ListOf(ids, Len(hw), 0), count |-> Len(ids)]

NotThere(dom, tmp) == dom # "N" /\ tmp.count = 0

lb_cpustr_to_cpulist_logical ==
  /\ Call("logical")
  /\ LET ids == resolve_list(text.entries)
         tmp == TmpList(text.domain, text.idx, 1)
         out == Shorten(ids, Min({Length, tmp.count}))
     IN  IF ids = <<>> \/ (text.domain # "N" /\ text.idx < 0)
         THEN Return(-EINVAL, <<>>)
         ELSE IF NotThere(text.domain, tmp)
         THEN Return(-ENODEV, <<>>)
         ELSE Return(Len(out), [i \in DOMAIN out |-> At(tmp.ids, out[i])])
  /\ UNCHANGED <<domain, idx, left>>

Count == text.fields[1]
Chunk == IF Len(text.fields) >= 2 THEN text.fields[2] ELSE NotGiven
Stride == IF Len(text.fields) >= 3 THEN text.fields[3] ELSE NotGiven

\* Mutant: the number of threads asked for is not bounded by the domain's.
LoopLengthOfCount(tmp) == IF Count > 0 THEN Count ELSE Length

\* looplength; a negative count stands for all
LoopLength(tmp) ==
  Min({Length, tmp.count} \cup (IF Count > 0 THEN {Count} ELSE {}))

\* lb_cpustr_to_cpulist_expression before its loops
lb_cpustr_to_cpulist_expression ==
  /\ Call("expression")
  /\ LET tmp == TmpList(text.domain, text.idx, 0)
     IN  IF Count = 0 \/ (text.domain # "N" /\ text.idx < 0)
         THEN Return(-EINVAL, <<>>) /\ UNCHANGED <<domain, idx, left>>
         ELSE IF NotThere(text.domain, tmp)
         THEN Return(-ENODEV, <<>>) /\ UNCHANGED <<domain, idx, left>>
         ELSE IF Chunk = NotGiven /\ Stride = NotGiven
         THEN /\ Return(LoopLength(tmp), [i \in 1 .. LoopLength(tmp) |-> At(tmp.ids, i - 1)])
              /\ UNCHANGED <<domain, idx, left>>
         ELSE /\ domain' = tmp.ids /\ left' = LoopLength(tmp) /\ idx' = 0
              /\ pc' = "loop" /\ UNCHANGED <<list, ret>>

Looping == pc = "loop" /\ UNCHANGED <<machine, hw, text, domain>>

\* one round of the loop over idx: the threads of a chunk
TakeChunk ==
  /\ Looping /\ left > 0 /\ idx < Len(hw)
  /\ LET places == {i \in 0 .. Chunk - 1 : idx + i < Len(hw)}
         n      == Min({left, Cardinality(places)})
     IN  /\ list' = list \o [i \in 1 .. n |-> At(domain, idx + i - 1)]
         /\ left' = left - n
         /\ idx'  = idx + Stride
  /\ UNCHANGED <<pc, ret>>

\* Mutant: the index is not set back.
WrapToEnd ==
  /\ Looping /\ left > 0 /\ idx >= Len(hw)
  /\ UNCHANGED <<idx, left, list, pc, ret>>

\* The end of the table is reached and threads are still missing.
Wrap ==
  /\ Looping /\ left > 0 /\ idx >= Len(hw)
  /\ idx' = 0
  /\ UNCHANGED <<left, list, pc, ret>>

EndOfLoop ==
  /\ Looping /\ left <= 0
  /\ Return(Len(list), list)
  /\ UNCHANGED <<idx, left>>

Loop == TakeChunk \/ Wrap \/ EndOfLoop

Done == pc = "done" /\ UNCHANGED vars

Next ==
  \/ get_num_hw_threads
  \/ lb_cpustr_to_cpulist_physical
  \/ lb_cpustr_to_cpulist_logical
  \/ lb_cpustr_to_cpulist_expression
  \/ Loop
  \/ Done

\* the call goes on: the program is sequential
Spec == Init /\ [][Next]_vars /\ WF_vars(Loop)

-----------------------------------------------------------------------------
(* Properties.                                                             *)

\* The threads a user means by a domain: those sysfs puts there, without
\* those that cannot be used.  N is every thread.
ThreadsOf(dom, i) ==
  {t \in DOMAIN machine.cpus :
     \/ dom = "N"
     \/ /\ t \in machine.affinity /\ hwthread_online(machine, t)
        /\ CASE dom = "S" -> machine.cpus[t].package = i
             [] dom = "M" -> i \in machine.cpus[t].nodes
             [] dom = "D" -> machine.cpus[t].die = i}

Key(t, closed) == [i \in 1 .. 9 |-> t[SortKeys(closed)[i]]]

Before(a, b) == \E i \in 1 .. 9 : a[i] < b[i] /\ \A j \in 1 .. i - 1 : a[j] = b[j]

\* _hwthreads_sort (src/topology.c) orders the table by all nine keys at
\* once, most significant first, and loses or repeats no thread.
SortedByTopology ==
  \A closed \in {0, 1} :
    LET s == _hwthreads_sort(hw, closed)
    IN  /\ Range(s) = Range(hw) /\ Len(s) = Len(hw)
        /\ \A i \in 1 .. Len(s) - 1 : Before(Key(s[i], closed), Key(s[i + 1], closed))

\* No notation writes past the end of the buffer of resolve_workgroup.
FitsBuffer == Len(list) <= Len(hw)

\* What the list of a finished call should be for a logical text: the asked
\* positions of the domain's threads, ordered by SMT level and then by place
\* in the machine.  siblings(t) is t's place in its core.
SmtPlace(t) ==
  Cardinality({u \in DOMAIN machine.cpus :
    u < t /\ machine.cpus[u].package = machine.cpus[t].package
          /\ machine.cpus[u].core = machine.cpus[t].core})

\* A logical text whose positions all exist in its domain selects as many
\* threads as it names, all different and with no second thread of a core
\* before every core of the domain has its first
\* (lb_cpustr_to_cpulist_logical).
SelectsPositions ==
  pc = "done" /\ text.kind = "logical" /\ ThreadsOf(text.domain, text.idx) # {} =>
    LET asked   == resolve_list(text.entries)
        threads == ThreadsOf(text.domain, text.idx)
    IN  (\A i \in DOMAIN asked : asked[i] < Cardinality(threads))
          /\ IsInjective(asked) /\ asked # <<>> =>
        /\ ret = Len(asked) /\ Range(list) \subseteq threads
        /\ IsInjective(list)
        /\ asked = [i \in DOMAIN asked |-> i - 1] =>
             \A i \in DOMAIN list : \A u \in threads \ Range(list) :
               SmtPlace(list[i]) <= SmtPlace(u)

\* A list of a domain has threads of that domain only, whichever notation
\* it was written in (the lists of a domain in src/topology.c).
OnlyOfDomain ==
  pc = "done" /\ text.kind = "expression" =>
    Range(list) \subseteq ThreadsOf(text.domain, text.idx)

\* An expression gives the number of threads it asks for or as many as the
\* domain has (lb_cpustr_to_cpulist_expression).
GivesCount ==
  pc = "done" /\ text.kind = "expression" /\ ret >= 0 =>
    ret = Min({Cardinality(ThreadsOf(text.domain, text.idx))}
                \cup (IF Count > 0 THEN {Count} ELSE {}))

\* No notation writes past the end of the buffer of resolve_workgroup, and an
\* expression gives as many threads as it asks for or its domain has, of that
\* domain only (lb_cpustr_to_cpulist_physical, lb_cpustr_to_cpulist_expression).
GivesItsThreads == FitsBuffer /\ OnlyOfDomain /\ GivesCount

\* The loop of an expression with a chunk comes to its end, however often it
\* starts over at the front of the table (lb_cpustr_to_cpulist_expression).
LoopEnds == pc = "loop" ~> pc = "done"
=============================================================================
