----------------------------- MODULE MCCpuList -----------------------------
(***************************************************************************)
(* Machines of two sockets and the texts that name threads of them.        *)
(***************************************************************************)
EXTENDS CpuList

Cores == 2      \* of a socket
Smt == 2        \* threads of a core

Threads == 0 .. 2 * Cores * Smt - 1

\* Hardware threads are numbered core by core or SMT level by SMT level.
CoreOf(adjacent, t) == IF adjacent THEN t \div Smt ELSE t % (2 * Cores)

SiblingsOf(adjacent, t) ==
  SetToSortSeq({u \in Threads : CoreOf(adjacent, u) = CoreOf(adjacent, t)}, <)

Siblings(adjacent, t) ==
  LET s == SiblingsOf(adjacent, t) IN [i \in DOMAIN s |-> <<s[i]>>]

Cpu(adjacent, t) ==
  LET k == CoreOf(adjacent, t)
  IN  [package |-> k \div Cores, core |-> k % Cores, die |-> 0,
       nodes |-> {k \div Cores}, siblings |-> Siblings(adjacent, t),
       caches |-> <<[level |-> 1, id |-> k], [level |-> 1, id |-> k],
                    [level |-> 2, id |-> k], [level |-> 3, id |-> k \div Cores]>>]

\* all threads usable, one offline, or the process kept away from one
MCMachines ==
  LET last == Max(Threads)
  IN  {[cpus |-> [t \in Threads |-> Cpu(adjacent, t)], online |-> on, affinity |-> may] :
         adjacent \in BOOLEAN,
         on \in {<<<<0, last>>>>, <<<<0>>, <<2, last>>>>},
         may \in {Threads, Threads \ {2}}}

Entries == {<<0>>, <<1>>, <<3>>, <<0, 1>>, <<2, 0>>, <<1, 3>>, <<-1>>}
Lists == {<<a>> : a \in Entries} \cup {<<a, b>> : a \in Entries, b \in Entries}
           \cup {<<<<0, 3>>, <<3, 0>>, <<0>>>>}

Domains == {<<"N", NoIdx>>, <<"S", 0>>, <<"S", 1>>, <<"S", 2>>, <<"S", NoIdx>>,
            <<"M", 1>>, <<"D", 0>>}

\* Chunks and strides that stay in the domain
InnerFields == {<<n>> : n \in {-1, 0, 1, 2, 3, 9}}
WholeFields == {<<n, c, s>> : n \in {2, 3, 8, 9}, c \in 1 .. 2, s \in 1 .. 3}

MCTexts ==
  {[kind |-> "physical", entries |-> l] : l \in {l \in Lists : \A i \in DOMAIN l : l[i][1] >= 0}}
  \cup {[kind |-> "logical", domain |-> d[1], idx |-> d[2], entries |-> l] :
          d \in Domains, l \in Lists}
  \cup {[kind |-> "expression", domain |-> d[1], idx |-> d[2], fields |-> f] :
          d \in Domains, f \in InnerFields}
  \cup {[kind |-> "expression", domain |-> "N", idx |-> NoIdx, fields |-> f] :
          f \in WholeFields}

\* what the theorems suppose of the machines and the texts
ASSUME MachinesAndTexts ==
  (\A m \in Machines : Ordinary(m)) /\ \A t \in Texts : Written(t)
=============================================================================
