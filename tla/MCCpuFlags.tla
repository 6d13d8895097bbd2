---------------------------- MODULE MCCpuFlags ----------------------------
(***************************************************************************)
(* Machines of up to four hardware threads, some of them offline.          *)
(***************************************************************************)
EXTENDS CpuFlags

HostIds == 0 .. 3

FlagSets == {{"avx"}, {"avx", "fma"}, {"avx", "bmi2"}}

Runs(S) == [i \in 1 .. Cardinality(S) |-> <<SetToSortSeq(S, <)[i]>>]

Info(on, fl) ==
  LET ids == SetToSortSeq(on, <)
  IN  [i \in DOMAIN ids |-> [processor |-> ids[i], flags |-> fl[ids[i]]]]

\* One processor may differ from the others.
Flaggings == {[i \in HostIds |-> IF i = 2 THEN s ELSE t] : s \in FlagSets, t \in FlagSets}

\* Possible processors beyond those present, threads offline, a file missing.
MCHosts ==
  {[ids |-> HostIds, cpuinfo |-> Info(on, fl),
    folders |-> [present  |-> <<<<0, 3>>>>, possible |-> <<<<0, last>>>>,
                 online   |-> Runs(on), offline |-> Runs(HostIds \ on),
                 isolated |-> iso]] :
     on \in {s \in SUBSET HostIds : 0 \in s}, fl \in Flaggings, last \in {3, 5},
     iso \in {<<>>, <<<<1>>, <<2, 3>>>>, Unreadable}}

MCRequired == {{}, {"avx"}, {"fma"}, {"avx", "fma"}, {"bmi2"}}

\* what the theorems suppose of the hosts
ASSUME PlainHosts == \A h \in Hosts : Plain(h)
=============================================================================
