------------------------------ MODULE BulkSync ------------------------------
(***************************************************************************)
(* What a run of likwid-bench promises about its workgroups, without       *)
(* queues, barriers and clocks.  Every thread goes through the same phases *)
(*                                                                         *)
(*    0 created      1 data initialised    2 timed kernel calls made       *)
(*    3 time taken   4 gone                                                *)
(*                                                                         *)
(* and enters the next one only when no thread of its workgroup is behind: *)
(* no timed kernel call before all data is initialised, and no clock is    *)
(* stopped before the whole workgroup has made its kernel calls.           *)
(***************************************************************************)
EXTENDS Naturals

CONSTANTS Threads, Workgroup

VARIABLE phase

Last == 4

Advance(t) ==
  /\ phase[t] < Last
  /\ \A u \in Threads : Workgroup[u] = Workgroup[t] => phase[u] >= phase[t]
  /\ phase' = [phase EXCEPT ![t] = @ + 1]

Init == phase = [t \in Threads |-> 0]

Next == \E t \in Threads : Advance(t)

Spec == Init /\ [][Next]_phase

FairSpec == Spec /\ \A t \in Threads : WF_phase(Advance(t))
=============================================================================
