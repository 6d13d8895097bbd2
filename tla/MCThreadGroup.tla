--------------------------- MODULE MCThreadGroup ---------------------------
(***************************************************************************)
(* Values for the constants of ThreadGroup that a .cfg file cannot write.  *)
(***************************************************************************)
EXTENDS ThreadGroup

MainScript == <<"INITIALIZE", "RUN", "EXIT">>   \* what likwid-bench.c sends

\* everything _func_t handles, through its default branch at the end
ApiScript == <<"NOOP", "INITIALIZE", "RUN", "RUN", "VERIFY">>

OneGroup == [t \in Threads |-> 1]               \* all threads together
OwnGroup == [t \in Threads |-> t]               \* a workgroup per thread
TwoAndOne == [t \in Threads |-> IF t < 2 THEN 1 ELSE 2]
=============================================================================
