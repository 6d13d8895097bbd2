----------------------------- MODULE MCTopology -----------------------------
(* CpuList and CpuFlags side by side: a behaviour is one of the resolution *)
(* of a workgroup's text, or one of the checks of the machine.             *)
EXTENDS MCCpuList, MCCpuFlags

VARIABLE moves       \* the component that moves

SomeText ==
  /\ machine = CHOOSE m \in Machines : TRUE
  /\ text = CHOOSE t \in Texts : t.kind = "physical"
  /\ Init

SomeHost ==
  /\ host = CHOOSE h \in Hosts : TRUE
  /\ flags = {}
  /\ FlagsInit

TopologyInit ==
  \/ moves = "lists" /\ SomeHost /\ Init
  \/ moves = "flags" /\ SomeText /\ FlagsInit

TopologyNext ==
  \/ Next /\ moves = "lists" /\ UNCHANGED <<moves, flagsvars>>
  \/ FlagsNext /\ moves = "flags" /\ UNCHANGED <<moves, vars>>

\* The call goes on: the program is sequential.
TopologySpec ==
  /\ TopologyInit /\ [][TopologyNext]_<<moves, vars, flagsvars>>
  /\ WF_vars(Loop /\ UNCHANGED <<moves, flagsvars>>)
=============================================================================
