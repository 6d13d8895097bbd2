------------------------------ MODULE MCInputs ------------------------------
(* CommandLine, KernelFile and CodeGen side by side: a behaviour is the    *)
(* reading of a command line, or of a kernel file, or the generation of    *)
(* the code of a kernel.                                                   *)
EXTENDS MCCodeGen

CONSTANTS
  CommandLines, Files, Folder, Counts,  \* CommandLine
  WrittenFiles                          \* Kernels of KernelFile

VARIABLES
  moves,                                \* the component that moves
  line, options, position, combine, combine_opt, runcfg, outcome, step,
  file, objs, conf, stage

CL == INSTANCE MCCommandLine WITH Lines <- CommandLines, i <- position, pc <- step
KF == INSTANCE MCKernelFile WITH Kernels <- WrittenFiles, pc <- stage

commandline == <<line, options, position, combine, combine_opt, runcfg, outcome, step>>
kernelfile  == <<file, objs, conf, stage>>

MCBoth     == MCCodes \cup MCKernels
\* for the values alone, which do not depend on the constants they are for
CV == INSTANCE MCCommandLine WITH
        Lines <- {}, Files <- {}, Folder <- <<>>, Counts <- {}, i <- position, pc <- step
KV == INSTANCE MCKernelFile WITH Kernels <- {}, pc <- stage

MCLines    == CV!MCLines
MCFiles    == CV!MCFiles
MCFolder   == CV!MCFolder
MCCounts   == CV!MCCounts
MCWritten  == KV!MCFiles

OneKernel == kernel = (CHOOSE k \in Kernels : TRUE) /\ Init
OneLine   == line = (CHOOSE l \in CommandLines : TRUE) /\ CL!Init
OneFile   == file = (CHOOSE f \in WrittenFiles : TRUE) /\ KF!Init

InputsInit ==
  \/ moves = "code" /\ OneLine   /\ OneFile /\ Init
  \/ moves = "line" /\ OneKernel /\ OneFile /\ CL!Init
  \/ moves = "file" /\ OneKernel /\ OneLine /\ KF!Init

InputsNext ==
  /\ UNCHANGED moves
  /\ \/ moves = "code" /\ Next   /\ UNCHANGED <<commandline, kernelfile>>
     \/ moves = "line" /\ CL!Next /\ UNCHANGED <<vars, kernelfile>>
     \/ moves = "file" /\ KF!Next /\ UNCHANGED <<vars, commandline>>

InputsSpec == InputsInit /\ [][InputsNext]_<<moves, vars, commandline, kernelfile>>

\* Whatever the order of its sections and settings and whatever dashes and
\* colons its values have, a kernel file is read as it was written
\* (read_obj, read_keyvalue, read_yaml_ptt).
FileAsWritten == KF!ReadsAsWritten /\ KF!StreamsAsWritten

\* Nested keywords and keywords after each other are all expanded in place,
\* in a bounded number of rounds (_analyse_keyword, prepare_ptt).
AllExpanded == ExpandsAll /\ RoundsEnd

\* The generated loops start, go on and end as they were written, and every
\* name in an operand stands for its own value (loopheader, loopfooter,
\* generate_code).
CodeAsWritten == LoopsAsWritten /\ Assembles

\* The kernel that was asked for runs, every option and every parameter has
\* the argument written for it, and the workgroups are those written, in
\* their order (parseCliOptions, assignBaseCliOptions, assignTestCliOptions,
\* assignWorkgroupCliOptions).
RunAsGiven ==
  /\ CL!OwnArguments /\ CL!KernelAsGiven
  /\ CL!ParametersAsGiven /\ CL!WorkgroupsAsGiven
=============================================================================
