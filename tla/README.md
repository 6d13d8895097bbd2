# A verification development for likwid-bench

likwid-bench runs an assembly kernel on several hardware threads and reports
how fast it was. A kernel description is read, code is generated and compiled
for every thread, the threads are created and pinned, initialise their part of
the data, find out how often the kernel has to be repeated, run it, and the
main thread collects and prints what they measured.

This directory holds TLA+ models of the program, TLC configurations that check
them on small instances, and proofs of their main properties for all values of
the constants, checked by TLAPS. Paths below are relative to the repository;
`src/threads.c` is the program's source file of that name.

## Inventory

| part | state | operations | interacts with |
|---|---|---|---|
| main thread (`likwid-bench.c`) | position in `main`, the resources acquired so far | create, send INITIALIZE, RUN, EXIT, join, collect, release | everything |
| worker threads (`src/threads.c`) | per thread: command queue (`head`, `tail`), `done`, mutex, condition; per workgroup: a barrier | `create_threads`, `send_cmd`, `_func_t`, `join_threads`, `destroy_threads` | main by queues; each other by the barrier |
| benchmark loop (`src/bench.c`) | `iters`, `min_runtime`, `runtime`, affinity of each thread | `run_benchmark`: MEASURE, WARMUP, EXECUTE | barrier of the workgroup, timer, kernel |
| timer (`src/timer.c`) | static `freq`, shared by all threads | `_rd_freq`, `lb_timer_*` | benchmark loop |
| stream partition (`update_threads`, `src/allocator.c`) | per thread and stream: sizes, offsets, start | evaluate formulas, round, validate, initialise | results, calculator |
| workgroups and results (`src/workgroups.c`, `src/results.c`) | hwthread lists, streams, maps of values per thread, workgroup and program | resolve, allocate, update, aggregate, release | calculator, map, topology |
| calculator (`src/calculator.c`, `src/stack.c`) | token list, operator and output stacks | tokenise, convert, evaluate | results, stream partition |
| code generation (`src/ptt2asm.c`) | lists of code lines | expand nested keywords, replace names | kernel description |
| loading (`src/dynload.c`) | temporary files, handles | write, compile, open, close, remove | main, signal handler |
| topology (`src/topology.c`) | processor lists | read the machine, resolve CPU expressions | workgroups |
| containers (`src/map.c`, `src/bitmap.c`, `src/table.c`) | map with indices, bits, rows | add, get, update, delete | everywhere |
| command line, kernel file (`src/cli_parser.c`, `src/read_yaml_ptt.c`) | options, test description | parse, assign | main |

What makes each part correct, and what is hard about it:

* *Workers and benchmark loop.* Commands arrive complete and in order and are
  never slept on; all members of a workgroup go through the same barriers; the
  kernel runs on initialised data, on the announced hardware thread, at the
  same time as its partners', as often as theirs; the program ends. Hard:
  interleavings of main and workers, decisions each thread takes by its own
  clock, timed waits that run out, errors of one call among many, memory that
  main frees.
* *Timer.* No region is timed with an unknown frequency. Hard: the calibration
  races.
* *Stream partition.* Chunks lie inside their stream and cover it as the
  formulas say. Hard: rounding, several dimensions, validation per dimension.
* *Workgroups, loading, main's releases.* Whatever was acquired is released
  once, on every error path and on signals. Hard: one failure among many steps.
* *Results.* Every measurement is stored, aggregated and shown where it belongs,
  and a metric is of what the thread did. Hard: the same names with different
  values in three stores, replacement of names inside of longer names, lists
  that are matched by position.
* *Calculator, kernel file, code generation, CPU expressions.* Each computes what
  its notation says. Hard: precedence and associativity, nesting, names that are
  prefixes of others, loops that end at the wrong bound.
* *Containers.* A map is a dictionary with indices that stay. Hard: holes and
  tombstones after long sequences of calls.
* *Command line.* What runs is what was asked for. Hard: two passes over the
  arguments with different tables.

## Order of the modules, and what is next

1. `Bench`, `ThreadGroup`, `BulkSync`: the workers and the benchmark loop, with
   proofs.
2. `Lifecycle`: what main, the workgroups, `dynload.c` and the signal handler
   acquire and release, with an error at any step. It takes the threads between
   their creation and their end as one; `ThreadGroup` has that part step by step.
3. `StreamPartition`: arrays, the threads' parts and their validation.
4. `Results` with `Texts`: what is stored, replaced, aggregated and shown.
5. `Tokens`, `Calculator`: formulas.
6. `HwThreads`, `CpuList`, `CpuFlags`: the machine, CPU expressions, flags.
7. `GHash`, `Map`: the containers under the results.
8. `KernelFile`, `CodeGen`: the kernel file and the code made of it.
9. `CommandLine`: the options and main's decisions about them.

Proofs exist for steps 1 to 4, 6 and 7. Next would be what a metric is computed from
(`OneGroupMetrics`): the replacement of many names in one text, from three stores.

## Modules

* `Bench` models `run_benchmark` and the timer, thread by thread. `pc[t]` is
  where thread `t` stands between two synchronisation points; `blocked` are the
  threads inside `pthread_barrier_wait`; a step does the local work of its place
  and arrives at the next barrier. Local work touches no shared variable, so
  nothing can come between. The exception is the static `freq`: its test, its
  assignment at the end of the calibration and its read are three steps, so the
  race of several calibrations is in the model. Times are integers; a call of the
  kernel costs `TicksPerIter`, and each timed region is lengthened by up to
  `Jitter` ticks, chosen anew for every region and thread: this is the time a
  thread takes to come out of the barrier in front of `lb_timer_stop`. A
  calibration yields a member of `FreqSamples`.
* `ThreadGroup` extends it by `_func_t`, the queues, and main from
  `create_threads` to `main_out`. A step is what is done while the command mutex
  is held. `queue[t]` is the linked list, `signalled` the threads whose condition
  has been signalled while they waited, `initialised` the pairs of thread and
  stream whose chunk is written, `streams` and `alive` whether the arrays and the
  threads' structures (barriers among them) are still allocated. `arrivals` and
  `taken` are history variables for the properties. `Script` is what main sends;
  `likwid-bench.c` sends INITIALIZE, RUN, EXIT.
* `BulkSync` is the abstract promise: threads advance through the phases
  *created, data initialised, kernel calls made, time taken, gone*, and nobody
  advances while a member of his workgroup is behind. `ThreadGroup` implements it
  under `Phase`, `Bulk == INSTANCE BulkSync WITH phase <- ...`.
* `MCThreadGroup` gives TLC scripts and workgroups.
* `ThreadGroupProofs` holds the proofs about types, barriers and queues, those about
  main's loops, the kernel and what a report says of the workers, and what holds when
  clocks agree, with the refinement of `BulkSync`.

* `Lifecycle` models pointers instead of data: `mem.p` says of each one whether it is
  null, live, freed or wild (allocated with `malloc` and never set), and every free
  or use in the code is a `Free`, `FreeOnly` or `Follow`, which set `mem.bad` if the
  pointer must not be touched. An action is one call of main; it either succeeds or
  fails at one of the places named in `Faults`, with what that error path releases.
  `Fresh` is what `malloc` leaves in a member. `LifecycleProofs` has its proofs.
* `StreamPartition` counts arrays in elements and sizes in bytes, both modulo
  `Modulus`. Formulas are named by what they compute. `written` records each element
  a thread initialises. `MemoryProofs` has its proofs.
* `Texts` are sequences of words cut so that one name occurs in another where it does
  in the program (`N` in `NUM_THREADS`). `Results` has the stores of the program, of
  each workgroup and of each thread; a metric is kept as the text it becomes, which
  tells which values went into it. `ResultProofs` has the proofs, `FoldSteps` what a fold
  over a sequence computes (the loops of `update_results` are folds, and each instance of
  `FoldSteps` is for one of them), and `Recursion` the induction all of them rest on,
  `TopologyProofs` and `MapProofs` too.
* `Tokens` is the tokeniser, `Calculator` the shunting-yard loop over the stacks. A
  number is the term that computes it, so the value of a formula says how it was
  read; a divisor is compared with zero by what its term amounts to (`Amount`, exact
  fractions with infinities and NaN). Strings carry identities, so that a double free shows.
* `HwThreads` is the table of hardware threads read from sysfs with its counting
  sort; `CpuList` resolves the three notations on it, the loop of expressions step by
  step; `CpuFlags` reads the CPU folders into bitmaps and looks the flags up.
  `TopologyProofs` has the proofs about the order, the notations and the checks.
* `GHash` is the hash table as a record with one operator per function; `Map` the map
  over it, with `dict`, the dictionary the calls so far should have made. `MapProofs`
  has the proofs about both.
* `KernelFile` reads a file that was written from a tree of nodes; `CodeGen` expands
  the keywords of its code, assigns registers and writes the loops for x86-64.
* `CommandLine` goes over the arguments one by one, first with the options of the
  program and then with those of the kernel.
* `MCStreamPartition`, `MCResults`, `MCCalculator`, `MCMap`, `MCCpuList`,
  `MCCpuFlags`, `MCCodeGen`, `MCKernelFile` and `MCCommandLine` hold the instances of
  one component each. Four modules put components side by side, so that one run checks
  them: `MCMemory` (`Lifecycle`, `StreamPartition`), `MCReport` (`Results`,
  `Calculator`, `Map`), `MCTopology` (`CpuList`, `CpuFlags`), `MCInputs` (`CommandLine`,
  `KernelFile`, `CodeGen`). There a behaviour belongs to one component, which the
  variable `moves` names; the variables of the others stay at a first state. This is
  no composition: what one part hands to the next is chosen from a set of inputs that
  is the receiving part's own. `MemoryProofs` carries what `LifecycleProofs` proves over
  to the specification of `MCMemory`, under which the run `memory` checks it.

The modules for TLC alone use recursive operators where the code is recursive; those
with proofs do not reach any of them.

Definitions whose comment begins with *Mutant*, and those with the name of the
definition that follows them and an addition (`Jumps_Swapped`), are deliberate faults
(a missing signal, a barrier left out, a loop that runs too far). They are not used
by any specification. Put in place of the definition that follows them, each makes a
property of some run fail, which shows that the property is about the code.

## Runs

| run | module | instance | properties |
|---|---|---|---|
| `agree` | `MCThreadGroup` | one workgroup of two, goals of 7 and 12, jitter that never straddles a goal (elapsed times 4, 5, 8, 9, 16, 17) | `TypeOK`, `TimerCalibrated`, `NoLostWakeup`, `TimedTogether`, `ResultsMeasured`, `Termination`, `BulkSynchronous` |
| `commands` | `MCThreadGroup` | two workgroups of one, jitter across the goal, two possible frequencies; NOOP, two RUNs, an invalid command at the end | `CommandsInOrder`, `Termination` |
| `faults` | `MCThreadGroup` | workgroups of two and one; `pthread_create` and `send_cmd` fail anywhere, two timed waits run out | `CalledTogether`, `KernelReady`, `WorksPinned`, `FreedAfterExit`, `AllOrNoneRan`, `ReportsWholeScript` |
| `memory` | `MCMemory` | two workgroups of two threads, 23 kinds of failure, any of them at any place; one to four threads and arrays of up to nine elements and three dimensions | `MemorySafe`, `FilesRemoved`, `StartsOnlyComplete`, `InStream`, `Disjoint`, `SharedOut` |
| `report` | `MCReport` | up to three workgroups of three; 7202 formulas, all texts of four symbols out of eight and of five out of six; a map of four keys | `WholeIterations`, `OneGroupMetrics`, `EveryNumberInPlace`, `ComputesFormula`, `CalculatorSafe`, `SearchesEnd`, `IsDictionary`, `TableMatchesArray`, `IndexStable` |
| `topology` | `MCTopology` | two sockets of two cores of two threads; four processors | `SortedByTopology`, `SelectsPositions`, `GivesItsThreads`, `LoopEnds`, `MachineChecked` |
| `inputs` | `MCInputs` | two of 18 options around a test, a size and a workgroup; three of six sections and of five settings in any order; all codes of four lines out of eight | `RunAsGiven`, `FileAsWritten`, `AllExpanded`, `StreamRegisters`, `CodeAsWritten` |

### Workers and benchmark loop

Two threads in one workgroup are enough for disagreements between members; three
threads in two workgroups for mixing barriers and for main's loops; one stream, since
streams are only distinguished by their initialisation flag. `MIN_ITERATIONS = 1` and
`TicksPerIter = 4` make a region of *n* kernel calls last 4*n* time units at frequency
10; with a default runtime of 7 and a longer one of 12 the loop needs two and three
rounds, so doubling happens more than once. Iterations 0 (absent) and 3 (no power of
two) cover MEASURE and WARMUP.

In `faults` the clocks agree too (one frequency, and noise that never decides whether the
runtime of 7 is over); `CalledTogether` needs this, not the absence of timeouts.

`faults` does not check for deadlock: a workgroup that has lost one of its
members really stops. So does `disagree`. `Termination` is not claimed on the error
paths: `destroy_threads` there destroys barriers and conditions other threads wait
at, which may block or do anything.

Fairness (`FairSpec`): weak fairness of main's step and of every worker's step.
The threads are ordinary kernel threads; the system schedules each that can run.
No fairness is assumed of timeouts, spurious wake-ups or failures.

### Memory, files and parts of threads

Two workgroups of two threads: the second of each is what a loop that stops half-way
leaves behind. `fresh`, what `malloc` leaves in members nobody has set, is null or
wild. `MemorySafe` and `FilesRemoved` name the failures after which the code breaks
them; they are among the disagreements below, and `failed` remembers them.
`StartsOnlyComplete` has no exception.

Parts of threads: every kernel of the repository has its parts in the first dimension,
as most instances do (`RowKernels`); the offsets are those of `tests/test_allocator.c`.
`CutKernels` cut the second dimension too, or alone, each inside itself, where the
threads still have elements of their own. Kernels whose parts leave a dimension are not
among the instances: the validation looks at each dimension by itself and lets some of
them through, and neither the run nor a theorem says anything of these. `Modulus` is so
large that no size wraps. `SharedOut` says that less than a row per thread is left out
and that only what cannot fit is refused.

### Results, formulas and maps

The names are those of `kernels/x86_64/load.yaml` in the order of its hash map: some
occur in others, as `N` in `NUM_THREADS`. `OneGroupMetrics` says of one workgroup that
each metric is of what the thread did; with more workgroups it is not
(`totalthreads`). `EveryNumberInPlace` is about values, aggregates and rows.

Formulas have two levels and are written with all parentheses or with the necessary
ones, so that every pair of operators meets on either side. Short texts need not be
well-formed: errors leave the stacks fullest.

Three of the four keys start at the same one of four buckets, so tombstones fill the
table and resizes happen in both directions; every sequence of calls is explored.

### Machine

Hardware threads are numbered by core or by SMT level, one may be offline and one not
allowed. Bitmaps have three bits per element, so the last element is not full. The
loop of an expression is the only one that could fail to end, and `LoopEnds` assumes
that it goes on (`WF_vars(Loop)`), which is so in a sequential program.

### Kernels and command line

Codes of up to four lines over eight, well-formed or not, meet every pair of openings
and closings; three long ones are nested four deep. `STR1` and `STR10` are among the
streams, and all jumps that differ by their first character.

Runs of components that end (a program that stops, a text that has been read) do not
check for deadlock; `AllExpanded`, `LoopEnds` and `SearchesEnd` are bounds on the loops
that might not end.

### Where the program and its texts disagree

| run | property | what the run shows |
|---|---|---|
| `disagree` | `IterationsDetected` | README: "likwid-bench automatically detects the number of iterations (if not given) for the given or default runtime." Each thread leaves MEASURE by its own clock (`src/bench.c:53`). With elapsed times 4 and 5 against a goal of 5, one thread leaves a round before its partner. Barriers only count arrivals, so the extra round is paired with the barriers behind the loop, and the partner ends at a barrier for which nobody is left; main waits in `pthread_join` for ever. WARMUP (line 79) has the same structure. |
| `globalinit` | `GlobalInitComplete` | "global initializing array %s with total elements": the sizes and offsets used are those of global thread 0's chunk (`src/threads.c:302`); other chunks stay unwritten. |
| `unpinned` | `KernelPinned` | "Failed to set thread affinity": errors are positive, the caller tests `err < 0` (`src/threads.c:559`). |
| `interrupted` | `NotedFilesRemoved` | `global_runcfg` is assigned while `runcfg` is null (`likwid-bench.c:416`), so the signal handler never calls `_rm_tmpfiles`: in the trace an assembly file whose name is already on `mkstempfiles` has been written when the signal comes, and stays. |
| `totalthreads` | `MetricsOfOwnWork` | Metrics take `NUM_THREADS` from the global store, where it counts all workgroups. |

The violation of `disagree` does not depend on the numbers: it needs two elapsed
times on both sides of the goal in the same round. `agree` shows that it is the
only obstacle: with clocks that decide alike, everything holds.

More of the kind was met while the modules were written. The definitions do what the
code does; the property that would fail names the exception, or the instances leave
the input out, as given here.

| where | what the code does | treated as |
|---|---|---|
| `src/cli_parser.c:683` | Workgroups come from `malloc` with only their texts set; on an early error `free_runtime_config` tests members nobody has set. | exception of `MemorySafe` (`Unset`) |
| `src/threads.c:863` | `update_threads` fails half-way and calls `destroy_threads` for all threads, set up or not. | exception of `MemorySafe` (`threads`, `barrier`) |
| `src/workgroups.c:127` | The maps of the global results cannot be made: they are freed, the pointer is kept, used and freed again. | exception of `MemorySafe` (`globalmaps`) |
| `likwid-bench.c:730` | `create_threads` or `send_cmd` fails: what running threads use is destroyed without joining them. | exception of `MemorySafe` (`create`, `send`) |
| `src/dynload.c:186` | A temporary source that cannot be removed stays. | exception of `FilesRemoved` (`unlink`) |
| `src/threads.c:419` | `done` is set before the benchmark runs; nothing reads it. | no property about `done` |
| `src/threads.c:762` | Parts that share another dimension than the first overlap if they have several rows, since a part is written with its own row length. | kernels where they do are not in `MCKernels` |
| `src/threads.c:848` | The validation looks at one dimension at a time, so a part of whole rows that does not start at 0 ends outside. | not in `MCKernels`, nor in the hypothesis of `WritesInside` |
| `src/allocator.c:140` | A product of sizes may wrap. | `Modulus` large enough |
| `src/threads.c:675` | The initial value has the type of the first stream and is read in that of each. | streams of a kernel have one type |
| `src/results.c:918` | The size is rounded in the global store for each workgroup, and all use the last one. | `WholeIterations` is of groups as large as the last |
| `src/results.c:716` | `SIZEOF_INT` is replaced inside of `SIZEOF_INT64`. | not in the metrics |
| `src/ghash.c:330` | The key 0 of an integer map is a null pointer and cannot be removed. | `NullKeys` empty |
| `src/calculator.c` | A sign after an exponent always belongs to the number; unknown names are dropped; `1)(` is 1; functions that are no aggregates count the operands that wait as their own. | not in the formulas; unknown names and parentheses are among the texts for the stacks |
| `src/topology.c:1405` | With strides that leave the domain the loop lists thread 0 instead. | strides stay in the domain |
| `src/topology.c:283` | Siblings written as a range are not understood. | siblings are lists |
| `src/topology.c:1821`, `1759` | `-errno` is returned for errors that did not set it; all processors get the flags of the first. | conditions of `RunsOnlyWithFlags` |
| `src/ptt2asm.c:648` | Malformed keywords leave an empty kernel, which is run. | `CodeAsWritten` and `StreamRegisters` are of well-formed codes |
| `src/ptt2asm.c:538` | The loop over registers ends at a number that shrinks, so used ones may stay; for ARMv8 `x1` removes `x10`. | used registers are at the front, and only x86-64 |
| `src/ptt2asm.c:663` | A number other than 0 as the bound of a loop is left behind `#`, a comment for x86-64. | bounds are 0 or a name |
| `src/include/isa_x86-64.h:178` | `<=` and `>=` are taken for `<` and `>`. | not in `Dirs` |
| `src/cli_parser.c:346` | Parameters are matched by prefix; `-i` may be a symbol of a parameter and of the iterations; parameters are all required. | not among the lines; the parameter that has a symbol first gets it |
| `likwid-bench.c` | With `-f` and no `-t` the help is printed. | every line has a test |
| `src/read_yaml_ptt.c` | The section *Threads* is documented and not read. | not a section |

## Proofs

About `ThreadGroup`, for every number of threads, every assignment to workgroups,
set of streams, timing, number of timeouts and choice of failures, and every script
unless the table says otherwise:

| theorem | property | hypotheses |
|---|---|---|
| `TypeCorrect`, `CalibratedBeforeUse` | `TypeOK`, `TimerCalibrated` | |
| `CommandsArriveInOrder` | `CommandsInOrder` | |
| `FreesAfterExit` | `FreedAfterExit` | |
| `WakesForCommands` | `NoLostWakeup` | |
| `WorksOnItsHwthread` | `WorksPinned` | |
| `KernelFindsData` | `KernelReady` | an INITIALIZE before the first RUN |
| `ReportsAll` | `ReportsWholeScript` | `EndsLast`: no EXIT but the last command |
| `MeasuredAlike` | `AllOrNoneRan` | `CallTakesTime`: a call of the kernel lasts a nanosecond |
| `CalledInCompany`, `RegionShared` | `CalledTogether`, `TimedTogether` | `Undisturbed(f)`: clocks that agree on the goals |
| `MeasuredAsAsked` | `ResultsMeasured`, unless a wait has timed out | `Undisturbed(f)`, `EndsLast`, a RUN |
| `ImplementsBulkSync` | the safety part of `BulkSynchronous` | `Undisturbed(f)`, `MaxTimeouts = 0`, `RunScript` |

About `Lifecycle` as `MCMemory` runs it, for every number of workgroups, of threads in
each and of streams, and any set of failures; about `StreamPartition`, for every
set of kernels, extents, offsets and thread counts; about `CpuList`, for every
set of machines and of texts; about `CpuFlags`, for every set of hosts, every set of
flags and every width of a bitmap element; about `Results`, for every set of kernels and numbers of workgroups and threads and any
order of the maps; and about `Map`, for all keys, hash values, values and size limits:

| theorem | property | hypotheses |
|---|---|---|
| `LeavesNoFile` | `FilesRemoved` | `LifecycleConstants` |
| `LoadsBeforeStart` | `StartsOnlyComplete` | `LifecycleConstants` |
| `KeepsMemorySafe` | `MemorySafe` | `LifecycleConstants` |
| `SharesNothing` | `Disjoint` | `Listed`, each kernel `Shares` |
| `WritesInside` | `InStream` | `Listed`, threads, each stream `Confined` or `Boxed` |
| `LeavesLessThanRows` | `SharedOut` | `Listed`, each kernel `Dealt` |
| `NumbersInPlace` | `EveryNumberInPlace` | |
| `RoundsToIterations` | `WholeIterations` | |
| `OrdersByTopology` | `SortedByTopology` | each machine `Sysfs` |
| `GivesThreadsAsked` | `GivesItsThreads` | each machine `Ordinary`, each text `Written` |
| `SelectsAsNamed` | `SelectsPositions` | the same |
| `ChecksBeforeRun` | `MachineChecked` | each host `Plain` |
| `ProbesReachAll` | `SearchesEnd` | `MapConstants` |
| `KeepsDictionary` | `IsDictionary` | `MapConstants` |
| `TableFollowsArray` | `TableMatchesArray` | `MapConstants` |
| `EntriesStayPut` | `IndexStable` | `MapConstants` |

### Assumptions

`BenchAssumption` and `ThreadGroupAssumption` are the types of the constants, at least
one thread, positive costs and frequencies, a script that is not empty; TLC evaluates
them in every run that uses the modules. The hypotheses of single theorems:

* `EndsLast` and `RunScript`: `likwid-bench.c` sends INITIALIZE, RUN and EXIT
  (`RunScript`, which implies the other and the hypothesis of `KernelFindsData`).
* `CallTakesTime`: a time of 0 is what the code takes for *not measured*, and a region
  shorter than a nanosecond would have it.
* `Undisturbed(f)`: the calibrations agree on the frequency `f`, and for no iteration
  count the loop can reach (`Doublings`, the powers of two times `MIN_ITERATIONS`) does
  the noise decide whether a requested runtime is over. The code does not ensure it;
  this is an idealisation of the clocks, and without it the theorems are false: the run
  `disagree` shows the workgroup that hangs. Times are not bounded by it otherwise; an
  instance that meets it is `agree`.
* `MaxTimeouts = 0`: no timed wait of a worker runs out. With one, main may report what
  a thread has not done; the other theorems do not need this.
* `LifecycleConstants`: workgroups, threads and streams are numbered from 1, as the
  loops of the code count them. What `malloc` leaves is null or a pointer to nothing.
* `Listed`: a kernel has a list of streams. `Shares`: with more than one thread, the
  first dimension of a stream is cut into `N / NUM_THREADS` shares that start one
  after the other, as the kernels of the repository write it, or all one share later; any
  other formula may let threads write the same elements, and is the author's decision.
* `Confined`: an offset for each dimension; for arrays of more than one dimension, the
  first cut into shares or taken whole (the validation looks at one extent at a time
  and lets other parts through); and a size in bytes that is less than
  `Modulus`, because `allocate_arrays` does not notice a product that wraps.
* `Dealt`: at least one stream, each `Confined` and with an element in every further
  dimension; and shares that start one after the other, or one thread that has the
  streams whole. A kernel that asks for less, a part of a stream for one thread, leaves
  more than a row, as its author wants it.
* `Sysfs`: there are folders for finitely many hardware threads, and numbers in their
  files. Nothing is assumed of the numbers: ids may have gaps, cores, dies and sockets
  may be numbered in any way, and caches may be missing.
* `Ordinary`: what `Sysfs` says, ids without gaps, one NUMA node for each thread, and
  siblings listed by single ids in ascending order. `hwthread_smt_id` compares only
  single ids, so where sysfs writes `0-1` a logical list of all threads is empty; an
  id without a folder has an entry of zeros in the table and is listed with domain N,
  though there is no such thread. Threads may be offline
  or outside of the affinity mask, and numbered in any way.
* `Written`: the entries of a list are numbers or ranges, and a chunk and a stride, if
  there are any, are not negative and of domain N. In a smaller domain the loop of an
  expression goes on behind the domain's threads and lists hardware thread 0.
* `Plain`: at least one processor is online, the entries of the folders are numbers or
  ranges, and `present`, if it can be read, names every thread that has a folder, which
  is what the kernel means by it. Processors may be missing from `/proc/cpuinfo`, folders
  unreadable, and ids beyond the last processor; then the program stops.
* `BitsAssumption` and `ErrnoAssumption` of `CpuFlags`: an element of a bitmap has at
  least a bit, and errno is a natural number.
* Assumptions of `Results`, which TLC evaluates in the run `report`. `AlphabetAssumption`:
  sorted, the stats are cycles, freq, time. `BenchmarksAssumption`: a workgroup has a
  thread, as `allocate_workgroup_stuff` makes sure; types of streams have a size; metrics have
  names other than those of the stats, which `add_value` would not store.
  `NumbersAssumption`: numbers are written in different ways. `NamesAssumption`: no name
  occurs in a number, and none other in the name of a dimension. The dimensions of the
  kernels of the repository are parameters such as N; if one were named UM of
  NUM_THREADS, or N were a part of its name, another value would be put into it first.
* `MapConstants`: hash values are natural numbers, `NULL` is not a key, a value or an
  index; there are fewer than 2^30 keys, since `prime_mod` ends with the table of 2^31
  buckets; and no key is a null pointer. A map of integers with the key 0 is thus not
  covered, and for a reason: `g_hash_table_remove` ignores it, and the table keeps an
  entry that the array has lost.

The instances of the runs meet the hypotheses of the theorems whose properties they
check (the theorems on parts that no two threads share or that leave little are about
the kernels of rows; for `StreamPartition`, `CpuList` and `CpuFlags` TLC evaluates them, as
`KernelsDealt` of `MCStreamPartition`, `MachinesAndTexts` of `MCCpuList` and `PlainHosts`
of `MCCpuFlags`), and TLC has checked the strengthened invariants below before they were
proved.

### Arguments

* *Types* (`ThreadGroupProofs`). `TypeInv` joins `TypeOK` and
  `TimerCalibrated`, since `Elapsed` is a natural number only for a frequency that
  is not 0. The frequency a thread reads is not 0 because a thread reads it only
  after it has seen it set or has set it itself, and it never becomes 0 again.
* *Barriers.* `BarrierLockstep` is what `pthread_barrier_wait` gives to any callers,
  and says nothing about these: all members of a workgroup have passed the same number
  of barriers. It is where the arguments about them start. That equal numbers of barriers
  mean equal places is another matter, and wrong when clocks disagree (`disagree`).
* *Commands.* `QueueInv` states that a thread has received what main has sent to
  it, counted at both ends, and that its queue is the part of the script behind
  what it has taken.
* *Main* (`ThreadGroupProofs`). `MainInv` says how far each of main's loops has got: which
  threads exist, which have exited. `PinInv` says that no thread has anything to do
  before all are pinned, and that `run_benchmark` restores what it finds.
* *Kernel* (`ThreadGroupProofs`). `KernelInv` counts barriers entered against commands
  taken. A thread that has not executed INITIALIZE at place *i* has entered at most
  *i* + 1 barriers (one per command before it, two in `exit_thread`); a thread that
  calls the kernel is beyond place *i*, has passed a barrier for each command
  before it and two in `run_benchmark`, and so at least *i* + 3. With lockstep, both
  cannot be members of one workgroup.
* *Reports* (`ThreadGroupProofs`). `LeaveInv`: without a timeout a thread leaves only when
  it has taken all commands, since the only way out of its loop is then an EXIT. `RunInv`
  counts barriers once more: a thread that has exited has entered at least three more
  than it has taken commands if RUN was among them, and at most two more if not. The one
  that has not run has also taken fewer commands. Lockstep gives both equally many
  barriers once main has joined them, so they cannot be of one workgroup (`ExitedAlike`).
* *Measuring* (`ThreadGroupProofs`). `MeasureInv` says how far the measurement of a thread
  has got: a round begins with the smallest number or with twice one that was too
  short, and what is stored has lasted for its kernel calls.
* *Company* (`ThreadGroupProofs`).
  `HistoryInv` keeps the members of a workgroup at the same place in the same round:
  from `Signature`, where a thread stands between two barriers, `Following` computes
  where it stands after the next one; so threads that have come equally far have equal
  signatures. This is where the clocks must agree: `Following` decides by the clock
  whether a round was the last. A thread whose wait has timed out enters two more
  barriers, in `exit_thread`, which its partners take for those of their commands.
  `Way` leaves these out and such a thread keeps its signature, so its partners are up
  to three barriers ahead of it and the invariant is about the signatures 0 to 3 barriers
  later (`Later`). A thread that calls the kernel is not held up, so its partners are at
  most one barrier ahead, and two behind only if they have timed out (`WayBound`). But
  two barriers after the end of a command nobody calls the kernel (`IdleApart`): RUN
  needs three. A partner one barrier ahead is still waiting, and so not
  yet in the next round (`WaitInv`); hence `CalledTogether`.
* *Refinement* (`ThreadGroupProofs`). The place of a thread tells how many of the three
  commands it has taken (`TakenOf`), and with it its `Phase`. A step that raises the
  phase of its thread starts behind a barrier of the workgroup, where the signatures of
  the others are its own or the following one; none of these has a lower phase
  (`PhaseCompany`). Every other step leaves all phases alone (`PhaseStep`, `BulkStep`).
* *Files and loading* (`LifecycleProofs`). `FilesInv`: a file is on the list of those to
  be removed, or it is the temporary one that main is about to remove or could not.
  `LoadInv`: what the loop over the threads of all workgroups has passed is loaded.
* *Ownership* (`LifecycleProofs`). `UseInv` says for each stage of main what is
  allocated: the arrays of the workgroups before the loop variable (`Streaming`), then
  all that threads work on (`Ready`), which stays so until the last one has been joined.
  `SafeInv` adds that nothing has been freed twice or followed wrongly unless one of the
  failures named in `MemorySafe` has happened; for this, what main has not freed yet is
  null or live (`Clean`), and of a workgroup that is resolved, live (`Settled`).
* *Parts* (`MemoryProofs`). Shares are floors of multiples of one quotient, so
  those of two threads are apart if they start one after the other (`StartsApart`).
  An element is in one row (`OneRow`), and rows are what the first dimension cuts, so
  threads with different rows write different elements. `WritesInside`: sizes are
  products modulo `Modulus`; below it they are the exact ones (`Exact`). A share of rows
  that the validation lets begin in the array also ends in it (`RowsEnd`), and behind the
  extents there is room for the offsets (`Room`). If any dimensions are cut, each inside
  itself (`Boxed`), the strides of a part are not more than those of the array, so an
  element comes out before the end of the box (`Cell`, `InBox`). The hypothesis cannot be
  dropped: a part of several dimensions that leaves one of them may pass the validation
  and end outside the array, and the theorem does not claim otherwise.
  `LeavesLessThanRows`: a thread writes
  all of its rows (`RowsOf`), and they end where those of the next one begin, or before
  (`Deals`); so *n* threads with *h* rows of *T* elements write exactly *n* *h* *T*
  elements (`Covered`, by a bijection). `LeftInv` says that what a thread is through with
  has been written, and that a refusal has an array or a part behind it that is not valid;
  such a part ends outside of its array or is empty (`Unfit`).
* *Order* (`TopologyProofs`). The place of a thread counts those that come before it,
  so places grow with the order (`PlaceGrows`), and as many threads on as many places
  fill each exactly once: one level is a stable permutation (`SortLevel`). After the
  levels of keys *m* to 9 the list is ordered lexicographically by these (`OrderedFrom`),
  since a level leaves threads with equal keys as the levels before have left them
  (`NextLevel`). The least significant key, the id, differs for any two threads.
* *Notations* (`TopologyProofs`). What a filter keeps of a list is in its order and as
  long as the set of places kept (`Picked`), and a concatenation has one place for each
  pair of a list and a place in it (`Flattened`), so a domain's list has each of
  its threads once (`DomainList`), and so has the one made SMT level by SMT level,
  in the order of these levels (`AllListBySmt`). On an `Ordinary` machine the level is
  the number of threads of the core with a smaller id. `CallInv` says during a loop
  that list and what is left of it add up to the length (`LengthOfLoop`) and that all
  listed are of the domain, and after a call both properties. Every place the loop
  can take holds a thread of the domain (`InLoop`); this needs the limits of `Written`:
  beyond them the code does leave the list.
* *Checks* (`TopologyProofs`). A bit that `set_bit` accepts is in an element that exists
  (`BitSet`), so after a file is read the bitmap has the ids of the file (`BitsSet`).
  `MachineInv` keeps this for all folders read so far and adds that, once all
  are read, no thread with a folder is beyond the last processor: "present" names them
  all, and `set_bit` refuses one beyond (`FolderStep`). Thus the later lookups in
  `cpu_info` stay in it.
* *Loops* (`FoldSteps`). The library's folds are recursive functions over sets of
  positions. By induction such a function exists (`FoldExists`), and along the positions
  it has a state for each step (`StepByStep`); so what a step keeps holds of the
  result (`Kept`). `ResultProofs` instantiates this with the step of each loop.
* *Numbers* (`ResultProofs`). `StoresRight` says for each place of main what the stores
  hold: which names they have, that a thread which has been updated has its measurements
  under the names of the stats, which `update_results` matches by position (`ThreadUpdate`),
  that the lists have the texts of all threads of the groups done, one after the other, and
  that the aggregates are over these. A group's lists are those of its own members, since
  the keys are the values of the first thread and all threads have the same
  (`Keys`). In the end every row has the cells of its columns, so `table_addrow`
  refuses none, and the number of a row is the thread's place (`Total`).
* *Rounding* (`ResultProofs`). What `RoundDimension` stores is a multiple of the bytes of
  an iteration of all threads (`IsWhole`), or it gives up: the bit
  operations round only for a power of two, and division rounds for every other number. Each workgroup replaces the size in the global
  store, and the last one stays. From there `manage_streams` takes it by replacing
  names in the name of the dimension; where no other name occurs in it, this
  gives its size and nothing else (`DimensionReplaced`), which stays until the
  streams of all workgroups have it (`SizesRight`).
* *Probing* (`MapProofs`). After *i* steps a search is *i* (*i* + 1) / 2 buckets further.
  If two numbers of steps *i* < *j* < *N* led to the same bucket of *N*, a power of two,
  2 *N* would divide (*j* - *i*) (*j* + *i* + 1); one factor is odd, and the other is less
  than 2 *N* (`Steps`). So the first *N* steps visit *N* buckets (`StepsVisitAll`).
* *Tables* (`MapProofs`). `Table` joins what a hash table needs to be one: each key once
  (`Distinct`), no unused bucket on the way to it (`Reachable`), both counters right, and
  a bucket unused. An insertion at the first tombstone or unused bucket keeps it (`Put`),
  a removal too, because it leaves a tombstone (`Remove`), and resizing moves all entries
  and nothing else, bucket by bucket (`CarryOne`); the new size exceeds twice the
  number of entries (`ClosestShift`).
* *Maps* (`MapProofs`). `Agree` says that the entries of the table are those of the array,
  under their indices, and that the dictionary is what the array holds. The entry that an
  addition takes is a hole, because the count of the entries differs from the length of
  the array (`Holes`) or the array has just been made longer.

### Only model-checked

Liveness (`BulkSynchronous` as far as it says that phases are reached, `LoopEnds`,
`Termination`) is out of the prover's reach. So is what recursive operators compute:
`ComputesFormula` and `CalculatorSafe` of `Calculator`, `FileAsWritten` of `KernelFile`,
`AllExpanded`, `StreamRegisters` and `CodeAsWritten` of `CodeGen`, whose modules read
texts, formulas and keywords recursively. `RunAsGiven` of `CommandLine` says what a
selection from a sequence (`SelectSeq`) contains, for which the provers have no
definition. `OneGroupMetrics` would take the replacement of many names in one text from
three stores, each of which must leave the others' names alone; for the name of a
dimension this is proved (`RoundsToIterations`), for formulas it is checked. The error paths of
`Lifecycle` that the code gets wrong are excluded by name in the properties, and the
runs that expect a violation show them.

## What the models leave out

* The contents of streams, the arguments and the code of the kernel, and all
  printing. Counter values are not read, only differences are modelled; the
  counters are taken to be monotonic on a pinned thread.
* The build with `LIKWID_PERFMON`; `TIMER_CLOCK_GETTIME`, which `run_benchmark` does
  not use; the branch of `_set_t_aff` for systems without
  `pthread_setaffinity_np` (it appears as the mutant `SetAffinityOfCaller`, because
  it pins main instead of the new thread).
* Failures of mutex and condition calls, of `join_threads` and `update_results`.
* After `destroy_threads` on an error path the workers take no further step in
  `ThreadGroup`, because a thread that uses what was freed may do anything.
* `Lifecycle`: `init_result` failing for the results of a single thread; positive errors
  of the mutexes in `update_threads`, with which main goes on (only that of the barrier
  is there). What is freed with a container is one pointer with it.
* `StreamPartition`: the truncation of indices to `int`. That a product of doubles may
  come out just below an integer is in the model, where an offset is one smaller.
* `Results`: the order of the hash maps is a constant; the one used is that of
  `kernels/x86_64/load.yaml`, and all that matters in it is that `N` comes before
  `SIZEOF_SINGLE` and `SIZEOF_INT` before `SIZEOF_INT64`. What an uninitialised size holds
  is any of `Wild`. The format of numbers, `print_result` and `replace_in_var`, which
  nobody calls, are left out.
* `Calculator`: what a formula amounts to is computed only for a divisor, and there only
  for whole numerals, the operators and `sum`, with whole exponents; TLC would stop at a
  divisor with another function. The rounding of intermediate results to 15 decimals
  (`num2Str`, `likwid-bench.c:443`) and the sign of zero are left out, so a divisor that
  is zero only after rounding counts as nonzero; the commands and the interactive mode, which the build does not use.
* `CpuList`: positions of a logical list beyond its domain read what lies behind the list;
  nothing says what they mean, so no property is about them. A chunk of 0 loops for
  ever, and is not among the texts. Ids that have no folder below the highest one are
  listed as threads. `CpuFlags`: with the highest processor offline, or more possible
  than present ones, the program refuses to run. The printing of domains is left out.
* `CodeGen`: instruction sets other than x86-64; messages; an operator of a loop that is none, with which the jump is uninitialised.
* `CommandLine`: the printing of help and kernels (`-a` looks into the built-in folder
  only); sticky options, which no table has. Texts behind the workgroup that belong to
  main's options become part of the workgroup's text; `sscanf` mostly ignores them.
* `KernelFile`: lines with neither dash nor colon, whose key stays unset; the language
  and description; the conversion of numbers; `close_yaml_ptt`.
* Not modelled: tables, CSV and JSON, which are layout; the assembly of the kernels,
  which is data; the vendored bstrlib beyond the operations used; the build with
  LIKWID, an external library.
