---------------------------- MODULE ThreadGroup ----------------------------
(***************************************************************************)
(* The main thread of likwid-bench.c and the worker threads of             *)
(* src/threads.c.  main creates the workers, sends every worker the same   *)
(* sequence of commands through a queue per worker, joins them, collects   *)
(* the results and releases what the workers used.  A worker takes one     *)
(* command after the other, executes it (RUN is run_benchmark of module    *)
(* Bench), sets `done' and waits at the barrier of its workgroup.          *)
(*                                                                         *)
(* Everything done while a worker's command mutex is held is one step.     *)
(* The streams' contents are abstracted to which thread's chunk of which   *)
(* stream has been written.  Freed memory: once destroy_threads has run    *)
(* the workers take no step, because nothing can be said about a thread    *)
(* that goes on using what was freed.                                      *)
(***************************************************************************)
EXTENDS Bench, Sequences

CONSTANTS
  Script,         \* the commands main sends, each to all threads in turn
  Streams,        \* streams of the test
  PerThread,      \* the streams whose initialization flag is set
  MaxTimeouts,    \* how many of the workers' timed waits may run out
  CreateMayFail,  \* may pthread_create fail?
  SendMayFail     \* may the malloc of send_cmd fail?

Commands == {"EXIT", "NOOP", "INITIALIZE", "RUN", "VERIFY"}

ASSUME ThreadGroupAssumption ==
  /\ Script \in Seq(Commands)
  /\ Len(Script) > 0
  /\ PerThread \subseteq Streams
  /\ MaxTimeouts \in Nat
  /\ CreateMayFail \in BOOLEAN
  /\ SendMayFail \in BOOLEAN

VARIABLES
  mpc,          \* where main is
  mt,           \* main's loop variable: the thread it deals with
  mk,           \* main's position in Script
  queue,        \* command->head .. command->tail of each thread
  done,         \* command->done
  signalled,    \* threads with a cond signal that they have not consumed
  taken,        \* history: commands each thread has dequeued
  func,         \* threads whose command->cmdfunc.run is set
  initialised,  \* written chunks: pairs <<thread, stream>>
  results,      \* what update_results stored for each thread
  streams,      \* are the arrays allocated?
  alive,        \* are the barriers and the threads' structures allocated?
  aborted,      \* did main leave through an error path?
  timeouts      \* timed waits that have run out

mainVars  == <<mpc, mt, mk, results, streams, alive, aborted>>
cmdVars   == <<queue, done, signalled, taken, func>>
groupVars == <<mainVars, cmdVars, initialised, timeouts>>
vars      == <<benchVars, groupVars>>

\* the benchmark state a step of _func_t or main leaves alone
innerVars == <<runcfg, cpuset, timerVars, dataVars>>

WorkerLabels ==
  BenchLabels \cup {"none", "fetch", "waiting", "init", "run", "complete",
                    "exit", "exitdone", "exited"}

MainLabels ==
  {"create", "affinity", "send", "join", "results", "release", "destroy",
   "abort", "out", "end"}

NoResult == [iters |-> 0, runtime |-> NoRuntime]

-----------------------------------------------------------------------------
(* The worker: _func_t.                                                    *)

\* Mutant: EXIT is completed like any other command.
EntryNoExit(cmd) ==
  CASE cmd = "INITIALIZE" -> "init"
    [] cmd = "RUN"        -> "run"
    [] OTHER              -> "complete"

\* where the switch of _func_t sends a thread that has taken cmd
Entry(cmd) ==
  CASE cmd = "INITIALIZE" -> "init"
    [] cmd = "NOOP"       -> "complete"
    [] cmd = "RUN"        -> "run"
    [] OTHER              -> "exit"

\* The queue is not empty: take its head and dispatch.
Fetch(t) ==
  /\ At(t, "fetch")
  /\ queue[t] # <<>>
  /\ queue' = [queue EXCEPT ![t] = Tail(@)]
  /\ taken' = [taken EXCEPT ![t] = @ + 1]
  /\ Continue(t, Entry(Head(queue[t])))
  /\ UNCHANGED <<innerVars, affinity, mainVars, done, signalled, func,
                 initialised, timeouts>>

\* The queue is empty: enter pthread_cond_timedwait.
Wait(t) ==
  /\ At(t, "fetch")
  /\ queue[t] = <<>>
  /\ Continue(t, "waiting")
  /\ UNCHANGED <<innerVars, affinity, mainVars, cmdVars, initialised,
                 timeouts>>

\* pthread_cond_timedwait returns 0; the loop looks at the queue again.
Wake(t) ==
  /\ At(t, "waiting")
  /\ t \in signalled
  /\ signalled' = signalled \ {t}
  /\ Continue(t, "fetch")
  /\ UNCHANGED <<innerVars, affinity, mainVars, queue, done, taken, func,
                 initialised, timeouts>>

\* The same without a signal, as POSIX allows.
SpuriousWake(t) ==
  /\ At(t, "waiting")
  /\ t \notin signalled
  /\ Continue(t, "fetch")
  /\ UNCHANGED <<innerVars, affinity, mainVars, cmdVars, initialised,
                 timeouts>>

\* TIMEOUT_SECONDS without a signal: to exit_thread, whatever the queue
\* holds by the time the mutex has been taken again.
Timeout(t) ==
  /\ At(t, "waiting")
  /\ t \notin signalled
  /\ timeouts < MaxTimeouts
  /\ timeouts' = timeouts + 1
  /\ Continue(t, "exit")
  /\ UNCHANGED <<innerVars, affinity, mainVars, cmdVars, initialised>>

\* initialize_local: the thread's chunk of every stream of its own kind
initialize_local(t) == {<<t, s>> : s \in PerThread}

\* initialize_global: the sizes and offsets it takes for the others are those
\* of the calling thread, so it writes that thread's chunk.
initialize_global(t) == {<<t, s>> : s \in Streams \ PerThread}

\* Mutant: only global thread 0 initialises.
InitializeGlobally(t) ==
  /\ At(t, "init")
  /\ initialised' = initialised \cup
       (IF t = 0 THEN initialize_local(t) \cup initialize_global(t) ELSE {})
  /\ Continue(t, "complete")
  /\ UNCHANGED <<innerVars, affinity, mainVars, cmdVars, timeouts>>

\* INITIALIZE: per-thread streams locally, the others by global thread 0
Initialize(t) ==
  /\ At(t, "init")
  /\ initialised' = initialised \cup initialize_local(t) \cup
       (IF t = 0 THEN initialize_global(t) ELSE {})
  /\ Continue(t, "complete")
  /\ UNCHANGED <<innerVars, affinity, mainVars, cmdVars, timeouts>>

\* RUN reports completion before it calls run_benchmark.
StartRun(t) ==
  /\ At(t, "run")
  /\ done' = [done EXCEPT ![t] = 1]
  /\ Continue(t, "bench")
  /\ UNCHANGED <<innerVars, affinity, mainVars, queue, signalled, taken,
                 func, initialised, timeouts>>

\* done = 1 and the barrier at the end of the command loop
Complete(t) ==
  /\ At(t, "complete")
  /\ done' = [done EXCEPT ![t] = 1]
  /\ Arrive(t, "fetch")
  /\ UNCHANGED <<innerVars, affinity, mainVars, queue, signalled, taken,
                 func, initialised, timeouts>>

\* exit_thread: barrier, done = 1, barrier, pthread_exit
ExitBarrier(t) ==
  /\ At(t, "exit")
  /\ Arrive(t, "exitdone")
  /\ UNCHANGED <<innerVars, affinity, mainVars, cmdVars, initialised,
                 timeouts>>

ExitDone(t) ==
  /\ At(t, "exitdone")
  /\ done' = [done EXCEPT ![t] = 1]
  /\ Arrive(t, "exited")
  /\ UNCHANGED <<innerVars, affinity, mainVars, queue, signalled, taken,
                 func, initialised, timeouts>>

\* what a created thread does by itself
WorkerStep(t) ==
  /\ alive
  /\ \/ Fetch(t) \/ Wait(t) \/ Wake(t)
     \/ Initialize(t) \/ StartRun(t) \/ Complete(t)
     \/ ExitBarrier(t) \/ ExitDone(t)
     \/ run_benchmark(t) /\ UNCHANGED groupVars

\* what its environment may do to it
WorkerDisturbance(t) ==
  /\ alive
  /\ SpuriousWake(t) \/ Timeout(t)

-----------------------------------------------------------------------------
(* The main thread.                                                        *)

MainAt(label) == mpc = label

\* Mutant: the loop runs one thread too far.
NextThreadPastEnd(again, after) ==
  IF mt < NumThreads
  THEN mt' = mt + 1 /\ mpc' = again
  ELSE mt' = 0 /\ mpc' = after

\* end of the body of a loop over all threads: next thread, or go on
NextThread(again, after) ==
  IF mt < NumThreads - 1
  THEN mt' = mt + 1 /\ mpc' = again
  ELSE mt' = 0 /\ mpc' = after

\* create_threads: pthread_create ...
CreateThread ==
  /\ MainAt("create")
  /\ Continue(mt, "fetch")
  /\ mpc' = "affinity"
  /\ UNCHANGED <<innerVars, affinity, mt, mk, results, streams, alive,
                 aborted, cmdVars, initialised, timeouts>>

CreateFails ==
  /\ MainAt("create")
  /\ CreateMayFail
  /\ mpc' = "abort"
  /\ aborted' = TRUE
  /\ UNCHANGED <<benchVars, mt, mk, results, streams, alive, cmdVars,
                 initialised, timeouts>>

\* Mutant: the affinity of the caller is set, not that of the new thread.
SetAffinityOfCaller ==
  /\ MainAt("affinity")
  /\ NextThread("create", "send")
  /\ UNCHANGED <<benchVars, mk, results, streams,
                 alive, aborted, cmdVars, initialised, timeouts>>

\* ... and _set_t_aff.  A failure is a positive error number, which the
\* caller's err < 0 does not see.
SetAffinity ==
  /\ MainAt("affinity")
  /\ affinity' = [affinity EXCEPT
                    ![mt] = IF mt \in Pinnable THEN "pinned" ELSE @]
  /\ NextThread("create", "send")
  /\ UNCHANGED <<innerVars, pc, blocked, arrivals, mk, results, streams,
                 alive, aborted, cmdVars, initialised, timeouts>>

\* Mutant: the command is queued without a signal.
SendCmdNoSignal ==
  /\ MainAt("send")
  /\ func' = IF Script[mk] = "RUN" THEN func \cup {mt} ELSE func
  /\ queue' = [queue EXCEPT ![mt] = Append(@, Script[mk])]
  /\ done' = [done EXCEPT ![mt] = 0]
  /\ NextThread("send", IF mk < Len(Script) THEN "send" ELSE "join")
  /\ mk' = IF mt = NumThreads - 1 THEN mk + 1 ELSE mk
  /\ UNCHANGED <<benchVars, results, streams, alive, aborted, signalled,
                 taken, initialised, timeouts>>

\* Mutant: the command is put in front of the others.
SendCmdFirst ==
  /\ MainAt("send")
  /\ func' = IF Script[mk] = "RUN" THEN func \cup {mt} ELSE func
  /\ queue' = [queue EXCEPT ![mt] = <<Script[mk]>> \o @]
  /\ done' = [done EXCEPT ![mt] = 0]
  /\ signalled' = IF pc[mt] = "waiting" THEN signalled \cup {mt}
                                        ELSE signalled
  /\ NextThread("send", IF mk < Len(Script) THEN "send" ELSE "join")
  /\ mk' = IF mt = NumThreads - 1 THEN mk + 1 ELSE mk
  /\ UNCHANGED <<benchVars, results, streams, alive, aborted, taken,
                 initialised, timeouts>>

\* send_cmd: append, done = 0, signal.  The kernel is set before RUN is sent.
SendCmd ==
  /\ MainAt("send")
  /\ func' = IF Script[mk] = "RUN" THEN func \cup {mt} ELSE func
  /\ queue' = [queue EXCEPT ![mt] = Append(@, Script[mk])]
  /\ done' = [done EXCEPT ![mt] = 0]
  /\ signalled' = IF pc[mt] = "waiting" THEN signalled \cup {mt}
                                        ELSE signalled
  /\ NextThread("send", IF mk < Len(Script) THEN "send" ELSE "join")
  /\ mk' = IF mt = NumThreads - 1 THEN mk + 1 ELSE mk
  /\ UNCHANGED <<benchVars, results, streams, alive, aborted, taken,
                 initialised, timeouts>>

\* Mutant: the error path goes on to the results.
SendFailsReported ==
  /\ MainAt("send")
  /\ SendMayFail
  /\ func' = IF Script[mk] = "RUN" THEN func \cup {mt} ELSE func
  /\ mpc' = "results"
  /\ UNCHANGED <<benchVars, mt, mk, results, streams, alive, aborted, queue, done,
                 signalled, taken, initialised, timeouts>>

SendFails ==
  /\ MainAt("send")
  /\ SendMayFail
  /\ func' = IF Script[mk] = "RUN" THEN func \cup {mt} ELSE func
  /\ mpc' = "abort"
  /\ aborted' = TRUE
  /\ UNCHANGED <<benchVars, mt, mk, results, streams, alive, queue, done,
                 signalled, taken, initialised, timeouts>>

\* Mutant: main waits for the first thread only.
JoinFirst ==
  /\ MainAt("join")
  /\ At(mt, "exited")
  /\ mpc' = "results"
  /\ UNCHANGED <<benchVars, mt, mk, results, streams, alive, aborted, cmdVars,
                 initialised, timeouts>>

\* join_threads
Join ==
  /\ MainAt("join")
  /\ At(mt, "exited")
  /\ NextThread("join", "results")
  /\ UNCHANGED <<benchVars, mk, results, streams, alive, aborted, cmdVars,
                 initialised, timeouts>>

\* update_results reads iters and runtime of every thread.
UpdateResults ==
  /\ MainAt("results")
  /\ results' = [t \in Threads |->
                   [iters |-> iters[t], runtime |-> runtime[t]]]
  /\ mpc' = "release"
  /\ UNCHANGED <<benchVars, mt, mk, streams, alive, aborted, cmdVars,
                 initialised, timeouts>>

ReleaseStreams ==
  /\ MainAt("release")
  /\ streams' = FALSE
  /\ mpc' = "destroy"
  /\ UNCHANGED <<benchVars, mt, mk, results, alive, aborted, cmdVars,
                 initialised, timeouts>>

\* destroy_threads, at the end and on the error paths
DestroyThreads ==
  /\ MainAt("destroy") \/ MainAt("abort")
  /\ alive' = FALSE
  /\ mpc' = "out"
  /\ UNCHANGED <<benchVars, mt, mk, results, streams, aborted, cmdVars,
                 initialised, timeouts>>

\* main_out: free_runtime_config also releases the arrays if they are there.
MainOut ==
  /\ MainAt("out")
  /\ streams' = FALSE
  /\ mpc' = "end"
  /\ UNCHANGED <<benchVars, mt, mk, results, alive, aborted, cmdVars,
                 initialised, timeouts>>

MainStep ==
  \/ CreateThread \/ SetAffinity \/ SendCmd \/ Join
  \/ UpdateResults \/ ReleaseStreams \/ DestroyThreads \/ MainOut

MainFailure == CreateFails \/ SendFails

\* The process is gone.
Ended == mpc = "end" /\ UNCHANGED vars

-----------------------------------------------------------------------------

Init ==
  /\ BenchInit
  /\ pc = [t \in Threads |-> "none"]
  /\ mpc = "create"
  /\ mt = 0
  /\ mk = 1
  /\ queue = [t \in Threads |-> <<>>]
  /\ done = [t \in Threads |-> 1]
  /\ signalled = {}
  /\ taken = [t \in Threads |-> 0]
  /\ func = {}
  /\ initialised = {}
  /\ results = [t \in Threads |-> NoResult]
  /\ streams = TRUE
  /\ alive = TRUE
  /\ aborted = FALSE
  /\ timeouts = 0

Next ==
  \/ MainStep \/ MainFailure \/ Ended
  \/ \E t \in Threads : WorkerStep(t) \/ WorkerDisturbance(t)

Spec == Init /\ [][Next]_vars

\* The operating system runs every thread that can run.
FairSpec ==
  /\ Spec
  /\ WF_vars(MainStep)
  /\ \A t \in Threads : WF_vars(WorkerStep(t))

-----------------------------------------------------------------------------
(* Properties.                                                             *)

\* Every variable keeps its type, and main's loop variables their ranges
\* (threads.c and likwid-bench.c index arrays with them).
TypeOK ==
  /\ BenchTypeOK
  /\ pc \in [Threads -> WorkerLabels]
  /\ mpc \in MainLabels
  /\ mt \in Threads
  /\ mk \in 1 .. Len(Script) + 1
  /\ mpc \in {"create", "affinity", "send"} => mk <= Len(Script)
  /\ queue \in [Threads -> Seq(Commands)]
  /\ done \in [Threads -> {0, 1}]
  /\ signalled \subseteq Threads
  /\ taken \in [Threads -> Nat]
  /\ func \subseteq Threads
  /\ initialised \subseteq Threads \X Streams
  /\ results \in [Threads -> [iters : Nat, runtime : Nat \cup {NoRuntime}]]
  /\ streams \in BOOLEAN
  /\ alive \in BOOLEAN
  /\ aborted \in BOOLEAN
  /\ timeouts \in 0 .. MaxTimeouts

\* lb_timer_as_ns never divides by an unknown frequency: a thread that starts
\* a timed region has a calibrated one, whichever thread calibrated it.
TimerCalibrated ==
  \A t \in Threads :
    /\ pc[t] = "freqread" => freq # 0
    /\ pc[t] \in {"round", "roundstop", "exec", "exectimer", "execkernel",
                  "execstop"} => freq # 0 /\ tfreq[t] # 0

\* labels at which a thread that is not blocked calls the kernel
KernelLabels == {"round", "execkernel"}

\* A thread calls the kernel only when main has set the kernel function and
\* every thread of its workgroup has written its chunk of every per-thread
\* stream, however far ahead main has queued commands and whoever has timed
\* out.
KernelReady ==
  \A t \in Threads : pc[t] \in KernelLabels /\ t \notin blocked =>
    /\ t \in func
    /\ \A u \in Members(t), s \in PerThread : <<u, s>> \in initialised

\* commands main has sent to thread t
Sent(t) ==
  CASE mpc \in {"create", "affinity"} -> 0
    [] mpc = "send"                   -> IF t < mt THEN mk ELSE mk - 1
    [] OTHER                          -> mk - 1

\* The queue of a thread holds what main has sent and the thread has not
\* taken, in main's order: send_cmd and the head of _func_t's loop neither
\* lose nor repeat nor reorder a command.
CommandsInOrder ==
  \A t \in Threads : ~ aborted =>
    /\ taken[t] <= Sent(t)
    /\ queue[t] = SubSeq(Script, taken[t] + 1, Sent(t))

\* A thread never sleeps on a command: if it waits and its queue is not
\* empty, the signal of send_cmd is on its way.
NoLostWakeup ==
  \A t \in Threads : pc[t] = "waiting" /\ queue[t] # <<>> => t \in signalled

\* On the way through join_threads, main frees the arrays and the threads'
\* structures only when no thread can touch them any more.
FreedAfterExit ==
  (~ streams \/ ~ alive) /\ ~ aborted =>
    \A t \in Threads : At(t, "exited")

\* A thread that can be pinned executes commands only on its hwthread, the
\* first touch of its data by INITIALIZE included, although create_threads
\* pins it after it has started to run.
WorksPinned ==
  \A t \in Pinnable :
    pc[t] \in BenchLabels \cup {"init", "run", "complete"}
      => affinity[t] = "pinned"

\* While one thread of a workgroup is in its timed region no other one is
\* still looking for an iteration count or already done, and all of them
\* repeat the kernel equally often.
TimedTogether ==
  \A t \in Threads : At(t, "execkernel") =>
    \A u \in Members(t) :
      /\ pc[u] \in {"exectimer", "execkernel", "execstop"}
      /\ iters[u] = iters[t]

\* A thread calls the kernel, to find an iteration count or to be measured,
\* only in company: all threads of its workgroup are about to call it, call it
\* or have just done so, equally often. In particular none of them has given
\* up waiting for RUN, although a thread whose wait times out goes through two
\* barriers with its partners before it is gone (_func_t, run_benchmark).
CalledTogether ==
  \A t \in Threads : \A u \in Members(t) :
    /\ At(t, "round") => pc[u] \in {"round", "roundstop"} /\ iter[u] = iter[t]
    /\ At(t, "execkernel") => /\ pc[u] \in {"exectimer", "execkernel", "execstop"}
                              /\ iters[u] = iters[t]

Reported == mpc \in {"release", "destroy", "out", "end"} /\ ~ aborted

RequestedRuntime ==
  IF runcfg.runtime = NoRuntime THEN MIN_RUNTIME ELSE runcfg.runtime

\* What update_results reports: the requested iterations; or, when the
\* program chooses them, the first doubling of MIN_ITERATIONS whose timed
\* region lasts for the requested runtime.
ResultsMeasured ==
  Reported =>
    \A t \in Threads :
      IF runcfg.iterations # 0
      THEN /\ results[t].iters = runcfg.iterations
           /\ results[t].runtime >= Elapsed(runcfg.iterations, 0, freq)
      ELSE /\ results[t].runtime >= RequestedRuntime
           /\ \/ results[t].iters = MIN_ITERATIONS
              \/ Elapsed(results[t].iters \div 2, 0, freq) < RequestedRuntime

\* If main gets to report at all, a workgroup has run as a whole or not at
\* all: a thread whose wait timed out makes its workgroup hang or takes
\* everybody along, and never leaves a mixture of measured and unmeasured
\* results behind.
AllOrNoneRan ==
  Reported =>
    \A t, u \in Threads :
      Workgroup[t] = Workgroup[u] => (min_runtime[t] = 0) = (min_runtime[u] = 0)

\* Results are stored only when every thread has taken every command from
\* its queue, unless its wait has timed out: a command that could not be sent
\* never leads to a report.
ReportsWholeScript ==
  timeouts = 0 /\ (\E t \in Threads : results[t] # NoResult) =>
    \A t \in Threads : taken[t] = Len(Script) /\ queue[t] = <<>>

\* main comes to its end: no thread waits for another for ever.
Termination == <>(mpc = "end")

\* The phase of a thread in the sense of BulkSync, for a script that begins
\* with INITIALIZE, RUN.
Phase(t) ==
  CASE taken[t] = 0 \/ pc[t] = "init"              -> 0
    [] taken[t] = 1 /\ pc[t] # "init"              -> 1
    [] taken[t] > 1 /\ pc[t] \in (BenchLabels \cup {"run"})
                               \ {"execstop", "finish", "reset"} -> 1
    [] taken[t] > 1 /\ pc[t] = "execstop"          -> 2
    [] taken[t] > 1 /\ pc[t] = "exited"            -> 4
    [] OTHER                                       -> 3

Bulk == INSTANCE BulkSync WITH phase <- [t \in Threads |-> Phase(t)]

\* The workgroups run in bulk-synchronous phases, and every thread gets
\* through all of them.
BulkSynchronous == Bulk!FairSpec

-----------------------------------------------------------------------------
(* What texts of the program say and the program does not do (see the      *)
(* runs whose result is a violation).                                      *)

\* README: the number of iterations is detected automatically for the given
\* or default runtime, so a benchmark run ends with its results.
IterationsDetected == <>Reported

\* threads.c, initialize_global: the stream is initialised with its total
\* number of elements, every thread's part of it included.
GlobalInitComplete ==
  \A t \in Threads : At(t, "execkernel") =>
    \A u \in Members(t), s \in Streams : <<u, s>> \in initialised

\* threads.c, create_threads: a thread that cannot be pinned is an error, so
\* the kernel runs on the announced hwthreads only.
KernelPinned ==
  \A t \in Threads : At(t, "execkernel") => affinity[t] = "pinned"
=============================================================================
