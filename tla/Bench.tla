------------------------------- MODULE Bench -------------------------------
(***************************************************************************)
(* run_benchmark (src/bench.c): the code every worker thread executes for  *)
(* the RUN command, with the barrier of its workgroup and the timer of     *)
(* src/timer.c.  A thread pins itself, finds an iteration count (MEASURE)  *)
(* or warms up (WARMUP), executes the timed region (EXECUTE), stores its   *)
(* result and leaves.                                                      *)
(*                                                                         *)
(* A label of pc is a place between two synchronisation points.  A thread  *)
(* that sits in pthread_barrier_wait is in `blocked' and already carries   *)
(* the label behind the barrier.  One step does the thread-local work of   *)
(* its label and the next barrier arrival: the work touches no shared      *)
(* state, so nothing can interleave with it.  The one shared variable is   *)
(* the static `freq' of _rd_freq; each of its accesses is a step.          *)
(*                                                                         *)
(* Times are integers in one unit (the code's ns and seconds differ by the *)
(* factor NANOS_PER_SEC only).  The kernel itself is external: one call    *)
(* takes TicksPerIter counter ticks, and the two counter reads of a timed  *)
(* region add up to Jitter ticks, because a thread leaves the barrier in   *)
(* front of lb_timer_stop when the scheduler wakes it.                     *)
(***************************************************************************)
EXTENDS Integers

CONSTANTS
  NumThreads,       \* threads of all workgroups
  Workgroup,        \* Workgroup[t]: the workgroup of the thread with global_id t
  Pinnable,         \* threads whose hwthread the kernel lets the process use
  Iterations,       \* values of -i that are tried (0: option absent)
  Runtimes,         \* values of -r that are tried besides its absence
  MIN_ITERATIONS,   \* first iteration count of MEASURE and WARMUP
  MIN_RUNTIME,      \* default runtime
  NANOS_PER_SEC,    \* ticks are scaled to time by NANOS_PER_SEC / frequency
  TicksPerIter,     \* cost of one kernel call
  Jitter,           \* bound of the counter noise of one timed region
  FreqSamples       \* what one calibration of the counter frequency may yield

ASSUME BenchAssumption ==
  /\ NumThreads \in Nat \ {0}
  /\ Pinnable \subseteq 0 .. NumThreads - 1
  /\ Iterations \subseteq Nat
  /\ Runtimes \subseteq Nat
  /\ MIN_ITERATIONS \in Nat \ {0}
  /\ MIN_RUNTIME \in Nat
  /\ NANOS_PER_SEC \in Nat \ {0}
  /\ TicksPerIter \in Nat \ {0}
  /\ Jitter \in Nat
  /\ FreqSamples \subseteq Nat \ {0}

Threads == 0 .. NumThreads - 1

Members(t) == {u \in Threads : Workgroup[u] = Workgroup[t]}

NoRuntime == -1         \* RuntimeConfig.runtime when -r is absent

\* What assignBaseCliOptions lets through: never -i and -r together.
RunConfigs ==
  [iterations : {0}, runtime : Runtimes \cup {NoRuntime}]
     \cup [iterations : Iterations, runtime : {NoRuntime}]

VARIABLES
  runcfg,       \* the options of this run
  pc,           \* where each thread is
  blocked,      \* threads inside pthread_barrier_wait
  arrivals,     \* history: barrier waits each thread has entered
  affinity,     \* "process": may run anywhere, "pinned": on its hwthread
  cpuset,       \* affinity found on entry of run_benchmark
  freq,         \* static freq of _rd_freq, 0 until calibrated
  tfreq,        \* timedata.ci.freq of each thread
  iter,         \* loop-local iteration count of MEASURE / WARMUP
  iters,        \* _thread_data.iters
  min_runtime,  \* _thread_data.min_runtime: measured by EXECUTE
  runtime       \* RuntimeThreadConfig.runtime: requested, later measured

timerVars == <<freq, tfreq>>
dataVars  == <<iter, iters, min_runtime, runtime>>
benchVars == <<runcfg, pc, blocked, arrivals, affinity, cpuset,
               timerVars, dataVars>>

BenchLabels ==
  {"bench", "loop", "timer", "calibrate", "freqread", "round", "roundstop",
   "exec", "exectimer", "execkernel", "execstop", "finish", "reset"}

-----------------------------------------------------------------------------
(* Primitives.                                                             *)

At(t, label) == pc[t] = label /\ t \notin blocked

Goto(t, label) == pc' = [pc EXCEPT ![t] = label]

\* Mutant: the barrier does not count threads that have left.
ArriveUncounted(t, label) ==
  /\ Goto(t, label)
  /\ arrivals' = [arrivals EXCEPT ![t] = @ + 1]
  /\ blocked' = IF \A u \in Members(t) :
                      u \in blocked \cup {t} \/ pc[u] = "exited"
                THEN blocked \ Members(t)
                ELSE blocked \cup {t}

\* pthread_barrier_wait: the last member to arrive lets all of them go.
Arrive(t, label) ==
  /\ Goto(t, label)
  /\ arrivals' = [arrivals EXCEPT ![t] = @ + 1]
  /\ blocked' = IF Members(t) \subseteq blocked \cup {t}
                THEN blocked \ Members(t)
                ELSE blocked \cup {t}

Continue(t, label) == Goto(t, label) /\ UNCHANGED <<blocked, arrivals>>

\* lb_timer_as_ns for a region of n kernel calls disturbed by j ticks
Elapsed(n, j, f) == ((n * TicksPerIter + j) * NANOS_PER_SEC) \div f

\* MEASURE takes the requested runtime, WARMUP always the default one.
Goal(t) ==
  IF iters[t] = 0 /\ runtime[t] # NoRuntime THEN runtime[t] ELSE MIN_RUNTIME

-----------------------------------------------------------------------------
(* The steps of run_benchmark.                                             *)

\* Entry: pin if the mask is wider than one CPU (the result of
\* sched_setaffinity is not looked at), first barrier.
Enter(t) ==
  /\ At(t, "bench")
  /\ cpuset' = [cpuset EXCEPT ![t] = affinity[t]]
  /\ affinity' = [affinity EXCEPT
                    ![t] = IF @ # "pinned" /\ t \in Pinnable
                           THEN "pinned" ELSE @]
  /\ Arrive(t, "loop")
  /\ UNCHANGED <<runcfg, timerVars, dataVars>>

\* Mutant: MEASURE does not begin with a barrier of its own.
EnterLoopAtOnce(t) ==
  /\ At(t, "loop")
  /\ iter' = [iter EXCEPT ![t] = MIN_ITERATIONS]
  /\ Continue(t, "timer")
  /\ UNCHANGED <<runcfg, affinity, cpuset, timerVars, iters, min_runtime,
                 runtime>>

\* Head of MEASURE / WARMUP: barrier, iter = MIN_ITERATIONS.
EnterLoop(t) ==
  /\ At(t, "loop")
  /\ iter' = [iter EXCEPT ![t] = MIN_ITERATIONS]
  /\ Arrive(t, "timer")
  /\ UNCHANGED <<runcfg, affinity, cpuset, timerVars, iters, min_runtime,
                 runtime>>

\* Mutant: only the first thread calibrates.
TimerInitFirst(t) ==
  /\ At(t, "timer")
  /\ \/ /\ freq # 0 \/ t # 0
        /\ Continue(t, "freqread")
     \/ /\ freq = 0 /\ t = 0
        /\ Continue(t, "calibrate")
  /\ UNCHANGED <<runcfg, affinity, cpuset, timerVars, dataVars>>

\* lb_timer_init of a round: _rd_freq finds the frequency, or calibrates.
TimerInit(t) ==
  /\ At(t, "timer")
  /\ \/ /\ freq # 0
        /\ Continue(t, "freqread")
     \/ /\ freq = 0
        /\ Continue(t, "calibrate")
  /\ UNCHANGED <<runcfg, affinity, cpuset, timerVars, dataVars>>

\* End of the calibration: this thread's estimate goes to the shared freq.
Calibrate(t) ==
  /\ At(t, "calibrate")
  /\ freq' \in FreqSamples
  /\ Continue(t, "freqread")
  /\ UNCHANGED <<runcfg, affinity, cpuset, tfreq, dataVars>>

\* _rd_freq returns freq as it is now; barrier in front of the round.
ReadFreq(t) ==
  /\ At(t, "freqread")
  /\ tfreq' = [tfreq EXCEPT ![t] = freq]
  /\ Arrive(t, "round")
  /\ UNCHANGED <<runcfg, affinity, cpuset, freq, dataVars>>

\* iter kernel calls between lb_timer_start and the barrier
Round(t) ==
  /\ At(t, "round")
  /\ Arrive(t, "roundstop")
  /\ UNCHANGED <<runcfg, affinity, cpuset, timerVars, dataVars>>

\* Mutant: doubled is not reset, so iter is halved on the way out.
RoundStopHalved(t) ==
  /\ At(t, "roundstop")
  /\ \E j \in 0 .. Jitter :
       \/ /\ Elapsed(iter[t], j, tfreq[t]) < Goal(t)
          /\ iter' = [iter EXCEPT ![t] = 2 * @]
          /\ Continue(t, "timer")
          /\ UNCHANGED iters
       \/ /\ Elapsed(iter[t], j, tfreq[t]) >= Goal(t)
          /\ iters' = [iters EXCEPT ![t] = IF @ = 0 THEN iter[t] \div 2 ELSE @]
          /\ Arrive(t, "exec")
          /\ UNCHANGED iter
  /\ UNCHANGED <<runcfg, affinity, cpuset, timerVars, min_runtime, runtime>>

\* lb_timer_stop; too short: double iter and go round again; else leave the
\* loop (doubled is 0 there, so iter is never halved).  Only MEASURE stores
\* iter in _thread_data.iters.
RoundStop(t) ==
  /\ At(t, "roundstop")
  /\ \E j \in 0 .. Jitter :
       \/ /\ Elapsed(iter[t], j, tfreq[t]) < Goal(t)
          /\ iter' = [iter EXCEPT ![t] = 2 * @]
          /\ Continue(t, "timer")
          /\ UNCHANGED iters
       \/ /\ Elapsed(iter[t], j, tfreq[t]) >= Goal(t)
          /\ iters' = [iters EXCEPT ![t] = IF @ = 0 THEN iter[t] ELSE @]
          /\ Arrive(t, "exec")
          /\ UNCHANGED iter
  /\ UNCHANGED <<runcfg, affinity, cpuset, timerVars, min_runtime, runtime>>

\* Mutant: EXECUTE does not begin with a barrier.
ExecuteAtOnce(t) ==
  /\ At(t, "exec")
  /\ Continue(t, "exectimer")
  /\ UNCHANGED <<runcfg, affinity, cpuset, timerVars, dataVars>>

\* EXECUTE: barrier, then lb_timer_init (freq is calibrated by now)
Execute(t) ==
  /\ At(t, "exec")
  /\ Arrive(t, "exectimer")
  /\ UNCHANGED <<runcfg, affinity, cpuset, timerVars, dataVars>>

ExecuteTimer(t) ==
  /\ At(t, "exectimer")
  /\ tfreq' = [tfreq EXCEPT ![t] = freq]
  /\ Continue(t, "execkernel")
  /\ UNCHANGED <<runcfg, affinity, cpuset, freq, dataVars>>

\* Mutant: no barrier in front of lb_timer_stop
ExecuteKernelAlone(t) ==
  /\ At(t, "execkernel")
  /\ Continue(t, "execstop")
  /\ UNCHANGED <<runcfg, affinity, cpuset, timerVars, dataVars>>

\* iters kernel calls between lb_timer_start and the barrier
ExecuteKernel(t) ==
  /\ At(t, "execkernel")
  /\ Arrive(t, "execstop")
  /\ UNCHANGED <<runcfg, affinity, cpuset, timerVars, dataVars>>

\* lb_timer_stop, lb_timer_as_ns into min_runtime, barrier
ExecuteStop(t) ==
  /\ At(t, "execstop")
  /\ \E j \in 0 .. Jitter :
       min_runtime' =
         [min_runtime EXCEPT ![t] = Elapsed(iters[t], j, tfreq[t])]
  /\ Arrive(t, "finish")
  /\ UNCHANGED <<runcfg, affinity, cpuset, timerVars, iter, iters, runtime>>

\* The thread's result, last barrier
Finish(t) ==
  /\ At(t, "finish")
  /\ runtime' = [runtime EXCEPT ![t] = min_runtime[t]]
  /\ Arrive(t, "reset")
  /\ UNCHANGED <<runcfg, affinity, cpuset, timerVars, iter, iters,
                 min_runtime>>

\* The affinity found on entry is set again.  When the thread was pinned on
\* entry runset is uninitialised and the call may or may not be made; it
\* would set what is already set.  Control returns to _func_t.
ResetAffinity(t) ==
  /\ At(t, "reset")
  /\ affinity' = [affinity EXCEPT ![t] = cpuset[t]]
  /\ Continue(t, "complete")
  /\ UNCHANGED <<runcfg, cpuset, timerVars, dataVars>>

run_benchmark(t) ==
  \/ Enter(t) \/ EnterLoop(t)
  \/ TimerInit(t) \/ Calibrate(t) \/ ReadFreq(t)
  \/ Round(t) \/ RoundStop(t)
  \/ Execute(t) \/ ExecuteTimer(t) \/ ExecuteKernel(t) \/ ExecuteStop(t)
  \/ Finish(t) \/ ResetAffinity(t)

-----------------------------------------------------------------------------
(* What update_threads writes into every thread before it is created.      *)

BenchInit ==
  /\ runcfg \in RunConfigs
  /\ blocked = {}
  /\ arrivals = [t \in Threads |-> 0]
  /\ affinity = [t \in Threads |-> "process"]
  /\ cpuset = [t \in Threads |-> "process"]
  /\ freq = 0
  /\ tfreq = [t \in Threads |-> 0]
  /\ iter = [t \in Threads |-> 0]
  /\ iters = [t \in Threads |-> runcfg.iterations]
  /\ min_runtime = [t \in Threads |-> 0]
  /\ runtime = [t \in Threads |-> runcfg.runtime]

BenchTypeOK ==
  /\ runcfg \in [iterations : Nat, runtime : Nat \cup {NoRuntime}]
  /\ blocked \subseteq Threads
  /\ arrivals \in [Threads -> Nat]
  /\ affinity \in [Threads -> {"process", "pinned"}]
  /\ cpuset \in [Threads -> {"process", "pinned"}]
  /\ freq \in Nat
  /\ tfreq \in [Threads -> Nat]
  /\ iter \in [Threads -> Nat]
  /\ iters \in [Threads -> Nat]
  /\ min_runtime \in [Threads -> Nat]
  /\ runtime \in [Threads -> Nat \cup {NoRuntime}]
=============================================================================
