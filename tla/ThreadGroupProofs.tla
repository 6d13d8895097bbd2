------------------------- MODULE ThreadGroupProofs --------------------------
(***************************************************************************)
(* What is proved of ThreadGroup, for every number of threads, every       *)
(* division into workgroups, every script, and every timing of the         *)
(* kernel, in three parts.                                                 *)
(*                                                                         *)
(* Types, and the calibration of the timer before its use, without which   *)
(* the times would have no type; and the two means by which main and the   *)
(* workers are kept together: the barrier of a workgroup, whose members    *)
(* stay in lockstep, and the command queue of a thread, which hands on     *)
(* the script complete and in order.                                       *)
(*                                                                         *)
(* What main's progress says about the workers: which threads exist, are   *)
(* pinned and have exited; and what follows for the memory main frees,     *)
(* for the place threads work at, for threads that sleep, for the data     *)
(* the kernel finds, and for what main reports of all.                     *)
(*                                                                         *)
(* What the barriers give to a measurement whose clocks agree. Each        *)
(* thread decides for itself whether a round was long enough. As long as   *)
(* there is one counter frequency and the noise of the counter never tips  *)
(* that decision, all threads of a workgroup decide alike: they run the    *)
(* same rounds, choose the same iteration count and are in the timed       *)
(* region together, and what they report is what was asked for. The        *)
(* argument is about histories: a step of a thread that does not arrive    *)
(* at a barrier leaves its signature alone, one that arrives replaces it   *)
(* by the next one, which depends on nothing else; so threads that have    *)
(* entered equally many barriers have equal signatures. A thread whose     *)
(* wait has timed out goes through two more barriers, which its partners   *)
(* take for those of their commands. They are not counted: it keeps its    *)
(* signature and falls behind, by two barriers at most, and two barriers   *)
(* after the end of a command nobody calls the kernel yet.                 *)
(***************************************************************************)
EXTENDS ThreadGroup, SequenceTheorems, TLAPS

-----------------------------------------------------------------------------
(* Types.                                                                  *)

TypeInv == TypeOK /\ TimerCalibrated

\* A measured time is a natural number when the frequency is known.
LEMMA ElapsedType ==
  ASSUME NEW n \in Nat, NEW j \in Nat, NEW f \in Nat, f # 0
  PROVE  Elapsed(n, j, f) \in Nat
<1> DEFINE ticks == (n * TicksPerIter + j) * NANOS_PER_SEC
<1>1. TicksPerIter \in Nat /\ NANOS_PER_SEC \in Nat
  BY BenchAssumption
<1>2. n * TicksPerIter \in Nat
  BY <1>1
<1>3. ticks \in Nat
  BY <1>1, <1>2
<1> HIDE DEF ticks
<1>4. ticks \div f \in Nat
  BY <1>3
<1> QED
  BY <1>4 DEF Elapsed, ticks

LEMMA TypeInit == Init => TypeInv
<1> SUFFICES ASSUME Init PROVE TypeInv
  OBVIOUS
<1>1. runcfg \in [iterations : Nat, runtime : Nat \cup {NoRuntime}]
  <2>1. CASE runcfg \in [iterations : {0}, runtime : Runtimes \cup {NoRuntime}]
    <3>1. Runtimes \cup {NoRuntime} \subseteq Nat \cup {NoRuntime}
      BY BenchAssumption
    <3> QED
      BY <2>1, <3>1
  <2>2. CASE runcfg \in [iterations : Iterations, runtime : {NoRuntime}]
    BY <2>2, BenchAssumption
  <2> QED
    BY <2>1, <2>2 DEF Init, BenchInit, RunConfigs
<1>2. BenchTypeOK
  BY <1>1 DEF Init, BenchInit, BenchTypeOK
<1>3. 0 \in Threads /\ Len(Script) \in Nat
  BY BenchAssumption, ThreadGroupAssumption DEF Threads
<1>4. TypeOK
  <2>1. /\ mt \in Threads
        /\ mk \in 1 .. Len(Script) + 1
        /\ mk <= Len(Script)
        /\ timeouts \in 0 .. MaxTimeouts
    BY <1>3, ThreadGroupAssumption DEF Init
  <2>2. pc \in [Threads -> WorkerLabels] /\ mpc \in MainLabels
    BY DEF Init, WorkerLabels, MainLabels
  <2>3. queue \in [Threads -> Seq(Commands)]
    BY DEF Init
  <2>4. results \in [Threads -> [iters : Nat, runtime : Nat \cup {NoRuntime}]]
    BY DEF Init, NoResult
  <2> QED
    BY <1>2, <2>1, <2>2, <2>3, <2>4 DEF Init, TypeOK
<1>5. TimerCalibrated
  BY DEF Init, TimerCalibrated
<1> QED
  BY <1>4, <1>5 DEF TypeInv

\* What pthread_barrier_wait and a step without it do to the place of a thread
LEMMA ArriveType ==
  ASSUME TypeOK, NEW t \in Threads, NEW label \in WorkerLabels, Arrive(t, label)
  PROVE  /\ pc' = [pc EXCEPT ![t] = label]
         /\ pc' \in [Threads -> WorkerLabels]
         /\ blocked' \subseteq Threads
         /\ arrivals' \in [Threads -> Nat]
<1>1. /\ pc \in [Threads -> WorkerLabels]
      /\ blocked \subseteq Threads
      /\ arrivals \in [Threads -> Nat]
  BY DEF TypeOK, BenchTypeOK
<1>2. pc' = [pc EXCEPT ![t] = label] /\ arrivals' = [arrivals EXCEPT ![t] = @ + 1]
  BY DEF Arrive, Goto
<1>3. blocked' \subseteq Threads
  BY <1>1 DEF Arrive
<1> QED
  BY <1>1, <1>2, <1>3

LEMMA ContinueType ==
  ASSUME TypeOK, NEW t \in Threads, NEW label \in WorkerLabels, Continue(t, label)
  PROVE  /\ pc' = [pc EXCEPT ![t] = label]
         /\ pc' \in [Threads -> WorkerLabels]
         /\ blocked' \subseteq Threads
         /\ arrivals' \in [Threads -> Nat]
BY DEF TypeOK, BenchTypeOK, Continue, Goto

\* A thread that moves to another place, frequencies unchanged
LEMMA MoveCalibrated ==
  ASSUME TypeInv, NEW t \in Threads, NEW label,
         pc' = [pc EXCEPT ![t] = label], UNCHANGED timerVars,
         label = "freqread" => freq # 0,
         label \in {"round", "roundstop", "exec", "exectimer", "execkernel",
                   "execstop"} => freq # 0 /\ tfreq[t] # 0
  PROVE  TimerCalibrated'
BY DEF TypeInv, TypeOK, TimerCalibrated, timerVars

\* The steps of run_benchmark keep all types, and calibrate before they time.
LEMMA TypeBench ==
  ASSUME TypeInv, NEW t \in Threads, run_benchmark(t)
  PROVE  BenchTypeOK' /\ pc' \in [Threads -> WorkerLabels] /\ TimerCalibrated'
<1> USE BenchAssumption DEF TypeInv
<1>0. /\ BenchTypeOK /\ pc \in [Threads -> WorkerLabels]
  BY DEF TypeOK
<1>l. \A label \in BenchLabels \cup {"complete"} : label \in WorkerLabels
  BY DEF WorkerLabels
<1>1. CASE Enter(t)
  <2>1. Arrive(t, "loop")
    BY <1>1 DEF Enter
  <2>2. /\ pc' = [pc EXCEPT ![t] = "loop"]
        /\ pc' \in [Threads -> WorkerLabels]
        /\ blocked' \subseteq Threads
        /\ arrivals' \in [Threads -> Nat]
    BY <1>l, <2>1, ArriveType DEF BenchLabels
  <2>3. BenchTypeOK'
    BY <1>0, <1>1, <2>2 DEF Enter, BenchTypeOK, timerVars, dataVars
  <2>4. TimerCalibrated'
    BY <1>1, <2>2, MoveCalibrated DEF Enter, At, TimerCalibrated
  <2> QED
    BY <2>2, <2>3, <2>4
<1>2. CASE EnterLoop(t)
  <2>1. Arrive(t, "timer")
    BY <1>2 DEF EnterLoop
  <2>2. /\ pc' = [pc EXCEPT ![t] = "timer"]
        /\ pc' \in [Threads -> WorkerLabels]
        /\ blocked' \subseteq Threads
        /\ arrivals' \in [Threads -> Nat]
    BY <1>l, <2>1, ArriveType DEF BenchLabels
  <2>3. BenchTypeOK'
    BY <1>0, <1>2, <2>2 DEF EnterLoop, BenchTypeOK, timerVars, dataVars
  <2>4. TimerCalibrated'
    BY <1>2, <2>2, MoveCalibrated DEF EnterLoop, At, TimerCalibrated
  <2> QED
    BY <2>2, <2>3, <2>4
<1>3. CASE TimerInit(t)
  <2>1. CASE freq # 0 /\ Continue(t, "freqread")
    <3>1. /\ pc' = [pc EXCEPT ![t] = "freqread"]
          /\ pc' \in [Threads -> WorkerLabels]
          /\ blocked' \subseteq Threads
          /\ arrivals' \in [Threads -> Nat]
      BY <1>l, <2>1, ContinueType DEF BenchLabels
    <3>2. BenchTypeOK'
      BY <1>0, <1>3, <3>1 DEF TimerInit, BenchTypeOK, timerVars, dataVars
    <3>3. TimerCalibrated'
      BY <1>3, <2>1, <3>1, MoveCalibrated DEF TimerInit
    <3> QED
      BY <3>1, <3>2, <3>3
  <2>2. CASE Continue(t, "calibrate")
    <3>1. /\ pc' = [pc EXCEPT ![t] = "calibrate"]
          /\ pc' \in [Threads -> WorkerLabels]
          /\ blocked' \subseteq Threads
          /\ arrivals' \in [Threads -> Nat]
      BY <1>l, <2>2, ContinueType DEF BenchLabels
    <3>2. BenchTypeOK'
      BY <1>0, <1>3, <3>1 DEF TimerInit, BenchTypeOK, timerVars, dataVars
    <3>3. TimerCalibrated'
      BY <1>3, <3>1, MoveCalibrated DEF TimerInit
    <3> QED
      BY <3>1, <3>2, <3>3
  <2> QED
    BY <1>3, <2>1, <2>2 DEF TimerInit
<1>4. CASE Calibrate(t)
  <2>1. Continue(t, "freqread")
    BY <1>4 DEF Calibrate
  <2>2. /\ pc' = [pc EXCEPT ![t] = "freqread"]
        /\ pc' \in [Threads -> WorkerLabels]
        /\ blocked' \subseteq Threads
        /\ arrivals' \in [Threads -> Nat]
    BY <1>l, <2>1, ContinueType DEF BenchLabels
  <2>3. BenchTypeOK'
    BY <1>0, <1>4, <2>2 DEF Calibrate, BenchTypeOK, timerVars, dataVars
  <2>4. TimerCalibrated'
    BY <1>0, <1>4, <2>2 DEF Calibrate, TimerCalibrated, BenchTypeOK, At
  <2> QED
    BY <2>2, <2>3, <2>4
<1>5. CASE ReadFreq(t)
  <2>1. Arrive(t, "round")
    BY <1>5 DEF ReadFreq
  <2>2. /\ pc' = [pc EXCEPT ![t] = "round"]
        /\ pc' \in [Threads -> WorkerLabels]
        /\ blocked' \subseteq Threads
        /\ arrivals' \in [Threads -> Nat]
    BY <1>l, <2>1, ArriveType DEF BenchLabels
  <2>3. BenchTypeOK'
    BY <1>0, <1>5, <2>2 DEF ReadFreq, BenchTypeOK, timerVars, dataVars
  <2>4. TimerCalibrated'
    BY <1>0, <1>5, <2>2 DEF ReadFreq, TimerCalibrated, BenchTypeOK, At
  <2> QED
    BY <2>2, <2>3, <2>4
<1>6. CASE Round(t)
  <2>1. Arrive(t, "roundstop")
    BY <1>6 DEF Round
  <2>2. /\ pc' = [pc EXCEPT ![t] = "roundstop"]
        /\ pc' \in [Threads -> WorkerLabels]
        /\ blocked' \subseteq Threads
        /\ arrivals' \in [Threads -> Nat]
    BY <1>l, <2>1, ArriveType DEF BenchLabels
  <2>3. BenchTypeOK'
    BY <1>0, <1>6, <2>2 DEF Round, BenchTypeOK, timerVars, dataVars
  <2>4. TimerCalibrated'
    BY <1>6, <2>2, MoveCalibrated DEF Round, At, TimerCalibrated
  <2> QED
    BY <2>2, <2>3, <2>4
<1>7. CASE RoundStop(t)
  <2>1. CASE /\ iter' = [iter EXCEPT ![t] = 2 * @]
             /\ Continue(t, "timer")
             /\ UNCHANGED iters
    <3>1. /\ pc' = [pc EXCEPT ![t] = "timer"]
          /\ pc' \in [Threads -> WorkerLabels]
          /\ blocked' \subseteq Threads
          /\ arrivals' \in [Threads -> Nat]
      BY <1>l, <2>1, ContinueType DEF BenchLabels
    <3>2. BenchTypeOK'
      BY <1>0, <1>7, <2>1, <3>1 DEF RoundStop, BenchTypeOK, timerVars
    <3>3. TimerCalibrated'
      BY <1>7, <3>1, MoveCalibrated DEF RoundStop
    <3> QED
      BY <3>1, <3>2, <3>3
  <2>2. CASE /\ iters' = [iters EXCEPT ![t] = IF @ = 0 THEN iter[t] ELSE @]
             /\ Arrive(t, "exec")
             /\ UNCHANGED iter
    <3>1. /\ pc' = [pc EXCEPT ![t] = "exec"]
          /\ pc' \in [Threads -> WorkerLabels]
          /\ blocked' \subseteq Threads
          /\ arrivals' \in [Threads -> Nat]
      BY <1>l, <2>2, ArriveType DEF BenchLabels
    <3>2. BenchTypeOK'
      BY <1>0, <1>7, <2>2, <3>1 DEF RoundStop, BenchTypeOK, timerVars
    <3>3. TimerCalibrated'
      BY <1>7, <3>1, MoveCalibrated DEF RoundStop, At, TimerCalibrated
    <3> QED
      BY <3>1, <3>2, <3>3
  <2> QED
    BY <1>7, <2>1, <2>2 DEF RoundStop
<1>8. CASE Execute(t)
  <2>1. Arrive(t, "exectimer")
    BY <1>8 DEF Execute
  <2>2. /\ pc' = [pc EXCEPT ![t] = "exectimer"]
        /\ pc' \in [Threads -> WorkerLabels]
        /\ blocked' \subseteq Threads
        /\ arrivals' \in [Threads -> Nat]
    BY <1>l, <2>1, ArriveType DEF BenchLabels
  <2>3. BenchTypeOK'
    BY <1>0, <1>8, <2>2 DEF Execute, BenchTypeOK, timerVars, dataVars
  <2>4. TimerCalibrated'
    BY <1>8, <2>2, MoveCalibrated DEF Execute, At, TimerCalibrated
  <2> QED
    BY <2>2, <2>3, <2>4
<1>9. CASE ExecuteTimer(t)
  <2>1. Continue(t, "execkernel")
    BY <1>9 DEF ExecuteTimer
  <2>2. /\ pc' = [pc EXCEPT ![t] = "execkernel"]
        /\ pc' \in [Threads -> WorkerLabels]
        /\ blocked' \subseteq Threads
        /\ arrivals' \in [Threads -> Nat]
    BY <1>l, <2>1, ContinueType DEF BenchLabels
  <2>3. BenchTypeOK'
    BY <1>0, <1>9, <2>2 DEF ExecuteTimer, BenchTypeOK, timerVars, dataVars
  <2>4. TimerCalibrated'
    BY <1>0, <1>9, <2>2 DEF ExecuteTimer, TimerCalibrated, BenchTypeOK, At
  <2> QED
    BY <2>2, <2>3, <2>4
<1>10. CASE ExecuteKernel(t)
  <2>1. Arrive(t, "execstop")
    BY <1>10 DEF ExecuteKernel
  <2>2. /\ pc' = [pc EXCEPT ![t] = "execstop"]
        /\ pc' \in [Threads -> WorkerLabels]
        /\ blocked' \subseteq Threads
        /\ arrivals' \in [Threads -> Nat]
    BY <1>l, <2>1, ArriveType DEF BenchLabels
  <2>3. BenchTypeOK'
    BY <1>0, <1>10, <2>2 DEF ExecuteKernel, BenchTypeOK, timerVars, dataVars
  <2>4. TimerCalibrated'
    BY <1>10, <2>2, MoveCalibrated DEF ExecuteKernel, At, TimerCalibrated
  <2> QED
    BY <2>2, <2>3, <2>4
<1>11. CASE ExecuteStop(t)
  <2>1. Arrive(t, "finish")
    BY <1>11 DEF ExecuteStop
  <2>2. /\ pc' = [pc EXCEPT ![t] = "finish"]
        /\ pc' \in [Threads -> WorkerLabels]
        /\ blocked' \subseteq Threads
        /\ arrivals' \in [Threads -> Nat]
    BY <1>l, <2>1, ArriveType DEF BenchLabels
  <2>3. PICK j \in 0 .. Jitter :
          min_runtime' = [min_runtime EXCEPT ![t] = Elapsed(iters[t], j, tfreq[t])]
    BY <1>11 DEF ExecuteStop
  <2>4. iters[t] \in Nat /\ tfreq[t] \in Nat /\ tfreq[t] # 0
    BY <1>0, <1>11 DEF ExecuteStop, At, TimerCalibrated, BenchTypeOK
  <2>5. Elapsed(iters[t], j, tfreq[t]) \in Nat
    BY <2>4, ElapsedType
  <2>6. BenchTypeOK'
    BY <1>0, <1>11, <2>2, <2>3, <2>5
    DEF ExecuteStop, BenchTypeOK, timerVars
  <2>7. TimerCalibrated'
    BY <1>11, <2>2, MoveCalibrated DEF ExecuteStop
  <2> QED
    BY <2>2, <2>6, <2>7
<1>12. CASE Finish(t)
  <2>1. Arrive(t, "reset")
    BY <1>12 DEF Finish
  <2>2. /\ pc' = [pc EXCEPT ![t] = "reset"]
        /\ pc' \in [Threads -> WorkerLabels]
        /\ blocked' \subseteq Threads
        /\ arrivals' \in [Threads -> Nat]
    BY <1>l, <2>1, ArriveType DEF BenchLabels
  <2>3. BenchTypeOK'
    BY <1>0, <1>12, <2>2 DEF Finish, BenchTypeOK, timerVars, dataVars
  <2>4. TimerCalibrated'
    BY <1>12, <2>2, MoveCalibrated DEF Finish, At, TimerCalibrated
  <2> QED
    BY <2>2, <2>3, <2>4
<1>13. CASE ResetAffinity(t)
  <2>1. Continue(t, "complete")
    BY <1>13 DEF ResetAffinity
  <2>2. /\ pc' = [pc EXCEPT ![t] = "complete"]
        /\ pc' \in [Threads -> WorkerLabels]
        /\ blocked' \subseteq Threads
        /\ arrivals' \in [Threads -> Nat]
    BY <1>l, <2>1, ContinueType DEF BenchLabels
  <2>3. BenchTypeOK'
    BY <1>0, <1>13, <2>2 DEF ResetAffinity, BenchTypeOK, timerVars, dataVars
  <2>4. TimerCalibrated'
    BY <1>13, <2>2, MoveCalibrated DEF ResetAffinity, At, TimerCalibrated
  <2> QED
    BY <2>2, <2>3, <2>4
<1> QED
  BY <1>1, <1>2, <1>3, <1>4, <1>5, <1>6, <1>7, <1>8, <1>9, <1>10, <1>11,
     <1>12, <1>13 DEF run_benchmark
\* The other steps of a worker and main's steps leave the benchmark's data alone.
LEMMA InnerType ==
  ASSUME TypeInv, UNCHANGED innerVars,
         affinity' \in [Threads -> {"process", "pinned"}],
         blocked' \subseteq Threads,
         arrivals' \in [Threads -> Nat]
  PROVE  BenchTypeOK'
BY DEF TypeInv, TypeOK, BenchTypeOK, innerVars, timerVars, dataVars

\* Taking a command: it is one of Commands and leads to a label.
LEMMA FetchType ==
  ASSUME TypeInv, NEW t \in Threads, queue[t] # <<>>
  PROVE  /\ Head(queue[t]) \in Commands
         /\ Tail(queue[t]) \in Seq(Commands)
         /\ Entry(Head(queue[t])) \in {"init", "complete", "run", "exit"}
<1>1. queue[t] \in Seq(Commands)
  BY DEF TypeInv, TypeOK
<1>2. Head(queue[t]) \in Commands /\ Tail(queue[t]) \in Seq(Commands)
  BY <1>1
<1> QED
  BY <1>2 DEF Entry

WorkerAction(t) ==
  \/ Fetch(t) \/ Wait(t) \/ Wake(t) \/ SpuriousWake(t) \/ Timeout(t)
  \/ Initialize(t) \/ StartRun(t) \/ Complete(t)
  \/ ExitBarrier(t) \/ ExitDone(t)

LEMMA TypeWorker ==
  ASSUME TypeInv, NEW t \in Threads, WorkerAction(t)
  PROVE  TypeInv'
<1>0. TypeOK /\ BenchTypeOK
  BY DEF TypeInv, TypeOK
<1>l. {"waiting", "fetch", "exit", "init", "run", "complete", "bench",
       "exitdone", "exited"} \subseteq WorkerLabels
  BY DEF WorkerLabels, BenchLabels
<1>1. CASE Fetch(t)
  <2>0. /\ Tail(queue[t]) \in Seq(Commands)
        /\ Entry(Head(queue[t])) \in {"init", "complete", "run", "exit"}
    BY <1>1, FetchType DEF Fetch
  <2>1. Continue(t, Entry(Head(queue[t])))
    BY <1>1 DEF Fetch
  <2>2. /\ pc' = [pc EXCEPT ![t] = Entry(Head(queue[t]))]
        /\ pc' \in [Threads -> WorkerLabels]
        /\ blocked' \subseteq Threads
        /\ arrivals' \in [Threads -> Nat]
    BY <1>0, <1>l, <2>0, <2>1, ContinueType
  <2>3. BenchTypeOK'
    BY <1>0, <1>1, <2>2, InnerType DEF Fetch, BenchTypeOK
  <2>4. TypeOK'
    <3>1. queue' \in [Threads -> Seq(Commands)]
      BY <1>0, <1>1, <2>0 DEF Fetch, TypeOK
    <3>2. taken' \in [Threads -> Nat]
      BY <1>0, <1>1 DEF Fetch, TypeOK
    <3> QED
      BY <1>0, <1>1, <2>2, <2>3, <3>1, <3>2 DEF Fetch, TypeOK, mainVars
  <2>5. TimerCalibrated'
    BY <1>1, <2>0, <2>2, MoveCalibrated DEF Fetch, innerVars
  <2> QED
    BY <2>4, <2>5 DEF TypeInv
<1>2. CASE Wait(t)
  <2>1. Continue(t, "waiting")
    BY <1>2 DEF Wait
  <2>2. /\ pc' = [pc EXCEPT ![t] = "waiting"]
        /\ pc' \in [Threads -> WorkerLabels]
        /\ blocked' \subseteq Threads
        /\ arrivals' \in [Threads -> Nat]
    BY <1>0, <1>l, <2>1, ContinueType
  <2>3. BenchTypeOK'
    BY <1>0, <1>2, <2>2, InnerType DEF Wait, BenchTypeOK
  <2>4. TypeOK'
    BY <1>0, <1>2, <2>2, <2>3 DEF Wait, TypeOK, mainVars, cmdVars
  <2>5. TimerCalibrated'
    BY <1>2, <2>2, MoveCalibrated DEF Wait, innerVars
  <2> QED
    BY <2>4, <2>5 DEF TypeInv
<1>3. CASE Wake(t)
  <2>1. Continue(t, "fetch")
    BY <1>3 DEF Wake
  <2>2. /\ pc' = [pc EXCEPT ![t] = "fetch"]
        /\ pc' \in [Threads -> WorkerLabels]
        /\ blocked' \subseteq Threads
        /\ arrivals' \in [Threads -> Nat]
    BY <1>0, <1>l, <2>1, ContinueType
  <2>3. BenchTypeOK'
    BY <1>0, <1>3, <2>2, InnerType DEF Wake, BenchTypeOK
  <2>4. TypeOK'
    BY <1>0, <1>3, <2>2, <2>3 DEF Wake, TypeOK, mainVars
  <2>5. TimerCalibrated'
    BY <1>3, <2>2, MoveCalibrated DEF Wake, innerVars
  <2> QED
    BY <2>4, <2>5 DEF TypeInv
<1>4. CASE SpuriousWake(t)
  <2>1. Continue(t, "fetch")
    BY <1>4 DEF SpuriousWake
  <2>2. /\ pc' = [pc EXCEPT ![t] = "fetch"]
        /\ pc' \in [Threads -> WorkerLabels]
        /\ blocked' \subseteq Threads
        /\ arrivals' \in [Threads -> Nat]
    BY <1>0, <1>l, <2>1, ContinueType
  <2>3. BenchTypeOK'
    BY <1>0, <1>4, <2>2, InnerType DEF SpuriousWake, BenchTypeOK
  <2>4. TypeOK'
    BY <1>0, <1>4, <2>2, <2>3 DEF SpuriousWake, TypeOK, mainVars, cmdVars
  <2>5. TimerCalibrated'
    BY <1>4, <2>2, MoveCalibrated DEF SpuriousWake, innerVars
  <2> QED
    BY <2>4, <2>5 DEF TypeInv
<1>5. CASE Timeout(t)
  <2>1. Continue(t, "exit")
    BY <1>5 DEF Timeout
  <2>2. /\ pc' = [pc EXCEPT ![t] = "exit"]
        /\ pc' \in [Threads -> WorkerLabels]
        /\ blocked' \subseteq Threads
        /\ arrivals' \in [Threads -> Nat]
    BY <1>0, <1>l, <2>1, ContinueType
  <2>3. BenchTypeOK'
    BY <1>0, <1>5, <2>2, InnerType DEF Timeout, BenchTypeOK
  <2>4. TypeOK'
    <3>1. timeouts' \in 0 .. MaxTimeouts
      BY <1>0, <1>5, ThreadGroupAssumption DEF Timeout, TypeOK
    <3> QED
      BY <1>0, <1>5, <2>2, <2>3, <3>1 DEF Timeout, TypeOK, mainVars, cmdVars
  <2>5. TimerCalibrated'
    BY <1>5, <2>2, MoveCalibrated DEF Timeout, innerVars
  <2> QED
    BY <2>4, <2>5 DEF TypeInv
<1>6. CASE Initialize(t)
  <2>1. Continue(t, "complete")
    BY <1>6 DEF Initialize
  <2>2. /\ pc' = [pc EXCEPT ![t] = "complete"]
        /\ pc' \in [Threads -> WorkerLabels]
        /\ blocked' \subseteq Threads
        /\ arrivals' \in [Threads -> Nat]
    BY <1>0, <1>l, <2>1, ContinueType
  <2>3. BenchTypeOK'
    BY <1>0, <1>6, <2>2, InnerType DEF Initialize, BenchTypeOK
  <2>4. TypeOK'
    <3>1. initialised' \subseteq Threads \X Streams
      BY <1>0, <1>6, ThreadGroupAssumption
         DEF Initialize, initialize_local, initialize_global, TypeOK
    <3> QED
      BY <1>0, <1>6, <2>2, <2>3, <3>1 DEF Initialize, TypeOK, mainVars, cmdVars
  <2>5. TimerCalibrated'
    BY <1>6, <2>2, MoveCalibrated DEF Initialize, innerVars
  <2> QED
    BY <2>4, <2>5 DEF TypeInv
<1>7. CASE StartRun(t)
  <2>1. Continue(t, "bench")
    BY <1>7 DEF StartRun
  <2>2. /\ pc' = [pc EXCEPT ![t] = "bench"]
        /\ pc' \in [Threads -> WorkerLabels]
        /\ blocked' \subseteq Threads
        /\ arrivals' \in [Threads -> Nat]
    BY <1>0, <1>l, <2>1, ContinueType
  <2>3. BenchTypeOK'
    BY <1>0, <1>7, <2>2, InnerType DEF StartRun, BenchTypeOK
  <2>4. TypeOK'
    BY <1>0, <1>7, <2>2, <2>3 DEF StartRun, TypeOK, mainVars
  <2>5. TimerCalibrated'
    BY <1>7, <2>2, MoveCalibrated DEF StartRun, innerVars
  <2> QED
    BY <2>4, <2>5 DEF TypeInv
<1>8. CASE Complete(t)
  <2>1. Arrive(t, "fetch")
    BY <1>8 DEF Complete
  <2>2. /\ pc' = [pc EXCEPT ![t] = "fetch"]
        /\ pc' \in [Threads -> WorkerLabels]
        /\ blocked' \subseteq Threads
        /\ arrivals' \in [Threads -> Nat]
    BY <1>0, <1>l, <2>1, ArriveType
  <2>3. BenchTypeOK'
    BY <1>0, <1>8, <2>2, InnerType DEF Complete, BenchTypeOK
  <2>4. TypeOK'
    BY <1>0, <1>8, <2>2, <2>3 DEF Complete, TypeOK, mainVars
  <2>5. TimerCalibrated'
    BY <1>8, <2>2, MoveCalibrated DEF Complete, innerVars
  <2> QED
    BY <2>4, <2>5 DEF TypeInv
<1>9. CASE ExitBarrier(t)
  <2>1. Arrive(t, "exitdone")
    BY <1>9 DEF ExitBarrier
  <2>2. /\ pc' = [pc EXCEPT ![t] = "exitdone"]
        /\ pc' \in [Threads -> WorkerLabels]
        /\ blocked' \subseteq Threads
        /\ arrivals' \in [Threads -> Nat]
    BY <1>0, <1>l, <2>1, ArriveType
  <2>3. BenchTypeOK'
    BY <1>0, <1>9, <2>2, InnerType DEF ExitBarrier, BenchTypeOK
  <2>4. TypeOK'
    BY <1>0, <1>9, <2>2, <2>3 DEF ExitBarrier, TypeOK, mainVars, cmdVars
  <2>5. TimerCalibrated'
    BY <1>9, <2>2, MoveCalibrated DEF ExitBarrier, innerVars
  <2> QED
    BY <2>4, <2>5 DEF TypeInv
<1>10. CASE ExitDone(t)
  <2>1. Arrive(t, "exited")
    BY <1>10 DEF ExitDone
  <2>2. /\ pc' = [pc EXCEPT ![t] = "exited"]
        /\ pc' \in [Threads -> WorkerLabels]
        /\ blocked' \subseteq Threads
        /\ arrivals' \in [Threads -> Nat]
    BY <1>0, <1>l, <2>1, ArriveType
  <2>3. BenchTypeOK'
    BY <1>0, <1>10, <2>2, InnerType DEF ExitDone, BenchTypeOK
  <2>4. TypeOK'
    BY <1>0, <1>10, <2>2, <2>3 DEF ExitDone, TypeOK, mainVars
  <2>5. TimerCalibrated'
    BY <1>10, <2>2, MoveCalibrated DEF ExitDone, innerVars
  <2> QED
    BY <2>4, <2>5 DEF TypeInv
<1> QED
  BY <1>1, <1>2, <1>3, <1>4, <1>5, <1>6, <1>7, <1>8, <1>9, <1>10
  DEF WorkerAction

\* The bookkeeping of main's loops keeps the ranges of the loop variables.
LEMMA NextThreadType ==
  ASSUME TypeInv, NEW again \in MainLabels, NEW after \in MainLabels,
         NextThread(again, after)
  PROVE  /\ mt' \in Threads
         /\ mpc' \in MainLabels
         /\ mt < NumThreads - 1 => mpc' = again
         /\ ~ (mt < NumThreads - 1) => mpc' = after
BY SMTT(30), BenchAssumption DEF TypeInv, TypeOK, Threads, NextThread

MainAction ==
  \/ CreateThread \/ CreateFails \/ SetAffinity \/ SendCmd \/ SendFails \/ Join
  \/ UpdateResults \/ ReleaseStreams \/ DestroyThreads \/ MainOut

LEMMA TypeMain ==
  ASSUME TypeInv, MainAction
  PROVE  TypeInv'
<1>0. TypeOK /\ BenchTypeOK /\ TimerCalibrated
  BY DEF TypeInv, TypeOK
<1>l. {"affinity", "abort", "create", "send", "join", "results", "release",
       "destroy", "out", "end"} \subseteq MainLabels
  BY DEF MainLabels
<1>c. ASSUME UNCHANGED <<pc, freq, tfreq>> PROVE TimerCalibrated'
  BY <1>0, <1>c DEF TimerCalibrated
<1>b. ASSUME UNCHANGED benchVars PROVE BenchTypeOK' /\ pc' \in [Threads -> WorkerLabels]
  BY <1>0, <1>b DEF TypeOK, BenchTypeOK, benchVars, timerVars, dataVars
<1>1. CASE CreateThread
  <2>1. mt \in Threads /\ "fetch" \in WorkerLabels /\ Continue(mt, "fetch")
    BY <1>0, <1>1 DEF CreateThread, TypeOK, WorkerLabels
  <2>2. /\ pc' = [pc EXCEPT ![mt] = "fetch"]
        /\ pc' \in [Threads -> WorkerLabels]
        /\ blocked' \subseteq Threads
        /\ arrivals' \in [Threads -> Nat]
    BY <1>0, <2>1, ContinueType
  <2>3. BenchTypeOK'
    BY <1>0, <1>1, <2>2, InnerType DEF CreateThread, BenchTypeOK
  <2>4. TypeOK'
    BY <1>0, <1>1, <1>l, <2>2, <2>3 DEF CreateThread, TypeOK, cmdVars, MainAt
  <2>5. TimerCalibrated'
    BY <1>1, <2>1, <2>2, MoveCalibrated DEF CreateThread, innerVars
  <2> QED
    BY <2>4, <2>5 DEF TypeInv
<1>2. CASE CreateFails \/ SendFails
  <2>1. func' \subseteq Threads
    BY <1>0, <1>2 DEF CreateFails, SendFails, TypeOK, cmdVars
  <2>2. TypeOK'
    BY <1>0, <1>2, <1>l, <1>b, <2>1 DEF CreateFails, SendFails, TypeOK, cmdVars
  <2>3. UNCHANGED <<pc, freq, tfreq>>
    BY <1>2 DEF CreateFails, SendFails, benchVars, timerVars
  <2> QED
    BY <1>c, <2>2, <2>3 DEF TypeInv
<1>3. CASE SetAffinity
  <2>1. /\ mt' \in Threads /\ mpc' \in {"create", "send"} /\ mpc' \in MainLabels
    BY <1>3, <1>l, NextThreadType DEF SetAffinity
  <2>2. affinity' \in [Threads -> {"process", "pinned"}]
    BY <1>0, <1>3 DEF SetAffinity, BenchTypeOK
  <2>3. BenchTypeOK'
    BY <1>0, <1>3, <2>2, InnerType DEF SetAffinity, BenchTypeOK
  <2>4. TypeOK'
    BY <1>0, <1>3, <2>1, <2>3 DEF SetAffinity, MainAt, TypeOK, cmdVars
  <2>5. TimerCalibrated'
    BY <1>3, <1>c DEF SetAffinity, innerVars, timerVars
  <2> QED
    BY <2>4, <2>5 DEF TypeInv
<1>4. CASE SendCmd
  <2> DEFINE after == IF mk < Len(Script) THEN "send" ELSE "join"
  <2>1. /\ mk \in 1 .. Len(Script) /\ Len(Script) \in Nat
        /\ Script[mk] \in Commands
        /\ mt \in Threads /\ NumThreads \in Nat
    BY <1>0, <1>4, ThreadGroupAssumption, BenchAssumption
    DEF SendCmd, MainAt, TypeOK
  <2>2. after \in MainLabels /\ "send" \in MainLabels /\ NextThread("send", after)
    BY <1>4, <1>l DEF SendCmd
  <2>3. /\ mt' \in Threads
        /\ mpc' \in MainLabels
        /\ mt < NumThreads - 1 => mpc' = "send"
        /\ ~ (mt < NumThreads - 1) => mpc' = after
    BY <2>2, NextThreadType
  <2>4. mt < NumThreads - 1 \/ mt = NumThreads - 1
    BY <2>1 DEF Threads
  <2>5. /\ mk' \in 1 .. Len(Script) + 1
        /\ mpc' \in {"create", "affinity", "send"} => mk' <= Len(Script)
    BY <1>4, <2>1, <2>3, <2>4 DEF SendCmd
  <2>6. queue' \in [Threads -> Seq(Commands)]
    <3>1. queue \in [Threads -> Seq(Commands)]
      BY <1>0 DEF TypeOK
    <3>2. Append(queue[mt], Script[mk]) \in Seq(Commands)
      BY <3>1, <2>1
    <3> QED
      BY <1>4, <3>1, <3>2 DEF SendCmd
  <2>7. func' \subseteq Threads /\ signalled' \subseteq Threads
    BY <1>0, <1>4 DEF SendCmd, TypeOK
  <2>8. TypeOK'
    BY <1>0, <1>4, <1>b, <2>3, <2>5, <2>6, <2>7 DEF SendCmd, TypeOK
  <2>9. UNCHANGED <<pc, freq, tfreq>>
    BY <1>4 DEF SendCmd, benchVars, timerVars
  <2> QED
    BY <1>c, <2>8, <2>9 DEF TypeInv
<1>5. CASE Join
  <2>1. mt' \in Threads /\ mpc' \in {"join", "results"} /\ mpc' \in MainLabels
    BY <1>5, <1>l, NextThreadType DEF Join
  <2>2. TypeOK'
    BY <1>0, <1>5, <1>b, <2>1 DEF Join, TypeOK, cmdVars
  <2>3. UNCHANGED <<pc, freq, tfreq>>
    BY <1>5 DEF Join, benchVars, timerVars
  <2> QED
    BY <1>c, <2>2, <2>3 DEF TypeInv
<1>6. CASE UpdateResults
  <2>1. results' \in [Threads -> [iters : Nat, runtime : Nat \cup {NoRuntime}]]
    BY <1>0, <1>6 DEF UpdateResults, BenchTypeOK
  <2>2. TypeOK'
    BY <1>0, <1>6, <1>b, <1>l, <2>1 DEF UpdateResults, TypeOK, cmdVars
  <2>3. UNCHANGED <<pc, freq, tfreq>>
    BY <1>6 DEF UpdateResults, benchVars, timerVars
  <2> QED
    BY <1>c, <2>2, <2>3 DEF TypeInv
<1>7. CASE ReleaseStreams \/ DestroyThreads \/ MainOut
  <2>1. TypeOK'
    BY <1>0, <1>7, <1>b, <1>l
    DEF ReleaseStreams, DestroyThreads, MainOut, TypeOK, cmdVars
  <2>2. UNCHANGED <<pc, freq, tfreq>>
    BY <1>7 DEF ReleaseStreams, DestroyThreads, MainOut, benchVars, timerVars
  <2> QED
    BY <1>c, <2>1, <2>2 DEF TypeInv
<1> QED
  BY <1>1, <1>2, <1>3, <1>4, <1>5, <1>6, <1>7 DEF MainAction

\* What a step is: one of run_benchmark, of the rest of _func_t, or of main.
LEMMA StepCases ==
  ASSUME [Next]_vars
  PROVE  \/ UNCHANGED vars
         \/ \E t \in Threads : alive /\ run_benchmark(t) /\ UNCHANGED groupVars
         \/ \E t \in Threads : alive /\ WorkerAction(t)
         \/ MainAction
BY DEF Next, Ended, WorkerStep, WorkerDisturbance, WorkerAction, MainStep,
       MainFailure, MainAction

LEMMA TypeNext == TypeInv /\ [Next]_vars => TypeInv'
<1> SUFFICES ASSUME TypeInv, [Next]_vars PROVE TypeInv'
  OBVIOUS
<1>1. CASE UNCHANGED vars
  BY <1>1 DEF TypeInv, TypeOK, BenchTypeOK, TimerCalibrated, vars, benchVars,
       groupVars, mainVars, cmdVars, timerVars, dataVars
<1>2. ASSUME NEW t \in Threads, run_benchmark(t), UNCHANGED groupVars
      PROVE  TypeInv'
  BY <1>2, TypeBench DEF TypeInv, TypeOK, groupVars, mainVars, cmdVars
<1>3. ASSUME NEW t \in Threads, WorkerAction(t) PROVE TypeInv'
  BY <1>3, TypeWorker
<1>4. CASE MainAction
  BY <1>4, TypeMain
<1> QED
  BY <1>1, <1>2, <1>3, <1>4, StepCases

\* Every variable keeps its type, and main's loop variables stay in range.
THEOREM TypeCorrect == Spec => []TypeOK
<1>1. TypeInv => TypeOK
  BY DEF TypeInv
<1> QED
  BY <1>1, TypeInit, TypeNext, PTL DEF Spec

\* No thread starts a timed region before the counter frequency is known,
\* although the threads calibrate the shared variable without a lock.
THEOREM CalibratedBeforeUse == Spec => []TimerCalibrated
<1>1. TypeInv => TimerCalibrated
  BY DEF TypeInv
<1> QED
  BY <1>1, TypeInit, TypeNext, PTL DEF Spec

-----------------------------------------------------------------------------
(* Barriers.                                                               *)

\* barriers a thread has been let through
Passed(t) == IF t \in blocked THEN arrivals[t] - 1 ELSE arrivals[t]

\* What pthread_barrier_wait gives by itself, whatever its callers do, and the
\* arguments about them start from: the threads of a workgroup have passed the
\* same number of barriers, and never do all of them sit in one.
BarrierLockstep ==
  /\ \A t, u \in Threads : Workgroup[t] = Workgroup[u] => Passed(t) = Passed(u)
  /\ \A t \in Threads : ~ (Members(t) \subseteq blocked)

\* A step leaves the barriers alone or is one arrival at one of them.
LEMMA BarrierCases ==
  ASSUME TypeInv, [Next]_vars
  PROVE  \/ UNCHANGED <<blocked, arrivals>>
         \/ \E t \in Threads, label \in WorkerLabels : t \notin blocked /\ Arrive(t, label)
<1>l. \A label \in BenchLabels \cup {"fetch", "exitdone", "exited"} :
        label \in WorkerLabels
  BY DEF WorkerLabels
<1>1. ASSUME NEW t \in Threads, run_benchmark(t)
      PROVE  \/ UNCHANGED <<blocked, arrivals>>
             \/ \E label \in WorkerLabels : t \notin blocked /\ Arrive(t, label)
  BY <1>1, <1>l DEF run_benchmark, Enter, EnterLoop, TimerInit, Calibrate, ReadFreq,
     Round, RoundStop, Execute, ExecuteTimer, ExecuteKernel, ExecuteStop, Finish,
     ResetAffinity, At, Continue, BenchLabels
<1>2. ASSUME NEW t \in Threads, WorkerAction(t)
      PROVE  \/ UNCHANGED <<blocked, arrivals>>
             \/ \E label \in WorkerLabels : t \notin blocked /\ Arrive(t, label)
  BY <1>2, <1>l DEF WorkerAction, Fetch, Wait, Wake, SpuriousWake, Timeout,
     Initialize, StartRun, Complete, ExitBarrier, ExitDone, At, Continue
<1>3. ASSUME MainAction
      PROVE  UNCHANGED <<blocked, arrivals>>
  BY <1>3 DEF MainAction, CreateThread, CreateFails, SetAffinity, SendCmd,
     SendFails, Join, UpdateResults, ReleaseStreams, DestroyThreads, MainOut,
     benchVars, Continue
<1>4. UNCHANGED vars => UNCHANGED <<blocked, arrivals>>
  BY DEF vars, benchVars
<1> QED
  BY <1>1, <1>2, <1>3, <1>4, StepCases

\* One arrival keeps a workgroup in lockstep.
LEMMA LockstepArrive ==
  ASSUME TypeInv, BarrierLockstep, NEW t \in Threads, NEW label,
         t \notin blocked, Arrive(t, label)
  PROVE  BarrierLockstep'
<1>1. /\ arrivals \in [Threads -> Nat]
      /\ blocked \subseteq Threads
      /\ arrivals' = [arrivals EXCEPT ![t] = @ + 1]
  BY DEF TypeInv, TypeOK, BenchTypeOK, Arrive
<1>2. \A u \in Threads : u \in Members(t) <=> Workgroup[u] = Workgroup[t]
  BY DEF Members
<1>3. \A u, v \in Threads : Workgroup[u] = Workgroup[v] => Passed(u) = Passed(v)
  BY DEF BarrierLockstep
<1>4. CASE Members(t) \subseteq blocked \cup {t}
  <2>1. blocked' = blocked \ Members(t)
    BY <1>4 DEF Arrive
  <2>2. \A u \in Members(t) : Passed(u)' = Passed(t) + 1
    <3> SUFFICES ASSUME NEW u \in Members(t) PROVE Passed(u)' = Passed(t) + 1
      OBVIOUS
    <3>1. u \in Threads /\ Passed(u) = Passed(t)
      BY <1>2, <1>3 DEF Members
    <3>2. Passed(u)' = arrivals'[u] /\ Passed(t) = arrivals[t]
      BY <2>1 DEF Passed
    <3>3. CASE u = t
      BY <1>1, <3>2, <3>3
    <3>4. CASE u # t
      <4>1. u \in blocked /\ arrivals'[u] = arrivals[u]
        BY <1>1, <1>4, <3>1, <3>4
      <4>2. Passed(u) = arrivals[u] - 1
        BY <4>1 DEF Passed
      <4> QED
        BY <1>1, <3>1, <3>2, <4>1, <4>2
    <3> QED
      BY <3>3, <3>4
  <2>3. \A u \in Threads \ Members(t) : Passed(u)' = Passed(u)
    BY <1>1, <1>2, <2>1 DEF Passed
  <2>4. \A u, v \in Threads : Workgroup[u] = Workgroup[v] => Passed(u)' = Passed(v)'
    BY <1>2, <1>3, <2>2, <2>3
  <2>5. \A u \in Threads : ~ (Members(u) \subseteq blocked')
    <3> SUFFICES ASSUME NEW u \in Threads PROVE ~ (Members(u) \subseteq blocked')
      OBVIOUS
    <3>1. CASE u \in Members(t)
      BY <2>1, <3>1 DEF Members
    <3>2. CASE u \notin Members(t)
      BY <2>1 DEF BarrierLockstep
    <3> QED
      BY <3>1, <3>2
  <2> QED
    BY <2>4, <2>5 DEF BarrierLockstep, Members
<1>5. CASE ~ (Members(t) \subseteq blocked \cup {t})
  <2>1. blocked' = blocked \cup {t}
    BY <1>5 DEF Arrive
  <2>2. \A u \in Threads : Passed(u)' = Passed(u)
    BY <1>1, <2>1 DEF Passed
  <2>3. \A u \in Threads : ~ (Members(u) \subseteq blocked')
    <3> SUFFICES ASSUME NEW u \in Threads PROVE ~ (Members(u) \subseteq blocked')
      OBVIOUS
    <3>1. CASE Workgroup[u] = Workgroup[t]
      <4>1. Members(u) = Members(t)
        BY <3>1 DEF Members
      <4> QED
        BY <1>5, <2>1, <4>1
    <3>2. CASE Workgroup[u] # Workgroup[t]
      BY <2>1, <3>2 DEF BarrierLockstep, Members
    <3> QED
      BY <3>1, <3>2
  <2> QED
    BY <1>3, <2>2, <2>3 DEF BarrierLockstep, Members
<1> QED
  BY <1>4, <1>5

LEMMA LockstepNext == TypeInv /\ BarrierLockstep /\ [Next]_vars => BarrierLockstep'
<1> SUFFICES ASSUME TypeInv, BarrierLockstep, [Next]_vars PROVE BarrierLockstep'
  OBVIOUS
<1>1. CASE UNCHANGED <<blocked, arrivals>>
  BY <1>1 DEF BarrierLockstep, Passed, Members
<1>2. CASE \E t \in Threads, label \in WorkerLabels :
             t \notin blocked /\ Arrive(t, label)
  BY <1>2, LockstepArrive
<1> QED
  BY <1>1, <1>2, BarrierCases

LEMMA LockstepInit == Init => BarrierLockstep
<1> SUFFICES ASSUME Init PROVE BarrierLockstep
  OBVIOUS
<1>1. blocked = {} /\ \A t \in Threads : arrivals[t] = 0 /\ t \in Members(t)
  BY DEF Init, BenchInit, Members
<1> QED
  BY <1>1 DEF BarrierLockstep, Passed

-----------------------------------------------------------------------------
(* Commands.                                                               *)

\* commands sent to a thread, counted at the worker's end
Received(t) == taken[t] + Len(queue[t])

\* The queue is the part of the script behind what has been taken, and ends
\* where main has got to.
QueueInv ==
  /\ \A t \in Threads :
       /\ Received(t) <= Len(Script)
       /\ \A n \in 1 .. Len(queue[t]) : queue[t][n] = Script[taken[t] + n]
       /\ ~ aborted => Received(t) = Sent(t)
  /\ aborted => mpc \in {"abort", "out", "end"}
  /\ mpc \in {"create", "affinity"} => mk = 1

\* The command a thread takes is the next one of the script.
LEMMA NextCommand ==
  ASSUME TypeInv, QueueInv, NEW t \in Threads, queue[t] # <<>>
  PROVE  /\ Head(queue[t]) = Script[taken[t] + 1]
         /\ taken[t] + 1 <= Len(Script)
         /\ Len(queue[t]) \in Nat \ {0}
         /\ Tail(queue[t]) \in Seq(Commands)
         /\ Len(Tail(queue[t])) = Len(queue[t]) - 1
         /\ \A n \in 1 .. Len(queue[t]) - 1 : Tail(queue[t])[n] = queue[t][n + 1]
<1>1. queue[t] \in Seq(Commands) /\ taken[t] \in Nat /\ Len(Script) \in Nat
  BY ThreadGroupAssumption DEF TypeInv, TypeOK
<1>2. Len(queue[t]) \in Nat \ {0} /\ Head(queue[t]) = queue[t][1]
  BY <1>1
<1>3. /\ Tail(queue[t]) \in Seq(Commands)
      /\ Len(Tail(queue[t])) = Len(queue[t]) - 1
      /\ \A n \in 1 .. Len(queue[t]) - 1 : Tail(queue[t])[n] = queue[t][n + 1]
  BY <1>1, <1>2
<1>4. queue[t][1] = Script[taken[t] + 1]
  BY <1>2 DEF QueueInv
<1>5. Received(t) <= Len(Script)
  BY DEF QueueInv
<1>6. taken[t] + 1 <= Len(Script)
  BY <1>1, <1>2, <1>5 DEF Received
<1> QED
  BY <1>2, <1>3, <1>4, <1>6

\* Main's place determines what it has sent; loops that send nothing keep it.
LEMMA QueueInit == Init => QueueInv
<1> SUFFICES ASSUME Init PROVE QueueInv
  OBVIOUS
<1>1. \A t \in Threads : queue[t] = <<>> /\ taken[t] = 0
  BY DEF Init
<1>2. Len(Script) \in Nat /\ Len(<<>>) = 0
  BY ThreadGroupAssumption
<1> QED
  BY <1>1, <1>2 DEF Init, QueueInv, Received, Sent

LEMMA QueueFetch ==
  ASSUME TypeInv, QueueInv, NEW t \in Threads, Fetch(t)
  PROVE  QueueInv'
<1>1. /\ queue' = [queue EXCEPT ![t] = Tail(@)]
      /\ taken' = [taken EXCEPT ![t] = @ + 1]
      /\ queue[t] # <<>>
      /\ UNCHANGED <<mpc, mt, mk, aborted>>
  BY DEF Fetch, mainVars
<1>2. queue \in [Threads -> Seq(Commands)] /\ taken \in [Threads -> Nat]
  BY DEF TypeInv, TypeOK
<1>3. /\ Len(queue[t]) \in Nat \ {0}
      /\ Len(Tail(queue[t])) = Len(queue[t]) - 1
      /\ \A n \in 1 .. Len(queue[t]) - 1 : Tail(queue[t])[n] = queue[t][n + 1]
  BY <1>1, NextCommand
<1>4. \A u \in Threads : Received(u)' = Received(u)
  <2> SUFFICES ASSUME NEW u \in Threads PROVE Received(u)' = Received(u)
    OBVIOUS
  <2>1. CASE u = t
    BY <1>1, <1>2, <1>3, <2>1 DEF Received
  <2>2. CASE u # t
    BY <1>1, <1>2, <2>2 DEF Received
  <2> QED
    BY <2>1, <2>2
<1>5. \A u \in Threads : Sent(u)' = Sent(u)
  BY <1>1 DEF Sent
<1>6. ASSUME NEW u \in Threads, NEW n \in 1 .. Len(queue'[u])
      PROVE  queue'[u][n] = Script[taken'[u] + n]
  <2>1. CASE u = t
    <3>1. n \in 1 .. Len(queue[t]) - 1
      BY <1>1, <1>2, <1>3, <1>6, <2>1
    <3>2. queue'[u][n] = queue[t][n + 1]
      BY <1>1, <1>2, <1>3, <2>1, <3>1
    <3>3. n + 1 \in 1 .. Len(queue[t])
      BY <1>3, <3>1
    <3>4. queue[t][n + 1] = Script[taken[t] + (n + 1)]
      BY <3>3 DEF QueueInv
    <3>5. taken'[u] + n = taken[t] + (n + 1)
      BY <1>1, <1>2, <2>1, <3>1
    <3> QED
      BY <3>2, <3>4, <3>5
  <2>2. CASE u # t
    BY <1>1, <1>2, <1>6, <2>2 DEF QueueInv
  <2> QED
    BY <2>1, <2>2
<1> QED
  BY <1>1, <1>4, <1>5, <1>6 DEF QueueInv

LEMMA QueueSend ==
  ASSUME TypeInv, QueueInv, SendCmd
  PROVE  QueueInv'
<1> DEFINE after == IF mk < Len(Script) THEN "send" ELSE "join"
<1>1. /\ queue \in [Threads -> Seq(Commands)]
      /\ taken \in [Threads -> Nat]
      /\ mt \in Threads /\ NumThreads \in Nat
      /\ mk \in 1 .. Len(Script) /\ Len(Script) \in Nat
      /\ Script[mk] \in Commands
      /\ mpc = "send"
  BY ThreadGroupAssumption, BenchAssumption DEF TypeInv, TypeOK, SendCmd, MainAt
<1>2. /\ queue' = [queue EXCEPT ![mt] = Append(@, Script[mk])]
      /\ taken' = taken /\ aborted' = aborted
      /\ NextThread("send", after)
      /\ mk' = IF mt = NumThreads - 1 THEN mk + 1 ELSE mk
  BY DEF SendCmd
<1>3. ~ aborted
  BY <1>1 DEF QueueInv
<1>4. \A u \in Threads : Received(u) = IF u < mt THEN mk ELSE mk - 1
  BY <1>1, <1>3 DEF QueueInv, Sent
<1>5. /\ Len(queue'[mt]) = Len(queue[mt]) + 1
      /\ queue'[mt][Len(queue[mt]) + 1] = Script[mk]
      /\ \A n \in 1 .. Len(queue[mt]) : queue'[mt][n] = queue[mt][n]
  <2>1. queue[mt] \in Seq(Commands) /\ queue'[mt] = Append(queue[mt], Script[mk])
    BY <1>1, <1>2
  <2> QED
    BY <1>1, <2>1
<1>6. \A u \in Threads : u # mt => queue'[u] = queue[u]
  BY <1>1, <1>2
<1>7. \A u \in Threads : Received(u)' = IF u <= mt THEN mk ELSE mk - 1
  <2> SUFFICES ASSUME NEW u \in Threads
               PROVE  Received(u)' = IF u <= mt THEN mk ELSE mk - 1
    OBVIOUS
  <2>1. CASE u = mt
    <3>1. taken[mt] \in Nat /\ Len(queue[mt]) \in Nat
      BY <1>1
    <3>2. taken[mt] + Len(queue[mt]) = mk - 1
      BY <1>1, <1>4 DEF Received, Threads
    <3>3. Received(u)' = taken[mt] + Len(queue'[mt])
      BY <1>2, <2>1 DEF Received
    <3>4. Received(u)' = mk
      BY <1>1, <1>5, <3>1, <3>2, <3>3
    <3> QED
      BY <1>1, <2>1, <3>4 DEF Threads
  <2>2. CASE u # mt
    BY <1>1, <1>2, <1>4, <1>6, <2>2 DEF Received, Threads
  <2> QED
    BY <2>1, <2>2
<1>8. \A u \in Threads : Received(u)' = Sent(u)'
  <2>1. CASE mt < NumThreads - 1
    <3>1. mt' = mt + 1 /\ mpc' = "send" /\ mk' = mk
      BY <1>1, <1>2, <2>1 DEF NextThread, Threads
    <3> QED
      BY <1>1, <1>7, <3>1 DEF Sent, Threads
  <2>2. CASE ~ (mt < NumThreads - 1)
    <3>1. mt = NumThreads - 1 /\ mt' = 0 /\ mpc' \in {"send", "join"} /\ mk' = mk + 1
      BY <1>1, <1>2, <2>2 DEF NextThread, Threads
    <3>2. \A u \in Threads : Received(u)' = mk
      BY <1>1, <1>7, <3>1 DEF Threads
    <3>3. \A u \in Threads : ~ (u < 0)
      BY <1>1 DEF Threads
    <3>4. \A u \in Threads : Sent(u)' = mk
      <4>1. mk' - 1 = mk
        BY <1>1, <3>1
      <4>2. CASE mpc' = "send"
        BY <3>1, <3>3, <4>1, <4>2 DEF Sent
      <4>3. CASE mpc' = "join"
        BY <4>1, <4>3 DEF Sent
      <4> QED
        BY <3>1, <4>2, <4>3
    <3> QED
      BY <3>2, <3>4
  <2> QED
    BY <2>1, <2>2
<1>9. ASSUME NEW u \in Threads, NEW n \in 1 .. Len(queue'[u])
      PROVE  queue'[u][n] = Script[taken'[u] + n]
  <2>1. CASE u = mt /\ n = Len(queue[mt]) + 1
    <3>1. taken[mt] + Len(queue[mt]) = mk - 1
      BY <1>1, <1>4 DEF Received, Threads
    <3>2. taken'[u] + n = mk
      BY <1>1, <1>2, <2>1, <3>1
    <3> QED
      BY <1>5, <2>1, <3>2
  <2>2. CASE u = mt /\ n # Len(queue[mt]) + 1
    <3>1. n \in 1 .. Len(queue[mt])
      BY <1>1, <1>5, <1>9, <2>2
    <3> QED
      BY <1>2, <1>5, <2>2, <3>1 DEF QueueInv
  <2>3. CASE u # mt
    BY <1>2, <1>6, <1>9, <2>3 DEF QueueInv
  <2> QED
    BY <2>1, <2>2, <2>3
<1>10. \A u \in Threads : Received(u)' <= Len(Script)
  <2>1. mk <= Len(Script) /\ mk - 1 <= Len(Script)
    BY <1>1
  <2>2. \A u \in Threads : Received(u)' = mk \/ Received(u)' = mk - 1
    BY <1>7
  <2> QED
    BY <2>1, <2>2
<1>11. mpc' \in {"send", "join"}
  BY <1>2 DEF NextThread
<1> QED
  BY <1>2, <1>3, <1>8, <1>9, <1>10, <1>11 DEF QueueInv

\* Steps that touch no queue
LEMMA QueueOther ==
  ASSUME TypeInv, QueueInv, UNCHANGED <<queue, taken>>,
         UNCHANGED <<mpc, mt, mk, aborted>> \/ (MainAction /\ ~ SendCmd)
  PROVE  QueueInv'
<1>1. \A u \in Threads : Received(u)' = Received(u)
  BY DEF Received
<1>2. CASE UNCHANGED <<mpc, mt, mk, aborted>>
  BY <1>1, <1>2 DEF QueueInv, Sent
<1>3. CASE MainAction /\ ~ SendCmd
  <2>1. mk' = mk /\ mk \in Nat /\ mpc \in MainLabels
    BY <1>3 DEF MainAction, CreateThread, CreateFails, SetAffinity, SendFails, Join,
       UpdateResults, ReleaseStreams, DestroyThreads, MainOut, TypeInv, TypeOK
  <2>2. CASE CreateFails \/ SendFails
    BY <1>1, <2>2 DEF QueueInv, CreateFails, SendFails, MainAt
  <2>3. CASE CreateThread
    BY <1>1, <2>1, <2>3 DEF QueueInv, CreateThread, MainAt, Sent
  <2>4. CASE SetAffinity
    <3>1. mpc = "affinity" /\ mk = 1 /\ aborted' = aborted
      BY <2>4 DEF SetAffinity, MainAt, QueueInv
    <3>2. mpc' = "create" \/ (mpc' = "send" /\ mt' = 0)
      BY <2>4 DEF SetAffinity, NextThread
    <3>3. \A u \in Threads : Sent(u) = 0 /\ Sent(u)' = 0
      BY <2>1, <3>1, <3>2 DEF Sent, Threads
    <3> QED
      BY <1>1, <2>1, <3>1, <3>2, <3>3 DEF QueueInv
  <2>5. CASE Join
    <3>1. mpc = "join" /\ mpc' \in {"join", "results"} /\ aborted' = aborted
      BY <2>5 DEF Join, MainAt, NextThread
    <3>2. \A u \in Threads : Sent(u)' = Sent(u)
      BY <2>1, <3>1 DEF Sent
    <3> QED
      BY <1>1, <2>1, <3>1, <3>2 DEF QueueInv
  <2>6. CASE UpdateResults \/ ReleaseStreams \/ DestroyThreads \/ MainOut
    <3>1. /\ mpc \in {"results", "release", "destroy", "abort", "out"}
          /\ mpc' \in {"release", "destroy", "out", "end"}
          /\ mpc \in {"abort", "out"} => mpc' \in {"out", "end"}
          /\ mpc \in {"results", "release"} => ~ aborted
          /\ aborted' = aborted
      BY <2>6 DEF UpdateResults, ReleaseStreams, DestroyThreads, MainOut, MainAt, QueueInv
    <3>2. \A u \in Threads : Sent(u)' = Sent(u)
      BY <2>1, <3>1 DEF Sent
    <3>3. aborted' => mpc' \in {"abort", "out", "end"}
      BY <2>6, <3>1 DEF QueueInv, UpdateResults, ReleaseStreams, DestroyThreads, MainOut, MainAt
    <3> QED
      BY <1>1, <2>1, <3>1, <3>2, <3>3 DEF QueueInv
  <2> QED
    BY <1>3, <2>2, <2>3, <2>4, <2>5, <2>6 DEF MainAction
<1> QED
  BY <1>2, <1>3

LEMMA QueueNext == TypeInv /\ QueueInv /\ [Next]_vars => QueueInv'
<1> SUFFICES ASSUME TypeInv, QueueInv, [Next]_vars PROVE QueueInv'
  OBVIOUS
<1>1. CASE UNCHANGED vars
  BY <1>1, QueueOther DEF vars, groupVars, mainVars, cmdVars
<1>2. ASSUME NEW t \in Threads, run_benchmark(t), UNCHANGED groupVars PROVE QueueInv'
  BY <1>2, QueueOther DEF groupVars, mainVars, cmdVars
<1>3. ASSUME NEW t \in Threads, WorkerAction(t) PROVE QueueInv'
  <2>1. CASE Fetch(t)
    BY <2>1, QueueFetch
  <2>2. CASE ~ Fetch(t)
    <3>1. UNCHANGED <<queue, taken, mpc, mt, mk, aborted>>
      BY <1>3, <2>2 DEF WorkerAction, Wait, Wake, SpuriousWake, Timeout, Initialize,
         StartRun, Complete, ExitBarrier, ExitDone, mainVars, cmdVars
    <3> QED
      BY <3>1, QueueOther
  <2> QED
    BY <2>1, <2>2
<1>4. CASE MainAction
  <2>1. CASE SendCmd
    BY <2>1, QueueSend
  <2>2. CASE ~ SendCmd
    <3>1. UNCHANGED <<queue, taken>>
      BY <1>4, <2>2 DEF MainAction, CreateThread, CreateFails, SetAffinity, SendFails,
         Join, UpdateResults, ReleaseStreams, DestroyThreads, MainOut, cmdVars
    <3> QED
      BY <1>4, <2>2, <3>1, QueueOther
  <2> QED
    BY <2>1, <2>2
<1> QED
  BY <1>1, <1>2, <1>3, <1>4, StepCases

\* A part of the script, element by element
LEMMA PartOfScript ==
  ASSUME NEW m \in Int, NEW n \in Int, 1 <= m, n <= Len(Script)
  PROVE  /\ SubSeq(Script, m, n) \in Seq(Commands)
         /\ Len(SubSeq(Script, m, n)) = IF m <= n THEN n - m + 1 ELSE 0
         /\ \A i \in 1 .. n - m + 1 : SubSeq(Script, m, n)[i] = Script[m + i - 1]
<1>1. Script \in Seq(Commands)
  BY ThreadGroupAssumption
<1>2. \A i \in m .. n : Script[i] \in Commands
  BY <1>1
<1> QED
  BY SMTT(30), <1>2, SubSeqProperties

\* send_cmd and the head of _func_t's loop neither lose nor repeat nor reorder
\* a command.
THEOREM CommandsArriveInOrder == Spec => []CommandsInOrder
<1>1. TypeInv /\ QueueInv => CommandsInOrder
  <2> SUFFICES ASSUME TypeInv, QueueInv, NEW t \in Threads, ~ aborted
               PROVE  /\ taken[t] <= Sent(t)
                      /\ queue[t] = SubSeq(Script, taken[t] + 1, Sent(t))
    BY DEF CommandsInOrder
  <2>1. /\ queue[t] \in Seq(Commands) /\ taken[t] \in Nat
        /\ Script \in Seq(Commands)
    BY ThreadGroupAssumption DEF TypeInv, TypeOK
  <2>2. /\ taken[t] + Len(queue[t]) = Sent(t)
        /\ Sent(t) <= Len(Script)
        /\ \A n \in 1 .. Len(queue[t]) : queue[t][n] = Script[taken[t] + n]
    BY DEF QueueInv, Received
  <2> DEFINE rest == SubSeq(Script, taken[t] + 1, Sent(t))
  <2>3. Len(queue[t]) \in Nat /\ Len(Script) \in Nat /\ Sent(t) \in Nat
    BY <2>1, <2>2
  <2>4. /\ rest \in Seq(Commands)
        /\ Len(rest) = Len(queue[t])
        /\ \A n \in 1 .. Len(queue[t]) : rest[n] = Script[taken[t] + n]
    <3>1. /\ rest \in Seq(Commands)
          /\ Len(rest) = IF taken[t] + 1 <= Sent(t) THEN Sent(t) - (taken[t] + 1) + 1 ELSE 0
          /\ \A n \in 1 .. Sent(t) - (taken[t] + 1) + 1 :
               rest[n] = Script[(taken[t] + 1) + n - 1]
      <4>1. taken[t] + 1 \in Int /\ 1 <= taken[t] + 1 /\ Sent(t) \in Int
        BY <2>1, <2>3
      <4> QED
        BY <2>1, <2>2, <4>1, PartOfScript
    <3>2. Len(rest) = Len(queue[t])
      BY <2>1, <2>2, <2>3, <3>1
    <3>3. \A n \in 1 .. Len(queue[t]) :
            /\ n \in 1 .. Sent(t) - (taken[t] + 1) + 1
            /\ (taken[t] + 1) + n - 1 = taken[t] + n
      BY <2>1, <2>2, <2>3
    <3> QED
      BY <3>1, <3>2, <3>3
  <2> HIDE DEF rest
  <2>5. queue[t] = rest
    BY <2>1, <2>2, <2>4, SeqEqual
  <2> QED
    BY <2>1, <2>2, <2>3, <2>5 DEF rest
<1> QED
  BY <1>1, TypeInit, TypeNext, QueueInit, QueueNext, PTL DEF Spec

-----------------------------------------------------------------------------
(* What main's progress says about the workers.                            *)

\* main's loops over the threads, as far as they have got
MainInv ==
  /\ mpc = "create" => \A u \in Threads : u >= mt => pc[u] = "none"
  /\ mpc = "affinity" => \A u \in Threads : u > mt => pc[u] = "none"
  /\ mpc = "join" => \A u \in Threads : u < mt => At(u, "exited")
  /\ mpc \in {"results", "release", "destroy", "out", "end"} /\ ~ aborted =>
       \A u \in Threads : At(u, "exited")
  /\ ~ streams \/ ~ alive => mpc \in {"destroy", "out", "end"}
  /\ mpc = "abort" => aborted

\* A worker's step is made by a thread that has been created and has not
\* exited; it moves that thread and leaves the others outside the barrier
\* where they are.
LEMMA WorkerStays ==
  ASSUME TypeInv, NEW t \in Threads,
         (run_benchmark(t) /\ UNCHANGED groupVars) \/ WorkerAction(t)
  PROVE  /\ pc[t] \notin {"none", "exited"}
         /\ \A u \in Threads \ {t} : pc'[u] = pc[u]
         /\ \A u \in Threads : At(u, "exited") => At(u, "exited")'
         /\ UNCHANGED <<mpc, mt, mk, streams, alive, aborted>>
<1>1. CASE run_benchmark(t) /\ UNCHANGED groupVars
  <2>1. /\ t \notin blocked /\ pc[t] \in BenchLabels
        /\ \E label : Arrive(t, label) \/ Continue(t, label)
    BY <1>1 DEF run_benchmark, Enter, EnterLoop, TimerInit, Calibrate, ReadFreq, Round,
       RoundStop, Execute, ExecuteTimer, ExecuteKernel, ExecuteStop, Finish,
       ResetAffinity, At, BenchLabels
  <2>2. \A u \in Threads \ {t} : pc'[u] = pc[u]
    BY <2>1 DEF Arrive, Continue, Goto, TypeInv, TypeOK
  <2>3. \A u \in Threads \ {t} : u \notin blocked => u \notin blocked'
    BY <2>1 DEF Arrive, Continue
  <2>4. pc[t] \notin {"none", "exited"}
    BY <2>1 DEF BenchLabels
  <2> QED
    BY <1>1, <2>2, <2>3, <2>4 DEF At, groupVars, mainVars
<1>2. CASE WorkerAction(t)
  <2>1. /\ t \notin blocked /\ pc[t] \notin {"none", "exited"}
        /\ \E label : Arrive(t, label) \/ Continue(t, label)
        /\ UNCHANGED mainVars
    BY <1>2 DEF WorkerAction, Fetch, Wait, Wake, SpuriousWake, Timeout, Initialize,
       StartRun, Complete, ExitBarrier, ExitDone, At
  <2>2. \A u \in Threads \ {t} : pc'[u] = pc[u]
    BY <2>1 DEF Arrive, Continue, Goto, TypeInv, TypeOK
  <2>3. \A u \in Threads \ {t} : u \notin blocked => u \notin blocked'
    BY <2>1 DEF Arrive, Continue
  <2> QED
    BY <2>1, <2>2, <2>3 DEF At, mainVars
<1> QED
  BY <1>1, <1>2

LEMMA MainInit == Init => MainInv
  BY DEF Init, MainInv

LEMMA MainNext == TypeInv /\ QueueInv /\ MainInv /\ [Next]_vars => MainInv'
<1> SUFFICES ASSUME TypeInv, QueueInv, MainInv, [Next]_vars PROVE MainInv'
  OBVIOUS
<1>0. /\ NumThreads \in Nat /\ mt \in Threads
      /\ \A u \in Threads : u \in 0 .. NumThreads - 1
      /\ pc \in [Threads -> WorkerLabels]
  BY BenchAssumption DEF TypeInv, TypeOK, Threads
<1>1. CASE UNCHANGED vars
  BY <1>1 DEF MainInv, At, vars, benchVars, groupVars, mainVars
<1>2. ASSUME NEW t \in Threads,
             (run_benchmark(t) /\ UNCHANGED groupVars) \/ WorkerAction(t)
      PROVE  MainInv'
  <2>1. /\ pc[t] \notin {"none", "exited"}
        /\ \A u \in Threads \ {t} : pc'[u] = pc[u]
        /\ \A u \in Threads : At(u, "exited") => At(u, "exited")'
        /\ UNCHANGED <<mpc, mt, mk, streams, alive, aborted>>
    BY <1>2, WorkerStays
  <2>2. \A u \in Threads : pc[u] = "none" => pc'[u] = "none"
    BY <2>1
  <2> QED
    BY <2>1, <2>2 DEF MainInv
<1>3. CASE CreateThread
  <2>1. /\ mpc = "create" /\ mpc' = "affinity" /\ mt' = mt
        /\ pc' = [pc EXCEPT ![mt] = "fetch"]
        /\ UNCHANGED <<streams, alive, aborted>>
    BY <1>3 DEF CreateThread, MainAt, Continue, Goto
  <2>2. \A u \in Threads : u > mt => pc'[u] = "none"
    BY <1>0, <2>1 DEF MainInv
  <2> QED
    BY <2>1, <2>2 DEF MainInv
<1>4. CASE CreateFails \/ SendFails
  BY <1>4 DEF CreateFails, SendFails, MainInv, MainAt
<1>5. CASE SetAffinity
  <2>1. /\ mpc = "affinity" /\ UNCHANGED <<pc, streams, alive, aborted>>
        /\ \/ mpc' = "create" /\ mt' = mt + 1
           \/ mpc' = "send"
    BY <1>5 DEF SetAffinity, MainAt, NextThread
  <2>2. CASE mpc' = "create" /\ mt' = mt + 1
    <3>1. \A u \in Threads : u >= mt' => pc'[u] = "none"
      BY <1>0, <2>1, <2>2 DEF MainInv
    <3> QED
      BY <2>1, <2>2, <3>1 DEF MainInv
  <2>3. CASE mpc' = "send"
    BY <2>1, <2>3 DEF MainInv
  <2> QED
    BY <2>1, <2>2, <2>3
<1>6. CASE SendCmd
  <2>1. /\ mpc = "send" /\ UNCHANGED <<streams, alive>>
        /\ mpc' = "send" \/ (mpc' = "join" /\ mt' = 0)
    BY <1>6 DEF SendCmd, MainAt, NextThread
  <2>2. \A u \in Threads : ~ (u < 0)
    BY <1>0
  <2> QED
    BY <2>1, <2>2 DEF MainInv
<1>7. CASE Join
  <2>1. /\ mpc = "join" /\ At(mt, "exited")
        /\ UNCHANGED <<pc, blocked, streams, alive, aborted>>
        /\ \/ mt < NumThreads - 1 /\ mpc' = "join" /\ mt' = mt + 1
           \/ ~ (mt < NumThreads - 1) /\ mpc' = "results"
    BY <1>7 DEF Join, MainAt, NextThread, benchVars
  <2>2. \A u \in Threads : u < mt + 1 => At(u, "exited")
    <3> SUFFICES ASSUME NEW u \in Threads, u < mt + 1 PROVE At(u, "exited")
      OBVIOUS
    <3>1. u < mt \/ u = mt
      BY <1>0
    <3> QED
      BY <2>1, <3>1 DEF MainInv
  <2>3. CASE mt < NumThreads - 1
    <3>1. mpc' = "join" /\ mt' = mt + 1
      BY <2>1, <2>3
    <3> QED
      BY <2>1, <2>2, <3>1 DEF MainInv, At
  <2>4. CASE ~ (mt < NumThreads - 1)
    <3>1. mpc' = "results" /\ \A u \in Threads : u < mt + 1
      BY <1>0, <2>1, <2>4
    <3> QED
      BY <2>1, <2>2, <3>1 DEF MainInv, At
  <2> QED
    BY <2>3, <2>4
<1>8. CASE UpdateResults \/ ReleaseStreams \/ DestroyThreads \/ MainOut
  <2>1. UNCHANGED <<pc, blocked, aborted>>
    BY <1>8 DEF UpdateResults, ReleaseStreams, DestroyThreads, MainOut, benchVars
  <2>2. /\ mpc \in {"results", "release", "destroy", "abort", "out"}
        /\ mpc' \in {"release", "destroy", "out", "end"}
        /\ mpc = "abort" => aborted \/ mpc' = "out"
        /\ ~ streams' \/ ~ alive' => mpc' \in {"destroy", "out", "end"}
    BY <1>8 DEF UpdateResults, ReleaseStreams, DestroyThreads, MainOut, MainAt, MainInv
  <2>3. mpc = "abort" => aborted
    BY DEF MainInv
  <2> QED
    BY <2>1, <2>2, <2>3 DEF MainInv, At
<1> QED
  BY <1>1, <1>2, <1>3, <1>4, <1>5, <1>6, <1>7, <1>8, StepCases DEF MainAction

\* Unless main has left through an error path, it frees the arrays and the
\* threads' structures only after every thread has made its last step.
THEOREM FreesAfterExit == Spec => []FreedAfterExit
<1>1. MainInv => FreedAfterExit
  BY DEF MainInv, FreedAfterExit
<1> QED
  BY <1>1, TypeInit, TypeNext, QueueInit, QueueNext, MainInit, MainNext, PTL DEF Spec

-----------------------------------------------------------------------------
(* Sleeping.                                                               *)

\* The places the steps of run_benchmark lead to.
LEMMA BenchWhere ==
  ASSUME NEW t \in Threads, run_benchmark(t)
  PROVE  /\ pc[t] \in BenchLabels
         /\ \E label \in (BenchLabels \cup {"complete"}) \ {"bench"} :
              pc' = [pc EXCEPT ![t] = label]
BY DEF run_benchmark, Enter, EnterLoop, TimerInit, Calibrate, ReadFreq, Round,
   RoundStop, Execute, ExecuteTimer, ExecuteKernel, ExecuteStop, Finish,
   ResetAffinity, Arrive, Continue, Goto, At, BenchLabels

LEMMA WakeupInit == Init => NoLostWakeup
  BY DEF Init, NoLostWakeup

LEMMA WakeupNext == TypeInv /\ NoLostWakeup /\ [Next]_vars => NoLostWakeup'
<1> SUFFICES ASSUME TypeInv, NoLostWakeup, [Next]_vars PROVE NoLostWakeup'
  OBVIOUS
<1>0. /\ pc \in [Threads -> WorkerLabels]
      /\ queue \in [Threads -> Seq(Commands)]
      /\ mt \in Threads
  BY DEF TypeInv, TypeOK
<1>1. CASE UNCHANGED vars
  BY <1>1 DEF NoLostWakeup, vars, benchVars, groupVars, cmdVars
<1>2. ASSUME NEW t \in Threads, run_benchmark(t), UNCHANGED groupVars
      PROVE  NoLostWakeup'
  <2>1. PICK label \in (BenchLabels \cup {"complete"}) \ {"bench"} :
               pc' = [pc EXCEPT ![t] = label]
    BY <1>2, BenchWhere
  <2>2. label # "waiting" /\ UNCHANGED <<queue, signalled>>
    BY <1>2, <2>1 DEF BenchLabels, groupVars, cmdVars
  <2> QED
    BY <1>0, <2>1, <2>2 DEF NoLostWakeup
<1>3. ASSUME NEW t \in Threads, WorkerAction(t)
      PROVE  NoLostWakeup'
  <2>1. CASE Fetch(t)
    <3>1. PICK label \in {"init", "complete", "run", "exit"} :
                 pc' = [pc EXCEPT ![t] = label]
      BY <2>1 DEF Fetch, Continue, Goto, Entry
    <3>2. /\ \A u \in Threads \ {t} : queue'[u] = queue[u]
          /\ signalled' = signalled
      BY <1>0, <2>1 DEF Fetch
    <3> QED
      BY <1>0, <3>1, <3>2 DEF NoLostWakeup
  <2>2. CASE Wait(t)
    BY <1>0, <2>2 DEF Wait, Continue, Goto, NoLostWakeup, cmdVars
  <2>3. CASE Wake(t)
    BY <1>0, <2>3 DEF Wake, Continue, Goto, NoLostWakeup
  <2>4. ASSUME UNCHANGED <<queue, signalled>>, NEW label, label # "waiting",
               pc' = [pc EXCEPT ![t] = label]
        PROVE  NoLostWakeup'
    BY <1>0, <2>4 DEF NoLostWakeup
  <2>5. CASE SpuriousWake(t) \/ Timeout(t)
    BY <2>4, <2>5 DEF SpuriousWake, Timeout, Continue, Goto, cmdVars
  <2>6. CASE Initialize(t) \/ StartRun(t)
    BY <2>4, <2>6 DEF Initialize, StartRun, Continue, Goto, cmdVars
  <2>7. CASE Complete(t) \/ ExitBarrier(t) \/ ExitDone(t)
    BY <2>4, <2>7 DEF Complete, ExitBarrier, ExitDone, Arrive, Goto, cmdVars
  <2> QED
    BY <1>3, <2>1, <2>2, <2>3, <2>5, <2>6, <2>7 DEF WorkerAction
<1>4. CASE CreateThread
  BY <1>0, <1>4 DEF CreateThread, Continue, Goto, NoLostWakeup, cmdVars
<1>5. CASE SendCmd
  <2>1. /\ \A u \in Threads \ {mt} : queue'[u] = queue[u]
        /\ signalled \subseteq signalled'
        /\ pc[mt] = "waiting" => mt \in signalled'
        /\ pc' = pc
    BY <1>0, <1>5 DEF SendCmd, benchVars
  <2> QED
    BY <2>1 DEF NoLostWakeup
<1>6. CASE /\ MainAction /\ ~ CreateThread /\ ~ SendCmd
  BY <1>6 DEF MainAction, CreateFails, SetAffinity, SendFails, Join, UpdateResults,
     ReleaseStreams, DestroyThreads, MainOut, NoLostWakeup, benchVars, cmdVars
<1> QED
  BY <1>1, <1>2, <1>3, <1>4, <1>5, <1>6, StepCases

\* The queue's test, the wait and the signal fit together: a worker that
\* sleeps while a command is in its queue has been signalled.
THEOREM WakesForCommands == Spec => []NoLostWakeup
  BY TypeInit, TypeNext, WakeupInit, WakeupNext, PTL DEF Spec

-----------------------------------------------------------------------------
(* Affinity.                                                               *)

Working == BenchLabels \cup {"init", "run", "complete"}

Pinned(t) == affinity[t] = "pinned"

\* A thread gets work only after main has pinned all threads, and
\* run_benchmark restores what it has found.
PinInv ==
  /\ \A t \in Threads : pc[t] \in Working => taken[t] > 0
  /\ \A t \in Pinnable : taken[t] > 0 \/ queue[t] # <<>> => Pinned(t)
  /\ \A t \in Pinnable :
       pc[t] \in BenchLabels \ {"bench"} => cpuset[t] = "pinned"
  /\ mpc \in {"create", "affinity"} =>
       \A t \in Pinnable : t < mt => Pinned(t)
  /\ mpc = "send" => \A t \in Pinnable : Pinned(t)

LEMMA PinInit == Init => PinInv
<1> SUFFICES ASSUME Init PROVE PinInv
  OBVIOUS
<1>1. /\ Pinnable \subseteq Threads
      /\ \A t \in Pinnable : ~ (t < 0)
  BY BenchAssumption DEF Threads
<1> QED
  BY <1>1 DEF Init, PinInv, Working, BenchLabels

\* No thread loses its pinning, in run_benchmark and elsewhere.
LEMMA PinBench ==
  ASSUME TypeInv, PinInv, NEW t \in Threads, run_benchmark(t),
         UNCHANGED groupVars
  PROVE  PinInv'
<1>0. /\ pc \in [Threads -> WorkerLabels]
      /\ affinity \in [Threads -> {"process", "pinned"}]
      /\ cpuset \in [Threads -> {"process", "pinned"}]
      /\ Pinnable \subseteq Threads
  BY BenchAssumption DEF TypeInv, TypeOK, BenchTypeOK, Threads
<1>1. UNCHANGED <<mpc, mt, taken, queue>>
  BY DEF groupVars, mainVars, cmdVars
<1>2. PICK label \in (BenchLabels \cup {"complete"}) \ {"bench"} :
             pc' = [pc EXCEPT ![t] = label]
  BY BenchWhere
<1>3. pc[t] \in BenchLabels /\ taken[t] > 0
  BY BenchWhere DEF PinInv, Working
<1>4. t \in Pinnable => Pinned(t)
  BY <1>3 DEF PinInv
<1>5. /\ \A u \in Pinnable : Pinned(u) => Pinned(u)'
      /\ \A u \in Pinnable \ {t} : cpuset'[u] = cpuset[u]
      /\ t \in Pinnable /\ pc'[t] \in BenchLabels => cpuset'[t] = "pinned"
  <2>1. CASE Enter(t)
    BY <1>0, <1>4, <2>1 DEF Enter, Pinned
  <2>2. CASE ResetAffinity(t)
    <3>1. pc[t] = "reset"
      BY <2>2 DEF ResetAffinity, At
    <3>2. t \in Pinnable => cpuset[t] = "pinned"
      BY <1>3, <3>1 DEF PinInv
    <3> QED
      BY <1>0, <2>2, <3>2 DEF ResetAffinity, Pinned
  <2>3. CASE ~ Enter(t) /\ ~ ResetAffinity(t)
    <3>1. UNCHANGED <<affinity, cpuset>> /\ pc[t] # "bench"
      BY <2>3 DEF run_benchmark, EnterLoop, TimerInit, Calibrate, ReadFreq, Round,
         RoundStop, Execute, ExecuteTimer, ExecuteKernel, ExecuteStop, Finish, At
    <3>2. t \in Pinnable => cpuset[t] = "pinned"
      BY <1>3, <3>1 DEF PinInv
    <3> QED
      BY <3>1, <3>2 DEF Pinned
  <2> QED
    BY <2>1, <2>2, <2>3
<1>6. \A u \in Threads \ {t} : pc'[u] = pc[u]
  BY <1>0, <1>2
<1>7. \A u \in Threads : pc'[u] \in Working => taken'[u] > 0
  BY <1>1, <1>3, <1>6 DEF PinInv
<1>8. \A u \in Pinnable :
        pc'[u] \in BenchLabels \ {"bench"} => cpuset'[u] = "pinned"
  BY <1>0, <1>5, <1>6 DEF PinInv
<1> QED
  BY <1>1, <1>5, <1>7, <1>8 DEF PinInv

LEMMA PinWorker ==
  ASSUME TypeInv, PinInv, NEW t \in Threads, WorkerAction(t)
  PROVE  PinInv'
<1>0. /\ pc \in [Threads -> WorkerLabels]
      /\ taken \in [Threads -> Nat]
      /\ queue \in [Threads -> Seq(Commands)]
      /\ Pinnable \subseteq Threads
  BY BenchAssumption DEF TypeInv, TypeOK, Threads
<1>1. UNCHANGED <<affinity, cpuset, mpc, mt>>
  BY DEF WorkerAction, Fetch, Wait, Wake, SpuriousWake, Timeout, Initialize,
     StartRun, Complete, ExitBarrier, ExitDone, innerVars, mainVars
<1>2. CASE Fetch(t)
  <2>1. PICK label \in {"init", "complete", "run", "exit"} :
               pc' = [pc EXCEPT ![t] = label]
    BY <1>2 DEF Fetch, Continue, Goto, Entry
  <2>2. /\ taken'[t] > 0
        /\ t \in Pinnable => Pinned(t)
        /\ \A u \in Threads \ {t} : /\ taken'[u] = taken[u]
                                    /\ queue'[u] = queue[u]
                                    /\ pc'[u] = pc[u]
    BY <1>0, <1>2, <2>1 DEF Fetch, PinInv
  <2>3. pc'[t] \notin BenchLabels
    BY <1>0, <2>1 DEF BenchLabels
  <2> QED
    BY <1>0, <1>1, <2>2, <2>3 DEF PinInv, Pinned
<1>3. ASSUME UNCHANGED <<taken, queue>>, NEW label,
             pc' = [pc EXCEPT ![t] = label],
             label \notin BenchLabels \ {"bench"},
             label \in Working => pc[t] \in Working
      PROVE  PinInv'
  BY <1>0, <1>1, <1>3 DEF PinInv, Pinned
<1>4. CASE Wait(t) \/ Wake(t) \/ SpuriousWake(t) \/ Timeout(t)
  <2>1. \A label \in {"waiting", "fetch", "exit"} : label \notin Working
    BY DEF Working, BenchLabels
  <2> QED
    BY <1>3, <1>4, <2>1 DEF Wait, Wake, SpuriousWake, Timeout, Continue, Goto, cmdVars,
       Working
<1>5. CASE Initialize(t) \/ StartRun(t)
  BY <1>3, <1>5 DEF Initialize, StartRun, Continue, Goto, At, cmdVars, Working,
     BenchLabels
<1>6. CASE Complete(t) \/ ExitBarrier(t) \/ ExitDone(t)
  BY <1>3, <1>6 DEF Complete, ExitBarrier, ExitDone, Arrive, Goto, cmdVars, Working,
     BenchLabels
<1> QED
  BY <1>2, <1>4, <1>5, <1>6 DEF WorkerAction

LEMMA PinMain ==
  ASSUME TypeInv, PinInv, MainAction
  PROVE  PinInv'
<1>0. /\ pc \in [Threads -> WorkerLabels]
      /\ affinity \in [Threads -> {"process", "pinned"}]
      /\ queue \in [Threads -> Seq(Commands)]
      /\ Pinnable \subseteq Threads /\ NumThreads \in Nat /\ mt \in Threads
  BY BenchAssumption DEF TypeInv, TypeOK, BenchTypeOK, Threads
<1>1. CASE CreateThread
  <2>1. /\ UNCHANGED <<taken, queue, affinity, cpuset, mt>>
        /\ pc' = [pc EXCEPT ![mt] = "fetch"]
        /\ mpc = "create" /\ mpc' = "affinity"
    BY <1>1 DEF CreateThread, Continue, Goto, MainAt, cmdVars, innerVars
  <2>2. "fetch" \notin Working /\ "fetch" \notin BenchLabels
    BY DEF Working, BenchLabels
  <2> QED
    BY <1>0, <2>1, <2>2 DEF PinInv, Pinned
<1>2. CASE SetAffinity
  <2>1. /\ UNCHANGED <<taken, queue, cpuset, pc>>
        /\ \A u \in Pinnable : Pinned(u) => Pinned(u)'
        /\ mt \in Pinnable => affinity'[mt] = "pinned"
        /\ mpc = "affinity"
        /\ \/ mt' = mt + 1 /\ mpc' = "create"
           \/ mt >= NumThreads - 1 /\ mpc' = "send"
    BY <1>0, <1>2 DEF SetAffinity, innerVars, cmdVars, MainAt, NextThread, Pinned,
       Threads
  <2>2. \A u \in Pinnable : u < mt + 1 => Pinned(u)'
    <3> SUFFICES ASSUME NEW u \in Pinnable, u < mt + 1 PROVE Pinned(u)'
      OBVIOUS
    <3>1. u < mt \/ u = mt
      BY <1>0 DEF Threads
    <3> QED
      BY <2>1, <3>1 DEF PinInv, Pinned
  <2>3. \A u \in Pinnable : mt >= NumThreads - 1 => u < mt + 1
    BY <1>0 DEF Threads
  <2>4. /\ \A u \in Threads : pc'[u] \in Working => taken'[u] > 0
        /\ \A u \in Pinnable : taken'[u] > 0 \/ queue'[u] # <<>> => Pinned(u)'
        /\ \A u \in Pinnable :
             pc'[u] \in BenchLabels \ {"bench"} => cpuset'[u] = "pinned"
    BY <2>1 DEF PinInv
  <2>5. mpc' \in {"create", "affinity"} =>
          \A u \in Pinnable : u < mt' => Pinned(u)'
    BY <2>1, <2>2
  <2>6. mpc' = "send" => \A u \in Pinnable : Pinned(u)'
    BY <2>1, <2>2, <2>3
  <2> QED
    BY <2>4, <2>5, <2>6 DEF PinInv
<1>3. CASE SendCmd
  <2>1. /\ UNCHANGED <<taken, affinity, cpuset, pc>>
        /\ mpc = "send" /\ mpc' \in {"send", "join"}
    BY <1>3 DEF SendCmd, MainAt, NextThread, benchVars
  <2> QED
    BY <2>1 DEF PinInv, Pinned
<1>4. CASE MainAction /\ ~ CreateThread /\ ~ SetAffinity /\ ~ SendCmd
  <2>1. /\ UNCHANGED <<taken, queue, affinity, cpuset, pc>>
        /\ mpc' \notin {"create", "affinity", "send"}
    BY <1>4 DEF MainAction, CreateFails, SendFails, Join, UpdateResults, ReleaseStreams,
       DestroyThreads, MainOut, NextThread, benchVars, cmdVars
  <2> QED
    BY <2>1 DEF PinInv, Pinned
<1> QED
  BY <1>1, <1>2, <1>3, <1>4

LEMMA PinNext == TypeInv /\ PinInv /\ [Next]_vars => PinInv'
<1> SUFFICES ASSUME TypeInv, PinInv, [Next]_vars PROVE PinInv'
  OBVIOUS
<1>1. CASE UNCHANGED vars
  BY <1>1 DEF PinInv, Pinned, vars, benchVars, groupVars, mainVars, cmdVars
<1> QED
  BY <1>1, PinBench, PinWorker, PinMain, StepCases

\* A thread whose hwthread may be used initialises and computes on it and
\* nowhere else, though it is pinned from outside after it has started.
THEOREM WorksOnItsHwthread == Spec => []WorksPinned
<1>1. TypeInv /\ PinInv => WorksPinned
  <2> SUFFICES ASSUME TypeInv, PinInv, NEW t \in Pinnable, pc[t] \in Working
               PROVE  affinity[t] = "pinned"
    BY DEF WorksPinned, Working
  <2>1. t \in Threads
    BY BenchAssumption DEF Threads
  <2> QED
    BY <2>1 DEF PinInv, Pinned
<1> QED
  BY <1>1, TypeInit, TypeNext, PinInit, PinNext, PTL DEF Spec

-----------------------------------------------------------------------------
(* KernelReady: a thread that calls the kernel finds the kernel function   *)
(* set and the data of its whole workgroup initialised.  The argument      *)
(* counts barriers.  A thread that has yet to initialise has entered at    *)
(* most one barrier per command taken, and two more if a timeout has sent  *)
(* it to exit_thread; a thread that calls the kernel has passed one        *)
(* barrier for every earlier command, INITIALIZE included, and three in    *)
(* run_benchmark.  The workgroup being in lockstep, both cannot hold.      *)

\* INITIALIZE is sent, and no RUN before it.
InitializeAt(i) ==
  /\ i \in 1 .. Len(Script)
  /\ Script[i] = "INITIALIZE"
  /\ \A j \in 1 .. i : Script[j] # "RUN"

\* barriers entered, counted against commands taken: at least ...
Floor(label) ==
  CASE label \in {"none", "fetch", "waiting", "loop"}     -> 0
    [] label \in {"timer", "calibrate", "freqread"}       -> 1
    [] label \in {"round", "roundstop", "exec", "exectimer", "execkernel",
                  "execstop", "finish", "reset"}          -> 2
    [] OTHER                                              -> -1

\* ... and at most, as long as INITIALIZE has not been executed
Ceiling(label) ==
  CASE label \in {"init", "complete"} -> -1
    [] label = "exitdone"             -> 1
    [] label = "exited"               -> 2
    [] OTHER                          -> 0

\* thread t has yet to execute the command at place i
Pending(t, i) == taken[t] < i \/ (taken[t] = i /\ pc[t] = "init")

Running(t) == pc[t] \in BenchLabels \cup {"run"}

KernelInv(i) ==
  \A t \in Threads :
    /\ arrivals[t] >= taken[t] + Floor(pc[t])
    /\ Running(t) => taken[t] \in 1 .. Len(Script) /\ Script[taken[t]] = "RUN"
    /\ Pending(t, i) => arrivals[t] <= taken[t] + Ceiling(pc[t])
    /\ ~ Pending(t, i) => \A s \in PerThread : <<t, s>> \in initialised
    /\ \A n \in 1 .. Received(t) : Script[n] = "RUN" => t \in func

-----------------------------------------------------------------------------

\* The steps of run_benchmark: where they lead, and through which barriers.
LEMMA BenchMoves ==
  ASSUME TypeInv, NEW t \in Threads, run_benchmark(t)
  PROVE  /\ pc[t] \in BenchLabels
         /\ t \notin blocked
         /\ \E label \in (BenchLabels \cup {"complete"}) \ {"bench"} :
              \/ Continue(t, label) /\ Floor(label) <= Floor(pc[t])
              \/ Arrive(t, label) /\ Floor(label) <= Floor(pc[t]) + 1
<1> USE DEF At, BenchLabels, Floor
<1>1. CASE Enter(t)
  BY <1>1 DEF Enter
<1>2. CASE EnterLoop(t)
  BY <1>2 DEF EnterLoop
<1>3. CASE TimerInit(t)
  BY <1>3 DEF TimerInit
<1>4. CASE Calibrate(t)
  BY <1>4 DEF Calibrate
<1>5. CASE ReadFreq(t)
  BY <1>5 DEF ReadFreq
<1>6. CASE Round(t)
  BY <1>6 DEF Round
<1>7. CASE RoundStop(t)
  BY <1>7 DEF RoundStop
<1>8. CASE Execute(t)
  BY <1>8 DEF Execute
<1>9. CASE ExecuteTimer(t)
  BY <1>9 DEF ExecuteTimer
<1>10. CASE ExecuteKernel(t)
  BY <1>10 DEF ExecuteKernel
<1>11. CASE ExecuteStop(t)
  BY <1>11 DEF ExecuteStop
<1>12. CASE Finish(t)
  BY <1>12 DEF Finish
<1>13. CASE ResetAffinity(t)
  BY <1>13 DEF ResetAffinity
<1> QED
  BY <1>1, <1>2, <1>3, <1>4, <1>5, <1>6, <1>7, <1>8, <1>9, <1>10, <1>11,
     <1>12, <1>13 DEF run_benchmark

\* The steps of _func_t that take no command and do not initialise.
LEMMA WorkerMoves ==
  ASSUME TypeInv, NEW t \in Threads, WorkerAction(t), ~ Fetch(t), ~ Initialize(t)
  PROVE  /\ UNCHANGED <<queue, taken, func, initialised>>
         /\ t \notin blocked
         /\ pc[t] # "init"
         /\ \E label \in WorkerLabels \ {"init"} :
              /\ label \in BenchLabels \cup {"run"} => pc[t] = "run"
              /\ \/ /\ Continue(t, label)
                    /\ Floor(label) <= Floor(pc[t])
                    /\ pc[t] # "run" => Ceiling(pc[t]) <= Ceiling(label)
                 \/ /\ Arrive(t, label)
                    /\ Floor(label) <= Floor(pc[t]) + 1
                    /\ Ceiling(pc[t]) + 1 <= Ceiling(label)
<1> USE DEF At, BenchLabels, WorkerLabels, Floor, Ceiling
<1>1. CASE Wait(t)
  BY <1>1 DEF Wait, cmdVars
<1>2. CASE Wake(t)
  BY <1>2 DEF Wake
<1>3. CASE SpuriousWake(t)
  BY <1>3 DEF SpuriousWake, cmdVars
<1>4. CASE Timeout(t)
  BY <1>4 DEF Timeout, cmdVars
<1>5. CASE StartRun(t)
  BY <1>5 DEF StartRun
<1>6. CASE Complete(t)
  BY <1>6 DEF Complete
<1>7. CASE ExitBarrier(t)
  BY <1>7 DEF ExitBarrier, cmdVars
<1>8. CASE ExitDone(t)
  BY <1>8 DEF ExitDone
<1> QED
  BY <1>1, <1>2, <1>3, <1>4, <1>5, <1>6, <1>7, <1>8 DEF WorkerAction

\* One thread moves without taking a command or initialising.
LEMMA KernelMove ==
  ASSUME TypeInv, NEW i, InitializeAt(i), KernelInv(i),
         NEW t \in Threads, NEW label \in WorkerLabels,
         UNCHANGED <<queue, taken, func, initialised>>,
         pc[t] # "init", label # "init",
         label \in BenchLabels \cup {"run"} => Running(t),
         \/ /\ Continue(t, label)
            /\ Floor(label) <= Floor(pc[t])
            /\ ~ Running(t) => Ceiling(pc[t]) <= Ceiling(label)
         \/ /\ Arrive(t, label)
            /\ Floor(label) <= Floor(pc[t]) + 1
            /\ ~ Running(t) => Ceiling(pc[t]) + 1 <= Ceiling(label)
  PROVE  KernelInv(i)'
<1>1. /\ arrivals \in [Threads -> Nat] /\ taken \in [Threads -> Nat]
      /\ pc \in [Threads -> WorkerLabels]
  BY DEF TypeInv, TypeOK, BenchTypeOK
<1>n. Len(Script) \in Nat
  BY ThreadGroupAssumption
<1>i. i \in Nat
  BY <1>n DEF InitializeAt
<1>f. /\ Floor(label) \in Int /\ Floor(pc[t]) \in Int
      /\ Ceiling(label) \in Int /\ Ceiling(pc[t]) \in Int
  BY DEF Floor, Ceiling
<1>2. pc' = [pc EXCEPT ![t] = label]
  BY DEF Continue, Arrive, Goto
<1>3. /\ \A u \in Threads \ {t} : arrivals'[u] = arrivals[u] /\ pc'[u] = pc[u]
      /\ pc'[t] = label
      /\ \/ /\ arrivals'[t] = arrivals[t]
            /\ Floor(label) <= Floor(pc[t])
            /\ ~ Running(t) => Ceiling(pc[t]) <= Ceiling(label)
         \/ /\ arrivals'[t] = arrivals[t] + 1
            /\ Floor(label) <= Floor(pc[t]) + 1
            /\ ~ Running(t) => Ceiling(pc[t]) + 1 <= Ceiling(label)
  BY <1>1, <1>2 DEF Continue, Arrive
<1>4. Running(t) => ~ Pending(t, i)
  <2> SUFFICES ASSUME Running(t), Pending(t, i) PROVE FALSE
    OBVIOUS
  <2>1. taken[t] \in 1 .. Len(Script) /\ Script[taken[t]] = "RUN"
    BY DEF KernelInv
  <2>2. taken[t] < i
    BY DEF Pending
  <2> QED
    BY <1>1, <1>i, <1>n, <2>1, <2>2 DEF InitializeAt
<1>5. \A u \in Threads : Pending(u, i)' <=> Pending(u, i)
  BY <1>3 DEF Pending
<1>6. \A u \in Threads : Received(u)' = Received(u)
  BY DEF Received
<1>7. arrivals'[t] >= taken'[t] + Floor(pc'[t])
  <2>1. arrivals[t] >= taken[t] + Floor(pc[t])
    BY DEF KernelInv
  <2> QED
    BY <1>1, <1>f, <1>3, <2>1
<1>8. Pending(t, i)' => arrivals'[t] <= taken'[t] + Ceiling(pc'[t])
  <2>1. Pending(t, i) => arrivals[t] <= taken[t] + Ceiling(pc[t])
    BY DEF KernelInv
  <2> QED
    BY <1>1, <1>f, <1>3, <1>4, <1>5, <2>1
<1>9. Running(t)' => Running(t)
  BY <1>3 DEF Running
<1>10. \A u \in Threads \ {t} : Running(u)' = Running(u)
  BY <1>3 DEF Running
<1> QED
  BY <1>3, <1>5, <1>6, <1>7, <1>8, <1>9, <1>10 DEF KernelInv

\* A thread takes a command.
LEMMA KernelFetch ==
  ASSUME TypeInv, QueueInv, NEW i, InitializeAt(i), KernelInv(i),
         NEW t \in Threads, Fetch(t)
  PROVE  KernelInv(i)'
<1>1. /\ arrivals \in [Threads -> Nat] /\ taken \in [Threads -> Nat]
      /\ pc \in [Threads -> WorkerLabels]
      /\ queue \in [Threads -> Seq(Commands)]
  BY DEF TypeInv, TypeOK, BenchTypeOK
<1>n. Len(Script) \in Nat
  BY ThreadGroupAssumption
<1>i. i \in Nat /\ i >= 1
  BY <1>n DEF InitializeAt
<1>2. /\ pc[t] = "fetch" /\ queue[t] # <<>>
      /\ queue' = [queue EXCEPT ![t] = Tail(@)]
      /\ taken' = [taken EXCEPT ![t] = @ + 1]
      /\ pc' = [pc EXCEPT ![t] = Entry(Head(queue[t]))]
      /\ UNCHANGED <<arrivals, func, initialised>>
  BY DEF Fetch, At, Continue, Goto
<1> DEFINE cmd == Script[taken[t] + 1]
<1>3. /\ Head(queue[t]) = cmd
      /\ taken[t] + 1 <= Len(Script)
      /\ Len(queue[t]) \in Nat
      /\ Len(Tail(queue[t])) = Len(queue[t]) - 1
  BY <1>2, NextCommand
<1>4. /\ pc'[t] = Entry(cmd)
      /\ taken'[t] = taken[t] + 1
      /\ arrivals'[t] = arrivals[t]
      /\ \A u \in Threads \ {t} : /\ pc'[u] = pc[u]
                                  /\ taken'[u] = taken[u]
                                  /\ queue'[u] = queue[u]
  BY <1>1, <1>2, <1>3
<1>5. \A u \in Threads : Received(u)' = Received(u)
  <2>1. Received(t)' = Received(t)
    BY <1>1, <1>2, <1>3 DEF Received
  <2> QED
    BY <1>4, <2>1 DEF Received
<1>6. /\ Entry(cmd) \in {"init", "complete", "run", "exit"}
      /\ Entry(cmd) = "run" => cmd = "RUN"
      /\ cmd = "INITIALIZE" => Entry(cmd) = "init"
  BY DEF Entry
<1>7. arrivals'[t] >= taken'[t] + Floor(pc'[t])
  <2>1. Floor(pc'[t]) = -1
    BY <1>4, <1>6 DEF Floor
  <2>2. arrivals[t] >= taken[t] + 0
    BY <1>2 DEF KernelInv, Floor
  <2> QED
    BY <1>1, <1>4, <2>1, <2>2
<1>8. Running(t)' => taken'[t] \in 1 .. Len(Script) /\ Script[taken'[t]] = "RUN"
  <2>1. Running(t)' => Entry(cmd) = "run"
    BY <1>4, <1>6 DEF Running, BenchLabels
  <2>2. taken[t] + 1 \in 1 .. Len(Script)
    BY <1>1, <1>3, <1>n
  <2> QED
    BY <1>4, <1>6, <2>1, <2>2
<1>9. ASSUME Pending(t, i)' PROVE arrivals'[t] <= taken'[t] + Ceiling(pc'[t])
  <2>1. taken[t] < i
    BY <1>1, <1>4, <1>9, <1>i DEF Pending
  <2>2. arrivals[t] <= taken[t] + 0
    BY <1>2, <2>1 DEF KernelInv, Pending, Ceiling
  <2>3. Ceiling(pc'[t]) \in {-1, 0}
    BY <1>4, <1>6 DEF Ceiling
  <2> QED
    BY <1>1, <1>4, <2>2, <2>3
<1>10. ASSUME ~ Pending(t, i)' PROVE \A s \in PerThread : <<t, s>> \in initialised'
  <2>1. ~ (taken[t] + 1 < i) /\ ~ (taken[t] + 1 = i /\ Entry(cmd) = "init")
    BY <1>4, <1>10 DEF Pending
  <2>2. taken[t] + 1 # i
    BY <1>6, <2>1 DEF InitializeAt
  <2>3. ~ (taken[t] < i) /\ pc[t] # "init"
    BY <1>1, <1>2, <1>i, <2>1, <2>2
  <2>4. ~ Pending(t, i)
    BY <2>3 DEF Pending
  <2> QED
    BY <1>2, <2>4 DEF KernelInv
<1>11. \A n \in 1 .. Received(t)' : Script[n] = "RUN" => t \in func'
  BY <1>2, <1>5 DEF KernelInv
<1>12. \A u \in Threads \ {t} :
         /\ arrivals'[u] >= taken'[u] + Floor(pc'[u])
         /\ Running(u)' => /\ taken'[u] \in 1 .. Len(Script)
                           /\ Script[taken'[u]] = "RUN"
         /\ Pending(u, i)' => arrivals'[u] <= taken'[u] + Ceiling(pc'[u])
         /\ ~ Pending(u, i)' => \A s \in PerThread : <<u, s>> \in initialised'
         /\ \A n \in 1 .. Received(u)' : Script[n] = "RUN" => u \in func'
  <2>1. \A u \in Threads \ {t} : /\ Running(u)' <=> Running(u)
                                 /\ Pending(u, i)' <=> Pending(u, i)
    BY <1>4 DEF Running, Pending
  <2> QED
    BY <1>2, <1>4, <1>5, <2>1 DEF KernelInv
<1> QED
  BY <1>7, <1>8, <1>9, <1>10, <1>11, <1>12 DEF KernelInv

\* A thread initialises.
LEMMA KernelInitialize ==
  ASSUME TypeInv, NEW i, InitializeAt(i), KernelInv(i),
         NEW t \in Threads, Initialize(t)
  PROVE  KernelInv(i)'
<1>1. /\ pc \in [Threads -> WorkerLabels]
      /\ PerThread \subseteq Streams
  BY ThreadGroupAssumption DEF TypeInv, TypeOK
<1>2. /\ pc[t] = "init"
      /\ pc' = [pc EXCEPT ![t] = "complete"]
      /\ UNCHANGED <<arrivals, taken, queue, func>>
      /\ initialised \subseteq initialised'
      /\ \A s \in PerThread : <<t, s>> \in initialised'
  BY <1>1 DEF Initialize, initialize_local, At, Continue, Goto, cmdVars
<1>3. /\ pc'[t] = "complete"
      /\ \A u \in Threads \ {t} : pc'[u] = pc[u]
  BY <1>1, <1>2
<1>4. /\ Floor(pc'[t]) = Floor(pc[t]) /\ Ceiling(pc'[t]) = Ceiling(pc[t])
      /\ ~ Running(t)'
      /\ Pending(t, i)' => Pending(t, i)
  BY <1>2, <1>3 DEF Floor, Ceiling, Running, BenchLabels, Pending
<1>5. \A u \in Threads \ {t} : /\ Running(u)' <=> Running(u)
                               /\ Pending(u, i)' <=> Pending(u, i)
  BY <1>2, <1>3 DEF Running, Pending
<1>6. \A u \in Threads : Received(u)' = Received(u)
  BY <1>2 DEF Received
<1>7. \A u \in Threads :
        /\ arrivals'[u] >= taken'[u] + Floor(pc'[u])
        /\ Running(u)' => /\ taken'[u] \in 1 .. Len(Script)
                          /\ Script[taken'[u]] = "RUN"
        /\ Pending(u, i)' => arrivals'[u] <= taken'[u] + Ceiling(pc'[u])
  BY <1>2, <1>3, <1>4, <1>5 DEF KernelInv
<1>8. \A u \in Threads : ~ Pending(u, i)' =>
        \A s \in PerThread : <<u, s>> \in initialised'
  BY <1>2, <1>5 DEF KernelInv
<1>9. \A u \in Threads :
        \A n \in 1 .. Received(u)' : Script[n] = "RUN" => u \in func'
  BY <1>2, <1>6 DEF KernelInv
<1> QED
  BY <1>7, <1>8, <1>9 DEF KernelInv

\* main adds a thread to func before it sends RUN to it.
LEMMA KernelSend ==
  ASSUME TypeInv, QueueInv, NEW i, KernelInv(i), SendCmd
  PROVE  KernelInv(i)'
<1>1. /\ queue \in [Threads -> Seq(Commands)]
      /\ taken \in [Threads -> Nat]
      /\ mt \in Threads /\ mk \in 1 .. Len(Script)
      /\ mpc = "send"
  BY DEF TypeInv, TypeOK, SendCmd, MainAt
<1>2. Len(Script) \in Nat /\ Script[mk] \in Commands
  BY <1>1, ThreadGroupAssumption
<1>3. /\ queue' = [queue EXCEPT ![mt] = Append(@, Script[mk])]
      /\ func' = IF Script[mk] = "RUN" THEN func \cup {mt} ELSE func
      /\ UNCHANGED <<pc, arrivals, taken, initialised>>
  BY DEF SendCmd, benchVars
<1>4. Received(mt) = mk - 1
  <2>1. ~ aborted
    BY <1>1 DEF QueueInv
  <2>2. Received(mt) = Sent(mt)
    BY <1>1, <2>1 DEF QueueInv
  <2> QED
    BY <1>1, <1>2, <2>2, BenchAssumption DEF Sent, Threads
<1>5. taken[mt] + Len(queue'[mt]) = mk
  <2>1. Len(queue'[mt]) = Len(queue[mt]) + 1 /\ Len(queue[mt]) \in Nat
    BY <1>1, <1>2, <1>3
  <2> QED
    BY <1>1, <1>2, <1>4, <2>1 DEF Received
<1>6. \A u \in Threads \ {mt} : Received(u)' = Received(u)
  BY <1>1, <1>3 DEF Received
<1>7. ASSUME NEW u \in Threads, NEW n \in 1 .. Received(u)', Script[n] = "RUN"
      PROVE  u \in func'
  <2>1. CASE u = mt
    <3>1. Received(u)' = mk
      BY <1>3, <1>5, <2>1 DEF Received
    <3>2. n = mk \/ n \in 1 .. mk - 1
      BY <1>1, <1>2, <3>1
    <3>3. CASE n = mk
      BY <1>3, <1>7, <2>1, <3>3
    <3>4. CASE n \in 1 .. mk - 1
      BY <1>3, <1>4, <1>7, <2>1, <3>4 DEF KernelInv
    <3> QED
      BY <3>2, <3>3, <3>4
  <2>2. CASE u # mt
    BY <1>3, <1>6, <1>7, <2>2 DEF KernelInv
  <2> QED
    BY <2>1, <2>2
<1> QED
  BY <1>3, <1>7 DEF KernelInv, Running, Pending

LEMMA KernelInit ==
  ASSUME NEW i, InitializeAt(i), Init
  PROVE  KernelInv(i)
<1>1. Len(Script) \in Nat /\ Len(<<>>) = 0
  BY ThreadGroupAssumption
<1>2. i >= 1 /\ i \in Nat
  BY <1>1 DEF InitializeAt
<1>3. \A t \in Threads : /\ pc[t] = "none" /\ taken[t] = 0 /\ arrivals[t] = 0
                         /\ queue[t] = <<>>
  BY DEF Init, BenchInit
<1>4. \A t \in Threads : Pending(t, i) /\ ~ Running(t) /\ Received(t) = 0
  BY <1>1, <1>2, <1>3 DEF Pending, Running, Received, BenchLabels
<1> QED
  BY <1>3, <1>4 DEF KernelInv, Floor, Ceiling

LEMMA KernelNext ==
  ASSUME TypeInv, QueueInv, MainInv, NEW i, InitializeAt(i), KernelInv(i),
         [Next]_vars
  PROVE  KernelInv(i)'
<1>0. mt \in Threads
  BY DEF TypeInv, TypeOK
<1>1. ASSUME UNCHANGED <<pc, arrivals, taken, queue, initialised>>,
             func \subseteq func'
      PROVE  KernelInv(i)'
  BY <1>1 DEF KernelInv, Running, Pending, Received
<1>2. CASE UNCHANGED vars
  BY <1>1, <1>2 DEF vars, benchVars, groupVars, cmdVars
<1>3. ASSUME NEW t \in Threads, run_benchmark(t), UNCHANGED groupVars
      PROVE  KernelInv(i)'
  <2>1. /\ UNCHANGED <<queue, taken, func, initialised>>
        /\ Running(t) /\ pc[t] # "init"
        /\ \A label \in BenchLabels \cup {"complete"} :
             label \in WorkerLabels /\ label # "init"
    BY <1>3, BenchMoves DEF groupVars, cmdVars, Running, BenchLabels, WorkerLabels
  <2>2. PICK label \in (BenchLabels \cup {"complete"}) \ {"bench"} :
          \/ Continue(t, label) /\ Floor(label) <= Floor(pc[t])
          \/ Arrive(t, label) /\ Floor(label) <= Floor(pc[t]) + 1
    BY <1>3, BenchMoves
  <2> QED
    BY <2>1, <2>2, KernelMove
<1>4. ASSUME NEW t \in Threads, WorkerAction(t)
      PROVE  KernelInv(i)'
  <2>1. CASE Fetch(t)
    BY <2>1, KernelFetch
  <2>2. CASE Initialize(t)
    BY <2>2, KernelInitialize
  <2>3. CASE ~ Fetch(t) /\ ~ Initialize(t)
    <3>1. /\ UNCHANGED <<queue, taken, func, initialised>>
          /\ pc[t] # "init"
      BY <1>4, <2>3, WorkerMoves
    <3>2. PICK label \in WorkerLabels \ {"init"} :
              /\ label \in BenchLabels \cup {"run"} => pc[t] = "run"
              /\ \/ /\ Continue(t, label)
                    /\ Floor(label) <= Floor(pc[t])
                    /\ pc[t] # "run" => Ceiling(pc[t]) <= Ceiling(label)
                 \/ /\ Arrive(t, label)
                    /\ Floor(label) <= Floor(pc[t]) + 1
                    /\ Ceiling(pc[t]) + 1 <= Ceiling(label)
      BY <1>4, <2>3, WorkerMoves
    <3>3. pc[t] = "run" => Running(t)
      BY DEF Running
    <3> QED
      BY <3>1, <3>2, <3>3, KernelMove
  <2> QED
    BY <2>1, <2>2, <2>3
<1>5. CASE CreateThread
  <2>1. pc[mt] = "none"
    BY <1>0, <1>5, BenchAssumption DEF CreateThread, MainAt, MainInv, Threads
  <2>2. /\ Continue(mt, "fetch")
        /\ UNCHANGED <<queue, taken, func, initialised>>
    BY <1>5 DEF CreateThread, cmdVars
  <2>3. /\ "fetch" \in WorkerLabels
        /\ "fetch" \notin BenchLabels \cup {"run"}
        /\ Floor("fetch") <= Floor(pc[mt])
        /\ Ceiling(pc[mt]) <= Ceiling("fetch")
    BY <2>1 DEF WorkerLabels, BenchLabels, Floor, Ceiling
  <2> QED
    BY <1>0, <2>1, <2>2, <2>3, KernelMove
<1>6. CASE SendCmd
  BY <1>6, KernelSend
<1>7. CASE MainAction /\ ~ CreateThread /\ ~ SendCmd
  BY <1>1, <1>7 DEF MainAction, CreateFails, SetAffinity, SendFails, Join,
     UpdateResults, ReleaseStreams, DestroyThreads, MainOut, benchVars, cmdVars,
     innerVars
<1> QED
  BY <1>2, <1>3, <1>4, <1>5, <1>6, <1>7, StepCases

\* A thread at the kernel has passed more barriers than a thread that has yet
\* to initialise can have entered.
LEMMA KernelInvReady ==
  ASSUME TypeInv, BarrierLockstep, QueueInv, NEW i, InitializeAt(i), KernelInv(i)
  PROVE  KernelReady
<1> SUFFICES ASSUME NEW t \in Threads, pc[t] \in KernelLabels, t \notin blocked
             PROVE  /\ t \in func
                    /\ \A u \in Members(t), s \in PerThread :
                         <<u, s>> \in initialised
  BY DEF KernelReady
<1>1. /\ arrivals \in [Threads -> Nat] /\ taken \in [Threads -> Nat]
      /\ queue \in [Threads -> Seq(Commands)]
  BY DEF TypeInv, TypeOK, BenchTypeOK
<1>n. Len(Script) \in Nat /\ Len(queue[t]) \in Nat
  BY <1>1, ThreadGroupAssumption
<1>i. i \in Nat
  BY <1>n DEF InitializeAt
<1>2. Running(t) /\ Floor(pc[t]) = 2
  BY DEF Running, KernelLabels, BenchLabels, Floor
<1>3. /\ taken[t] \in 1 .. Len(Script)
      /\ Script[taken[t]] = "RUN"
      /\ arrivals[t] >= taken[t] + 2
  BY <1>2 DEF KernelInv
<1>4. taken[t] > i
  BY <1>1, <1>i, <1>3 DEF InitializeAt
<1>5. t \in func
  <2>1. taken[t] \in 1 .. Received(t)
    BY <1>1, <1>n, <1>3 DEF Received
  <2> QED
    BY <1>3, <2>1 DEF KernelInv
<1>6. ASSUME NEW u \in Members(t) PROVE ~ Pending(u, i)
  <2> SUFFICES ASSUME Pending(u, i) PROVE FALSE
    OBVIOUS
  <2>1. u \in Threads /\ Passed(u) = Passed(t)
    BY DEF Members, BarrierLockstep
  <2>2. Passed(t) = arrivals[t] /\ Passed(u) <= arrivals[u]
    BY <1>1, <2>1 DEF Passed
  <2>3. arrivals[u] <= taken[u] + Ceiling(pc[u])
    BY <2>1 DEF KernelInv
  <2>4. taken[u] + Ceiling(pc[u]) <= i + 1
    <3>1. CASE taken[u] < i
      <4>1. Ceiling(pc[u]) \in {-1, 0, 1, 2}
        BY DEF Ceiling
      <4> QED
        BY <1>1, <1>i, <2>1, <3>1, <4>1
    <3>2. CASE taken[u] = i /\ pc[u] = "init"
      <4>1. Ceiling(pc[u]) = -1
        BY <3>2 DEF Ceiling
      <4> QED
        BY <1>i, <3>2, <4>1
    <3> QED
      BY <3>1, <3>2 DEF Pending
  <2>5. Ceiling(pc[u]) \in Int
    BY DEF Ceiling
  <2>6. arrivals[u] <= i + 1
    BY <1>1, <1>i, <2>1, <2>3, <2>4, <2>5
  <2>7. arrivals[t] >= i + 3
    BY <1>1, <1>i, <1>3, <1>4
  <2> QED
    BY <1>1, <1>i, <2>1, <2>2, <2>6, <2>7 DEF Passed
<1>7. \A u \in Members(t), s \in PerThread : <<u, s>> \in initialised
  BY <1>6 DEF KernelInv, Members
<1> QED
  BY <1>5, <1>7

\* If the script sends INITIALIZE before its first RUN, a thread that calls
\* the kernel finds the kernel function set and the chunks of its whole
\* workgroup written, with timeouts and failing calls of main included.
THEOREM KernelFindsData ==
  ASSUME NEW i, InitializeAt(i)
  PROVE  Spec => []KernelReady
<1> DEFINE Inv == TypeInv /\ BarrierLockstep /\ QueueInv /\ MainInv /\ KernelInv(i)
<1>1. Init => Inv
  BY TypeInit, LockstepInit, QueueInit, MainInit, KernelInit
<1>2. Inv /\ [Next]_vars => Inv'
  BY TypeNext, LockstepNext, QueueNext, MainNext, KernelNext
<1>3. Inv => KernelReady
  BY KernelInvReady
<1> QED
  BY <1>1, <1>2, <1>3, PTL DEF Spec
-----------------------------------------------------------------------------
(* What main can rely on when it reports: every thread has taken the whole *)
(* script, and a workgroup has been measured as a whole or not at all.     *)
(* The second is an argument about barriers again.  A thread that leaves   *)
(* without having taken RUN has entered at most two barriers more than it  *)
(* has taken commands; one that has taken RUN has taken more commands and  *)
(* entered at least three barriers more.  In lockstep both cannot leave.   *)

Leaving == {"exit", "exitdone", "exited"}

\* Where the steps lead in which a thread takes no command.
LEMMA WorkerPlaces ==
  ASSUME TypeInv, NEW t \in Threads,
         (run_benchmark(t) /\ UNCHANGED groupVars) \/ (WorkerAction(t) /\ ~ Fetch(t))
  PROVE  /\ UNCHANGED <<taken, queue, mpc, mt, mk, aborted, results>>
         /\ timeouts' = timeouts \/ timeouts' # 0
         /\ \E label \in WorkerLabels \ {"run", "init"} :
              /\ pc' = [pc EXCEPT ![t] = label]
              /\ label \in BenchLabels => Running(t)
              /\ label = "complete" => Running(t) \/ pc[t] = "init"
              /\ label = "exit" => timeouts' # 0
              /\ label \in {"exitdone", "exited"} => pc[t] \in Leaving
<1>0. /\ \A label \in BenchLabels \cup {"complete"} :
           label \in WorkerLabels /\ label \notin {"run", "init", "exit", "exitdone", "exited"}
      /\ \A label \in {"waiting", "fetch", "exit", "complete", "exitdone", "exited"} :
           label \in WorkerLabels \ BenchLabels /\ label \notin {"run", "init"}
      /\ pc[t] = "run" => Running(t)
      /\ \A label \in {"exit", "exitdone"} : label \in Leaving
      /\ "bench" \in BenchLabels
  BY DEF BenchLabels, WorkerLabels, Running, Leaving
<1>1. CASE run_benchmark(t) /\ UNCHANGED groupVars
  <2>1. /\ UNCHANGED <<taken, queue, mpc, mt, mk, aborted, results, timeouts>>
        /\ Running(t)
    BY <1>1, BenchWhere DEF groupVars, mainVars, cmdVars, Running
  <2> QED
    BY <1>0, <1>1, <2>1, BenchWhere
<1>2. CASE WorkerAction(t) /\ ~ Fetch(t)
  <2>1. UNCHANGED <<taken, queue, mpc, mt, mk, aborted, results>>
    BY <1>2 DEF WorkerAction, Wait, Wake, SpuriousWake, Timeout, Initialize,
       StartRun, Complete, ExitBarrier, ExitDone, mainVars, cmdVars
  <2>2. CASE Wait(t) \/ Wake(t) \/ SpuriousWake(t) \/ Complete(t)
    <3>1. PICK label \in {"waiting", "fetch"} : pc' = [pc EXCEPT ![t] = label]
      BY <2>2 DEF Wait, Wake, SpuriousWake, Complete, Continue, Arrive, Goto
    <3>2. UNCHANGED timeouts
      BY <2>2 DEF Wait, Wake, SpuriousWake, Complete
    <3> QED
      BY <1>0, <2>1, <3>1, <3>2
  <2>3. CASE Timeout(t)
    <3>1. timeouts \in Nat
      BY ThreadGroupAssumption DEF TypeInv, TypeOK
    <3>2. PICK label \in {"exit"} : pc' = [pc EXCEPT ![t] = label]
      BY <2>3 DEF Timeout, Continue, Goto
    <3>3. timeouts' # 0
      BY <2>3, <3>1 DEF Timeout
    <3> QED
      BY <1>0, <2>1, <3>2, <3>3
  <2>4. CASE Initialize(t)
    <3>1. /\ pc' = [pc EXCEPT ![t] = "complete"] /\ pc[t] = "init"
          /\ UNCHANGED timeouts
      BY <2>4 DEF Initialize, Continue, Goto, At
    <3> QED
      BY <1>0, <2>1, <3>1
  <2>5. CASE StartRun(t)
    <3>1. /\ pc' = [pc EXCEPT ![t] = "bench"] /\ pc[t] = "run"
          /\ UNCHANGED timeouts
      BY <2>5 DEF StartRun, Continue, Goto, At
    <3> QED
      BY <1>0, <2>1, <3>1
  <2>6. CASE ExitBarrier(t) \/ ExitDone(t)
    <3>1. PICK label \in {"exitdone", "exited"} : pc' = [pc EXCEPT ![t] = label]
      BY <2>6 DEF ExitBarrier, ExitDone, Arrive, Goto
    <3>2. pc[t] \in Leaving /\ UNCHANGED timeouts
      BY <1>0, <2>6 DEF ExitBarrier, ExitDone, At
    <3> QED
      BY <1>0, <2>1, <3>1, <3>2
  <2> QED
    BY <1>2, <2>2, <2>3, <2>4, <2>5, <2>6 DEF WorkerAction
<1> QED
  BY <1>1, <1>2

\* The steps of main leave the workers where they are, but for the creation
\* of a thread.
LEMMA MainPlaces ==
  ASSUME TypeInv, MainInv, MainAction
  PROVE  /\ UNCHANGED <<taken, timeouts>>
         /\ UNCHANGED pc \/ (pc[mt] = "none" /\ pc' = [pc EXCEPT ![mt] = "fetch"])
<1>1. mt \in Threads /\ \A u \in Threads : u >= u
  BY BenchAssumption DEF TypeInv, TypeOK, Threads
<1>2. CASE CreateThread
  BY <1>1, <1>2 DEF CreateThread, MainAt, MainInv, Continue, Goto, cmdVars
<1>3. CASE ~ CreateThread
  BY <1>3 DEF MainAction, CreateFails, SetAffinity, SendCmd, SendFails, Join,
     UpdateResults, ReleaseStreams, DestroyThreads, MainOut, benchVars, cmdVars
<1> QED
  BY <1>2, <1>3

\* Where a thread is tells which command it has taken last.
PlaceInv ==
  \A t \in Threads :
    /\ Running(t) \/ pc[t] \in {"init", "complete"} => taken[t] \in 1 .. Len(Script)
    /\ Running(t) => Script[taken[t]] = "RUN"
    /\ pc[t] = "init" => Script[taken[t]] = "INITIALIZE"
    /\ pc[t] = "complete" => Entry(Script[taken[t]]) # "exit"
    /\ pc[t] = "exit" /\ timeouts = 0 =>
         taken[t] \in 1 .. Len(Script) /\ Entry(Script[taken[t]]) = "exit"

LEMMA PlaceInit == Init => PlaceInv
  BY DEF Init, PlaceInv, Running, BenchLabels

\* A thread takes its next command.
LEMMA PlaceFetch ==
  ASSUME TypeInv, QueueInv, PlaceInv, NEW t \in Threads, Fetch(t)
  PROVE  PlaceInv'
<1>1. /\ pc \in [Threads -> WorkerLabels]
      /\ taken \in [Threads -> Nat]
      /\ Len(Script) \in Nat
  BY ThreadGroupAssumption DEF TypeInv, TypeOK
<1> DEFINE cmd == Script[taken[t] + 1]
<1>2. /\ queue[t] # <<>>
      /\ taken' = [taken EXCEPT ![t] = @ + 1]
      /\ pc' = [pc EXCEPT ![t] = Entry(Head(queue[t]))]
      /\ timeouts' = timeouts
  BY DEF Fetch, Continue, Goto
<1>3. Head(queue[t]) = cmd /\ taken[t] + 1 <= Len(Script)
  BY <1>2, NextCommand
<1>4. /\ pc'[t] = Entry(cmd)
      /\ taken'[t] = taken[t] + 1 /\ taken[t] + 1 \in 1 .. Len(Script)
      /\ \A u \in Threads \ {t} : pc'[u] = pc[u] /\ taken'[u] = taken[u]
  BY <1>1, <1>2, <1>3
<1>5. /\ Entry(cmd) \in {"init", "run", "complete", "exit"}
      /\ Entry(cmd) = "init" => cmd = "INITIALIZE"
      /\ Entry(cmd) = "run" => cmd = "RUN"
  BY DEF Entry
<1>6. \A label \in {"init", "complete", "exit"} : label \notin BenchLabels \cup {"run"}
  BY DEF BenchLabels
<1> HIDE DEF cmd
<1>7. Script[taken'[t]] = cmd
  BY <1>4 DEF cmd
<1>8. /\ Running(t)' => cmd = "RUN"
      /\ taken'[t] \in 1 .. Len(Script)
      /\ pc'[t] = "init" => cmd = "INITIALIZE"
      /\ pc'[t] = "complete" => Entry(cmd) # "exit"
      /\ pc'[t] = "exit" => Entry(cmd) = "exit"
  BY <1>4, <1>5, <1>6 DEF Running
<1>9. \A u \in Threads \ {t} : Running(u)' <=> Running(u)
  BY <1>4 DEF Running
<1> QED
  BY <1>2, <1>4, <1>7, <1>8, <1>9 DEF PlaceInv

LEMMA PlaceNext == TypeInv /\ QueueInv /\ MainInv /\ PlaceInv /\ [Next]_vars => PlaceInv'
<1> SUFFICES ASSUME TypeInv, QueueInv, MainInv, PlaceInv, [Next]_vars PROVE PlaceInv'
  OBVIOUS
<1>0. pc \in [Threads -> WorkerLabels] /\ mt \in Threads
  BY DEF TypeInv, TypeOK
<1>1. ASSUME UNCHANGED <<pc, taken, timeouts>>
      PROVE  PlaceInv'
  BY <1>1 DEF PlaceInv, Running
<1>2. ASSUME NEW t \in Threads, NEW label, pc' = [pc EXCEPT ![t] = label],
             taken' = taken, timeouts' = timeouts \/ timeouts' # 0,
             label \in BenchLabels => Running(t),
             label = "complete" => Running(t) \/ pc[t] = "init",
             label \notin {"run", "init"},
             label = "exit" => timeouts' # 0
      PROVE  PlaceInv'
  <2>1. /\ \A u \in Threads \ {t} : pc'[u] = pc[u] /\ (Running(u)' <=> Running(u))
        /\ pc'[t] = label
        /\ timeouts' = 0 => timeouts = 0
    BY <1>0, <1>2 DEF Running
  <2>2. /\ Entry("RUN") # "exit" /\ Entry("INITIALIZE") # "exit"
        /\ "complete" \notin BenchLabels
    BY DEF Entry, BenchLabels
  <2>3. Running(t)' => Running(t)
    BY <1>2, <2>1, <2>2 DEF Running
  <2> QED
    BY <1>2, <2>1, <2>2, <2>3 DEF PlaceInv
<1>3. CASE UNCHANGED vars
  BY <1>1, <1>3 DEF vars, benchVars, groupVars, cmdVars
<1>4. ASSUME NEW t \in Threads,
             (run_benchmark(t) /\ UNCHANGED groupVars) \/ (WorkerAction(t) /\ ~ Fetch(t))
      PROVE  PlaceInv'
  BY <1>2, <1>4, WorkerPlaces
<1>5. CASE \E t \in Threads : Fetch(t)
  BY <1>5, PlaceFetch
<1>6. CASE MainAction
  <2>1. "fetch" \notin BenchLabels /\ "fetch" \notin {"run", "init", "complete", "exit"}
    BY DEF BenchLabels
  <2> QED
    BY <1>0, <1>1, <1>2, <1>6, <2>1, MainPlaces
<1> QED
  BY <1>3, <1>4, <1>5, <1>6, StepCases

-----------------------------------------------------------------------------
(* The whole script.                                                       *)

\* No command but the last ends a thread, as in the script of main.
EndsLast == \A n \in 1 .. Len(Script) - 1 : Entry(Script[n]) # "exit"

\* Without a timeout a thread leaves when it has taken all commands.
LeaveInv ==
  timeouts = 0 => \A t \in Threads : pc[t] \in Leaving => taken[t] = Len(Script)

LEMMA LeaveInit == Init => LeaveInv
  BY DEF Init, LeaveInv, Leaving

LEMMA LeaveNext ==
  ASSUME EndsLast, TypeInv, QueueInv, MainInv, LeaveInv, [Next]_vars
  PROVE  LeaveInv'
<1>0. /\ pc \in [Threads -> WorkerLabels] /\ mt \in Threads
      /\ taken \in [Threads -> Nat] /\ Len(Script) \in Nat
  BY ThreadGroupAssumption DEF TypeInv, TypeOK
<1>1. ASSUME UNCHANGED <<pc, taken, timeouts>>
      PROVE  LeaveInv'
  BY <1>1 DEF LeaveInv
<1>2. ASSUME NEW t \in Threads, NEW label, pc' = [pc EXCEPT ![t] = label],
             taken' = taken, timeouts' = timeouts \/ timeouts' # 0,
             label \in Leaving => pc[t] \in Leaving \/ timeouts' # 0
      PROVE  LeaveInv'
  BY <1>0, <1>2 DEF LeaveInv
<1>3. CASE UNCHANGED vars
  BY <1>1, <1>3 DEF vars, benchVars, groupVars, cmdVars
<1>4. ASSUME NEW t \in Threads,
             (run_benchmark(t) /\ UNCHANGED groupVars) \/ (WorkerAction(t) /\ ~ Fetch(t))
      PROVE  LeaveInv'
  <2>1. \A label \in Leaving : label \in {"exit", "exitdone", "exited"}
    BY DEF Leaving
  <2> QED
    BY <1>2, <1>4, <2>1, WorkerPlaces
<1>5. ASSUME NEW t \in Threads, Fetch(t)
      PROVE  LeaveInv'
  <2> DEFINE cmd == Script[taken[t] + 1]
  <2>1. /\ queue[t] # <<>>
        /\ taken' = [taken EXCEPT ![t] = @ + 1]
        /\ pc' = [pc EXCEPT ![t] = Entry(Head(queue[t]))]
        /\ timeouts' = timeouts
    BY <1>5 DEF Fetch, Continue, Goto
  <2>2. Head(queue[t]) = cmd /\ taken[t] + 1 <= Len(Script)
    BY <2>1, NextCommand
  <2>3. /\ \A u \in Threads \ {t} : pc'[u] = pc[u] /\ taken'[u] = taken[u]
        /\ pc'[t] = Entry(cmd) /\ taken'[t] = taken[t] + 1
    BY <1>0, <2>1, <2>2
  <2>4. Entry(cmd) \in Leaving => Entry(cmd) = "exit"
    BY DEF Entry, Leaving
  <2>5. Entry(cmd) = "exit" => taken[t] + 1 = Len(Script)
    BY <1>0, <2>2 DEF EndsLast
  <2> QED
    BY <2>1, <2>3, <2>4, <2>5 DEF LeaveInv
<1>6. CASE MainAction
  <2>1. "fetch" \notin Leaving
    BY DEF Leaving
  <2> QED
    BY <1>0, <1>1, <1>2, <1>6, <2>1, MainPlaces
<1> QED
  BY <1>3, <1>4, <1>5, <1>6, StepCases

\* update_results stores what the threads have left, which have all exited.
StoredInv ==
  /\ ~ Reported => \A t \in Threads : results[t] = NoResult
  /\ Reported => results = [t \in Threads |-> [iters |-> iters[t], runtime |-> runtime[t]]]

LEMMA StoredInit == Init => StoredInv
  BY DEF Init, StoredInv, Reported

LEMMA StoredNext ==
  ASSUME TypeInv, QueueInv, MainInv, StoredInv, [Next]_vars
  PROVE  StoredInv'
<1>1. ASSUME NEW t \in Threads,
             (run_benchmark(t) /\ UNCHANGED groupVars) \/ WorkerAction(t)
      PROVE  StoredInv'
  <2>1. pc[t] # "exited" /\ UNCHANGED <<mpc, aborted>>
    BY <1>1, WorkerStays
  <2>2. ~ Reported /\ ~ Reported'
    BY <2>1 DEF Reported, MainInv, At
  <2>3. results' = results
    BY <1>1 DEF groupVars, mainVars, WorkerAction, Fetch, Wait, Wake, SpuriousWake,
       Timeout, Initialize, StartRun, Complete, ExitBarrier, ExitDone
  <2> QED
    BY <2>2, <2>3 DEF StoredInv
<1>2. CASE UNCHANGED vars
  BY <1>2 DEF StoredInv, Reported, vars, benchVars, groupVars, mainVars, dataVars
<1>3. CASE UpdateResults
  <2>1. /\ mpc = "results" /\ mpc' = "release" /\ UNCHANGED <<aborted, iters, runtime>>
        /\ results' = [t \in Threads |-> [iters |-> iters[t], runtime |-> runtime[t]]]
    BY <1>3 DEF UpdateResults, MainAt, benchVars, dataVars
  <2>2. ~ aborted
    BY <2>1 DEF QueueInv
  <2> QED
    BY <2>1, <2>2 DEF StoredInv, Reported
<1>4. CASE MainAction /\ ~ UpdateResults
  <2>1. UNCHANGED <<results, iters, runtime>>
    BY <1>4 DEF MainAction, CreateThread, CreateFails, SetAffinity, SendCmd, SendFails,
       Join, ReleaseStreams, DestroyThreads, MainOut, benchVars, innerVars, dataVars
  <2>2. CASE CreateThread \/ CreateFails \/ SetAffinity \/ SendCmd \/ SendFails \/ Join
    <3>1. /\ mpc \in {"create", "affinity", "send", "join"}
          /\ aborted' \/ mpc' \in {"create", "affinity", "send", "join", "results"}
      BY <2>2 DEF CreateThread, CreateFails, SetAffinity, SendCmd, SendFails, Join,
         MainAt, NextThread
    <3>2. ~ Reported /\ ~ Reported'
      BY <3>1 DEF Reported
    <3> QED
      BY <2>1, <3>2 DEF StoredInv
  <2>3. CASE ReleaseStreams \/ DestroyThreads \/ MainOut
    <3>1. /\ mpc \in {"release", "destroy", "abort", "out"}
          /\ mpc' \in {"destroy", "out", "end"} /\ aborted' = aborted
      BY <2>3 DEF ReleaseStreams, DestroyThreads, MainOut, MainAt
    <3>2. Reported' <=> Reported
      BY <3>1 DEF Reported, MainInv
    <3> QED
      BY <2>1, <3>2 DEF StoredInv
  <2> QED
    BY <1>4, <2>2, <2>3 DEF MainAction
<1> QED
  BY <1>1, <1>2, <1>3, <1>4, StepCases

\* If main reports and no wait has timed out, every thread has taken all.
LEMMA ReportedWhole ==
  ASSUME TypeInv, QueueInv, MainInv, LeaveInv, Reported, timeouts = 0,
         NEW t \in Threads
  PROVE  pc[t] = "exited" /\ taken[t] = Len(Script) /\ queue[t] = <<>>
<1>1. queue[t] \in Seq(Commands) /\ taken[t] \in Nat /\ Len(Script) \in Nat
  BY ThreadGroupAssumption DEF TypeInv, TypeOK
<1>2. pc[t] = "exited"
  BY DEF Reported, MainInv, At
<1>3. taken[t] = Len(Script)
  BY <1>2 DEF LeaveInv, Leaving
<1>4. taken[t] + Len(queue[t]) <= Len(Script)
  BY DEF QueueInv, Received
<1>5. Len(queue[t]) = 0
  BY <1>1, <1>3, <1>4
<1>6. queue[t] = <<>>
  BY <1>1, <1>5, EmptySeq
<1> QED
  BY <1>2, <1>3, <1>6

\* A report is made of complete runs only: if the last command of a script
\* is the first that ends a thread, results are stored only when every
\* thread has taken every command, or a wait has timed out; a command that
\* could not be sent or a thread that could not be created leads to none.
THEOREM ReportsAll ==
  ASSUME EndsLast
  PROVE  Spec => []ReportsWholeScript
<1> DEFINE Inv == TypeInv /\ QueueInv /\ MainInv /\ LeaveInv /\ StoredInv
<1>1. Init => Inv
  BY TypeInit, QueueInit, MainInit, LeaveInit, StoredInit
<1>2. Inv /\ [Next]_vars => Inv'
  BY TypeNext, QueueNext, MainNext, LeaveNext, StoredNext
<1>3. Inv => ReportsWholeScript
  BY ReportedWhole DEF StoredInv, ReportsWholeScript
<1> QED
  BY <1>1, <1>2, <1>3, PTL DEF Spec

-----------------------------------------------------------------------------
(* All or none of a workgroup.                                             *)

\* A kernel call lasts at least one unit of time, so that a thread that has
\* been measured can be told from one that has not: min_runtime is not 0.
CallTakesTime == \A f \in FreqSamples : TicksPerIter * NANOS_PER_SEC >= f

\* A timed region with a kernel call in it has a positive duration.
LEMMA ElapsedPositive ==
  ASSUME CallTakesTime, NEW n \in Nat \ {0}, NEW j \in Nat, NEW f \in FreqSamples
  PROVE  Elapsed(n, j, f) # 0
<1>1. /\ TicksPerIter \in Nat \ {0} /\ NANOS_PER_SEC \in Nat \ {0} /\ f \in Nat \ {0}
      /\ TicksPerIter * NANOS_PER_SEC >= f
  BY BenchAssumption DEF CallTakesTime
<1> DEFINE ticks == n * TicksPerIter + j
           time  == ticks * NANOS_PER_SEC
<1>2. ticks \in Nat /\ ticks >= TicksPerIter
  BY <1>1
<1> HIDE DEF ticks
<1>3. time \in Nat /\ time >= TicksPerIter * NANOS_PER_SEC
  BY <1>1, <1>2
<1> HIDE DEF time
<1>4. time \div f >= 1
  <2>1. time >= f
    BY <1>1, <1>3
  <2> QED
    BY <1>1, <1>3, <2>1
<1>5. Elapsed(n, j, f) = time \div f
  BY DEF Elapsed, time, ticks
<1> QED
  BY <1>4, <1>5

Loop == {"timer", "calibrate", "freqread", "round", "roundstop"}

Timed == {"exec", "exectimer", "execkernel", "execstop"}

\* The iteration counts a round may have: the least set with MIN_ITERATIONS in
\* it that holds the double of each of its members.
Doublings ==
  {n \in Nat \ {0} : \A D \in SUBSET Nat :
                      MIN_ITERATIONS \in D /\ (\A m \in D : 2 * m \in D) => n \in D}

LEMMA Doubled ==
  /\ MIN_ITERATIONS \in Doublings
  /\ \A n \in Doublings : n \in Nat \ {0} /\ 2 * n \in Doublings
<1>1. MIN_ITERATIONS \in Doublings
  BY BenchAssumption DEF Doublings
<1>2. ASSUME NEW n \in Doublings
      PROVE  n \in Nat \ {0} /\ 2 * n \in Doublings
  <2>1. n \in Nat \ {0} /\ 2 * n \in Nat \ {0}
    BY DEF Doublings
  <2>2. ASSUME NEW D \in SUBSET Nat, MIN_ITERATIONS \in D, \A m \in D : 2 * m \in D
        PROVE  2 * n \in D
    BY <2>2 DEF Doublings
  <2> QED BY <2>1, <2>2 DEF Doublings
<1> QED BY <1>1, <1>2

\* Kernel calls and frequencies of a timed region
CountInv ==
  /\ freq \in FreqSamples \cup {0}
  /\ \A t \in Threads :
       /\ tfreq[t] \in FreqSamples \cup {0}
       /\ pc[t] \in Loop => iter[t] \in Doublings
       /\ pc[t] \in Timed => iters[t] # 0

LEMMA CountInit == Init => CountInv
  BY DEF Init, BenchInit, CountInv, Loop, Timed

\* A thread moves on, the counts being what its new place needs.
LEMMA CountMove ==
  ASSUME TypeInv, CountInv, NEW t \in Threads, NEW label,
         pc' = [pc EXCEPT ![t] = label],
         freq' \in FreqSamples \cup {0},
         tfreq' = tfreq \/ tfreq' = [tfreq EXCEPT ![t] = freq],
         \A u \in Threads \ {t} : iter'[u] = iter[u] /\ iters'[u] = iters[u],
         label \in Loop => iter'[t] \in Doublings,
         label \in Timed => iters'[t] # 0
  PROVE  CountInv'
<1>1. pc \in [Threads -> WorkerLabels] /\ tfreq \in [Threads -> Nat]
  BY DEF TypeInv, TypeOK, BenchTypeOK
<1>2. \A u \in Threads : tfreq'[u] \in FreqSamples \cup {0}
  BY <1>1 DEF CountInv
<1>3. pc'[t] = label /\ \A u \in Threads \ {t} : pc'[u] = pc[u]
  BY <1>1
<1> QED
  BY <1>2, <1>3 DEF CountInv

LEMMA CountNext ==
  ASSUME TypeInv, MainInv, CountInv, [Next]_vars
  PROVE  CountInv'
<1>0. /\ iter \in [Threads -> Nat] /\ iters \in [Threads -> Nat]
      /\ freq \in FreqSamples \cup {0}
  BY DEF TypeInv, TypeOK, BenchTypeOK, CountInv
<1>1. ASSUME UNCHANGED <<pc, freq, tfreq, iter, iters>>
      PROVE  CountInv'
  BY <1>1 DEF CountInv
<1>2. ASSUME NEW t \in Threads, NEW label, pc' = [pc EXCEPT ![t] = label],
             UNCHANGED <<freq, tfreq, iter, iters>>,
             label \in Loop => pc[t] \in Loop,
             label \in Timed => pc[t] \in Timed
      PROVE  CountInv'
  BY <1>0, <1>2, CountMove DEF CountInv
<1>3. CASE UNCHANGED vars
  BY <1>1, <1>3 DEF vars, benchVars, timerVars, dataVars
<1>4. ASSUME NEW t \in Threads, run_benchmark(t)
      PROVE  CountInv'
  <2>1. CASE Enter(t) \/ Finish(t) \/ ResetAffinity(t) \/ ExecuteStop(t)
    <3>1. PICK label \in {"loop", "reset", "complete", "finish"} :
             pc' = [pc EXCEPT ![t] = label]
      BY <2>1 DEF Enter, Finish, ResetAffinity, ExecuteStop, Arrive, Continue, Goto
    <3>2. UNCHANGED <<freq, tfreq, iter, iters>>
      BY <2>1 DEF Enter, Finish, ResetAffinity, ExecuteStop, timerVars, dataVars
    <3>3. label \notin Loop \cup Timed
      BY DEF Loop, Timed
    <3> QED
      BY <1>2, <3>1, <3>2, <3>3
  <2>2. CASE EnterLoop(t)
    <3>1. /\ pc' = [pc EXCEPT ![t] = "timer"]
          /\ iter' = [iter EXCEPT ![t] = MIN_ITERATIONS]
          /\ UNCHANGED <<freq, tfreq, iters>>
      BY <2>2 DEF EnterLoop, Arrive, Goto, timerVars
    <3>2. MIN_ITERATIONS \in Doublings /\ "timer" \notin Timed
      BY Doubled DEF Timed
    <3>3. iter'[t] \in Doublings /\ \A u \in Threads \ {t} : iter'[u] = iter[u]
      BY <1>0, <3>1, <3>2
    <3> QED
      BY <1>0, <3>1, <3>2, <3>3, CountMove
  <2>3. CASE TimerInit(t) \/ Round(t)
    <3>1. PICK label \in {"freqread", "calibrate", "roundstop"} :
             pc' = [pc EXCEPT ![t] = label]
      BY <2>3 DEF TimerInit, Round, Arrive, Continue, Goto
    <3>2. UNCHANGED <<freq, tfreq, iter, iters>> /\ pc[t] \in Loop
      BY <2>3 DEF TimerInit, Round, At, Loop, timerVars, dataVars
    <3>3. label \notin Timed
      BY DEF Timed
    <3> QED
      BY <1>2, <3>1, <3>2, <3>3
  <2>4. CASE Calibrate(t) \/ ReadFreq(t)
    <3>1. PICK label \in {"freqread", "round"} : pc' = [pc EXCEPT ![t] = label]
      BY <2>4 DEF Calibrate, ReadFreq, Arrive, Continue, Goto
    <3>2. /\ UNCHANGED <<iter, iters>> /\ pc[t] \in Loop
          /\ freq' \in FreqSamples \cup {0}
          /\ tfreq' = tfreq \/ tfreq' = [tfreq EXCEPT ![t] = freq]
      BY <1>0, <2>4 DEF Calibrate, ReadFreq, At, Loop, dataVars
    <3>3. label \notin Timed /\ iter[t] \in Doublings
      BY <3>2 DEF Timed, CountInv
    <3> QED
      BY <1>0, <3>1, <3>2, <3>3, CountMove
  <2>5. CASE RoundStop(t)
    <3>1. pc[t] = "roundstop" /\ pc[t] \in Loop /\ UNCHANGED <<freq, tfreq>>
      BY <2>5 DEF RoundStop, At, Loop, timerVars
    <3>2. /\ iter[t] \in Doublings /\ 2 * iter[t] \in Doublings
          /\ iter[t] \in Nat \ {0} /\ iters[t] \in Nat
      BY <1>0, <3>1, Doubled DEF CountInv
    <3>3. CASE /\ iter' = [iter EXCEPT ![t] = 2 * @]
               /\ Continue(t, "timer")
               /\ UNCHANGED iters
      <4>1. iter'[t] \in Doublings /\ \A u \in Threads \ {t} : iter'[u] = iter[u]
        BY <1>0, <3>2, <3>3
      <4>2. pc' = [pc EXCEPT ![t] = "timer"] /\ "timer" \notin Timed
        BY <3>3 DEF Continue, Goto, Timed
      <4> QED
        BY <1>0, <3>1, <3>3, <4>1, <4>2, CountMove
    <3>4. CASE /\ iters' = [iters EXCEPT ![t] = IF @ = 0 THEN iter[t] ELSE @]
               /\ Arrive(t, "exec")
               /\ UNCHANGED iter
      <4>1. iters'[t] # 0 /\ \A u \in Threads \ {t} : iters'[u] = iters[u]
        BY <1>0, <3>2, <3>4
      <4>2. pc' = [pc EXCEPT ![t] = "exec"] /\ "exec" \notin Loop
        BY <3>4 DEF Arrive, Goto, Loop
      <4> QED
        BY <1>0, <3>1, <3>4, <4>1, <4>2, CountMove
    <3> QED
      BY <2>5, <3>3, <3>4 DEF RoundStop
  <2>6. CASE Execute(t) \/ ExecuteTimer(t) \/ ExecuteKernel(t)
    <3>1. PICK label \in {"exectimer", "execkernel", "execstop"} :
             pc' = [pc EXCEPT ![t] = label]
      BY <2>6 DEF Execute, ExecuteTimer, ExecuteKernel, Arrive, Continue, Goto
    <3>2. /\ UNCHANGED <<freq, iter, iters>> /\ pc[t] \in Timed
          /\ tfreq' = tfreq \/ tfreq' = [tfreq EXCEPT ![t] = freq]
      BY <2>6 DEF Execute, ExecuteTimer, ExecuteKernel, At, Timed, timerVars, dataVars
    <3>3. label \notin Loop /\ iters[t] # 0
      BY <3>2 DEF Loop, CountInv
    <3> QED
      BY <1>0, <3>1, <3>2, <3>3, CountMove
  <2> QED
    BY <1>4, <2>1, <2>2, <2>3, <2>4, <2>5, <2>6 DEF run_benchmark
<1>5. ASSUME NEW t \in Threads, WorkerAction(t)
      PROVE  CountInv'
  <2>1. UNCHANGED <<freq, tfreq, iter, iters>>
    BY <1>5 DEF WorkerAction, Fetch, Wait, Wake, SpuriousWake, Timeout, Initialize,
       StartRun, Complete, ExitBarrier, ExitDone, innerVars, timerVars, dataVars
  <2>2. PICK label \in {"init", "complete", "run", "exit", "waiting", "fetch",
                        "bench", "exitdone", "exited"} :
           pc' = [pc EXCEPT ![t] = label]
    BY <1>5 DEF WorkerAction, Fetch, Wait, Wake, SpuriousWake, Timeout, Initialize,
       StartRun, Complete, ExitBarrier, ExitDone, Entry, Arrive, Continue, Goto
  <2>3. label \notin Loop \cup Timed
    BY DEF Loop, Timed
  <2> QED
    BY <1>2, <2>1, <2>2, <2>3
<1>6. CASE MainAction
  <2>1. UNCHANGED <<freq, tfreq, iter, iters>>
    BY <1>6 DEF MainAction, CreateThread, CreateFails, SetAffinity, SendCmd, SendFails,
       Join, UpdateResults, ReleaseStreams, DestroyThreads, MainOut, benchVars,
       innerVars, timerVars, dataVars
  <2>2. "fetch" \notin Loop \cup Timed /\ mt \in Threads
    BY DEF Loop, Timed, TypeInv, TypeOK
  <2> QED
    BY <1>1, <1>2, <1>6, <2>1, <2>2, MainPlaces
<1> QED
  BY <1>3, <1>4, <1>5, <1>6, StepCases

\* RUN is among the commands a thread has taken.
HasRun(t) == \E n \in 1 .. taken[t] : Script[n] = "RUN"

\* barriers a thread has entered when RUN is among its commands, counted
\* against the commands it has taken: at least
Least(label) ==
  CASE label \in BenchLabels \cup {"run"}                  -> Floor(label)
    [] label \in {"none", "fetch", "waiting", "exitdone"}  -> 2
    [] label = "exited"                                    -> 3
    [] OTHER                                               -> 1

\* where a thread that runs has no result of this run yet
Unmeasured == (BenchLabels \cup {"run"}) \ {"finish", "reset"}

\* Barriers tell a thread that has run from one that has not, and so does
\* min_runtime.
RunInv ==
  \A t \in Threads :
    /\ HasRun(t) => arrivals[t] >= taken[t] + Least(pc[t])
    /\ ~ HasRun(t) => /\ arrivals[t] >= taken[t] + Floor(pc[t])
                      /\ arrivals[t] <= taken[t] + Ceiling(pc[t])
                      /\ min_runtime[t] = 0
    /\ HasRun(t) /\ pc[t] \notin Unmeasured => min_runtime[t] # 0

LEMMA RunInit == Init => RunInv
<1> SUFFICES ASSUME Init PROVE RunInv
  OBVIOUS
<1>1. \A t \in Threads : /\ taken[t] = 0 /\ arrivals[t] = 0 /\ min_runtime[t] = 0
                         /\ pc[t] = "none"
  BY DEF Init, BenchInit
<1>2. \A t \in Threads : ~ HasRun(t)
  BY <1>1 DEF HasRun
<1> QED
  BY <1>1, <1>2 DEF RunInv, Floor, Ceiling

\* A running thread has RUN among its commands.
LEMMA RunningHasRun ==
  ASSUME TypeInv, PlaceInv, NEW t \in Threads, Running(t)
  PROVE  HasRun(t)
<1>1. taken[t] \in 1 .. taken[t] /\ Script[taken[t]] = "RUN"
  BY ThreadGroupAssumption DEF PlaceInv, TypeInv, TypeOK
<1> QED
  BY <1>1 DEF HasRun

\* A thread that has run moves on without taking a command.
LEMMA RunMove ==
  ASSUME TypeInv, RunInv, NEW t \in Threads, HasRun(t), NEW label,
         taken' = taken,
         \A u \in Threads \ {t} : min_runtime'[u] = min_runtime[u],
         label \notin Unmeasured =>
           \/ min_runtime'[t] # 0
           \/ min_runtime'[t] = min_runtime[t] /\ pc[t] \notin Unmeasured,
         Least(label) \in Int, Least(pc[t]) \in Int,
         \/ Continue(t, label) /\ Least(label) <= Least(pc[t])
         \/ Arrive(t, label) /\ Least(label) <= Least(pc[t]) + 1
  PROVE  RunInv'
<1>1. /\ arrivals \in [Threads -> Nat] /\ taken \in [Threads -> Nat]
      /\ pc \in [Threads -> WorkerLabels]
  BY DEF TypeInv, TypeOK, BenchTypeOK
<1>2. /\ pc'[t] = label
      /\ \A u \in Threads \ {t} : pc'[u] = pc[u] /\ arrivals'[u] = arrivals[u]
      /\ \/ arrivals'[t] = arrivals[t] /\ Least(label) <= Least(pc[t])
         \/ arrivals'[t] = arrivals[t] + 1 /\ Least(label) <= Least(pc[t]) + 1
  BY <1>1 DEF Continue, Arrive, Goto
<1>3. \A u \in Threads : HasRun(u)' <=> HasRun(u)
  BY DEF HasRun
<1>4. arrivals[t] >= taken[t] + Least(pc[t])
  BY DEF RunInv
<1>5. arrivals'[t] >= taken'[t] + Least(pc'[t])
  BY <1>1, <1>2, <1>4
<1>6. pc'[t] \notin Unmeasured => min_runtime'[t] # 0
  BY SMTT(30), <1>2 DEF RunInv
<1> QED
  BY <1>2, <1>3, <1>5, <1>6 DEF RunInv

\* The steps of run_benchmark that neither measure nor return
LEMMA BenchRuns ==
  ASSUME NEW t \in Threads, run_benchmark(t), ~ ExecuteStop(t), ~ ResetAffinity(t)
  PROVE  /\ UNCHANGED min_runtime
         /\ pc[t] \in BenchLabels
         /\ \E label \in BenchLabels :
              /\ label \notin Unmeasured => pc[t] \notin Unmeasured
              /\ \/ Continue(t, label) /\ Floor(label) <= Floor(pc[t])
                 \/ Arrive(t, label) /\ Floor(label) <= Floor(pc[t]) + 1
<1> USE DEF At, BenchLabels, Floor, Unmeasured, dataVars
<1>1. CASE Enter(t)
  BY <1>1 DEF Enter
<1>2. CASE EnterLoop(t)
  BY <1>2 DEF EnterLoop
<1>3. CASE TimerInit(t)
  BY <1>3 DEF TimerInit
<1>4. CASE Calibrate(t)
  BY <1>4 DEF Calibrate
<1>5. CASE ReadFreq(t)
  BY <1>5 DEF ReadFreq
<1>6. CASE Round(t)
  BY <1>6 DEF Round
<1>7. CASE RoundStop(t)
  BY <1>7 DEF RoundStop
<1>8. CASE Execute(t)
  BY <1>8 DEF Execute
<1>9. CASE ExecuteTimer(t)
  BY <1>9 DEF ExecuteTimer
<1>10. CASE ExecuteKernel(t)
  BY <1>10 DEF ExecuteKernel
<1>11. CASE Finish(t)
  BY <1>11 DEF Finish
<1> QED
  BY <1>1, <1>2, <1>3, <1>4, <1>5, <1>6, <1>7, <1>8, <1>9, <1>10, <1>11
  DEF run_benchmark

\* run_benchmark: the thread has taken RUN; its timed region measures more
\* than nothing.
LEMMA RunBench ==
  ASSUME CallTakesTime, TypeInv, PlaceInv, CountInv, RunInv,
         NEW t \in Threads, run_benchmark(t), UNCHANGED groupVars
  PROVE  RunInv'
<1>0. /\ min_runtime \in [Threads -> Nat]
      /\ UNCHANGED taken
  BY DEF TypeInv, TypeOK, BenchTypeOK, groupVars, cmdVars
<1>1. HasRun(t)
  BY BenchWhere, RunningHasRun DEF Running
<1>2. \A label \in BenchLabels : Least(label) = Floor(label) /\ Floor(label) \in Int
  <2> SUFFICES ASSUME NEW label \in BenchLabels
               PROVE  Least(label) = Floor(label) /\ Floor(label) \in Int
    OBVIOUS
  <2>1. label \notin {"none", "fetch", "waiting", "exitdone", "exited"}
    BY DEF BenchLabels
  <2>2. Floor(label) \in Int
    BY DEF Floor
  <2> QED
    BY <2>1, <2>2 DEF Least
<1>3. CASE ~ ExecuteStop(t) /\ ~ ResetAffinity(t)
  <2>1. PICK label \in BenchLabels :
          /\ label \notin Unmeasured => pc[t] \notin Unmeasured
          /\ \/ Continue(t, label) /\ Floor(label) <= Floor(pc[t])
             \/ Arrive(t, label) /\ Floor(label) <= Floor(pc[t]) + 1
    BY <1>3, BenchRuns
  <2>2. UNCHANGED min_runtime /\ pc[t] \in BenchLabels
    BY <1>3, BenchRuns
  <2> QED
    BY <1>0, <1>1, <1>2, <2>1, <2>2, RunMove
<1>4. CASE ResetAffinity(t)
  <2>1. Continue(t, "complete") /\ UNCHANGED min_runtime /\ pc[t] = "reset"
    BY <1>4 DEF ResetAffinity, At, dataVars
  <2>2. Least("complete") = 1 /\ Least(pc[t]) = 2 /\ pc[t] \notin Unmeasured
    BY <2>1 DEF Least, Floor, BenchLabels, Unmeasured
  <2> QED
    BY <1>0, <1>1, <2>1, <2>2, RunMove
<1>5. CASE ExecuteStop(t)
  <2>1. PICK j \in 0 .. Jitter :
          min_runtime' = [min_runtime EXCEPT ![t] = Elapsed(iters[t], j, tfreq[t])]
    BY <1>5 DEF ExecuteStop
  <2>2. Arrive(t, "finish") /\ pc[t] = "execstop"
    BY <1>5 DEF ExecuteStop, At
  <2>3. tfreq[t] \in FreqSamples /\ iters[t] \in Nat \ {0} /\ j \in Nat
    BY <2>2, BenchAssumption DEF CountInv, Timed, TypeInv, TypeOK, BenchTypeOK,
       TimerCalibrated
  <2>4. Elapsed(iters[t], j, tfreq[t]) # 0
    BY <2>3, ElapsedPositive
  <2>5. min_runtime'[t] # 0 /\ \A u \in Threads \ {t} : min_runtime'[u] = min_runtime[u]
    BY <1>0, <2>1, <2>4
  <2>6. Least("finish") = 2 /\ Least(pc[t]) = 2
    BY <2>2 DEF Least, Floor, BenchLabels
  <2> QED
    BY <1>0, <1>1, <2>2, <2>5, <2>6, RunMove
<1> QED
  BY <1>3, <1>4, <1>5

\* The steps of _func_t in which a thread takes no command: barriers entered
\* before and after RUN.
LEMMA WorkerRuns ==
  ASSUME NEW t \in Threads, WorkerAction(t), ~ Fetch(t)
  PROVE  /\ UNCHANGED <<taken, min_runtime>>
         /\ \E label :
              /\ label \notin Unmeasured => pc[t] \notin Unmeasured
              /\ \/ /\ Continue(t, label)
                    /\ Floor(label) <= Floor(pc[t]) /\ Least(label) <= Least(pc[t])
                    /\ pc[t] # "run" => Ceiling(pc[t]) <= Ceiling(label)
                 \/ /\ Arrive(t, label)
                    /\ Floor(label) <= Floor(pc[t]) + 1 /\ Least(label) <= Least(pc[t]) + 1
                    /\ Ceiling(pc[t]) + 1 <= Ceiling(label)
<1> USE DEF At, BenchLabels, Floor, Least, Ceiling, Unmeasured, innerVars, dataVars, cmdVars
<1>1. CASE Wait(t)
  BY <1>1 DEF Wait
<1>2. CASE Wake(t)
  BY <1>2 DEF Wake
<1>3. CASE SpuriousWake(t)
  BY <1>3 DEF SpuriousWake
<1>4. CASE Timeout(t)
  BY <1>4 DEF Timeout
<1>5. CASE Initialize(t)
  BY <1>5 DEF Initialize
<1>6. CASE StartRun(t)
  BY <1>6 DEF StartRun
<1>7. CASE Complete(t)
  BY <1>7 DEF Complete
<1>8. CASE ExitBarrier(t)
  BY <1>8 DEF ExitBarrier
<1>9. CASE ExitDone(t)
  BY <1>9 DEF ExitDone
<1> QED
  BY <1>1, <1>2, <1>3, <1>4, <1>5, <1>6, <1>7, <1>8, <1>9 DEF WorkerAction

\* A thread that has not run moves on without taking a command.
LEMMA RunWait ==
  ASSUME TypeInv, RunInv, NEW t \in Threads, ~ HasRun(t), NEW label,
         UNCHANGED <<taken, min_runtime>>,
         \/ /\ Continue(t, label)
            /\ Floor(label) <= Floor(pc[t])
            /\ Ceiling(pc[t]) <= Ceiling(label)
         \/ /\ Arrive(t, label)
            /\ Floor(label) <= Floor(pc[t]) + 1
            /\ Ceiling(pc[t]) + 1 <= Ceiling(label)
  PROVE  RunInv'
<1>1. /\ arrivals \in [Threads -> Nat] /\ taken \in [Threads -> Nat]
      /\ pc \in [Threads -> WorkerLabels]
  BY DEF TypeInv, TypeOK, BenchTypeOK
<1>2. /\ Floor(label) \in Int /\ Floor(pc[t]) \in Int
      /\ Ceiling(label) \in Int /\ Ceiling(pc[t]) \in Int
  BY DEF Floor, Ceiling
<1>3. /\ pc'[t] = label
      /\ \A u \in Threads \ {t} : pc'[u] = pc[u] /\ arrivals'[u] = arrivals[u]
      /\ \/ /\ arrivals'[t] = arrivals[t]
            /\ Floor(label) <= Floor(pc[t]) /\ Ceiling(pc[t]) <= Ceiling(label)
         \/ /\ arrivals'[t] = arrivals[t] + 1
            /\ Floor(label) <= Floor(pc[t]) + 1 /\ Ceiling(pc[t]) + 1 <= Ceiling(label)
  BY <1>1 DEF Continue, Arrive, Goto
<1>4. \A u \in Threads : HasRun(u)' <=> HasRun(u)
  BY DEF HasRun
<1>5. arrivals[t] >= taken[t] + Floor(pc[t]) /\ arrivals[t] <= taken[t] + Ceiling(pc[t])
  BY DEF RunInv
<1>6. /\ arrivals'[t] >= taken'[t] + Floor(pc'[t])
      /\ arrivals'[t] <= taken'[t] + Ceiling(pc'[t])
  BY <1>1, <1>2, <1>3, <1>5
<1> QED
  BY <1>3, <1>4, <1>6 DEF RunInv

\* A thread takes its next command.
LEMMA RunFetch ==
  ASSUME TypeInv, QueueInv, RunInv, NEW t \in Threads, Fetch(t)
  PROVE  RunInv'
<1> DEFINE cmd == Script[taken[t] + 1]
<1>1. /\ arrivals \in [Threads -> Nat] /\ taken \in [Threads -> Nat]
      /\ pc \in [Threads -> WorkerLabels]
  BY DEF TypeInv, TypeOK, BenchTypeOK
<1>2. /\ pc[t] = "fetch" /\ queue[t] # <<>>
      /\ taken' = [taken EXCEPT ![t] = @ + 1]
      /\ pc' = [pc EXCEPT ![t] = Entry(Head(queue[t]))]
      /\ UNCHANGED <<arrivals, min_runtime>>
  BY DEF Fetch, At, Continue, Goto, innerVars, dataVars
<1>3. Head(queue[t]) = cmd
  BY <1>2, NextCommand
<1>4. /\ pc'[t] = Entry(cmd) /\ taken'[t] = taken[t] + 1
      /\ \A u \in Threads \ {t} : pc'[u] = pc[u] /\ taken'[u] = taken[u]
  BY <1>1, <1>2, <1>3
<1>5. /\ \A u \in Threads \ {t} : HasRun(u)' <=> HasRun(u)
      /\ HasRun(t)' <=> HasRun(t) \/ cmd = "RUN"
  BY <1>1, <1>4 DEF HasRun
<1>6. /\ cmd = "RUN" => Entry(cmd) = "run"
      /\ cmd # "RUN" => Entry(cmd) \in {"init", "complete", "exit"}
  BY DEF Entry
<1> HIDE DEF cmd
<1>7. /\ Least("run") = -1 /\ Floor("run") = -1 /\ "run" \in Unmeasured
      /\ Floor("fetch") = 0 /\ Ceiling("fetch") = 0
      /\ Least("fetch") = 2 /\ "fetch" \notin Unmeasured
      /\ \A label \in {"init", "complete", "exit"} :
           /\ Least(label) = 1 /\ Floor(label) = -1 /\ Ceiling(label) >= -1
           /\ Ceiling(label) \in Int
  <2>1. /\ Least("run") = -1 /\ Floor("run") = -1 /\ "run" \in Unmeasured
        /\ Floor("fetch") = 0 /\ Ceiling("fetch") = 0
        /\ Least("fetch") = 2 /\ "fetch" \notin Unmeasured
    BY DEF Least, Floor, Ceiling, BenchLabels, Unmeasured
  <2>2. /\ Least("init") = 1 /\ Least("complete") = 1 /\ Least("exit") = 1
        /\ Floor("init") = -1 /\ Floor("complete") = -1 /\ Floor("exit") = -1
        /\ Ceiling("init") = -1 /\ Ceiling("complete") = -1 /\ Ceiling("exit") = 0
    BY DEF Least, Floor, Ceiling, BenchLabels
  <2> QED
    BY <2>1, <2>2
<1>8. /\ HasRun(t) => arrivals[t] >= taken[t] + 2 /\ min_runtime[t] # 0
      /\ ~ HasRun(t) => arrivals[t] = taken[t] /\ min_runtime[t] = 0
  BY <1>1, <1>2, <1>7 DEF RunInv
<1>9. HasRun(t)' => arrivals'[t] >= taken'[t] + Least(pc'[t])
  BY <1>1, <1>2, <1>4, <1>5, <1>6, <1>7, <1>8
<1>10. ~ HasRun(t)' => /\ arrivals'[t] >= taken'[t] + Floor(pc'[t])
                       /\ arrivals'[t] <= taken'[t] + Ceiling(pc'[t])
                       /\ min_runtime'[t] = 0
  BY <1>1, <1>2, <1>4, <1>5, <1>6, <1>7, <1>8
<1>11. HasRun(t)' /\ pc'[t] \notin Unmeasured => min_runtime'[t] # 0
  BY <1>2, <1>4, <1>5, <1>6, <1>7, <1>8
<1> QED
  BY <1>2, <1>4, <1>5, <1>9, <1>10, <1>11 DEF RunInv

LEMMA RunNext ==
  ASSUME CallTakesTime, TypeInv, QueueInv, MainInv, PlaceInv, CountInv, RunInv,
         [Next]_vars
  PROVE  RunInv'
<1>0. \A label : Least(label) \in Int
  <2> SUFFICES ASSUME NEW label PROVE Least(label) \in Int
    OBVIOUS
  <2>1. Floor(label) \in Int
    BY DEF Floor
  <2> QED
    BY <2>1 DEF Least
<1>1. ASSUME UNCHANGED <<pc, arrivals, taken, min_runtime>>
      PROVE  RunInv'
  BY <1>1 DEF RunInv, HasRun
<1>2. CASE UNCHANGED vars
  BY <1>1, <1>2 DEF vars, benchVars, dataVars, groupVars, cmdVars
<1>3. ASSUME NEW t \in Threads, run_benchmark(t), UNCHANGED groupVars
      PROVE  RunInv'
  BY <1>3, RunBench
<1>4. ASSUME NEW t \in Threads, WorkerAction(t), ~ Fetch(t)
      PROVE  RunInv'
  <2>1. UNCHANGED <<taken, min_runtime>>
    BY <1>4, WorkerRuns
  <2>2. PICK label :
          /\ label \notin Unmeasured => pc[t] \notin Unmeasured
          /\ \/ /\ Continue(t, label)
                /\ Floor(label) <= Floor(pc[t]) /\ Least(label) <= Least(pc[t])
                /\ pc[t] # "run" => Ceiling(pc[t]) <= Ceiling(label)
             \/ /\ Arrive(t, label)
                /\ Floor(label) <= Floor(pc[t]) + 1 /\ Least(label) <= Least(pc[t]) + 1
                /\ Ceiling(pc[t]) + 1 <= Ceiling(label)
    BY <1>4, WorkerRuns
  <2>3. CASE HasRun(t)
    BY <1>0, <2>1, <2>2, <2>3, RunMove
  <2>4. CASE ~ HasRun(t)
    <3>1. pc[t] # "run"
      BY <2>4, RunningHasRun DEF Running
    <3> QED
      BY <2>1, <2>2, <2>4, <3>1, RunWait
  <2> QED
    BY <2>3, <2>4
<1>5. ASSUME NEW t \in Threads, Fetch(t)
      PROVE  RunInv'
  BY <1>5, RunFetch
<1>6. CASE MainAction
  <2>1. UNCHANGED <<arrivals, blocked, min_runtime, taken>> /\ mt \in Threads
    BY <1>6, MainPlaces DEF MainAction, CreateThread, CreateFails, SetAffinity, SendCmd,
       SendFails, Join, UpdateResults, ReleaseStreams, DestroyThreads, MainOut, benchVars,
       innerVars, dataVars, Continue, TypeInv, TypeOK
  <2>2. CASE pc[mt] = "none" /\ pc' = [pc EXCEPT ![mt] = "fetch"]
    <3>1. /\ Continue(mt, "fetch")
          /\ Floor("fetch") = Floor(pc[mt]) /\ Ceiling("fetch") = Ceiling(pc[mt])
          /\ Least("fetch") = Least(pc[mt]) /\ pc[mt] \notin Unmeasured
          /\ Floor("fetch") = 0 /\ Ceiling("fetch") = 0 /\ Least("fetch") = 2
      BY <2>1, <2>2 DEF Continue, Goto, Floor, Ceiling, Least, Unmeasured, BenchLabels
    <3>2. CASE HasRun(mt)
      BY <1>0, <2>1, <3>1, <3>2, RunMove
    <3>3. CASE ~ HasRun(mt)
      BY <2>1, <3>1, <3>3, RunWait
    <3> QED
      BY <3>2, <3>3
  <2> QED
    BY <1>1, <1>6, <2>1, <2>2, MainPlaces
<1> QED
  BY <1>2, <1>3, <1>4, <1>5, <1>6, StepCases

\* What is left of a thread that has exited tells whether it has run.
LEMMA ExitedAlike ==
  ASSUME TypeInv, BarrierLockstep, RunInv, NEW t \in Threads, NEW u \in Threads,
         Workgroup[t] = Workgroup[u], At(t, "exited"), At(u, "exited"), HasRun(t)
  PROVE  HasRun(u)
<1> SUFFICES ASSUME ~ HasRun(u) PROVE FALSE
  OBVIOUS
<1>1. arrivals[t] \in Nat /\ arrivals[u] \in Nat /\ taken[t] \in Nat /\ taken[u] \in Nat
  BY DEF TypeInv, TypeOK, BenchTypeOK
<1>2. taken[u] < taken[t]
  BY <1>1 DEF HasRun
<1>3. arrivals[t] >= taken[t] + 3 /\ arrivals[u] <= taken[u] + 2
  BY DEF RunInv, At, Least, Ceiling, BenchLabels
<1>4. arrivals[t] = arrivals[u]
  BY DEF BarrierLockstep, Passed, At
<1> QED
  BY <1>1, <1>2, <1>3, <1>4

\* If main gets to report, a workgroup has been measured as a whole or not at
\* all, however many waits of the workers have timed out: a workgroup some of
\* whose threads leave before RUN does not get through exit_thread with the
\* others in run_benchmark, because the barriers do not add up.
THEOREM MeasuredAlike ==
  ASSUME CallTakesTime
  PROVE  Spec => []AllOrNoneRan
<1> DEFINE Inv == /\ TypeInv /\ BarrierLockstep /\ QueueInv /\ MainInv
                  /\ PlaceInv /\ CountInv /\ RunInv
<1>1. Init => Inv
  BY TypeInit, LockstepInit, QueueInit, MainInit, PlaceInit, CountInit, RunInit
<1>2. Inv /\ [Next]_vars => Inv'
  BY TypeNext, LockstepNext, QueueNext, MainNext, PlaceNext, CountNext, RunNext
<1>3. Inv => AllOrNoneRan
  <2> SUFFICES ASSUME Inv, Reported, NEW t \in Threads, NEW u \in Threads,
                      Workgroup[t] = Workgroup[u]
               PROVE  (min_runtime[t] = 0) = (min_runtime[u] = 0)
    BY DEF AllOrNoneRan
  <2>1. At(t, "exited") /\ At(u, "exited")
    BY DEF Reported, MainInv
  <2>2. HasRun(t) <=> HasRun(u)
    BY <2>1, ExitedAlike
  <2>3. "exited" \notin Unmeasured
    BY DEF Unmeasured, BenchLabels
  <2>4. (min_runtime[t] = 0 <=> ~ HasRun(t)) /\ (min_runtime[u] = 0 <=> ~ HasRun(u))
    BY <2>1, <2>3 DEF RunInv, At
  <2> QED
    BY <2>2, <2>4
<1> QED
  BY <1>1, <1>2, <1>3, PTL DEF Spec

-----------------------------------------------------------------------------
(* Clocks that agree.                                                      *)

\* There is one frequency, and the noise does not tip the decision about a
\* round, whose iteration count is a doubling of the smallest.
Undisturbed(f) ==
  /\ f \in Nat \ {0}
  /\ FreqSamples \subseteq {f}
  /\ \A n \in Doublings, j \in 0 .. Jitter, goal \in Runtimes \cup {MIN_RUNTIME} :
       Elapsed(n, j, f) >= goal => Elapsed(n, 0, f) >= goal

\* Noise only lengthens a time.
LEMMA ElapsedMonotone ==
  ASSUME NEW n \in Nat, NEW j \in Nat, NEW f \in Nat \ {0}
  PROVE  /\ Elapsed(n, 0, f) \in Nat /\ Elapsed(n, j, f) \in Nat
         /\ Elapsed(n, 0, f) <= Elapsed(n, j, f)
<1>1. TicksPerIter \in Nat /\ NANOS_PER_SEC \in Nat
  BY BenchAssumption
<1> DEFINE short == (n * TicksPerIter + 0) * NANOS_PER_SEC
           long  == (n * TicksPerIter + j) * NANOS_PER_SEC
<1>2. n * TicksPerIter \in Nat
  BY <1>1
<1>3. short \in Nat /\ long \in Nat /\ short <= long
  BY <1>1, <1>2
<1> HIDE DEF short, long
<1>4. short \div f \in Nat /\ long \div f \in Nat /\ short \div f <= long \div f
  BY <1>3
<1> QED
  BY <1>4 DEF Elapsed, short, long

\* what a thread asks of a round when its iteration count is n
GoalOf(n) == IF n = 0 THEN RequestedRuntime ELSE MIN_RUNTIME

\* a round of i kernel calls is too short for it
Short(f, i, n) == Elapsed(i, 0, f) < GoalOf(n)

\* n is the first doubling of MIN_ITERATIONS that is not too short
Chosen(f, n) ==
  /\ ~ Short(f, n, 0)
  /\ n = MIN_ITERATIONS \/ Short(f, n \div 2, 0)

\* The options of the run do not change.
ConfigInv == runcfg \in RunConfigs

LEMMA ConfigInit == Init => ConfigInv
  BY DEF Init, BenchInit, ConfigInv

LEMMA ConfigNext ==
  ASSUME ConfigInv, [Next]_vars
  PROVE  ConfigInv' /\ runcfg' = runcfg
<1>1. CASE \E t \in Threads : run_benchmark(t)
  BY <1>1 DEF ConfigInv, run_benchmark, Enter, EnterLoop, TimerInit, Calibrate, ReadFreq,
     Round, RoundStop, Execute, ExecuteTimer, ExecuteKernel, ExecuteStop, Finish,
     ResetAffinity
<1>2. CASE \E t \in Threads : WorkerAction(t)
  BY <1>2 DEF ConfigInv, WorkerAction, Fetch, Wait, Wake, SpuriousWake, Timeout,
     Initialize, StartRun, Complete, ExitBarrier, ExitDone, innerVars
<1>3. CASE MainAction
  BY <1>3 DEF ConfigInv, MainAction, CreateThread, CreateFails, SetAffinity, SendCmd,
     SendFails, Join, UpdateResults, ReleaseStreams, DestroyThreads, MainOut, benchVars,
     innerVars
<1>4. CASE UNCHANGED vars
  BY <1>4 DEF ConfigInv, vars, benchVars
<1> QED
  BY <1>1, <1>2, <1>3, <1>4, StepCases

LEMMA GoalType ==
  ASSUME ConfigInv, NEW n
  PROVE  GoalOf(n) \in Runtimes \cup {MIN_RUNTIME} /\ GoalOf(n) \in Nat
  BY BenchAssumption DEF ConfigInv, RunConfigs, GoalOf, RequestedRuntime, NoRuntime

-----------------------------------------------------------------------------
(* Measurements.                                                           *)

\* the result of a thread: at least the time its kernel calls take
Result(f, t, time) == iters[t] # 0 /\ freq # 0 /\ time >= Elapsed(iters[t], 0, f)

\* How far the measurement of a thread has got
Progress(f, t) ==
  /\ runcfg.iterations # 0 => iters[t] = runcfg.iterations
  /\ runcfg.iterations = 0 /\ iters[t] # 0 => Chosen(f, iters[t])
  /\ iters[t] = 0 => runtime[t] = runcfg.runtime
  /\ pc[t] \in Loop /\ iters[t] = 0 =>
       iter[t] = MIN_ITERATIONS \/ Short(f, iter[t] \div 2, 0)
  /\ pc[t] = "finish" => Result(f, t, min_runtime[t])
  /\ pc[t] = "reset" => Result(f, t, runtime[t])
  /\ HasRun(t) /\ ~ Running(t) => Result(f, t, runtime[t])

MeasureInv(f) == \A t \in Threads : Progress(f, t)

LEMMA MeasureInit ==
  ASSUME NEW f, Init
  PROVE  MeasureInv(f)
<1>1. \A t \in Threads : /\ taken[t] = 0 /\ pc[t] = "none"
                         /\ iters[t] = runcfg.iterations
                         /\ runtime[t] = runcfg.runtime
  BY DEF Init, BenchInit
<1>2. \A t \in Threads : ~ HasRun(t) /\ pc[t] \notin Loop
  BY <1>1 DEF HasRun, Loop
<1> QED
  BY <1>1, <1>2 DEF MeasureInv, Progress

\* The step of one thread leaves the measurements of the others alone, even
\* when it calibrates.
LEMMA ProgressOther ==
  ASSUME NEW f, NEW u \in Threads, Progress(f, u), runcfg' = runcfg,
         freq # 0 => freq' # 0,
         pc'[u] = pc[u], taken'[u] = taken[u], iter'[u] = iter[u],
         iters'[u] = iters[u], min_runtime'[u] = min_runtime[u],
         runtime'[u] = runtime[u]
  PROVE  Progress(f, u)'
<1>1. /\ HasRun(u)' <=> HasRun(u)
      /\ Running(u)' <=> Running(u)
  BY DEF HasRun, Running
<1>2. \A n : RequestedRuntime' = RequestedRuntime /\ GoalOf(n)' = GoalOf(n)
  BY DEF RequestedRuntime, GoalOf
<1>3. \A n, i : (Chosen(f, n)' <=> Chosen(f, n)) /\ (Short(f, i, n)' <=> Short(f, i, n))
  BY <1>2 DEF Chosen, Short
<1>4. Result(f, u, min_runtime[u]) => Result(f, u, min_runtime[u])'
  BY DEF Result
<1>5. Result(f, u, runtime[u]) => Result(f, u, runtime[u])'
  BY DEF Result
<1> QED
  BY <1>1, <1>3, <1>4, <1>5 DEF Progress

\* A thread moves on without a new result or iteration count.
LEMMA ProgressMove ==
  ASSUME NEW f, TypeInv, NEW t \in Threads, Progress(f, t), runcfg' = runcfg,
         NEW label \in WorkerLabels, pc' = [pc EXCEPT ![t] = label],
         freq # 0 => freq' # 0,
         iters'[t] = iters[t], runtime'[t] = runtime[t],
         label \in Loop /\ iters[t] = 0 =>
           iter'[t] = MIN_ITERATIONS \/ Short(f, iter'[t] \div 2, 0),
         label \notin {"finish", "reset"},
         HasRun(t)' /\ ~ Running(t)' => HasRun(t) /\ ~ Running(t)
  PROVE  Progress(f, t)'
<1>1. pc'[t] = label
  BY DEF TypeInv, TypeOK
<1>2. \A n : RequestedRuntime' = RequestedRuntime /\ GoalOf(n)' = GoalOf(n)
  BY DEF RequestedRuntime, GoalOf
<1>3. \A n, i : (Chosen(f, n)' <=> Chosen(f, n)) /\ (Short(f, i, n)' <=> Short(f, i, n))
  BY <1>2 DEF Chosen, Short
<1>4. Result(f, t, runtime[t]) => Result(f, t, runtime[t])'
  BY DEF Result
<1> QED
  BY <1>1, <1>3, <1>4 DEF Progress

\* The decision at the end of a round: alike for every noise.
LEMMA RoundDecision ==
  ASSUME NEW f, Undisturbed(f), TypeInv, ConfigInv, CountInv, NEW t \in Threads,
         Progress(f, t), pc[t] = "roundstop", NEW j \in 0 .. Jitter
  PROVE  /\ Elapsed(iter[t], j, tfreq[t]) < Goal(t) => Short(f, iter[t], iters[t])
         /\ Elapsed(iter[t], j, tfreq[t]) >= Goal(t) => ~ Short(f, iter[t], iters[t])
<1>1. tfreq[t] = f
  BY DEF TypeInv, TimerCalibrated, CountInv, Undisturbed
<1>2. Goal(t) = GoalOf(iters[t])
  BY DEF Progress, Goal, GoalOf, RequestedRuntime
<1>3. iter[t] \in Nat /\ j \in Nat /\ f \in Nat \ {0} /\ iter[t] \in Doublings
  BY BenchAssumption DEF TypeInv, TypeOK, BenchTypeOK, Undisturbed, CountInv, Loop
<1>4. GoalOf(iters[t]) \in Runtimes \cup {MIN_RUNTIME} /\ GoalOf(iters[t]) \in Nat
  BY GoalType
<1>5. /\ Elapsed(iter[t], 0, f) \in Nat /\ Elapsed(iter[t], j, f) \in Nat
      /\ Elapsed(iter[t], 0, f) <= Elapsed(iter[t], j, f)
  BY <1>3, ElapsedMonotone
<1>6. Elapsed(iter[t], j, f) >= GoalOf(iters[t]) => Elapsed(iter[t], 0, f) >= GoalOf(iters[t])
  BY <1>3, <1>4 DEF Undisturbed
<1> QED
  BY <1>1, <1>2, <1>4, <1>5, <1>6 DEF Short

\* The steps of run_benchmark
LEMMA ProgressBench ==
  ASSUME NEW f, Undisturbed(f), TypeInv, ConfigInv, CountInv, PlaceInv,
         NEW t \in Threads, Progress(f, t), run_benchmark(t), UNCHANGED groupVars,
         runcfg' = runcfg
  PROVE  Progress(f, t)'
<1>0. /\ iter \in [Threads -> Nat] /\ iters \in [Threads -> Nat]
      /\ min_runtime \in [Threads -> Nat]
      /\ runtime \in [Threads -> Nat \cup {NoRuntime}]
      /\ pc \in [Threads -> WorkerLabels] /\ freq \in Nat
      /\ MIN_ITERATIONS \in Nat
  BY BenchAssumption DEF TypeInv, TypeOK, BenchTypeOK
<1>1. Running(t) /\ HasRun(t) /\ UNCHANGED taken
  BY BenchWhere, RunningHasRun DEF Running, groupVars, cmdVars
<1>2. /\ \A n : GoalOf(n)' = GoalOf(n)
      /\ \A n : Chosen(f, n)' <=> Chosen(f, n)
      /\ \A i, n : Short(f, i, n)' <=> Short(f, i, n)
  BY DEF RequestedRuntime, GoalOf, Chosen, Short
<1>3. \A label \in BenchLabels : label \in WorkerLabels
  BY DEF WorkerLabels
<1>4. ASSUME NEW label \in BenchLabels \ {"finish", "reset"},
             pc' = [pc EXCEPT ![t] = label],
             freq # 0 => freq' # 0,
             UNCHANGED <<iters, runtime>>,
             label \in Loop /\ iters[t] = 0 =>
               iter'[t] = MIN_ITERATIONS \/ Short(f, iter'[t] \div 2, 0)
      PROVE  Progress(f, t)'
  <2>1. Running(t)'
    BY <1>0, <1>4 DEF Running
  <2> QED
    BY <1>3, <1>4, <2>1, ProgressMove
<1>5. CASE Enter(t) \/ Execute(t) \/ ExecuteTimer(t) \/ ExecuteKernel(t)
  <2>1. PICK label \in {"loop", "exectimer", "execkernel", "execstop"} :
           pc' = [pc EXCEPT ![t] = label]
    BY <1>5 DEF Enter, Execute, ExecuteTimer, ExecuteKernel, Arrive, Continue, Goto
  <2>2. UNCHANGED <<freq, iters, runtime>>
    BY <1>5 DEF Enter, Execute, ExecuteTimer, ExecuteKernel, timerVars, dataVars
  <2>3. label \in BenchLabels \ {"finish", "reset"} /\ label \notin Loop
    BY DEF BenchLabels, Loop
  <2> QED
    BY <1>4, <2>1, <2>2, <2>3
<1>6. CASE EnterLoop(t)
  <2>1. /\ pc' = [pc EXCEPT ![t] = "timer"]
        /\ iter' = [iter EXCEPT ![t] = MIN_ITERATIONS]
        /\ UNCHANGED <<freq, iters, runtime>>
    BY <1>6 DEF EnterLoop, Arrive, Goto, timerVars
  <2>2. iter'[t] = MIN_ITERATIONS /\ "timer" \in BenchLabels \ {"finish", "reset"}
    BY <1>0, <2>1 DEF BenchLabels
  <2> QED
    BY <1>4, <2>1, <2>2
<1>7. CASE TimerInit(t) \/ Calibrate(t) \/ ReadFreq(t) \/ Round(t)
  <2>1. PICK label \in {"calibrate", "freqread", "round", "roundstop"} :
           pc' = [pc EXCEPT ![t] = label]
    BY <1>7 DEF TimerInit, Calibrate, ReadFreq, Round, Arrive, Continue, Goto
  <2>2. UNCHANGED <<iter, iters, runtime>> /\ pc[t] \in Loop
    BY <1>7 DEF TimerInit, Calibrate, ReadFreq, Round, At, Loop, dataVars
  <2>3. freq # 0 => freq' # 0
    BY <1>7, BenchAssumption DEF TimerInit, Calibrate, ReadFreq, Round, timerVars
  <2>4. label \in BenchLabels \ {"finish", "reset"}
    BY DEF BenchLabels
  <2>5. iters[t] = 0 => iter'[t] = MIN_ITERATIONS \/ Short(f, iter'[t] \div 2, 0)
    BY <2>2 DEF Progress
  <2> QED
    BY <1>4, <2>1, <2>2, <2>3, <2>4, <2>5
<1>8. CASE RoundStop(t)
  <2>1. PICK j \in 0 .. Jitter :
           \/ /\ Elapsed(iter[t], j, tfreq[t]) < Goal(t)
              /\ iter' = [iter EXCEPT ![t] = 2 * @]
              /\ Continue(t, "timer")
              /\ UNCHANGED iters
           \/ /\ Elapsed(iter[t], j, tfreq[t]) >= Goal(t)
              /\ iters' = [iters EXCEPT ![t] = IF @ = 0 THEN iter[t] ELSE @]
              /\ Arrive(t, "exec")
              /\ UNCHANGED iter
    BY <1>8 DEF RoundStop
  <2>2. pc[t] = "roundstop" /\ pc[t] \in Loop /\ UNCHANGED <<freq, runtime>>
    BY <1>8 DEF RoundStop, At, Loop, timerVars
  <2>3. CASE /\ Elapsed(iter[t], j, tfreq[t]) < Goal(t)
             /\ iter' = [iter EXCEPT ![t] = 2 * @]
             /\ Continue(t, "timer")
             /\ UNCHANGED iters
    <3>1. Short(f, iter[t], iters[t])
      BY <2>2, <2>3, RoundDecision
    <3>2. iter'[t] \div 2 = iter[t]
      BY <1>0, <2>3
    <3>3. pc' = [pc EXCEPT ![t] = "timer"] /\ "timer" \in BenchLabels \ {"finish", "reset"}
      BY <2>3 DEF Continue, Goto, BenchLabels
    <3>4. iters[t] = 0 => Short(f, iter'[t] \div 2, 0)
      BY <3>1, <3>2
    <3> QED
      BY <1>4, <2>2, <2>3, <3>3, <3>4
  <2>4. CASE /\ Elapsed(iter[t], j, tfreq[t]) >= Goal(t)
             /\ iters' = [iters EXCEPT ![t] = IF @ = 0 THEN iter[t] ELSE @]
             /\ Arrive(t, "exec")
             /\ UNCHANGED iter
    <3>1. ~ Short(f, iter[t], iters[t]) /\ iter[t] # 0
      BY <2>2, <2>4, RoundDecision, Doubled DEF CountInv
    <3>2. pc'[t] = "exec" /\ "exec" \notin Loop /\ Running(t)'
      BY <1>0, <2>4 DEF Arrive, Goto, Loop, Running, BenchLabels
    <3>3. CASE iters[t] # 0
      <4>1. iters'[t] = iters[t]
        BY <1>0, <2>4, <3>3
      <4> QED
        BY <1>2, <2>2, <3>2, <3>3, <4>1 DEF Progress
    <3>4. CASE iters[t] = 0
      <4>1. iters'[t] = iter[t]
        BY <1>0, <2>4, <3>4
      <4>2. Chosen(f, iter[t])
        BY <2>2, <3>1, <3>4 DEF Progress, Chosen
      <4>3. Progress(f, t) => (runcfg.iterations # 0 => iters[t] = runcfg.iterations)
        BY DEF Progress
      <4>4. runcfg.iterations = 0
        BY <3>4, <4>3
      <4> QED
        BY <1>2, <3>1, <3>2, <4>1, <4>2, <4>4 DEF Progress
    <3> QED
      BY <3>3, <3>4
  <2> QED
    BY <2>1, <2>3, <2>4
<1>9. CASE ExecuteStop(t)
  <2>1. PICK j \in 0 .. Jitter :
          min_runtime' = [min_runtime EXCEPT ![t] = Elapsed(iters[t], j, tfreq[t])]
    BY <1>9 DEF ExecuteStop
  <2>2. /\ pc[t] = "execstop" /\ pc' = [pc EXCEPT ![t] = "finish"]
        /\ UNCHANGED <<freq, iters, runtime>>
    BY <1>9 DEF ExecuteStop, At, Arrive, Goto, timerVars
  <2>3. tfreq[t] = f /\ freq # 0 /\ iters[t] \in Nat \ {0} /\ j \in Nat /\ f \in Nat \ {0}
    <3>1. tfreq[t] # 0 /\ freq # 0
      BY <2>2 DEF TypeInv, TimerCalibrated
    <3>2. tfreq[t] = f
      BY <3>1 DEF CountInv, Undisturbed
    <3>3. iters[t] # 0
      BY <2>2 DEF CountInv, Timed
    <3> QED
      BY <1>0, <3>1, <3>2, <3>3, BenchAssumption DEF Undisturbed
  <2>4. min_runtime'[t] >= Elapsed(iters[t], 0, f)
    BY <1>0, <2>1, <2>3, ElapsedMonotone
  <2>5. Result(f, t, min_runtime[t])'
    BY <2>2, <2>3, <2>4 DEF Result
  <2>6. pc'[t] = "finish" /\ "finish" \notin Loop /\ Running(t)'
    BY <1>0, <2>2 DEF Loop, Running, BenchLabels
  <2> QED
    BY <1>2, <2>2, <2>3, <2>5, <2>6 DEF Progress
<1>10. CASE Finish(t)
  <2>1. /\ pc[t] = "finish" /\ pc' = [pc EXCEPT ![t] = "reset"]
        /\ runtime' = [runtime EXCEPT ![t] = min_runtime[t]]
        /\ UNCHANGED <<freq, iters>>
    BY <1>10 DEF Finish, At, Arrive, Goto, timerVars
  <2>2. runtime'[t] = min_runtime[t] /\ Result(f, t, min_runtime[t])
    BY <1>0, <2>1 DEF Progress
  <2>3. Result(f, t, runtime[t])' /\ iters'[t] # 0
    BY <2>1, <2>2 DEF Result
  <2>4. pc'[t] = "reset" /\ "reset" \notin Loop /\ Running(t)'
    BY <1>0, <2>1 DEF Loop, Running, BenchLabels
  <2> QED
    BY <1>2, <2>1, <2>3, <2>4 DEF Progress
<1>11. CASE ResetAffinity(t)
  <2>1. /\ pc[t] = "reset" /\ pc' = [pc EXCEPT ![t] = "complete"]
        /\ UNCHANGED <<freq, iters, runtime>>
    BY <1>11 DEF ResetAffinity, At, Continue, Goto, timerVars, dataVars
  <2>2. Result(f, t, runtime[t])
    BY <2>1 DEF Progress
  <2>3. Result(f, t, runtime[t])'
    BY <2>1, <2>2 DEF Result
  <2>4. pc'[t] = "complete" /\ "complete" \notin Loop
    BY <1>0, <2>1 DEF Loop
  <2> QED
    BY <1>2, <2>1, <2>3, <2>4 DEF Progress
<1> QED
  BY <1>5, <1>6, <1>7, <1>8, <1>9, <1>10, <1>11 DEF run_benchmark

\* The steps of _func_t: no thread leaves run_benchmark here, and RUN is taken
\* by a thread that then runs.
LEMMA ProgressWorker ==
  ASSUME NEW f, TypeInv, QueueInv, PlaceInv, NEW t \in Threads, Progress(f, t),
         WorkerAction(t), runcfg' = runcfg
  PROVE  Progress(f, t)'
<1>0. /\ pc \in [Threads -> WorkerLabels] /\ taken \in [Threads -> Nat]
      /\ Len(Script) \in Nat
  BY ThreadGroupAssumption DEF TypeInv, TypeOK
<1>1. UNCHANGED <<freq, iters, runtime>>
  BY DEF WorkerAction, Fetch, Wait, Wake, SpuriousWake, Timeout, Initialize, StartRun,
     Complete, ExitBarrier, ExitDone, innerVars, timerVars, dataVars
<1>2. CASE Fetch(t)
  <2>1. /\ pc[t] = "fetch" /\ queue[t] # <<>>
        /\ taken' = [taken EXCEPT ![t] = @ + 1]
        /\ pc' = [pc EXCEPT ![t] = Entry(Head(queue[t]))]
    BY <1>2 DEF Fetch, At, Continue, Goto
  <2>2. Head(queue[t]) = Script[taken[t] + 1]
    BY <2>1, NextCommand
  <2>3. PICK cmd : cmd = Script[taken[t] + 1]
    OBVIOUS
  <2>4. /\ pc'[t] = Entry(cmd) /\ taken'[t] = taken[t] + 1
        /\ HasRun(t)' => HasRun(t) \/ cmd = "RUN"
    BY <1>0, <2>1, <2>2, <2>3 DEF HasRun
  <2>5. /\ Entry(cmd) \in WorkerLabels \ {"finish", "reset"}
        /\ Entry(cmd) \notin Loop
        /\ cmd = "RUN" => Entry(cmd) = "run"
    BY DEF Entry, WorkerLabels, Loop
  <2>6. ~ Running(t) /\ (pc'[t] = "run" => Running(t)')
    BY <2>1 DEF Running, BenchLabels
  <2>7. HasRun(t)' /\ ~ Running(t)' => HasRun(t) /\ ~ Running(t)
    BY <2>4, <2>5, <2>6
  <2>8. pc' = [pc EXCEPT ![t] = Entry(cmd)]
    BY <2>1, <2>2, <2>3
  <2> QED
    BY <1>1, <2>5, <2>7, <2>8, ProgressMove
<1>3. CASE ~ Fetch(t)
  <2>1. PICK label \in WorkerLabels \ {"run", "init"} :
           /\ pc' = [pc EXCEPT ![t] = label]
           /\ label \in {"waiting", "fetch", "complete", "bench", "exit", "exitdone",
                         "exited"}
           /\ label = "bench" \/ pc[t] # "run"
    BY <1>3 DEF WorkerAction, Wait, Wake, SpuriousWake, Timeout, Initialize,
       StartRun, Complete, ExitBarrier, ExitDone, Arrive, Continue, Goto, At, WorkerLabels,
       BenchLabels
  <2>2. label \notin {"finish", "reset"} /\ label \notin Loop
    BY <2>1 DEF Loop
  <2>3. pc[t] \notin BenchLabels
    BY <1>3 DEF WorkerAction, Wait, Wake, SpuriousWake, Timeout, Initialize,
       StartRun, Complete, ExitBarrier, ExitDone, At, BenchLabels
  <2>4. pc'[t] = label /\ taken' = taken
    BY <1>0, <1>3, <2>1 DEF WorkerAction, Wait, Wake, SpuriousWake, Timeout, Initialize,
       StartRun, Complete, ExitBarrier, ExitDone, cmdVars
  <2>5. (HasRun(t)' <=> HasRun(t)) /\ "bench" \in BenchLabels
    BY <2>4 DEF HasRun, BenchLabels
  <2>6. HasRun(t)' /\ ~ Running(t)' => HasRun(t) /\ ~ Running(t)
    BY <2>1, <2>3, <2>4, <2>5 DEF Running
  <2> QED
    BY <1>1, <2>1, <2>2, <2>6, ProgressMove
<1> QED
  BY <1>2, <1>3

\* What the step of one thread leaves alone
LEMMA StepOfOne ==
  ASSUME TypeInv, NEW t \in Threads,
         (run_benchmark(t) /\ UNCHANGED groupVars) \/ WorkerAction(t)
  PROVE  /\ freq # 0 => freq' # 0
         /\ \A u \in Threads \ {t} :
              /\ pc'[u] = pc[u] /\ taken'[u] = taken[u] /\ arrivals'[u] = arrivals[u]
              /\ iter'[u] = iter[u] /\ iters'[u] = iters[u]
              /\ min_runtime'[u] = min_runtime[u] /\ runtime'[u] = runtime[u]
<1>0. /\ iter \in [Threads -> Nat] /\ iters \in [Threads -> Nat]
      /\ min_runtime \in [Threads -> Nat] /\ arrivals \in [Threads -> Nat]
      /\ runtime \in [Threads -> Nat \cup {NoRuntime}]
      /\ taken \in [Threads -> Nat]
  BY DEF TypeInv, TypeOK, BenchTypeOK
<1>1. \A u \in Threads \ {t} : pc'[u] = pc[u]
  BY WorkerStays
<1>2. CASE run_benchmark(t) /\ UNCHANGED groupVars
  <2>1. freq # 0 => freq' # 0
    BY <1>2, BenchAssumption DEF run_benchmark, Enter, EnterLoop, TimerInit, Calibrate,
       ReadFreq, Round, RoundStop, Execute, ExecuteTimer, ExecuteKernel, ExecuteStop,
       Finish, ResetAffinity, timerVars
  <2>2. \A u \in Threads \ {t} :
          /\ iter'[u] = iter[u] /\ iters'[u] = iters[u]
          /\ min_runtime'[u] = min_runtime[u] /\ runtime'[u] = runtime[u]
    BY <1>0, <1>2 DEF run_benchmark, Enter, EnterLoop, TimerInit, Calibrate,
       ReadFreq, Round, RoundStop, Execute, ExecuteTimer, ExecuteKernel, ExecuteStop,
       Finish, ResetAffinity, dataVars
  <2>3. \A u \in Threads \ {t} : arrivals'[u] = arrivals[u]
    <3>1. \E label : Continue(t, label) \/ Arrive(t, label)
      BY <1>2, BenchMoves
    <3> QED
      BY <1>0, <3>1 DEF Continue, Arrive
  <2>4. taken' = taken
    BY <1>2 DEF groupVars, cmdVars
  <2> QED
    BY <1>1, <2>1, <2>2, <2>3, <2>4
<1>3. CASE WorkerAction(t)
  <2>1. UNCHANGED <<freq, iter, iters, min_runtime, runtime>>
    BY <1>3 DEF WorkerAction, Fetch, Wait, Wake, SpuriousWake, Timeout, Initialize,
       StartRun, Complete, ExitBarrier, ExitDone, innerVars, timerVars, dataVars
  <2>2. \A u \in Threads \ {t} : taken'[u] = taken[u]
    BY <1>0, <1>3 DEF WorkerAction, Fetch, Wait, Wake, SpuriousWake, Timeout, Initialize,
       StartRun, Complete, ExitBarrier, ExitDone, cmdVars
  <2>3. \E label : Continue(t, label) \/ Arrive(t, label)
    BY <1>3 DEF WorkerAction, Fetch, Wait, Wake, SpuriousWake, Timeout, Initialize,
       StartRun, Complete, ExitBarrier, ExitDone
  <2>4. \A u \in Threads \ {t} : arrivals'[u] = arrivals[u]
    BY <1>0, <2>3 DEF Continue, Arrive
  <2> QED
    BY <1>1, <2>1, <2>2, <2>4
<1> QED
  BY <1>2, <1>3

\* What the steps of main leave alone
LEMMA StepOfMain ==
  ASSUME TypeInv, MainInv, MainAction
  PROVE  /\ UNCHANGED <<freq, taken, arrivals, iter, iters, min_runtime, runtime, timeouts>>
         /\ \A u \in Threads : pc'[u] = pc[u] \/ (pc[u] = "none" /\ pc'[u] = "fetch")
<1>1. UNCHANGED <<freq, arrivals, iter, iters, min_runtime, runtime>>
  BY DEF MainAction, CreateThread, CreateFails, SetAffinity, SendCmd, SendFails, Join,
     UpdateResults, ReleaseStreams, DestroyThreads, MainOut, benchVars, innerVars,
     timerVars, dataVars, Continue
<1>2. \A u \in Threads : pc'[u] = pc[u] \/ (pc[u] = "none" /\ pc'[u] = "fetch")
  BY MainPlaces DEF TypeInv, TypeOK
<1> QED
  BY <1>1, <1>2, MainPlaces

LEMMA MeasureNext ==
  ASSUME NEW f, Undisturbed(f), TypeInv, QueueInv, MainInv, ConfigInv, CountInv, PlaceInv,
         MeasureInv(f), [Next]_vars
  PROVE  MeasureInv(f)'
<1>0. runcfg' = runcfg
  BY ConfigNext
<1>1. ASSUME NEW t \in Threads,
             (run_benchmark(t) /\ UNCHANGED groupVars) \/ WorkerAction(t)
      PROVE  MeasureInv(f)'
  <2>1. Progress(f, t)'
    BY <1>0, <1>1, ProgressBench, ProgressWorker DEF MeasureInv
  <2>2. /\ freq # 0 => freq' # 0
        /\ \A u \in Threads \ {t} :
              /\ pc'[u] = pc[u] /\ taken'[u] = taken[u]
              /\ iter'[u] = iter[u] /\ iters'[u] = iters[u]
              /\ min_runtime'[u] = min_runtime[u] /\ runtime'[u] = runtime[u]
    BY <1>1, StepOfOne
  <2>3. \A u \in Threads \ {t} : Progress(f, u)'
    BY <1>0, <2>2, ProgressOther DEF MeasureInv
  <2> QED
    BY <2>1, <2>3 DEF MeasureInv
<1>2. CASE MainAction
  <2>1. UNCHANGED <<freq, taken, iter, iters, min_runtime, runtime>>
    BY <1>2, StepOfMain
  <2>2. SUFFICES ASSUME NEW u \in Threads PROVE Progress(f, u)'
    BY DEF MeasureInv
  <2>3. CASE pc'[u] = pc[u]
    BY <1>0, <2>1, <2>3, ProgressOther DEF MeasureInv
  <2>4. CASE pc[u] = "none" /\ pc'[u] = "fetch"
    <3>1. pc' = [pc EXCEPT ![u] = "fetch"]
      BY <1>2, <2>4, MainPlaces DEF TypeInv, TypeOK
    <3>2. /\ "fetch" \in WorkerLabels \ {"finish", "reset"} /\ "fetch" \notin Loop
          /\ ~ Running(u) /\ (HasRun(u)' <=> HasRun(u))
      BY <2>1, <2>4 DEF WorkerLabels, Loop, Running, BenchLabels, HasRun
    <3> QED
      BY <1>0, <2>1, <3>1, <3>2, ProgressMove DEF MeasureInv
  <2> QED
    BY <1>2, <2>3, <2>4, StepOfMain
<1>3. CASE UNCHANGED vars
  <2>1. UNCHANGED <<freq, pc, taken, iter, iters, min_runtime, runtime>>
    BY <1>3 DEF vars, benchVars, groupVars, cmdVars, timerVars, dataVars
  <2> QED
    BY <1>0, <2>1, ProgressOther DEF MeasureInv
<1> QED
  BY <1>1, <1>2, <1>3, StepCases

\* With clocks that agree and no timeout, what update_results reports is what
\* was asked for: the requested iterations, with at least the time their
\* kernel calls take; or, when the program chooses, the first doubling of
\* MIN_ITERATIONS that lasts for the requested runtime, and a time at least
\* as long.
THEOREM MeasuredAsAsked ==
  ASSUME EndsLast, \E n \in 1 .. Len(Script) : Script[n] = "RUN",
         NEW f, Undisturbed(f)
  PROVE  Spec => [](timeouts = 0 => ResultsMeasured)
<1> DEFINE Inv == /\ TypeInv /\ QueueInv /\ MainInv /\ PlaceInv /\ LeaveInv /\ StoredInv
                  /\ ConfigInv /\ CountInv /\ MeasureInv(f)
<1>1. Init => Inv
  BY TypeInit, QueueInit, MainInit, PlaceInit, LeaveInit, StoredInit, ConfigInit,
     CountInit, MeasureInit
<1>2. Inv /\ [Next]_vars => Inv'
  BY TypeNext, QueueNext, MainNext, PlaceNext, LeaveNext, StoredNext, ConfigNext,
     CountNext, MeasureNext
<1>3. Inv => (timeouts = 0 => ResultsMeasured)
  <2> SUFFICES ASSUME Inv, timeouts = 0, Reported, NEW t \in Threads
               PROVE  IF runcfg.iterations # 0
                      THEN /\ results[t].iters = runcfg.iterations
                           /\ results[t].runtime >= Elapsed(runcfg.iterations, 0, freq)
                      ELSE /\ results[t].runtime >= RequestedRuntime
                           /\ \/ results[t].iters = MIN_ITERATIONS
                              \/ Elapsed(results[t].iters \div 2, 0, freq) < RequestedRuntime
    BY DEF ResultsMeasured
  <2>1. pc[t] = "exited" /\ taken[t] = Len(Script)
    BY ReportedWhole
  <2>2. HasRun(t) /\ ~ Running(t)
    BY <2>1 DEF HasRun, Running, BenchLabels
  <2>3. Result(f, t, runtime[t]) /\ Progress(f, t)
    BY <2>2 DEF MeasureInv, Progress
  <2>4. freq = f /\ iters[t] \in Nat \ {0} /\ runtime[t] >= Elapsed(iters[t], 0, f)
    BY <2>3 DEF Result, CountInv, Undisturbed, TypeInv, TypeOK, BenchTypeOK
  <2>5. results[t].iters = iters[t] /\ results[t].runtime = runtime[t]
    BY DEF StoredInv
  <2>6. CASE runcfg.iterations # 0
    BY <2>3, <2>4, <2>5, <2>6 DEF Progress
  <2>7. CASE runcfg.iterations = 0
    <3>1. Chosen(f, iters[t])
      BY <2>3, <2>4, <2>7 DEF Progress
    <3>2. /\ ~ (Elapsed(iters[t], 0, f) < RequestedRuntime)
          /\ iters[t] = MIN_ITERATIONS \/ Elapsed(iters[t] \div 2, 0, f) < RequestedRuntime
      BY <3>1 DEF Chosen, Short, GoalOf
    <3>3. /\ Elapsed(iters[t], 0, f) \in Nat /\ RequestedRuntime \in Nat
          /\ runtime[t] \in Int
      <4>1. f \in Nat \ {0} /\ GoalOf(0) = RequestedRuntime
        BY DEF Undisturbed, GoalOf
      <4>2. RequestedRuntime \in Nat
        BY <4>1, GoalType
      <4>3. runtime[t] \in Int
        BY DEF TypeInv, TypeOK, BenchTypeOK, NoRuntime
      <4> QED
        BY <2>4, <4>1, <4>2, <4>3, ElapsedMonotone
    <3> QED
      BY <2>4, <2>5, <2>7, <3>2, <3>3
  <2> QED
    BY <2>6, <2>7
<1> QED
  BY <1>1, <1>2, <1>3, PTL DEF Spec

-----------------------------------------------------------------------------
(* Histories.                                                              *)

\* A thread whose wait has timed out is on its way out without a command that
\* ends threads.  Its partners do not know: they meet it at two more barriers.
LastEnds(t) == taken[t] # 0 /\ Entry(Script[taken[t]]) = "exit"
TimedOut(t) == pc[t] \in Leaving /\ ~ LastEnds(t)

\* the barriers it has entered since
Left(t) ==
  CASE TimedOut(t) /\ pc[t] = "exitdone" -> 1
    [] TimedOut(t) /\ pc[t] = "exited"   -> 2
    [] OTHER                             -> 0

\* How many barriers the commands of a thread have taken it through.
Way(t) == arrivals[t] - Left(t)

\* The part of its way a thread is in, in barriers: a thread that has not
\* entered another one since is in the same part.  A round too short and the
\* head of the next one are in one part, and so are the end of RUN and the
\* barrier that completes it.  A thread that has timed out stays where it was.
Segment(f, t) ==
  CASE pc[t] \in {"none", "fetch", "waiting", "init", "run", "bench", "exit"} -> "idle"
    [] TimedOut(t) -> "idle"
    [] pc[t] \in {"timer", "calibrate", "freqread"} -> "timer"
    [] pc[t] = "roundstop" -> IF Short(f, iter[t], iters[t]) THEN "timer" ELSE "roundstop"
    [] pc[t] \in {"exectimer", "execkernel"} -> "exectimer"
    [] pc[t] = "complete" -> IF Script[taken[t]] = "RUN" THEN "reset" ELSE "idle"
    [] OTHER -> pc[t]

\* commands completed
Count(t) ==
  IF pc[t] \in {"none", "fetch", "waiting"} \/ TimedOut(t) THEN taken[t] ELSE taken[t] - 1

\* kernel calls of the round to come
Rounds(f, t) ==
  CASE pc[t] = "roundstop" /\ Short(f, iter[t], iters[t]) -> 2 * iter[t]
    [] pc[t] \in Loop /\ ~ (pc[t] = "roundstop" /\ Short(f, iter[t], iters[t])) -> iter[t]
    [] OTHER -> 0

Signature(f, t) ==
  [seg |-> Segment(f, t), count |-> Count(t), iter |-> Rounds(f, t), iters |-> iters[t]]

\* the signature one barrier later
Following(f, s) ==
  CASE s.seg = "idle" ->
         LET cmd == Script[s.count + 1]
         IN IF cmd = "RUN" THEN [s EXCEPT !.seg = "loop"]
            ELSE IF Entry(cmd) = "exit" THEN [s EXCEPT !.seg = "exitdone"]
            ELSE [s EXCEPT !.count = @ + 1]
    [] s.seg = "loop"      -> [s EXCEPT !.seg = "timer", !.iter = MIN_ITERATIONS]
    [] s.seg = "timer"     -> [s EXCEPT !.seg = "round"]
    [] s.seg = "round"     -> IF Short(f, s.iter, s.iters)
                              THEN [s EXCEPT !.seg = "timer", !.iter = 2 * @]
                              ELSE [s EXCEPT !.seg = "roundstop"]
    [] s.seg = "roundstop" -> [s EXCEPT !.seg = "exec", !.iter = 0,
                                        !.iters = IF @ = 0 THEN s.iter ELSE @]
    [] s.seg = "exec"      -> [s EXCEPT !.seg = "exectimer"]
    [] s.seg = "exectimer" -> [s EXCEPT !.seg = "execstop"]
    [] s.seg = "execstop"  -> [s EXCEPT !.seg = "finish"]
    [] s.seg = "finish"    -> [s EXCEPT !.seg = "reset"]
    [] s.seg = "reset"     -> [s EXCEPT !.seg = "idle", !.count = @ + 1]
    [] OTHER               -> [s EXCEPT !.seg = "exited"]

\* the signature d barriers later
Later(f, d, s) ==
  CASE d = 0 -> s
    [] d = 1 -> Following(f, s)
    [] d = 2 -> Following(f, Following(f, s))
    [] d = 3 -> Following(f, Following(f, Following(f, s)))

\* Equally many barriers, equal signatures.  A thread that waits for one that
\* has timed out is at most three barriers ahead of it.
HistoryInv(f) ==
  \A t, u \in Threads, d \in 0 .. 3 :
    Workgroup[t] = Workgroup[u] /\ Way(t) = Way(u) + d =>
      Signature(f, t) = Later(f, d, Signature(f, u))

\* thread t gets no further and keeps its signature
Stays(f, t) ==
  /\ Way(t)' = Way(t)
  /\ Signature(f, t)' = Signature(f, t)

\* thread t arrives and gets the next one
Follows(f, t) ==
  /\ t \notin blocked /\ Left(t) = 0
  /\ Way(t)' = Way(t) + 1
  /\ Signature(f, t)' = Following(f, Signature(f, t))

\* A thread waits only if no command has ended it.
IdleInv == \A t \in Threads : pc[t] \in {"none", "fetch", "waiting"} => ~ LastEnds(t)

LEMMA IdleInit == Init => IdleInv
  BY DEF Init, IdleInv, LastEnds

LEMMA IdleNext ==
  ASSUME TypeInv, QueueInv, MainInv, PlaceInv, IdleInv, [Next]_vars
  PROVE  IdleInv'
<1>0. pc \in [Threads -> WorkerLabels] /\ taken \in [Threads -> Nat]
  BY DEF TypeInv, TypeOK
<1>1. ASSUME NEW u \in Threads, taken'[u] = taken[u],
             pc'[u] \in {"none", "fetch", "waiting"} => ~ LastEnds(u)
      PROVE  pc'[u] \in {"none", "fetch", "waiting"} => ~ LastEnds(u)'
  BY <1>1 DEF LastEnds
<1>2. ASSUME NEW t \in Threads,
             (run_benchmark(t) /\ UNCHANGED groupVars) \/ WorkerAction(t)
      PROVE  IdleInv'
  <2>1. \A u \in Threads \ {t} : pc'[u] = pc[u] /\ taken'[u] = taken[u]
    BY <1>2, StepOfOne
  <2>2. pc'[t] \in {"none", "fetch", "waiting"} => ~ LastEnds(t)'
    <3>1. CASE run_benchmark(t)
      <4>1. pc'[t] \in BenchLabels \cup {"complete"}
        BY <1>0, <3>1, BenchWhere
      <4> QED
        BY <4>1 DEF BenchLabels
    <3>2. CASE Fetch(t)
      BY <1>0, <3>2 DEF Fetch, Continue, Goto, Entry
    <3>3. CASE Wait(t) \/ Wake(t) \/ SpuriousWake(t)
      <4>1. pc[t] \in {"fetch", "waiting"} /\ taken' = taken
        BY <3>3 DEF Wait, Wake, SpuriousWake, At, cmdVars
      <4> QED
        BY <1>1, <4>1 DEF IdleInv
    <3>4. CASE Complete(t)
      <4>1. pc[t] = "complete" /\ taken' = taken
        BY <3>4 DEF Complete, At
      <4>2. ~ LastEnds(t)
        BY <4>1 DEF PlaceInv, LastEnds
      <4> QED
        BY <1>1, <4>1, <4>2
    <3>5. CASE Timeout(t) \/ Initialize(t) \/ StartRun(t) \/ ExitBarrier(t) \/ ExitDone(t)
      <4>1. pc'[t] \in {"exit", "complete", "bench", "exitdone", "exited"}
        BY <1>0, <3>5 DEF Timeout, Initialize, StartRun, ExitBarrier, ExitDone, Continue,
           Arrive, Goto
      <4> QED
        BY <4>1
    <3> QED
      BY <1>2, <3>1, <3>2, <3>3, <3>4, <3>5 DEF WorkerAction
  <2>3. \A u \in Threads \ {t} :
          pc'[u] \in {"none", "fetch", "waiting"} => ~ LastEnds(u)'
    BY <1>1, <2>1 DEF IdleInv
  <2> QED
    BY <2>2, <2>3 DEF IdleInv
<1>3. CASE MainAction
  <2>1. /\ UNCHANGED taken
        /\ \A u \in Threads : pc'[u] = pc[u] \/ (pc[u] = "none" /\ pc'[u] = "fetch")
    BY <1>3, StepOfMain
  <2> QED
    BY <1>1, <2>1 DEF IdleInv
<1>4. CASE UNCHANGED vars
  BY <1>1, <1>4 DEF IdleInv, vars, benchVars, groupVars, cmdVars
<1> QED
  BY <1>2, <1>3, <1>4, StepCases

LEMMA HistoryInit ==
  ASSUME NEW f, Init
  PROVE  HistoryInv(f)
<1>1. \A t \in Threads : /\ taken[t] = 0 /\ pc[t] = "none" /\ arrivals[t] = 0
                         /\ iters[t] = runcfg.iterations
  BY DEF Init, BenchInit
<1>2. \A t \in Threads : ~ TimedOut(t) /\ Way(t) = 0
  BY <1>1 DEF TimedOut, Leaving, Left, Way
<1>3. \A t, u \in Threads : Signature(f, t) = Signature(f, u)
  BY <1>1, <1>2 DEF Signature, Segment, Count, Rounds, Loop
<1>4. \A t, u \in Threads, d \in 0 .. 3 : Way(t) = Way(u) + d => d = 0
  BY <1>2
<1> QED
  BY <1>3, <1>4 DEF HistoryInv, Later

\* Every step of a thread does the one or the other: in run_benchmark ...
LEMMA HistoryBench ==
  ASSUME NEW f, Undisturbed(f), TypeInv, ConfigInv, CountInv, PlaceInv,
         NEW t \in Threads, Progress(f, t), run_benchmark(t), UNCHANGED groupVars,
         runcfg' = runcfg
  PROVE  Stays(f, t) \/ Follows(f, t)
<1>0. /\ iter \in [Threads -> Nat] /\ iters \in [Threads -> Nat]
      /\ pc \in [Threads -> WorkerLabels]
      /\ taken \in [Threads -> Nat]
  BY DEF TypeInv, TypeOK, BenchTypeOK
<1>1. UNCHANGED taken
  BY DEF groupVars, cmdVars
<1>2. \A i, n : Short(f, i, n)' <=> Short(f, i, n)
  BY DEF RequestedRuntime, GoalOf, Short
<1>3. Script[taken[t]] = "RUN"
  BY BenchWhere DEF PlaceInv, Running
<1>t. ~ TimedOut(t) /\ ~ TimedOut(t)'
  <2>1. pc[t] \in BenchLabels /\ pc'[t] \in BenchLabels \cup {"complete"}
    BY <1>0, BenchWhere
  <2> QED
    BY <2>1 DEF TimedOut, Leaving, BenchLabels
<1>w. ASSUME UNCHANGED arrivals PROVE Way(t)' = Way(t)
  BY <1>t, <1>w DEF Way, Left
<1>x. ASSUME arrivals' = [arrivals EXCEPT ![t] = @ + 1]
      PROVE  Left(t) = 0 /\ Way(t)' = Way(t) + 1
  <2>1. arrivals \in [Threads -> Nat]
    BY DEF TypeInv, TypeOK, BenchTypeOK
  <2> QED
    BY <1>t, <1>x, <2>1 DEF Way, Left
<1> USE <1>t DEF Signature, Segment, Count, Rounds, Loop
<1>4. ASSUME NEW label, Arrive(t, label), t \notin blocked
      PROVE  /\ pc'[t] = label /\ t \notin blocked
             /\ arrivals' = [arrivals EXCEPT ![t] = @ + 1]
  BY <1>0, <1>4 DEF Arrive, Goto
<1>5. ASSUME NEW label, Continue(t, label)
      PROVE  pc'[t] = label /\ UNCHANGED arrivals
  BY <1>0, <1>5 DEF Continue, Goto
<1>6. CASE Enter(t)
  <2>1. /\ pc[t] = "bench" /\ t \notin blocked /\ Arrive(t, "loop")
        /\ UNCHANGED <<iter, iters>>
    BY <1>6 DEF Enter, At, dataVars
  <2>2. pc'[t] = "loop"
    BY <1>4, <2>1
  <2>3. Signature(f, t)' = Following(f, Signature(f, t))
    BY <1>0, <1>1, <1>3, <2>1, <2>2 DEF Following
  <2> QED
    BY <1>x, <1>4, <2>1, <2>3 DEF Follows
<1>7. CASE EnterLoop(t)
  <2>1. /\ pc[t] = "loop" /\ t \notin blocked /\ Arrive(t, "timer")
        /\ iter' = [iter EXCEPT ![t] = MIN_ITERATIONS]
        /\ UNCHANGED iters
    BY <1>7 DEF EnterLoop, At
  <2>2. pc'[t] = "timer" /\ iter'[t] = MIN_ITERATIONS
    BY <1>0, <1>4, <2>1
  <2>3. Signature(f, t)' = Following(f, Signature(f, t))
    BY <1>0, <1>1, <2>1, <2>2 DEF Following
  <2> QED
    BY <1>x, <1>4, <2>1, <2>3 DEF Follows
<1>8. CASE TimerInit(t) \/ Calibrate(t)
  <2>1. PICK label \in {"freqread", "calibrate"} : Continue(t, label)
    BY <1>8 DEF TimerInit, Calibrate
  <2>2. pc[t] \in {"timer", "calibrate"} /\ UNCHANGED <<iter, iters>>
    BY <1>8 DEF TimerInit, Calibrate, At, dataVars
  <2>3. pc'[t] \in {"freqread", "calibrate"} /\ UNCHANGED arrivals
    BY <1>5, <2>1
  <2>4. Signature(f, t)' = Signature(f, t)
    BY <1>1, <2>2, <2>3
  <2> QED
    BY <1>w, <2>3, <2>4 DEF Stays
<1>9. CASE ReadFreq(t)
  <2>1. /\ pc[t] = "freqread" /\ t \notin blocked /\ Arrive(t, "round")
        /\ UNCHANGED <<iter, iters>>
    BY <1>9 DEF ReadFreq, At, dataVars
  <2>2. pc'[t] = "round"
    BY <1>4, <2>1
  <2>3. Signature(f, t)' = Following(f, Signature(f, t))
    BY <1>0, <1>1, <2>1, <2>2 DEF Following
  <2> QED
    BY <1>x, <1>4, <2>1, <2>3 DEF Follows
<1>10. CASE Round(t)
  <2>1. /\ pc[t] = "round" /\ t \notin blocked /\ Arrive(t, "roundstop")
        /\ UNCHANGED <<iter, iters>>
    BY <1>10 DEF Round, At, dataVars
  <2>2. pc'[t] = "roundstop"
    BY <1>4, <2>1
  <2>3. Short(f, iter[t], iters[t])' <=> Short(f, iter[t], iters[t])
    BY <1>2, <2>1
  <2>4. Signature(f, t)' = Following(f, Signature(f, t))
    BY <1>0, <1>1, <2>1, <2>2, <2>3 DEF Following
  <2> QED
    BY <1>x, <1>4, <2>1, <2>4 DEF Follows
<1>11. CASE RoundStop(t)
  <2>1. PICK j \in 0 .. Jitter :
           \/ /\ Elapsed(iter[t], j, tfreq[t]) < Goal(t)
              /\ iter' = [iter EXCEPT ![t] = 2 * @]
              /\ Continue(t, "timer")
              /\ UNCHANGED iters
           \/ /\ Elapsed(iter[t], j, tfreq[t]) >= Goal(t)
              /\ iters' = [iters EXCEPT ![t] = IF @ = 0 THEN iter[t] ELSE @]
              /\ Arrive(t, "exec")
              /\ UNCHANGED iter
    BY <1>11 DEF RoundStop
  <2>2. pc[t] = "roundstop" /\ t \notin blocked
    BY <1>11 DEF RoundStop, At
  <2>3. CASE /\ Elapsed(iter[t], j, tfreq[t]) < Goal(t)
             /\ iter' = [iter EXCEPT ![t] = 2 * @]
             /\ Continue(t, "timer")
             /\ UNCHANGED iters
    <3>1. Short(f, iter[t], iters[t])
      BY <2>2, <2>3, RoundDecision
    <3>2. pc'[t] = "timer" /\ UNCHANGED arrivals /\ iter'[t] = 2 * iter[t]
      BY <1>0, <1>5, <2>3
    <3>3. Signature(f, t)' = Signature(f, t)
      BY <1>0, <1>1, <2>2, <2>3, <3>1, <3>2
    <3> QED
      BY <1>w, <3>2, <3>3 DEF Stays
  <2>4. CASE /\ Elapsed(iter[t], j, tfreq[t]) >= Goal(t)
             /\ iters' = [iters EXCEPT ![t] = IF @ = 0 THEN iter[t] ELSE @]
             /\ Arrive(t, "exec")
             /\ UNCHANGED iter
    <3>1. ~ Short(f, iter[t], iters[t])
      BY <2>2, <2>4, RoundDecision
    <3>2. pc'[t] = "exec" /\ iters'[t] = IF iters[t] = 0 THEN iter[t] ELSE iters[t]
      BY <1>0, <1>4, <2>2, <2>4
    <3>3. Signature(f, t)' = Following(f, Signature(f, t))
      BY <1>0, <1>1, <2>2, <2>4, <3>1, <3>2 DEF Following
    <3> QED
      BY <1>x, <1>4, <2>2, <2>4, <3>3 DEF Follows
  <2> QED
    BY <2>1, <2>3, <2>4
<1>12. CASE Execute(t)
  <2>1. /\ pc[t] = "exec" /\ t \notin blocked /\ Arrive(t, "exectimer")
        /\ UNCHANGED <<iter, iters>>
    BY <1>12 DEF Execute, At, dataVars
  <2>2. pc'[t] = "exectimer"
    BY <1>4, <2>1
  <2>3. Signature(f, t)' = Following(f, Signature(f, t))
    BY <1>0, <1>1, <2>1, <2>2 DEF Following
  <2> QED
    BY <1>x, <1>4, <2>1, <2>3 DEF Follows
<1>13. CASE ExecuteTimer(t)
  <2>1. /\ pc[t] = "exectimer" /\ Continue(t, "execkernel")
        /\ UNCHANGED <<iter, iters>>
    BY <1>13 DEF ExecuteTimer, At, dataVars
  <2>2. pc'[t] = "execkernel" /\ UNCHANGED arrivals
    BY <1>5, <2>1
  <2>3. Signature(f, t)' = Signature(f, t)
    BY <1>1, <2>1, <2>2
  <2> QED
    BY <1>w, <2>2, <2>3 DEF Stays
<1>14. CASE ExecuteKernel(t)
  <2>1. /\ pc[t] = "execkernel" /\ t \notin blocked /\ Arrive(t, "execstop")
        /\ UNCHANGED <<iter, iters>>
    BY <1>14 DEF ExecuteKernel, At, dataVars
  <2>2. pc'[t] = "execstop"
    BY <1>4, <2>1
  <2>3. Signature(f, t)' = Following(f, Signature(f, t))
    BY <1>0, <1>1, <2>1, <2>2 DEF Following
  <2> QED
    BY <1>x, <1>4, <2>1, <2>3 DEF Follows
<1>15. CASE ExecuteStop(t)
  <2>1. /\ pc[t] = "execstop" /\ t \notin blocked /\ Arrive(t, "finish")
        /\ UNCHANGED <<iter, iters>>
    BY <1>15 DEF ExecuteStop, At
  <2>2. pc'[t] = "finish"
    BY <1>4, <2>1
  <2>3. Signature(f, t)' = Following(f, Signature(f, t))
    BY <1>0, <1>1, <2>1, <2>2 DEF Following
  <2> QED
    BY <1>x, <1>4, <2>1, <2>3 DEF Follows
<1>16. CASE Finish(t)
  <2>1. /\ pc[t] = "finish" /\ t \notin blocked /\ Arrive(t, "reset")
        /\ UNCHANGED <<iter, iters>>
    BY <1>16 DEF Finish, At
  <2>2. pc'[t] = "reset"
    BY <1>4, <2>1
  <2>3. Signature(f, t)' = Following(f, Signature(f, t))
    BY <1>0, <1>1, <2>1, <2>2 DEF Following
  <2> QED
    BY <1>x, <1>4, <2>1, <2>3 DEF Follows
<1>17. CASE ResetAffinity(t)
  <2>1. /\ pc[t] = "reset" /\ Continue(t, "complete")
        /\ UNCHANGED <<iter, iters>>
    BY <1>17 DEF ResetAffinity, At, dataVars
  <2>2. pc'[t] = "complete" /\ UNCHANGED arrivals
    BY <1>5, <2>1
  <2>3. Signature(f, t)' = Signature(f, t)
    BY <1>1, <1>3, <2>1, <2>2
  <2> QED
    BY <1>w, <2>2, <2>3 DEF Stays
<1> QED
  BY <1>6, <1>7, <1>8, <1>9, <1>10, <1>11, <1>12, <1>13, <1>14, <1>15, <1>16, <1>17
  DEF run_benchmark

\* ... and in _func_t.
LEMMA HistoryWorker ==
  ASSUME NEW f, TypeInv, QueueInv, PlaceInv, IdleInv, NEW t \in Threads, WorkerAction(t),
         runcfg' = runcfg
  PROVE  Stays(f, t) \/ Follows(f, t)
<1>0. /\ iter \in [Threads -> Nat] /\ iters \in [Threads -> Nat]
      /\ pc \in [Threads -> WorkerLabels]
      /\ taken \in [Threads -> Nat] /\ arrivals \in [Threads -> Nat]
  BY DEF TypeInv, TypeOK, BenchTypeOK
<1>1. UNCHANGED <<iter, iters>>
  BY DEF WorkerAction, Fetch, Wait, Wake, SpuriousWake, Timeout, Initialize, StartRun,
     Complete, ExitBarrier, ExitDone, innerVars, dataVars
<1>w. ASSUME UNCHANGED arrivals, Left(t)' = Left(t) PROVE Way(t)' = Way(t)
  BY <1>w DEF Way
<1>x. ASSUME arrivals' = [arrivals EXCEPT ![t] = @ + 1], Left(t) = 0, Left(t)' = 0
      PROVE  Way(t)' = Way(t) + 1
  BY <1>0, <1>x DEF Way
<1>y. ASSUME arrivals' = [arrivals EXCEPT ![t] = @ + 1], Left(t) \in {0, 1},
             Left(t)' = Left(t) + 1
      PROVE  Way(t)' = Way(t)
  BY <1>0, <1>y DEF Way
<1>z. /\ ~ TimedOut(t) => Left(t) = 0
      /\ ~ TimedOut(t)' => Left(t)' = 0
      /\ pc[t] \notin Leaving => ~ TimedOut(t)
      /\ pc'[t] \notin Leaving => ~ TimedOut(t)'
  BY DEF Left, TimedOut
<1> USE DEF Signature, Segment, Count, Rounds, Loop
<1>2. ASSUME NEW label, Arrive(t, label)
      PROVE  pc'[t] = label /\ arrivals' = [arrivals EXCEPT ![t] = @ + 1]
  BY <1>0, <1>2 DEF Arrive, Goto
<1>3. ASSUME NEW label, Continue(t, label)
      PROVE  pc'[t] = label /\ UNCHANGED arrivals
  BY <1>0, <1>3 DEF Continue, Goto
<1>4. CASE Fetch(t)
  <2>1. /\ pc[t] = "fetch" /\ queue[t] # <<>>
        /\ taken' = [taken EXCEPT ![t] = @ + 1]
        /\ Continue(t, Entry(Head(queue[t])))
    BY <1>4 DEF Fetch, At
  <2>2. Head(queue[t]) = Script[taken[t] + 1]
    BY <2>1, NextCommand
  <2>3. PICK cmd : cmd = Script[taken[t] + 1]
    OBVIOUS
  <2>4. /\ pc'[t] = Entry(cmd) /\ taken'[t] = taken[t] + 1 /\ UNCHANGED arrivals
        /\ Script[taken'[t]] = cmd
    BY <1>0, <1>3, <2>1, <2>2, <2>3
  <2>5. /\ Entry(cmd) \in {"init", "run", "complete", "exit"}
        /\ Entry(cmd) = "complete" => cmd # "RUN"
    BY DEF Entry
  <2>t. ~ TimedOut(t) /\ ~ TimedOut(t)'
    <3>1. Entry(cmd) = "exit" => LastEnds(t)'
      BY <1>0, <2>4 DEF LastEnds
    <3> QED
      BY <2>1, <2>4, <2>5, <3>1 DEF TimedOut, Leaving
  <2>6. Segment(f, t)' = "idle" /\ Segment(f, t) = "idle"
    BY <2>1, <2>4, <2>5, <2>t
  <2>7. Count(t)' = taken[t] /\ Count(t) = taken[t]
    <3>1. pc'[t] \notin {"none", "fetch", "waiting"} /\ (taken[t] + 1) - 1 = taken[t]
      BY <1>0, <2>4, <2>5
    <3> QED
      BY <2>1, <2>4, <2>t, <3>1
  <2>8. Rounds(f, t)' = 0 /\ Rounds(f, t) = 0
    BY <2>1, <2>4, <2>5
  <2>9. Signature(f, t)' = Signature(f, t)
    BY <1>1, <2>6, <2>7, <2>8
  <2> QED
    BY <1>w, <1>z, <2>4, <2>9, <2>t DEF Stays
<1>5. CASE Wait(t) \/ Wake(t) \/ SpuriousWake(t)
  <2>1. PICK label \in {"waiting", "fetch"} : Continue(t, label)
    BY <1>5 DEF Wait, Wake, SpuriousWake
  <2>2. pc[t] \in {"waiting", "fetch"} /\ taken' = taken
    BY <1>5 DEF Wait, Wake, SpuriousWake, At, cmdVars
  <2>3. pc'[t] \in {"waiting", "fetch"} /\ UNCHANGED arrivals
    BY <1>3, <2>1
  <2>t. ~ TimedOut(t) /\ ~ TimedOut(t)'
    BY <1>z, <2>2, <2>3 DEF Leaving
  <2>4. Signature(f, t)' = Signature(f, t)
    BY <1>1, <2>2, <2>3, <2>t
  <2> QED
    BY <1>w, <1>z, <2>3, <2>4, <2>t DEF Stays
<1>6. CASE Timeout(t)
  <2>1. pc[t] = "waiting" /\ Continue(t, "exit") /\ taken' = taken
    BY <1>6 DEF Timeout, At, cmdVars
  <2>2. pc'[t] = "exit" /\ UNCHANGED arrivals
    BY <1>3, <2>1
  <2>3. ~ TimedOut(t) /\ TimedOut(t)'
    <3>1. ~ LastEnds(t) /\ (LastEnds(t)' <=> LastEnds(t))
      BY <2>1 DEF IdleInv, LastEnds
    <3> QED
      BY <2>1, <2>2, <3>1 DEF TimedOut, Leaving
  <2>4. Left(t) = 0 /\ Left(t)' = 0
    BY <2>1, <2>2 DEF Left
  <2>5. Signature(f, t)' = Signature(f, t)
    BY <1>1, <2>1, <2>2, <2>3
  <2> QED
    BY <1>w, <2>2, <2>4, <2>5 DEF Stays
<1>7. CASE Initialize(t)
  <2>1. pc[t] = "init" /\ Continue(t, "complete") /\ taken' = taken
    BY <1>7 DEF Initialize, At, cmdVars
  <2>2. pc'[t] = "complete" /\ UNCHANGED arrivals /\ Script[taken[t]] # "RUN"
    BY <1>3, <2>1 DEF PlaceInv
  <2>t. ~ TimedOut(t) /\ ~ TimedOut(t)'
    BY <1>z, <2>1, <2>2 DEF Leaving
  <2>3. Signature(f, t)' = Signature(f, t)
    BY <1>1, <2>1, <2>2, <2>t
  <2> QED
    BY <1>w, <1>z, <2>2, <2>3, <2>t DEF Stays
<1>8. CASE StartRun(t)
  <2>1. pc[t] = "run" /\ Continue(t, "bench") /\ taken' = taken
    BY <1>8 DEF StartRun, At
  <2>2. pc'[t] = "bench" /\ UNCHANGED arrivals
    BY <1>3, <2>1
  <2>t. ~ TimedOut(t) /\ ~ TimedOut(t)'
    BY <1>z, <2>1, <2>2 DEF Leaving
  <2>3. Signature(f, t)' = Signature(f, t)
    BY <1>1, <2>1, <2>2, <2>t
  <2> QED
    BY <1>w, <1>z, <2>2, <2>3, <2>t DEF Stays
<1>9. CASE Complete(t)
  <2>1. pc[t] = "complete" /\ t \notin blocked /\ Arrive(t, "fetch") /\ taken' = taken
    BY <1>9 DEF Complete, At
  <2>2. pc'[t] = "fetch" /\ Entry(Script[taken[t]]) # "exit" /\ (taken[t] - 1) + 1 = taken[t]
    BY <1>0, <1>2, <2>1 DEF PlaceInv
  <2>t. ~ TimedOut(t) /\ ~ TimedOut(t)'
    BY <1>z, <2>1, <2>2 DEF Leaving
  <2>3. Signature(f, t)' = Following(f, Signature(f, t))
    BY <1>0, <1>1, <2>1, <2>2, <2>t DEF Following
  <2> QED
    BY <1>2, <1>x, <1>z, <2>1, <2>3, <2>t DEF Follows
<1>10. CASE ExitBarrier(t)
  <2>1. /\ pc[t] = "exit" /\ t \notin blocked /\ Arrive(t, "exitdone")
        /\ taken' = taken
    BY <1>10 DEF ExitBarrier, At, cmdVars
  <2>2. /\ pc'[t] = "exitdone" /\ (LastEnds(t)' <=> LastEnds(t))
        /\ arrivals' = [arrivals EXCEPT ![t] = @ + 1]
    BY <1>2, <2>1 DEF LastEnds
  <2>3. CASE LastEnds(t)
    <3>1. ~ TimedOut(t) /\ ~ TimedOut(t)'
      BY <2>2, <2>3 DEF TimedOut
    <3>2. Entry(Script[taken[t]]) = "exit" /\ (taken[t] - 1) + 1 = taken[t]
      BY <1>0, <2>3 DEF LastEnds
    <3>3. Script[taken[t]] # "RUN"
      BY <3>2 DEF Entry
    <3>4. Signature(f, t)' = Following(f, Signature(f, t))
      BY <1>0, <1>1, <2>1, <2>2, <3>1, <3>2, <3>3 DEF Following
    <3> QED
      BY <1>x, <1>z, <2>1, <2>2, <3>1, <3>4 DEF Follows
  <2>4. CASE ~ LastEnds(t)
    <3>1. TimedOut(t) /\ TimedOut(t)' /\ Left(t) = 0 /\ Left(t)' = 1
      BY <2>1, <2>2, <2>4 DEF TimedOut, Leaving, Left
    <3>2. Signature(f, t)' = Signature(f, t)
      BY <1>1, <2>1, <2>2, <3>1
    <3> QED
      BY <1>y, <2>2, <3>1, <3>2 DEF Stays
  <2> QED
    BY <2>3, <2>4
<1>11. CASE ExitDone(t)
  <2>1. pc[t] = "exitdone" /\ t \notin blocked /\ Arrive(t, "exited") /\ taken' = taken
    BY <1>11 DEF ExitDone, At
  <2>2. /\ pc'[t] = "exited" /\ (LastEnds(t)' <=> LastEnds(t))
        /\ arrivals' = [arrivals EXCEPT ![t] = @ + 1]
    BY <1>2, <2>1 DEF LastEnds
  <2>3. CASE LastEnds(t)
    <3>1. ~ TimedOut(t) /\ ~ TimedOut(t)'
      BY <2>2, <2>3 DEF TimedOut
    <3>2. Signature(f, t)' = Following(f, Signature(f, t))
      BY <1>0, <1>1, <2>1, <2>2, <3>1 DEF Following
    <3> QED
      BY <1>x, <1>z, <2>1, <2>2, <3>1, <3>2 DEF Follows
  <2>4. CASE ~ LastEnds(t)
    <3>1. TimedOut(t) /\ TimedOut(t)' /\ Left(t) = 1 /\ Left(t)' = 2
      BY <2>1, <2>2, <2>4 DEF TimedOut, Leaving, Left
    <3>2. Signature(f, t)' = Signature(f, t)
      BY <1>1, <2>1, <2>2, <3>1
    <3> QED
      BY <1>y, <2>2, <3>1, <3>2 DEF Stays
  <2> QED
    BY <2>3, <2>4
<1> QED
  BY <1>4, <1>5, <1>6, <1>7, <1>8, <1>9, <1>10, <1>11 DEF WorkerAction

\* Threads of one workgroup are at most one barrier apart.
LEMMA AtMostOneApart ==
  ASSUME TypeInv, BarrierLockstep, NEW t \in Threads, NEW u \in Threads,
         Workgroup[t] = Workgroup[u], t \notin blocked
  PROVE  arrivals[u] = arrivals[t] \/ arrivals[u] = arrivals[t] + 1
<1>1. arrivals[t] \in Nat /\ arrivals[u] \in Nat
  BY DEF TypeInv, TypeOK, BenchTypeOK
<1>2. Passed(t) = Passed(u)
  BY DEF BarrierLockstep
<1> QED
  BY <1>1, <1>2 DEF Passed

\* Where the next barrier leads.
LEMMA LaterNext ==
  ASSUME NEW f, NEW s
  PROVE  /\ Later(f, 0, s) = s
         /\ Later(f, 1, s) = Following(f, s)
         /\ Later(f, 2, s) = Following(f, Following(f, s))
         /\ \A d \in 0 .. 2 : Later(f, d + 1, s) = Following(f, Later(f, d, s))
<1>1. \A d \in 0 .. 2 : d = 0 \/ d = 1 \/ d = 2
  OBVIOUS
<1>2. 0 + 1 = 1 /\ 1 + 1 = 2 /\ 2 + 1 = 3
  OBVIOUS
<1> QED
  BY <1>1, <1>2 DEF Later

\* The partners of a thread that is not held up are at most one barrier ahead
\* of it.  Only those that have timed out lag behind, by the two barriers they
\* meet it at instead of executing a command.
LEMMA WayBound ==
  ASSUME TypeInv, BarrierLockstep, NEW t \in Threads, t \notin blocked, Left(t) = 0,
         NEW u \in Threads, Workgroup[t] = Workgroup[u]
  PROVE  /\ Way(t) \in Int /\ Way(u) \in Int
         /\ Way(u) <= Way(t) + 1 /\ Way(t) <= Way(u) + 2
         /\ Way(t) > Way(u) => TimedOut(u)
         /\ ~ TimedOut(u) /\ Way(u) = Way(t) + 1 => u \in blocked
<1>1. arrivals[t] \in Nat /\ arrivals[u] \in Nat
  BY DEF TypeInv, TypeOK, BenchTypeOK
<1>2. arrivals[u] = arrivals[t] \/ arrivals[u] = arrivals[t] + 1
  BY AtMostOneApart
<1>3. Left(u) \in {0, 1, 2} /\ (~ TimedOut(u) => Left(u) = 0)
  BY DEF Left
<1>4. Way(t) = arrivals[t] /\ Way(u) = arrivals[u] - Left(u)
  BY <1>1 DEF Way
<1>5. u \notin blocked => arrivals[u] = arrivals[t]
  BY <1>1 DEF BarrierLockstep, Passed
<1> QED
  BY <1>1, <1>2, <1>3, <1>4, <1>5

LEMMA HistoryNext ==
  ASSUME NEW f, Undisturbed(f), TypeInv, BarrierLockstep, QueueInv, MainInv, PlaceInv,
         IdleInv, ConfigInv, CountInv, MeasureInv(f), HistoryInv(f), [Next]_vars
  PROVE  HistoryInv(f)'
<1>0. runcfg' = runcfg /\ arrivals \in [Threads -> Nat]
  BY ConfigNext DEF TypeInv, TypeOK, BenchTypeOK
<1>1. \A i, n : Short(f, i, n)' <=> Short(f, i, n)
  BY <1>0 DEF RequestedRuntime, GoalOf, Short
<1>2. \A s : Following(f, s)' = Following(f, s)
  BY <1>1 DEF Following
<1>l. \A s : \A d \in 0 .. 3 : Later(f, d, s)' = Later(f, d, s)
  BY <1>2 DEF Later
<1>3. ASSUME NEW u \in Threads, pc'[u] = pc[u], taken'[u] = taken[u],
             arrivals'[u] = arrivals[u], iter'[u] = iter[u], iters'[u] = iters[u]
      PROVE  Stays(f, u)
  <2>1. TimedOut(u)' <=> TimedOut(u)
    BY <1>3 DEF TimedOut, LastEnds
  <2>2. Way(u)' = Way(u)
    BY <1>3, <2>1 DEF Way, Left
  <2>3. Signature(f, u)' = Signature(f, u)
    BY <1>1, <1>3, <2>1 DEF Signature, Segment, Count, Rounds
  <2> QED
    BY <2>2, <2>3 DEF Stays
<1>4. ASSUME \A u \in Threads : Stays(f, u)
      PROVE  HistoryInv(f)'
  BY <1>l, <1>4 DEF HistoryInv, Stays
<1>5. ASSUME NEW t \in Threads,
             (run_benchmark(t) /\ UNCHANGED groupVars) \/ WorkerAction(t)
      PROVE  HistoryInv(f)'
  <2>1. Stays(f, t) \/ Follows(f, t)
    BY <1>0, <1>5, HistoryBench, HistoryWorker DEF MeasureInv
  <2>2. \A u \in Threads \ {t} : Stays(f, u)
    BY <1>3, <1>5, StepOfOne
  <2>3. CASE Stays(f, t)
    BY <1>4, <2>2, <2>3
  <2>4. CASE Follows(f, t)
    <3>1. /\ t \notin blocked /\ Left(t) = 0 /\ Way(t)' = Way(t) + 1
          /\ Signature(f, t)' = Following(f, Signature(f, t))
      BY <2>4 DEF Follows
    <3> SUFFICES ASSUME NEW v \in Threads, NEW u \in Threads, NEW d \in 0 .. 3,
                        Workgroup[v] = Workgroup[u], Way(v)' = Way(u)' + d
                 PROVE  Signature(f, v)' = Later(f, d, Signature(f, u)')
      BY <1>l DEF HistoryInv
    <3>2. CASE v # t /\ u # t
      BY <2>2, <3>2 DEF HistoryInv, Stays
    <3>3. CASE v = t /\ u = t
      <4>1. d = 0
        BY <3>1, <3>3, WayBound
      <4> QED
        BY <3>3, <4>1, LaterNext
    <3>4. CASE v = t /\ u # t
      <4>1. /\ Way(u)' = Way(u) /\ Signature(f, u)' = Signature(f, u)
            /\ Way(t) \in Int /\ Way(u) \in Int
        BY <2>2, <3>1, <3>4, WayBound DEF Stays
      <4>2. Way(t) + 1 = Way(u) + d
        BY <3>1, <3>4, <4>1
      <4>3. CASE d = 0
        <5>1. Way(u) = Way(t) + 1
          BY <4>1, <4>2, <4>3
        <5>2. Signature(f, u) = Later(f, 1, Signature(f, t))
          BY <3>4, <5>1 DEF HistoryInv
        <5> QED
          BY <3>1, <3>4, <4>1, <4>3, <5>2, LaterNext
      <4>4. CASE d # 0
        <5>1. d - 1 \in 0 .. 2 /\ d - 1 \in 0 .. 3 /\ (d - 1) + 1 = d
          BY <4>4
        <5>2. Way(t) = Way(u) + (d - 1)
          BY <4>1, <4>2
        <5>3. Signature(f, t) = Later(f, d - 1, Signature(f, u))
          BY <3>4, <5>1, <5>2 DEF HistoryInv
        <5>4. Later(f, d, Signature(f, u)) = Following(f, Later(f, d - 1, Signature(f, u)))
          BY <5>1, LaterNext
        <5> QED
          BY <3>1, <3>4, <4>1, <5>3, <5>4
      <4> QED
        BY <4>3, <4>4
    <3>5. CASE v # t /\ u = t
      <4>1. /\ Way(v)' = Way(v) /\ Signature(f, v)' = Signature(f, v)
            /\ Way(t) \in Int /\ Way(v) \in Int /\ Way(v) <= Way(t) + 1
        BY <2>2, <3>1, <3>5, WayBound DEF Stays
      <4>2. Way(v) = Way(t) + 1 /\ d = 0
        BY <3>1, <3>5, <4>1
      <4>3. Signature(f, v) = Later(f, 1, Signature(f, t))
        BY <3>5, <4>2 DEF HistoryInv
      <4> QED
        BY <3>1, <3>5, <4>1, <4>2, <4>3, LaterNext
    <3> QED
      BY <3>2, <3>3, <3>4, <3>5
  <2> QED
    BY <2>1, <2>3, <2>4
<1>6. CASE MainAction
  <2>1. /\ UNCHANGED <<taken, arrivals, iter, iters>>
        /\ \A u \in Threads : pc'[u] = pc[u] \/ (pc[u] = "none" /\ pc'[u] = "fetch")
    BY <1>6, StepOfMain
  <2>2. ASSUME NEW u \in Threads, pc[u] = "none", pc'[u] = "fetch"
        PROVE  Stays(f, u)
    <3>1. ~ TimedOut(u) /\ ~ TimedOut(u)'
      BY <2>2 DEF TimedOut, Leaving
    <3>2. Way(u)' = Way(u)
      BY <2>1, <3>1 DEF Way, Left
    <3>3. Signature(f, u)' = Signature(f, u)
      BY <2>1, <2>2, <3>1 DEF Signature, Segment, Count, Rounds, Loop
    <3> QED
      BY <3>2, <3>3 DEF Stays
  <2>3. \A u \in Threads : Stays(f, u)
    BY <1>3, <2>1, <2>2
  <2> QED
    BY <1>4, <2>3
<1>7. CASE UNCHANGED vars
  <2>1. UNCHANGED <<pc, taken, arrivals, iter, iters>>
    BY <1>7 DEF vars, benchVars, groupVars, cmdVars, dataVars
  <2> QED
    BY <1>3, <1>4, <2>1
<1> QED
  BY <1>5, <1>6, <1>7, StepCases

\* A thread that waits in front of a timer has just entered MEASURE or WARMUP.
WaitInv ==
  \A t \in blocked :
    /\ pc[t] \notin {"calibrate", "freqread"}
    /\ pc[t] = "timer" => iter[t] = MIN_ITERATIONS

LEMMA WaitInit == Init => WaitInv
  BY DEF Init, BenchInit, WaitInv

LEMMA WaitNext ==
  ASSUME TypeInv, MainInv, WaitInv, [Next]_vars
  PROVE  WaitInv'
<1>0. /\ pc \in [Threads -> WorkerLabels] /\ iter \in [Threads -> Nat]
      /\ blocked \subseteq Threads
  BY DEF TypeInv, TypeOK, BenchTypeOK
<1>1. ASSUME NEW t \in Threads, t \notin blocked, NEW label, Continue(t, label)
      PROVE  t \notin blocked' /\ blocked' = blocked
  BY <1>1 DEF Continue
<1>2. ASSUME NEW t \in Threads, NEW label, Arrive(t, label)
      PROVE  pc'[t] = label /\ blocked' \subseteq blocked \cup {t}
  BY <1>0, <1>2 DEF Arrive, Goto
<1>3. ASSUME NEW t \in Threads,
             (run_benchmark(t) /\ UNCHANGED groupVars) \/ WorkerAction(t)
      PROVE  WaitInv'
  <2>1. t \notin blocked /\ \E label : Continue(t, label) \/ Arrive(t, label)
    <3>1. CASE run_benchmark(t)
      BY <3>1, BenchMoves
    <3>2. CASE WorkerAction(t)
      BY <3>2 DEF WorkerAction, Fetch, Wait, Wake, SpuriousWake, Timeout, Initialize,
         StartRun, Complete, ExitBarrier, ExitDone, At
    <3> QED
      BY <1>3, <3>1, <3>2
  <2>2. blocked' \subseteq blocked \cup {t}
    BY <1>1, <1>2, <2>1
  <2>3. \A u \in Threads \ {t} : pc'[u] = pc[u] /\ iter'[u] = iter[u]
    BY <1>3, StepOfOne
  <2>4. CASE EnterLoop(t)
    <3>1. Arrive(t, "timer") /\ iter' = [iter EXCEPT ![t] = MIN_ITERATIONS]
      BY <2>4 DEF EnterLoop
    <3>2. pc'[t] = "timer" /\ iter'[t] = MIN_ITERATIONS
      BY <1>0, <1>2, <3>1
    <3> QED
      BY <1>0, <2>2, <2>3, <3>2 DEF WaitInv
  <2>5. CASE ~ EnterLoop(t)
    <3>1. \/ \E label : Continue(t, label)
          \/ \E label \in WorkerLabels \ {"timer", "calibrate", "freqread"} :
               Arrive(t, label)
      <4>1. CASE run_benchmark(t)
        BY <2>5, <4>1 DEF run_benchmark, Enter, TimerInit, Calibrate, ReadFreq, Round,
           RoundStop, Execute, ExecuteTimer, ExecuteKernel, ExecuteStop, Finish,
           ResetAffinity, WorkerLabels, BenchLabels
      <4>2. CASE WorkerAction(t)
        BY <4>2 DEF WorkerAction, Fetch, Wait, Wake, SpuriousWake, Timeout, Initialize,
           StartRun, Complete, ExitBarrier, ExitDone, WorkerLabels, BenchLabels
      <4> QED
        BY <1>3, <4>1, <4>2
    <3>2. t \in blocked' => pc'[t] \notin {"timer", "calibrate", "freqread"}
      BY <1>1, <1>2, <2>1, <3>1
    <3> QED
      BY <1>0, <2>2, <2>3, <3>2 DEF WaitInv
  <2> QED
    BY <2>4, <2>5
<1>4. CASE MainAction
  <2>1. blocked' = blocked
    BY <1>4 DEF MainAction, CreateThread, CreateFails, SetAffinity, SendCmd,
       SendFails, Join, UpdateResults, ReleaseStreams, DestroyThreads, MainOut,
       benchVars, Continue
  <2>2. /\ iter' = iter
        /\ \A u \in Threads : pc'[u] = pc[u] \/ (pc[u] = "none" /\ pc'[u] = "fetch")
    BY <1>4, StepOfMain
  <2> QED
    BY <1>0, <2>1, <2>2 DEF WaitInv
<1>5. CASE UNCHANGED vars
  BY <1>5 DEF WaitInv, vars, benchVars, dataVars
<1> QED
  BY <1>3, <1>4, <1>5, StepCases

\* No round has fewer kernel calls than the first.
LEMMA DoublingsAbove == \A n \in Doublings : n >= MIN_ITERATIONS
<1> DEFINE D == {n \in Nat : n >= MIN_ITERATIONS}
<1>1. MIN_ITERATIONS \in Nat \ {0}
  BY BenchAssumption
<1>2. D \in SUBSET Nat /\ MIN_ITERATIONS \in D /\ \A m \in D : 2 * m \in D
  BY <1>1
<1>3. \A n \in Doublings : n \in D
  BY <1>2 DEF Doublings
<1> QED
  BY <1>3

\* A signature as it is put together
Sig(seg, count, calls, chosen) ==
  [seg |-> seg, count |-> count, iter |-> calls, iters |-> chosen]

\* A thread that has not executed the next command is not, one barrier later
\* or two, between the kernel and the barriers around it.
LEMMA IdleFollows ==
  ASSUME NEW f, NEW c, NEW i, NEW k
  PROVE  Following(f, Sig("idle", c, i, k)) \in
           {Sig("loop", c, i, k), Sig("exitdone", c, i, k), Sig("idle", c + 1, i, k)}
BY DEF Following, Sig

LEMMA LoopFollows ==
  ASSUME NEW f, NEW c, NEW i, NEW k
  PROVE  Following(f, Sig("loop", c, i, k)).seg = "timer"
<1> DEFINE s == Sig("loop", c, i, k)
<1>1. s.seg = "loop" /\ DOMAIN s = {"seg", "count", "iter", "iters"}
  BY DEF Sig
<1> HIDE DEF s
<1>2. Following(f, s) = [s EXCEPT !.seg = "timer", !.iter = MIN_ITERATIONS]
  <2>1. s.seg = "loop"
    BY <1>1
  <2> QED
    BY <2>1 DEF Following
<1>3. [s EXCEPT !.seg = "timer", !.iter = MIN_ITERATIONS].seg = "timer"
  BY <1>1
<1> QED
  BY <1>2, <1>3 DEF s

LEMMA ExitFollows ==
  ASSUME NEW f, NEW c, NEW i, NEW k
  PROVE  Following(f, Sig("exitdone", c, i, k)) = Sig("exited", c, i, k)
BY DEF Following, Sig

LEMMA IdleApart ==
  ASSUME NEW f, NEW t \in Threads, Segment(f, t) = "idle"
  PROVE  /\ Following(f, Signature(f, t)).seg \notin {"round", "exectimer"}
         /\ Following(f, Following(f, Signature(f, t))).seg \notin {"round", "exectimer"}
<1> DEFINE c == Count(t)
           i == Rounds(f, t)
           k == iters[t]
           next == Following(f, Signature(f, t))
<1>1. Signature(f, t) = Sig("idle", c, i, k)
  BY DEF Signature, Sig
<1> HIDE DEF c, i, k
<1>2. next \in {Sig("loop", c, i, k), Sig("exitdone", c, i, k), Sig("idle", c + 1, i, k)}
  BY <1>1, IdleFollows
<1>3. CASE next = Sig("loop", c, i, k)
  <2>1. next.seg = "loop"
    BY <1>3 DEF Sig
  <2> HIDE DEF next
  <2>2. Following(f, next).seg = "timer"
    BY <1>3, LoopFollows
  <2> QED
    BY <2>1, <2>2 DEF next
<1>4. CASE next = Sig("exitdone", c, i, k)
  <2>1. next.seg = "exitdone"
    BY <1>4 DEF Sig
  <2> HIDE DEF next
  <2>2. Following(f, next) = Sig("exited", c, i, k)
    BY <1>4, ExitFollows
  <2>3. Following(f, next).seg = "exited"
    BY <2>2 DEF Sig
  <2> QED
    BY <2>1, <2>3 DEF next
<1>5. CASE next = Sig("idle", c + 1, i, k)
  <2>1. next.seg = "idle"
    BY <1>5 DEF Sig
  <2>2. Following(f, next) \in {Sig("loop", c + 1, i, k), Sig("exitdone", c + 1, i, k),
                                Sig("idle", c + 1 + 1, i, k)}
    BY <1>5, IdleFollows
  <2>3. Following(f, next).seg \in {"loop", "exitdone", "idle"}
    BY <2>2 DEF Sig
  <2> QED
    BY <2>1, <2>3
<1> QED
  BY <1>2, <1>3, <1>4, <1>5

\* No partner of a thread that has taken a command as far as a kernel call has
\* timed out: it would have to be a barrier behind or two, or level.
LEMMA NoneBehind ==
  ASSUME NEW f, TypeInv, BarrierLockstep, HistoryInv(f), NEW t \in Threads,
         t \notin blocked, pc[t] \in {"round", "execkernel"},
         NEW u \in Threads, Workgroup[t] = Workgroup[u]
  PROVE  \/ Signature(f, u) = Signature(f, t)
         \/ /\ Signature(f, u) = Following(f, Signature(f, t))
            /\ TimedOut(u) \/ u \in blocked
<1>1. ~ TimedOut(t) /\ Left(t) = 0
  BY DEF TimedOut, Leaving, Left
<1>2. Segment(f, t) \in {"round", "exectimer"}
  BY <1>1 DEF Segment
<1>3. Signature(f, t).seg \in {"round", "exectimer"}
  BY <1>2 DEF Signature
<1>4. /\ Way(t) \in Int /\ Way(u) \in Int
      /\ Way(u) <= Way(t) + 1 /\ Way(t) <= Way(u) + 2
      /\ Way(t) > Way(u) => TimedOut(u)
      /\ ~ TimedOut(u) /\ Way(u) = Way(t) + 1 => u \in blocked
  BY <1>1, WayBound
<1>5. CASE Way(t) > Way(u)
  <2>1. Segment(f, u) = "idle"
    BY <1>4, <1>5 DEF TimedOut, Leaving, Segment
  <2>2. Way(t) = Way(u) + 1 \/ Way(t) = Way(u) + 2
    BY <1>4, <1>5
  <2>3. \/ Signature(f, t) = Later(f, 1, Signature(f, u))
        \/ Signature(f, t) = Later(f, 2, Signature(f, u))
    BY <2>2 DEF HistoryInv
  <2> QED
    BY <1>3, <2>1, <2>3, IdleApart, LaterNext
<1>6. CASE Way(t) = Way(u)
  <2>1. Way(t) = Way(u) + 0
    BY <1>4, <1>6
  <2>2. Signature(f, t) = Later(f, 0, Signature(f, u))
    BY <2>1 DEF HistoryInv
  <2> QED
    BY <2>2, LaterNext
<1>7. CASE Way(u) = Way(t) + 1
  <2>1. Signature(f, u) = Later(f, 1, Signature(f, t))
    BY <1>7 DEF HistoryInv
  <2> QED
    BY <1>4, <1>7, <2>1, LaterNext
<1> QED
  BY <1>4, <1>5, <1>6, <1>7

\* A thread calls the kernel in company: none of its partners has timed out,
\* and one that is a barrier ahead waits behind the same call.
LEMMA HistoryTogether ==
  ASSUME NEW f, TypeInv, BarrierLockstep, CountInv, WaitInv, HistoryInv(f)
  PROVE  CalledTogether
<1> SUFFICES ASSUME NEW t \in Threads, NEW u \in Members(t)
             PROVE  /\ At(t, "round") =>
                         pc[u] \in {"round", "roundstop"} /\ iter[u] = iter[t]
                    /\ At(t, "execkernel") =>
                         /\ pc[u] \in {"exectimer", "execkernel", "execstop"}
                         /\ iters[u] = iters[t]
  BY DEF CalledTogether
<1>0. u \in Threads /\ Workgroup[t] = Workgroup[u]
  BY DEF Members
<1>1. iter[t] \in Nat /\ iter[u] \in Nat /\ MIN_ITERATIONS \in Nat \ {0}
  BY <1>0, BenchAssumption DEF TypeInv, TypeOK, BenchTypeOK
<1>s. /\ Segment(f, u) = "round" => pc[u] = "round"
      /\ Segment(f, u) = "roundstop" =>
           pc[u] = "roundstop" /\ ~ Short(f, iter[u], iters[u])
      /\ Segment(f, u) = "timer" =>
           \/ pc[u] \in {"timer", "calibrate", "freqread"}
           \/ pc[u] = "roundstop" /\ Short(f, iter[u], iters[u])
      /\ Segment(f, u) = "exectimer" => pc[u] \in {"exectimer", "execkernel"}
      /\ Segment(f, u) = "execstop" => pc[u] = "execstop"
  BY DEF Segment, TimedOut, Leaving
<1>2. CASE At(t, "round")
  <2>1. pc[t] = "round" /\ t \notin blocked
    BY <1>2 DEF At
  <2>2. Signature(f, t) = Sig("round", Count(t), iter[t], iters[t])
    BY <2>1 DEF Signature, Sig, Segment, Rounds, Loop, TimedOut, Leaving
  <2>3. CASE Signature(f, u) = Signature(f, t)
    <3>1. Segment(f, u) = "round" /\ Rounds(f, u) = iter[t]
      BY <2>2, <2>3 DEF Signature, Sig
    <3>2. pc[u] = "round" /\ Rounds(f, u) = iter[u]
      BY <1>s, <3>1 DEF Rounds, Loop
    <3> QED
      BY <2>1, <3>1, <3>2 DEF At
  <2>4. CASE /\ Signature(f, u) = Following(f, Signature(f, t))
             /\ TimedOut(u) \/ u \in blocked
    <3>1. CASE Short(f, iter[t], iters[t])
      <4>1. Signature(f, u) = Sig("timer", Count(t), 2 * iter[t], iters[t])
        <5>1. Following(f, Sig("round", Count(t), iter[t], iters[t]))
                = [Sig("round", Count(t), iter[t], iters[t]) EXCEPT
                     !.seg = "timer", !.iter = 2 * iter[t]]
          BY <3>1 DEF Following, Sig
        <5> QED
          BY <2>2, <2>4, <5>1 DEF Sig
      <4>2. Segment(f, u) = "timer" /\ Rounds(f, u) = 2 * iter[t]
        BY <4>1 DEF Signature, Sig
      <4>3. CASE pc[u] \in {"timer", "calibrate", "freqread"}
        <5>1. u \in blocked
          BY <2>4, <4>3 DEF TimedOut, Leaving
        <5>2. iter[u] = MIN_ITERATIONS
          BY <4>3, <5>1 DEF WaitInv
        <5>3. Rounds(f, u) = iter[u]
          BY <4>3 DEF Rounds, Loop
        <5>4. iter[t] >= MIN_ITERATIONS
          BY <2>1, DoublingsAbove DEF CountInv, Loop
        <5> QED
          BY <1>1, <4>2, <5>2, <5>3, <5>4
      <4>4. CASE pc[u] = "roundstop" /\ Short(f, iter[u], iters[u])
        <5>1. Rounds(f, u) = 2 * iter[u]
          BY <4>4 DEF Rounds
        <5>2. iter[u] = iter[t]
          BY <1>1, <4>2, <5>1
        <5> QED
          BY <2>1, <4>4, <5>2 DEF At
      <4> QED
        BY <1>s, <4>2, <4>3, <4>4
    <3>2. CASE ~ Short(f, iter[t], iters[t])
      <4>1. Signature(f, u) = Sig("roundstop", Count(t), iter[t], iters[t])
        BY <2>2, <2>4, <3>2 DEF Following, Sig
      <4>2. Segment(f, u) = "roundstop" /\ Rounds(f, u) = iter[t]
        BY <4>1 DEF Signature, Sig
      <4>3. pc[u] = "roundstop" /\ Rounds(f, u) = iter[u]
        BY <1>s, <4>2 DEF Rounds, Loop
      <4> QED
        BY <2>1, <4>2, <4>3 DEF At
    <3> QED
      BY <3>1, <3>2
  <2> QED
    BY <1>0, <2>1, <2>3, <2>4, NoneBehind
<1>3. CASE At(t, "execkernel")
  <2>1. pc[t] = "execkernel" /\ t \notin blocked
    BY <1>3 DEF At
  <2>2. Signature(f, t) = Sig("exectimer", Count(t), 0, iters[t])
    BY <2>1 DEF Signature, Sig, Segment, Rounds, Loop, TimedOut, Leaving
  <2>3. CASE Signature(f, u) = Signature(f, t)
    <3>1. Segment(f, u) = "exectimer" /\ iters[u] = iters[t]
      BY <2>2, <2>3 DEF Signature, Sig
    <3> QED
      BY <1>s, <2>1, <3>1 DEF At
  <2>4. CASE Signature(f, u) = Following(f, Signature(f, t))
    <3>1. Signature(f, u) = Sig("execstop", Count(t), 0, iters[t])
      BY <2>2, <2>4 DEF Following, Sig
    <3>2. Segment(f, u) = "execstop" /\ iters[u] = iters[t]
      BY <3>1 DEF Signature, Sig
    <3> QED
      BY <1>s, <2>1, <3>2 DEF At
  <2> QED
    BY <1>0, <2>1, <2>3, <2>4, NoneBehind
<1> QED
  BY <1>2, <1>3

\* With clocks that agree, and whatever waits time out, a thread calls the
\* kernel only in company: no timed-out thread stands in for one that calls
\* it, at any barrier.
THEOREM CalledInCompany ==
  ASSUME NEW f, Undisturbed(f)
  PROVE  Spec => []CalledTogether
<1> DEFINE Inv == /\ TypeInv /\ BarrierLockstep /\ QueueInv /\ MainInv /\ PlaceInv
                  /\ IdleInv /\ WaitInv /\ ConfigInv /\ CountInv /\ MeasureInv(f)
                  /\ HistoryInv(f)
<1>1. Init => Inv
  BY TypeInit, LockstepInit, QueueInit, MainInit, PlaceInit, IdleInit, WaitInit,
     ConfigInit, CountInit, MeasureInit, HistoryInit
<1>2. Inv /\ [Next]_vars => Inv'
  BY TypeNext, LockstepNext, QueueNext, MainNext, PlaceNext, IdleNext, WaitNext,
     ConfigNext, CountNext, MeasureNext, HistoryNext
<1>3. Inv => CalledTogether
  BY HistoryTogether
<1> QED
  BY <1>1, <1>2, <1>3, PTL DEF Spec

\* With clocks that agree a workgroup is in its timed region together, with
\* one iteration count: no clock runs while another thread still looks for its
\* iteration count, is already done, or has given up waiting.
THEOREM RegionShared ==
  ASSUME NEW f, Undisturbed(f)
  PROVE  Spec => []TimedTogether
<1>1. CalledTogether => TimedTogether
  BY DEF CalledTogether, TimedTogether
<1>2. Spec => []CalledTogether
  BY CalledInCompany
<1> QED
  BY <1>1, <1>2, PTL

-----------------------------------------------------------------------------
(* The phases of a run: ThreadGroup implements BulkSync.                   *)

\* what likwid-bench.c sends
RunScript == Script = <<"INITIALIZE", "RUN", "EXIT">>

\* Where a thread is tells how many of the three commands it has taken.
LEMMA TakenOf ==
  ASSUME RunScript, TypeInv, QueueInv, PlaceInv, LeaveInv, timeouts = 0,
         NEW t \in Threads
  PROVE  /\ taken[t] \in 0 .. 3
         /\ pc[t] = "init" => taken[t] = 1
         /\ Running(t) => taken[t] = 2
         /\ pc[t] = "complete" => taken[t] \in {1, 2}
         /\ pc[t] \in Leaving => taken[t] = 3
<1>1. /\ Len(Script) = 3
      /\ Script[1] = "INITIALIZE" /\ Script[2] = "RUN" /\ Script[3] = "EXIT"
  BY DEF RunScript
<1>2. taken[t] \in Nat /\ queue[t] \in Seq(Commands)
  BY DEF TypeInv, TypeOK
<1>3. taken[t] + Len(queue[t]) <= 3
  BY <1>1 DEF QueueInv, Received
<1>4. taken[t] \in 0 .. 3
  BY <1>2, <1>3
<1>5. Entry("EXIT") = "exit"
  BY DEF Entry
<1> QED
  BY <1>1, <1>4, <1>5 DEF PlaceInv, LeaveInv

\* No thread of a workgroup is behind one that is about to enter the next
\* phase.
LEMMA PhaseCompany ==
  ASSUME NEW f, RunScript, TypeInv, BarrierLockstep, QueueInv, PlaceInv, LeaveInv,
         HistoryInv(f), timeouts = 0, NEW t \in Threads,
         t \notin blocked, pc[t] \in {"init", "execkernel", "execstop", "exitdone"},
         NEW u \in Threads, Workgroup[u] = Workgroup[t]
  PROVE  Phase(u) >= Phase(t)
<1>0. ASSUME NEW v \in Threads
      PROVE  ~ TimedOut(v) /\ Left(v) = 0
  <2>1. pc[v] \in Leaving => taken[v] = 3 /\ Script[3] = "EXIT"
    BY TakenOf DEF RunScript
  <2>2. ~ TimedOut(v)
    BY <2>1 DEF TimedOut, LastEnds, Entry
  <2> QED
    BY <2>2 DEF Left
<1>1. Way(u) = Way(t) + 0 \/ Way(u) = Way(t) + 1
  <2>1. /\ Way(t) \in Int /\ Way(u) \in Int
        /\ Way(u) <= Way(t) + 1 /\ ~ (Way(t) > Way(u))
    BY <1>0, WayBound
  <2> QED
    BY <2>1
<1>2. \/ Signature(f, u) = Signature(f, t)
      \/ Signature(f, u) = Following(f, Signature(f, t))
  <2>1. \/ Signature(f, u) = Later(f, 0, Signature(f, t))
        \/ Signature(f, u) = Later(f, 1, Signature(f, t))
    BY <1>1 DEF HistoryInv
  <2> QED
    BY <2>1, LaterNext
<1>3. CASE pc[t] = "init"
  <2>1. Phase(t) = 0
    BY <1>3 DEF Phase, BenchLabels
  <2>2. taken[u] \in 0 .. 3
    BY TakenOf
  <2>3. Phase(u) \in 0 .. 4
    BY <2>2 DEF Phase
  <2> QED
    BY <2>1, <2>3
<1>4. CASE pc[t] = "execkernel"
  <2>1. Segment(f, t) = "exectimer" /\ Phase(t) = 1
    BY <1>0, <1>4, TakenOf DEF Segment, Phase, Running, BenchLabels
  <2>2. Segment(f, u) \in {"exectimer", "execstop"}
    BY <1>2, <2>1 DEF Signature, Following
  <2>3. pc[u] \in {"exectimer", "execkernel", "execstop"}
    BY <1>0, <2>2 DEF Segment
  <2>4. taken[u] = 2
    BY <2>3, TakenOf DEF Running, BenchLabels
  <2>5. Phase(u) \in {1, 2}
    BY <2>3, <2>4 DEF Phase, BenchLabels
  <2> QED
    BY <2>1, <2>5
<1>5. CASE pc[t] = "execstop"
  <2>1. Segment(f, t) = "execstop" /\ Phase(t) = 2
    BY <1>0, <1>5, TakenOf DEF Segment, Phase, Running, BenchLabels
  <2>2. Segment(f, u) \in {"execstop", "finish"}
    BY <1>2, <2>1 DEF Signature, Following
  <2>3. pc[u] \in {"execstop", "finish"}
    BY <1>0, <2>2 DEF Segment
  <2>4. taken[u] = 2
    BY <2>3, TakenOf DEF Running, BenchLabels
  <2>5. Phase(u) \in {2, 3}
    BY <2>3, <2>4 DEF Phase, BenchLabels
  <2> QED
    BY <2>1, <2>5
<1>6. CASE pc[t] = "exitdone"
  <2>1. Segment(f, t) = "exitdone" /\ Phase(t) = 3
    BY <1>0, <1>6, TakenOf DEF Segment, Phase, Leaving, BenchLabels
  <2>2. Segment(f, u) \in {"exitdone", "exited"}
    BY <1>2, <2>1 DEF Signature, Following
  <2>3. pc[u] \in {"exitdone", "exited"}
    BY <1>0, <2>2 DEF Segment
  <2>4. taken[u] = 3
    BY <2>3, TakenOf DEF Leaving
  <2>5. Phase(u) \in {3, 4}
    BY <2>3, <2>4 DEF Phase, BenchLabels
  <2> QED
    BY <2>1, <2>5
<1> QED
  BY <1>3, <1>4, <1>5, <1>6

\* A step of a thread keeps its phase, or enters the next one from a place
\* where it is at the head of no phase.
LEMMA PhaseStep ==
  ASSUME RunScript, TypeInv, QueueInv, PlaceInv, LeaveInv, timeouts = 0,
         NEW t \in Threads,
         (run_benchmark(t) /\ UNCHANGED groupVars) \/ WorkerAction(t), timeouts' = 0
  PROVE  \/ Phase(t)' = Phase(t)
         \/ /\ t \notin blocked
            /\ pc[t] \in {"init", "execkernel", "execstop", "exitdone"}
            /\ Phase(t) < 4 /\ Phase(t)' = Phase(t) + 1
<1>0. pc \in [Threads -> WorkerLabels] /\ taken \in [Threads -> Nat]
  BY DEF TypeInv, TypeOK
<1>1. CASE run_benchmark(t) /\ UNCHANGED groupVars
  <2>1. Running(t) /\ taken[t] = 2 /\ taken' = taken
    BY <1>1, BenchWhere, TakenOf DEF Running, groupVars, cmdVars
  <2>2. CASE ExecuteKernel(t)
    <3>1. pc[t] = "execkernel" /\ t \notin blocked /\ pc'[t] = "execstop"
      BY <1>0, <2>2 DEF ExecuteKernel, At, Arrive, Goto
    <3> QED
      BY <2>1, <3>1 DEF Phase, BenchLabels
  <2>3. CASE ExecuteStop(t)
    <3>1. pc[t] = "execstop" /\ t \notin blocked /\ pc'[t] = "finish"
      BY <1>0, <2>3 DEF ExecuteStop, At, Arrive, Goto
    <3> QED
      BY <2>1, <3>1 DEF Phase, BenchLabels
  <2>4. CASE Finish(t) \/ ResetAffinity(t)
    <3>1. pc[t] \in {"finish", "reset"} /\ pc'[t] \in {"reset", "complete"}
      BY <1>0, <2>4 DEF Finish, ResetAffinity, At, Arrive, Continue, Goto
    <3> QED
      BY <2>1, <3>1 DEF Phase, BenchLabels
  <2>5. CASE /\ ~ ExecuteKernel(t) /\ ~ ExecuteStop(t)
             /\ ~ Finish(t) /\ ~ ResetAffinity(t)
    <3>1. /\ pc[t] \in Unmeasured \ {"execstop"}
          /\ pc'[t] \in Unmeasured \ {"execstop"}
      BY <1>0, <1>1, <2>5 DEF run_benchmark, Enter, EnterLoop, TimerInit, Calibrate,
         ReadFreq, Round, RoundStop, Execute, ExecuteTimer, At, Arrive, Continue, Goto,
         Unmeasured, BenchLabels
    <3>2. Phase(t) = 1
      BY <2>1, <3>1 DEF Phase, Unmeasured, BenchLabels
    <3>3. Phase(t)' = 1
      BY <2>1, <3>1 DEF Phase, Unmeasured, BenchLabels
    <3> QED
      BY <3>2, <3>3
  <2> QED
    BY <2>2, <2>3, <2>4, <2>5
<1>2. CASE Fetch(t)
  <2>1. /\ pc[t] = "fetch" /\ queue[t] # <<>>
        /\ taken' = [taken EXCEPT ![t] = @ + 1]
        /\ pc' = [pc EXCEPT ![t] = Entry(Head(queue[t]))]
    BY <1>2 DEF Fetch, At, Continue, Goto
  <2>2. Head(queue[t]) = Script[taken[t] + 1] /\ taken[t] + 1 <= 3
    BY <2>1, NextCommand DEF RunScript
  <2>3. pc'[t] = Entry(Script[taken[t] + 1]) /\ taken'[t] = taken[t] + 1
    BY <1>0, <2>1, <2>2
  <2>4. taken[t] \in {0, 1, 2}
    BY <1>0, <2>2
  <2>5. /\ taken[t] = 0 => pc'[t] = "init" /\ taken'[t] = 1
        /\ taken[t] = 1 => pc'[t] = "run" /\ taken'[t] = 2
        /\ taken[t] = 2 => pc'[t] = "exit" /\ taken'[t] = 3
    BY <2>3, <2>4 DEF RunScript, Entry
  <2> QED
    BY <2>1, <2>4, <2>5 DEF Phase, BenchLabels
<1>3. CASE Initialize(t)
  <2>1. pc[t] = "init" /\ t \notin blocked /\ pc'[t] = "complete" /\ taken' = taken
    BY <1>0, <1>3 DEF Initialize, At, Continue, Goto, cmdVars
  <2>2. taken[t] = 1
    BY <2>1, TakenOf
  <2> QED
    BY <2>1, <2>2 DEF Phase
<1>4. CASE ExitDone(t)
  <2>1. pc[t] = "exitdone" /\ t \notin blocked /\ pc'[t] = "exited" /\ taken' = taken
    BY <1>0, <1>4 DEF ExitDone, At, Arrive, Goto
  <2>2. taken[t] = 3
    BY <2>1, TakenOf DEF Leaving
  <2> QED
    BY <2>1, <2>2 DEF Phase, BenchLabels
<1>5. CASE Timeout(t)
  <2>1. timeouts' = timeouts + 1
    BY <1>5 DEF Timeout
  <2> QED
    BY <2>1
<1>6. CASE StartRun(t)
  <2>1. pc[t] = "run" /\ pc'[t] = "bench" /\ taken' = taken
    BY <1>0, <1>6 DEF StartRun, At, Continue, Goto
  <2>2. taken[t] = 2
    BY <2>1, TakenOf DEF Running
  <2> QED
    BY <2>1, <2>2 DEF Phase, BenchLabels
<1>7. CASE Wait(t) \/ Wake(t) \/ SpuriousWake(t) \/ Complete(t) \/ ExitBarrier(t)
  <2>1. /\ pc[t] \in {"fetch", "waiting", "complete", "exit"}
        /\ pc'[t] \in {"fetch", "waiting", "exitdone"} /\ taken' = taken
    BY <1>0, <1>7 DEF Wait, Wake, SpuriousWake, Complete, ExitBarrier, At, Arrive,
       Continue, Goto, cmdVars
  <2> QED
    BY <2>1 DEF Phase, BenchLabels
<1> QED
  BY <1>1, <1>2, <1>3, <1>4, <1>5, <1>6, <1>7 DEF WorkerAction

\* Every step of ThreadGroup is a step of BulkSync or none.
LEMMA BulkStep ==
  ASSUME NEW f, RunScript, TypeInv, BarrierLockstep, QueueInv, MainInv, PlaceInv, LeaveInv,
         HistoryInv(f), timeouts = 0, timeouts' = 0, [Next]_vars
  PROVE  [Bulk!Next]_([t \in Threads |-> Phase(t)])
<1> DEFINE phase == [t \in Threads |-> Phase(t)]
<1>1. ASSUME NEW u \in Threads, pc'[u] = pc[u], taken'[u] = taken[u]
      PROVE  Phase(u)' = Phase(u)
  BY <1>1 DEF Phase
<1>2. ASSUME \A u \in Threads : Phase(u)' = Phase(u)
      PROVE  phase' = phase
  BY <1>2
<1>3. ASSUME NEW t \in Threads,
             (run_benchmark(t) /\ UNCHANGED groupVars) \/ WorkerAction(t)
      PROVE  Bulk!Next \/ phase' = phase
  <2>1. \A u \in Threads \ {t} : Phase(u)' = Phase(u)
    BY <1>1, <1>3, StepOfOne
  <2>2. CASE Phase(t)' = Phase(t)
    BY <1>2, <2>1, <2>2
  <2>3. CASE /\ t \notin blocked
             /\ pc[t] \in {"init", "execkernel", "execstop", "exitdone"}
             /\ Phase(t) < 4 /\ Phase(t)' = Phase(t) + 1
    <3>1. \A u \in Threads : Workgroup[u] = Workgroup[t] => Phase(u) >= Phase(t)
      BY <2>3, PhaseCompany
    <3>2. phase' = [phase EXCEPT ![t] = @ + 1]
      BY <2>1, <2>3
    <3>3. Bulk!Advance(t)
      BY <2>3, <3>1, <3>2 DEF Bulk!Advance, Bulk!Last
    <3> QED
      BY <3>3 DEF Bulk!Next
  <2> QED
    BY <1>3, <2>2, <2>3, PhaseStep
<1>4. CASE MainAction
  <2>1. /\ UNCHANGED taken
        /\ \A u \in Threads : pc'[u] = pc[u] \/ (pc[u] = "none" /\ pc'[u] = "fetch")
    BY <1>4, StepOfMain
  <2>2. ASSUME NEW u \in Threads, pc[u] = "none", pc'[u] = "fetch"
        PROVE  Phase(u)' = Phase(u)
    BY <2>1, <2>2 DEF Phase, BenchLabels
  <2> QED
    BY <1>1, <1>2, <2>1, <2>2
<1>5. CASE UNCHANGED vars
  BY <1>1, <1>2, <1>5 DEF vars, benchVars, groupVars, cmdVars
<1> QED
  BY <1>3, <1>4, <1>5, StepCases

\* The run of likwid-bench.c implements BulkSync, step by step, when clocks
\* agree and no wait times out: no timed kernel call of a workgroup before all
\* of its data is initialised, no clock stopped before all of its kernel calls
\* are made, no thread gone before all have taken their time.
THEOREM ImplementsBulkSync ==
  ASSUME RunScript, MaxTimeouts = 0, NEW f, Undisturbed(f)
  PROVE  Spec => Bulk!Spec
<1> DEFINE Inv == /\ TypeInv /\ BarrierLockstep /\ QueueInv /\ MainInv /\ PlaceInv
                  /\ LeaveInv /\ IdleInv /\ ConfigInv /\ CountInv /\ MeasureInv(f)
                  /\ HistoryInv(f)
<1>0. EndsLast
  BY DEF EndsLast, RunScript, Entry
<1>1. Init => Inv
  BY TypeInit, LockstepInit, QueueInit, MainInit, PlaceInit, LeaveInit, IdleInit,
     ConfigInit, CountInit, MeasureInit, HistoryInit
<1>2. Inv /\ [Next]_vars => Inv'
  BY <1>0, TypeNext, LockstepNext, QueueNext, MainNext, PlaceNext, LeaveNext, IdleNext,
     ConfigNext, CountNext, MeasureNext, HistoryNext
<1>3. Init => Bulk!Init
  <2> SUFFICES ASSUME Init PROVE Bulk!Init
    OBVIOUS
  <2>1. \A t \in Threads : Phase(t) = 0
    BY DEF Init, Phase
  <2> QED
    BY <2>1 DEF Bulk!Init
<1>4. Inv => timeouts = 0
  BY DEF TypeInv, TypeOK
<1>5. Inv /\ Inv' /\ [Next]_vars => [Bulk!Next]_([t \in Threads |-> Phase(t)])
  <2>1. Inv' => timeouts' = 0
    BY DEF TypeInv, TypeOK
  <2> QED
    BY <1>4, <2>1, BulkStep
<1> QED
  BY <1>1, <1>2, <1>3, <1>5, PTL DEF Spec, Bulk!Spec
=============================================================================
