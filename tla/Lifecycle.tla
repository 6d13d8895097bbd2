----------------------------- MODULE Lifecycle -----------------------------
(***************************************************************************)
(* What main in likwid-bench.c allocates, hands on and frees, from the     *)
(* workgroups of the command line to its end, with the functions it calls: *)
(* resolve_workgroups and manage_streams (src/workgroups.c),               *)
(* update_threads, create_threads and destroy_threads (src/threads.c), the *)
(* making and loading of kernels (src/dynload.c) and free_runtime_config.  *)
(* Any of them may fail half-way.                                          *)
(*                                                                         *)
(* Only pointers matter: a pointer is null, live, freed (it still points   *)
(* to what has been freed) or wild (never written).  mem.bad says that a   *)
(* pointer was freed or followed that must not be.  What the threads do    *)
(* between their creation and their end is in ThreadGroup.                 *)
(***************************************************************************)
EXTENDS Integers, FiniteSets

CONSTANTS
  Groups,      \* numbers 1 .. n of the workgroups
  Threads,     \* numbers 1 .. n of the threads of each
  Streams,     \* streams of each
  Fresh,       \* what malloc may leave in members: "null", "wild"
  Faults       \* kinds of failure that may happen

VARIABLES
  mem,         \* pointers, and whether one has been misused
  fresh,       \* what malloc leaves this time
  failed,      \* history: what has failed
  at,          \* workgroup and thread the current loop is at
  disk,        \* files in /tmp
  mkstempfiles,
  loaded,      \* threads whose function is open
  worker,      \* "none", "running", "ended"
  pc

vars == <<mem, fresh, failed, at, disk, mkstempfiles, loaded, worker, pc>>

All == Groups \X Threads

\* Members of a workgroup, of a thread, and of the configuration.
OfGroup  == {"str", "hwthreads", "results", "group", "groupmaps", "streams",
             "threads", "barrier"}
OfThread == {"maps", "command", "testconfig", "tstreams", "codelines", "data"}
G(kind, W)    == {<<kind, w>> : w \in W}
T(kinds, W)   == {<<k, w, t>> : k \in kinds, w \in W, t \in Threads}
Arrays(W)     == {<<"array", w, s>> : w \in W, s \in Streams}
Global        == {<<"global">>}
GlobalMaps    == {<<"globalmaps">>}

Pointers == (UNION {G(k, Groups) : k \in OfGroup}) \cup T(OfThread, Groups)
              \cup Arrays(Groups) \cup Global \cup GlobalMaps

Is(m, ptr, v) == m.p[ptr] = v
Where(m, kind, v) == {w \in Groups : m.p[<<kind, w>>] = v}
NotNull(m, kind) == Groups \ Where(m, kind, "null")

Put(m, S, v) == [m EXCEPT !.p = [x \in Pointers |-> IF x \in S THEN v ELSE @[x]]]

\* free each of S and set it to NULL
Free(m, S) ==
  [p   |-> [x \in Pointers |-> IF x \in S THEN "null" ELSE m.p[x]],
   bad |-> m.bad \/ \E x \in S : m.p[x] \in {"freed", "wild"}]

\* free each of S and leave the pointer as it is
FreeOnly(m, S) == Put(Free(m, S), {x \in S : m.p[x] # "null"}, "freed")

\* follow each of S
Follow(m, S) == [m EXCEPT !.bad = @ \/ \E x \in S : m.p[x] # "live"]

-----------------------------------------------------------------------------
(* Ends.                                                                   *)

\* delete_workgroup, for each of W
delete_workgroup(m, W) ==
  LET R == W \cap NotNull(m, "results")
      a == Follow(m, G("results", R) \cup G("group", R))
      b == Free(a, T({"maps"}, R) \cup G("results", R) \cup G("groupmaps", R)
                     \cup G("hwthreads", W) \cup G("str", W))
  IN  IF Is(b, <<"global">>, "null") THEN b
      ELSE Free(Follow(b, Global), Global \cup GlobalMaps)

\* Mutant: the pointers to released streams are kept.
release_streams_Kept(m) ==
  LET W == NotNull(m, "streams")
  IN  FreeOnly(Follow(m, G("streams", W)), Arrays(W) \cup G("streams", W))

release_streams(m) ==
  LET W == NotNull(m, "streams")
  IN  Free(Follow(m, G("streams", W)), Arrays(W) \cup G("streams", W))

destroy_threads(m) ==
  LET W == NotNull(m, "threads")
      a == Follow(m, G("barrier", Groups) \cup G("threads", W))
  IN  Free(a, G("barrier", Groups) \cup G("threads", W)
                \cup T(OfThread \ {"maps"}, W))

\* A workgroup without results is taken to have no threads either.
free_runtime_config(m) ==
  LET R == NotNull(m, "results")
      W == R \cap NotNull(m, "threads")
      S == NotNull(m, "streams")
      a == Follow(m, G("results", R) \cup G("group", R) \cup G("threads", W)
                       \cup G("streams", S))
      b == Free(a, G("str", Groups) \cup T({"maps"}, R)
                     \cup T({"command", "testconfig", "codelines", "data"}, W)
                     \cup G("threads", R) \cup G("groupmaps", R)
                     \cup G("group", R) \cup G("results", R)
                     \cup G("hwthreads", Groups)
                     \cup Arrays(S) \cup G("streams", S))
  IN  IF Is(b, <<"global">>, "null") THEN b
      ELSE LET c == Follow(b, Global)
           IN  IF Is(c, <<"globalmaps">>, "null") THEN c
               ELSE Free(c, Global \cup GlobalMaps)

-----------------------------------------------------------------------------
(* Steps.  A failure leads to main_out.                                    *)

Here(p) == pc = p

May(fault) == fault \in Faults /\ failed' = failed \cup {fault}

Done == UNCHANGED failed

First == <<1, 1>>
LastThread == at[2] = Cardinality(Threads)
LastGroup == at[1] = Cardinality(Groups)
NextThread == IF LastThread THEN <<at[1] + 1, 1>> ELSE <<at[1], at[2] + 1>>

Goto(p, m) == pc' = p /\ mem' = m

\* the step done and the next one begun at the first workgroup, or the
\* same step with the next workgroup
ThenGroup(this, next) ==
  IF LastGroup THEN pc' = next /\ at' = First
               ELSE pc' = this /\ at' = <<at[1] + 1, 1>>

ThenThread(this, next) ==
  IF LastGroup /\ LastThread THEN pc' = next /\ at' = First
                             ELSE pc' = this /\ at' = NextThread

NoFiles == UNCHANGED <<disk, mkstempfiles>>
NoThreads == UNCHANGED <<loaded, worker>>

\* assignWorkgroupCliOptions has set the texts of the workgroups only.
Init ==
  /\ fresh \in Fresh
  /\ mem = [p |-> [x \in Pointers |->
                     IF x \in G("str", Groups) THEN "live"
                     ELSE IF x \in Global \cup GlobalMaps THEN "null"
                     ELSE fresh],
            bad |-> FALSE]
  /\ failed = {}
  /\ at = First /\ disk = {} /\ mkstempfiles = {}
  /\ loaded = {} /\ worker = [x \in All |-> "none"]
  /\ pc = "folders"

\* An error before the workgroups are resolved: parse_cpu_folders
parse_cpu_folders ==
  /\ Here("folders")
  /\ \/ pc' = "resolve" /\ Done
     \/ May("folders") /\ pc' = "main_out"
  /\ UNCHANGED <<mem, at>> /\ NoFiles /\ NoThreads

\* resolve_workgroup and allocate_workgroup_stuff for workgroup w; the
\* results of an earlier workgroup are no longer reachable.
Resolved(w) ==
  Put(mem, G("hwthreads", {w}) \cup Global \cup GlobalMaps \cup G("results", {w})
             \cup G("group", {w}) \cup G("groupmaps", {w}) \cup T({"maps"}, {w}), "live")

resolve_workgroup ==
  /\ Here("resolve")
  /\ mem' = Resolved(at[1])
  /\ ThenGroup("resolve", "flags") /\ Done
  /\ NoFiles /\ NoThreads

\* A text that names no domain, or the like.
resolve_workgroup_fails ==
  /\ Here("resolve") /\ May("text")
  /\ Goto("main_out", Put(mem, G("hwthreads", {at[1]}), "null"))
  /\ UNCHANGED at /\ NoFiles /\ NoThreads

\* Where allocate_workgroup_stuff can fail and what it has done by then;
\* a text may also resolve to no thread at all.
StuffFailure(w, place) ==
  LET h == Put(mem, G("hwthreads", {w}), "live")
      g == Put(h, Global \cup GlobalMaps, "live")
      r == Put(g, G("results", {w}) \cup T({"maps"}, {w}), "live")
      gone == Put(Put(r, G("results", {w}) \cup T({"maps"}, {w}), "null"),
                  Global \cup GlobalMaps, "null")
  IN  CASE place = "nothreads"  -> h
        [] place = "global"     -> Put(h, Global \cup GlobalMaps, "null")
        [] place = "globalmaps" -> Put(Put(h, Global, "freed"), GlobalMaps, "null")
        [] place = "results"    -> Put(g, G("results", {w}), "null")
        [] place = "maps"       -> gone
        [] place = "group"      -> Put(gone, G("group", {w}), "null")

\* The workgroup is deleted, then those before it.
allocate_workgroup_stuff_fails ==
  /\ Here("resolve")
  /\ \E place \in {"nothreads", "global", "globalmaps", "results", "maps", "group"} :
       /\ May(place)
       /\ Goto("main_out",
               delete_workgroup(delete_workgroup(StuffFailure(at[1], place), {at[1]}),
                                1 .. at[1] - 1))
  /\ UNCHANGED at /\ NoFiles /\ NoThreads

\* check_feature_flags and fill_results
check_and_fill ==
  /\ Here("flags")
  /\ \/ pc' = "streams" /\ Done
     \/ May("flags") /\ pc' = "main_out"
  /\ UNCHANGED <<mem, at>> /\ NoFiles /\ NoThreads

\* manage_streams for one workgroup: the streams are zeroed, then their
\* sizes computed, then their arrays allocated.
manage_streams ==
  /\ Here("streams")
  /\ LET w == at[1]
         streams == Put(Put(mem, G("streams", {w}), "live"), Arrays({w}), "null")
     IN  \/ /\ mem' = Put(streams, Arrays({w}), "live")
            /\ ThenGroup("streams", "update") /\ Done
         \/ /\ \E f \in {"dims", "arrays"} : May(f)   \* what was allocated is released
            /\ Goto("main_out", streams)
            /\ UNCHANGED at
  /\ NoFiles /\ NoThreads

-----------------------------------------------------------------------------
(* update_threads.                                                         *)

\* The workgroups before w with all their threads.
ThreadsBefore(m, w) ==
  LET W == 1 .. w - 1
  IN  Put(Put(m, G("threads", W) \cup G("barrier", W)
                   \cup T({"command", "testconfig", "tstreams", "data"}, W), "live"),
          T({"codelines"}, W), "null")

\* What thread t of workgroup w has when its setup stops before `stage`.
Parts(stage) ==
  CASE stage = "command"    -> {}
    [] stage = "testconfig" -> {"command"}
    [] stage = "tstreams"   -> {"command", "testconfig"}
    [] stage = "data"       -> {"command", "testconfig", "tstreams"}

Stages == {"command", "testconfig", "tstreams", "data"}

\* Thread t of workgroup w stops before stage: earlier threads are complete,
\* of later ones nothing has been written.
Stopped(w, t, stage) ==
  LET before  == ThreadsBefore(mem, w)
      group   == Put(before, G("threads", {w}) \cup G("barrier", {w}), "live")
      blank   == Put(group, T(OfThread \ {"maps"}, {w}), fresh)
      earlier == {<<k, w, u>> : k \in Stages, u \in 1 .. t - 1}
      lines   == {<<"codelines", w, u>> : u \in 1 .. t - 1}
  IN  Put(Put(blank, earlier \cup {<<k, w, t>> : k \in Parts(stage)}, "live"),
          lines \cup (IF stage = "data" THEN {<<"codelines", w, t>>} ELSE {}), "null")

update_threads ==
  /\ Here("update")
  /\ LET done == ThreadsBefore(mem, Cardinality(Groups) + 1)
     IN  \/ Goto("generate", done) /\ Done
         \* the error of pthread_barrier_init is positive, none for main
         \/ May("barrier") /\ Goto("generate", destroy_threads(done))
         \/ May("chunks") /\ Goto("main_out", destroy_threads(done))
         \/ /\ May("threads")
            /\ \E w \in Groups, t \in Threads, stage \in Stages :
                 Goto("main_out", destroy_threads(Stopped(w, t, stage)))
  /\ UNCHANGED at /\ NoFiles /\ NoThreads

-----------------------------------------------------------------------------
(* Kernels.                                                                *)

\* generate_code for one thread; its list exists when it fails.
generate_code ==
  /\ Here("generate")
  /\ mem' = Put(Follow(mem, G("threads", {at[1]})), {<<"codelines", at[1], at[2]>>}, "live")
  /\ \/ ThenThread("generate", "mkstemp") /\ Done
     \/ May("generate") /\ pc' = "main_out" /\ UNCHANGED at
  /\ NoFiles /\ NoThreads

File(kind) == <<kind, at[1], at[2]>>

\* dynload_create_runtime_test_config, one thread after the other: a name,
\* the file of that name removed, names of source and object noted, source
\* written, object compiled.
bmkstemp ==
  /\ Here("mkstemp")
  /\ \/ disk' = disk \cup {File("tmp")} /\ pc' = "unlink" /\ Done
     \/ May("mkstemp") /\ pc' = "main_out" /\ UNCHANGED disk
  /\ UNCHANGED <<mem, at, mkstempfiles>> /\ NoThreads

\* Mutant: the object file is not noted.
NotedSourceOnly == {File("s")}

Noted == {File("s"), File("o")}

bunlink ==
  /\ Here("unlink")
  /\ \/ disk' = disk \ {File("tmp")} /\ mkstempfiles' = mkstempfiles \cup Noted
        /\ pc' = "write" /\ Done
     \/ May("unlink") /\ pc' = "main_out" /\ UNCHANGED <<disk, mkstempfiles>>
  /\ UNCHANGED <<mem, at>> /\ NoThreads

write_asm ==
  /\ Here("write")
  /\ \/ disk' = disk \cup {File("s")} /\ pc' = "compile" /\ Done
     \/ May("write") /\ pc' = "main_out" /\ disk' \in {disk, disk \cup {File("s")}}
  /\ UNCHANGED <<mem, at, mkstempfiles>> /\ NoThreads

\* The compiler's exit status is positive and no error for main.
compile ==
  /\ Here("compile")
  /\ \/ disk' = disk \cup {File("o")} /\ Done
     \/ May("compile") /\ UNCHANGED disk
  /\ ThenThread("mkstemp", "open")
  /\ UNCHANGED <<mem, mkstempfiles>> /\ NoThreads

\* Mutant: an object file that is not there is passed over.
CanOpenAny == TRUE

CanOpen == File("o") \in disk

open_function ==
  /\ Here("open")
  /\ \/ CanOpen /\ loaded' = (IF File("o") \in disk THEN loaded \cup {at} ELSE loaded)
        /\ ThenThread("open", "create") /\ Done
     \/ ((~ CanOpen /\ Done) \/ May("dlopen")) /\ pc' = "main_out" /\ UNCHANGED <<at, loaded>>
  /\ UNCHANGED <<mem, worker>> /\ NoFiles

-----------------------------------------------------------------------------
(* Threads.                                                                *)

create_threads ==
  /\ Here("create")
  /\ \/ /\ worker' = [worker EXCEPT ![at] = "running"]
        /\ ThenThread("create", "commands")
        /\ UNCHANGED mem /\ Done
     \/ /\ May("create")               \* pthread_create, sched_setaffinity
        /\ worker' \in {worker, [worker EXCEPT ![at] = "running"]}
        /\ Goto("main_out", destroy_threads(mem))
        /\ UNCHANGED at
  /\ UNCHANGED loaded /\ NoFiles

\* INITIALIZE, RUN and EXIT to every thread
send_cmds ==
  /\ Here("commands")
  /\ \/ pc' = "join" /\ UNCHANGED mem /\ Done
     \/ May("send") /\ Goto("main_out", destroy_threads(mem))
  /\ UNCHANGED at /\ NoFiles /\ NoThreads

\* A thread ends once it has been told to.
worker_ends ==
  /\ pc \notin {"create", "commands"}
  /\ \E x \in All : worker[x] = "running" /\ worker' = [worker EXCEPT ![x] = "ended"]
  /\ UNCHANGED <<mem, at, loaded, pc>> /\ NoFiles /\ Done

\* Mutant: main goes on when the threads of the first workgroup have ended.
JoinedFirstGroup == \A t \in Threads : worker[<<1, t>>] = "ended"

Joined == \A x \in All : worker[x] = "ended"

join_threads ==
  /\ Here("join") /\ Joined
  /\ pc' = "release" /\ Done
  /\ UNCHANGED <<mem, at>> /\ NoFiles /\ NoThreads

release ==
  /\ Here("release")
  /\ Goto("destroy", release_streams(mem)) /\ Done
  /\ UNCHANGED at /\ NoFiles /\ NoThreads

destroy ==
  /\ Here("destroy")
  /\ Goto("main_out", destroy_threads(mem)) /\ Done
  /\ UNCHANGED at /\ NoFiles /\ NoThreads

\* free_runtime_config, which removes the noted files first
main_out ==
  /\ Here("main_out")
  /\ disk' = disk \ mkstempfiles
  /\ Goto("exit", free_runtime_config(mem)) /\ Done
  /\ UNCHANGED <<at, mkstempfiles>> /\ NoThreads

\* _sig_handler: global_runcfg got its value before there was a
\* configuration, so the handler removes nothing.
signal ==
  /\ May("signal") /\ pc # "exit"
  /\ pc' = "exit"
  /\ UNCHANGED <<mem, at>> /\ NoFiles /\ NoThreads

\* What follows the misuse of a pointer is not defined.
Exited == (Here("exit") \/ mem.bad) /\ UNCHANGED vars

Next ==
  \/ /\ ~ mem.bad /\ UNCHANGED fresh
     /\ \/ parse_cpu_folders
        \/ resolve_workgroup \/ resolve_workgroup_fails
        \/ allocate_workgroup_stuff_fails
        \/ check_and_fill \/ manage_streams \/ update_threads
        \/ generate_code \/ bmkstemp \/ bunlink \/ write_asm \/ compile
        \/ open_function \/ create_threads \/ send_cmds \/ worker_ends
        \/ join_threads \/ release \/ destroy \/ main_out \/ signal
  \/ Exited

Spec == Init /\ [][Next]_vars

-----------------------------------------------------------------------------
(* Properties.                                                             *)

\* Failures before some members of some workgroup are set.
Unset == {"folders", "text", "nothreads", "global", "results", "maps", "group",
          "flags", "dims", "arrays"}

\* However far the program got before something failed, nothing is freed
\* twice, and nothing is freed or followed that was not allocated, unless
\* update_threads stopped half-way or went on without the threads, the maps
\* of the global results could not be made, or members that nobody had set
\* yet held something (free_runtime_config, delete_workgroup,
\* destroy_threads).
MemorySafe ==
  mem.bad => \/ failed \cap {"threads", "barrier", "globalmaps"} # {}
             \/ fresh = "wild" /\ failed \cap Unset # {}

\* A thread never runs on what is gone, unless its partners could not be
\* created or told to start: its command queue, barrier, streams and arrays
\* exist (release_streams and destroy_threads in main).
NothingFreedInUse ==
  failed \cap {"create", "send"} = {} =>
    \A x \in All : worker[x] = "running" =>
      \A ptr \in {<<"threads", x[1]>>, <<"barrier", x[1]>>, <<"streams", x[1]>>,
                  <<"command", x[1], x[2]>>, <<"data", x[1], x[2]>>} \cup Arrays({x[1]}) :
        mem.p[ptr] = "live"

\* At the end of a program that no signal has stopped none of its files is
\* in /tmp, but for a temporary one that could not be removed (_rm_tmpfiles,
\* dynload_create_runtime_test_config).
FilesRemoved ==
  Here("exit") /\ "signal" \notin failed =>
    \A f \in disk : f[1] = "tmp" /\ "unlink" \in failed

\* At the end of the program, also by a signal, no file is left whose name it
\* has noted for removal (_rm_tmpfiles, _sig_handler).
NotedFilesRemoved == Here("exit") => disk \cap mkstempfiles = {}

\* No thread is started unless the kernel of every thread of every
\* workgroup has been compiled and loaded (open_function).
StartsOnlyComplete == (\E x \in All : worker[x] # "none") => loaded = All
=============================================================================
