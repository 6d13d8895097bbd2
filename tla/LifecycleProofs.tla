-------------------------- MODULE LifecycleProofs --------------------------
(***************************************************************************)
(* Lifecycle for every number of workgroups, threads and streams and for   *)
(* every set of failures: which files are left in /tmp, which threads are  *)
(* started, and which pointers are freed or followed.                      *)
(***************************************************************************)
EXTENDS Lifecycle, FiniteSetTheorems, TLAPS

-----------------------------------------------------------------------------
(* Files.                                                                  *)

\* A file is noted, or it is the temporary one main is about to remove, or
\* main could not remove it, or a signal kept main from doing so.
Accounted(f) ==
  \/ f \in mkstempfiles
  \/ pc = "unlink" /\ f = File("tmp")
  \/ f[1] = "tmp" /\ "unlink" \in failed
  \/ "signal" \in failed

FilesInv ==
  /\ \A f \in disk : Accounted(f)
  /\ pc \in {"write", "compile"} => Noted \subseteq mkstempfiles
  /\ FilesRemoved

\* Steps that touch no file, nor are about to or through with it.
LEMMA FilesElsewhere ==
  ASSUME FilesInv, NoFiles, failed \subseteq failed', pc # "unlink" \/ "signal" \in failed',
         pc' \notin {"unlink", "write", "compile"}, pc' = "exit" => "signal" \in failed'
  PROVE  FilesInv'
BY DEF FilesInv, Accounted, FilesRemoved, Here, NoFiles

\* A program that no signal has stopped leaves no file in /tmp, but for a
\* temporary one it could not remove: what main compiles it notes before it
\* writes it.
THEOREM RemovesFiles == Spec => []FilesRemoved
<1>1. Init => FilesInv
  BY DEF Init, FilesInv, FilesRemoved, Here
<1>2. FilesInv /\ [Next]_vars => FilesInv'
  <2> SUFFICES ASSUME FilesInv, [Next]_vars PROVE FilesInv'
    OBVIOUS
  <2>1. CASE UNCHANGED vars
    BY <2>1 DEF vars, FilesInv, Accounted, FilesRemoved, Here, Noted, File
  <2>2. CASE bmkstemp
    <3>1. CASE disk' = disk \cup {File("tmp")} /\ pc' = "unlink" /\ Done
      BY <2>2, <3>1 DEF bmkstemp, Here, Done, FilesInv, Accounted, FilesRemoved, File, Noted
    <3>2. CASE May("mkstemp") /\ pc' = "main_out" /\ UNCHANGED disk
      BY <2>2, <3>2 DEF bmkstemp, Here, May, FilesInv, Accounted, FilesRemoved, File, Noted
    <3> QED BY <2>2, <3>1, <3>2 DEF bmkstemp
  <2>3. CASE bunlink
    <3>1. CASE /\ disk' = disk \ {File("tmp")} /\ mkstempfiles' = mkstempfiles \cup Noted
               /\ pc' = "write" /\ Done
      BY <2>3, <3>1 DEF bunlink, Here, Done, FilesInv, Accounted, FilesRemoved, File, Noted
    <3>2. CASE May("unlink") /\ pc' = "main_out" /\ UNCHANGED <<disk, mkstempfiles>>
      BY <2>3, <3>2 DEF bunlink, Here, May, FilesInv, Accounted, FilesRemoved, File, Noted
    <3> QED BY <2>3, <3>1, <3>2 DEF bunlink
  <2>4. CASE write_asm
    <3>1. Noted \subseteq mkstempfiles
      BY <2>4 DEF write_asm, Here, FilesInv
    <3>2. failed \subseteq failed' /\ pc' \in {"compile", "main_out"}
          /\ UNCHANGED <<at, mkstempfiles>> /\ pc = "write"
      BY <2>4 DEF write_asm, Here, Done, May
    <3>3. disk' \subseteq disk \cup {File("s")}
      BY <2>4 DEF write_asm
    <3> QED BY <3>1, <3>2, <3>3 DEF FilesInv, Accounted, FilesRemoved, Here, Noted, File
  <2>5. CASE compile
    <3>1. Noted \subseteq mkstempfiles /\ pc = "compile" /\ UNCHANGED mkstempfiles
      BY <2>5 DEF compile, Here, FilesInv
    <3>2. pc' \in {"mkstemp", "open"} /\ failed \subseteq failed'
      BY <2>5 DEF compile, ThenThread, May, Done
    <3>3. disk' \subseteq disk \cup {File("o")}
      BY <2>5 DEF compile
    <3> QED BY <3>1, <3>2, <3>3 DEF FilesInv, Accounted, FilesRemoved, Here, Noted, File
  <2>6. CASE worker_ends
    BY <2>6 DEF worker_ends, NoFiles, Done, FilesInv, Accounted, FilesRemoved, Here, Noted, File
  <2>7. CASE main_out
    <3>1. /\ pc = "main_out" /\ pc' = "exit" /\ disk' = disk \ mkstempfiles
          /\ UNCHANGED <<failed, mkstempfiles>>
      BY <2>7 DEF main_out, Here, Goto, Done
    <3> QED BY <3>1 DEF FilesInv, Accounted, FilesRemoved, Here
  <2>8. CASE signal
    BY <2>8, FilesElsewhere DEF signal, May
  <2>9. CASE parse_cpu_folders \/ check_and_fill
    BY <2>9, FilesElsewhere DEF parse_cpu_folders, check_and_fill, Here, Done, May
  <2>10. CASE resolve_workgroup \/ resolve_workgroup_fails \/ allocate_workgroup_stuff_fails
    BY <2>10, FilesElsewhere
    DEF resolve_workgroup, resolve_workgroup_fails, allocate_workgroup_stuff_fails,
        ThenGroup, Goto, Here, Done, May
  <2>11. CASE manage_streams
    BY <2>11, FilesElsewhere DEF manage_streams, ThenGroup, Goto, Here, Done, May
  <2>12. CASE update_threads
    BY <2>12, FilesElsewhere DEF update_threads, Goto, Here, Done, May
  <2>13. CASE generate_code
    BY <2>13, FilesElsewhere DEF generate_code, ThenThread, Here, Done, May
  <2>14. CASE open_function
    BY <2>14, FilesElsewhere DEF open_function, ThenThread, Here, Done, May
  <2>15. CASE create_threads \/ send_cmds
    BY <2>15, FilesElsewhere DEF create_threads, send_cmds, ThenThread, Goto, Here, Done, May,
                                 NoThreads
  <2>16. CASE join_threads \/ release \/ destroy
    BY <2>16, FilesElsewhere DEF join_threads, release, destroy, Goto, Here, Done
  <2> QED
    BY <2>1, <2>2, <2>3, <2>4, <2>5, <2>6, <2>7, <2>8, <2>9, <2>10, <2>11, <2>12, <2>13,
       <2>14, <2>15, <2>16 DEF Next, Exited
<1>3. FilesInv => FilesRemoved
  BY DEF FilesInv
<1> QED BY <1>1, <1>2, <1>3, PTL DEF Spec

-----------------------------------------------------------------------------
(* Loading and starting.                                                   *)

Before(x, y) == x[1] < y[1] \/ (x[1] = y[1] /\ x[2] < y[2])

\* Loops run from the first workgroup and thread to the last; what the
\* loop that opens the functions has passed is loaded.
LoadInv ==
  /\ at \in All
  /\ loaded \subseteq All
  /\ pc = "open" => \A x \in All : Before(x, at) => x \in loaded
  /\ pc = "create" => loaded = All
  /\ StartsOnlyComplete

\* Workgroups and their threads are counted from one.
Numbered ==
  \E n, m \in Nat \ {0} : Groups = 1 .. n /\ Threads = 1 .. m

LEMMA LastOnes ==
  ASSUME Numbered
  PROVE  /\ Cardinality(Groups) \in Nat \ {0} /\ Groups = 1 .. Cardinality(Groups)
         /\ Cardinality(Threads) \in Nat \ {0} /\ Threads = 1 .. Cardinality(Threads)
<1>1. PICK n \in Nat \ {0}, m \in Nat \ {0} : Groups = 1 .. n /\ Threads = 1 .. m
  BY DEF Numbered
<1>2. \A k \in Nat \ {0} : Cardinality(1 .. k) = k
  BY FS_Interval
<1> QED BY <1>1, <1>2

LEMMA FirstOne ==
  ASSUME Numbered
  PROVE  First \in All /\ \A x \in All : ~ Before(x, First)
BY LastOnes DEF First, All, Before

\* What a loop over the threads has left to do after one more of them.
LEMMA NextOne ==
  ASSUME Numbered, at \in All
  PROVE  /\ ~ (LastGroup /\ LastThread) => NextThread \in All
         /\ \A x \in All : Before(x, NextThread) => Before(x, at) \/ x = at
         /\ LastGroup /\ LastThread => \A x \in All : Before(x, at) \/ x = at
<1> DEFINE n == Cardinality(Groups)
           m == Cardinality(Threads)
<1>1. n \in Nat \ {0} /\ Groups = 1 .. n /\ m \in Nat \ {0} /\ Threads = 1 .. m
  BY LastOnes
<1> HIDE DEF n, m
<1>2. /\ LastThread <=> at[2] = m
      /\ LastGroup <=> at[1] = n
  BY DEF LastThread, LastGroup, n, m
<1>3. at = <<at[1], at[2]>> /\ at[1] \in 1 .. n /\ at[2] \in 1 .. m
  BY <1>1 DEF All
<1>4. \A x \in All : x = <<x[1], x[2]>> /\ x[1] \in 1 .. n /\ x[2] \in 1 .. m
  BY <1>1 DEF All
<1>5. ~ (LastGroup /\ LastThread) => NextThread \in All
  BY <1>1, <1>2, <1>3 DEF NextThread, All
<1>6. ASSUME NEW x \in All, Before(x, NextThread) PROVE Before(x, at) \/ x = at
  <2>1. x[1] \in Nat /\ x[2] \in 1 .. m /\ x = <<x[1], x[2]>>
    BY <1>4, <1>6, <1>1
  <2>2. CASE LastThread
    BY <2>1, <2>2, <1>1, <1>2, <1>3, <1>6 DEF Before, NextThread
  <2>3. CASE ~ LastThread
    BY <2>1, <2>3, <1>1, <1>2, <1>3, <1>6 DEF Before, NextThread
  <2> QED BY <2>2, <2>3
<1>7. ASSUME LastGroup, LastThread, NEW x \in All PROVE Before(x, at) \/ x = at
  <2>1. x[1] \in 1 .. n /\ x[2] \in 1 .. m /\ x = <<x[1], x[2]>>
    BY <1>4, <1>7
  <2> QED BY <2>1, <1>7, <1>1, <1>2, <1>3 DEF Before
<1> QED BY <1>5, <1>6, <1>7

LEMMA ThreadLoop ==
  ASSUME Numbered, at \in All, NEW this, NEW next, ThenThread(this, next)
  PROVE  /\ at' \in All
         /\ \/ pc' = this /\ ~ (LastGroup /\ LastThread) /\ at' = NextThread
            \/ pc' = next /\ LastGroup /\ LastThread /\ at' = First
BY NextOne, FirstOne DEF ThenThread

LEMMA GroupLoop ==
  ASSUME Numbered, at \in All, NEW this, NEW next, ThenGroup(this, next)
  PROVE  /\ at' \in All
         /\ \/ pc' = this /\ ~ LastGroup /\ at' = <<at[1] + 1, 1>>
            \/ pc' = next /\ LastGroup /\ at' = First
<1>1. CASE LastGroup
  BY <1>1, FirstOne DEF ThenGroup
<1>2. CASE ~ LastGroup
  BY <1>2, LastOnes DEF ThenGroup, LastGroup, All
<1> QED BY <1>1, <1>2

\* Steps that load and start nothing.
LEMMA LoadElsewhere ==
  ASSUME LoadInv, NoThreads, at' \in All, pc' \notin {"open", "create"}
  PROVE  LoadInv'
BY DEF LoadInv, NoThreads, StartsOnlyComplete, All

LEMMA LoadNext ==
  ASSUME Numbered, LoadInv, [Next]_vars
  PROVE  LoadInv'
<1>0. at \in All
  BY DEF LoadInv
<1>1. CASE UNCHANGED vars
  BY <1>1 DEF vars, LoadInv, StartsOnlyComplete, All, Before
<1>2. CASE compile
  <2>1. NoThreads /\ ThenThread("mkstemp", "open")
    BY <1>2 DEF compile
  <2>2. CASE pc' = "mkstemp"
    BY <2>1, <2>2, <1>0, ThreadLoop, LoadElsewhere
  <2>3. CASE pc' = "open" /\ at' = First
    BY <2>1, <2>3, FirstOne DEF LoadInv, NoThreads, StartsOnlyComplete, All, Before
  <2> QED BY <2>1, <2>2, <2>3, <1>0, ThreadLoop
<1>3. CASE open_function
  <2>1. pc = "open" /\ UNCHANGED worker
    BY <1>3 DEF open_function, Here
  <2>2. CASE CanOpen /\ loaded' = (IF File("o") \in disk THEN loaded \cup {at} ELSE loaded)
             /\ ThenThread("open", "create")
    <3>1. loaded' = loaded \cup {at}
      BY <2>2 DEF CanOpen
    <3>2. loaded' \subseteq All /\ StartsOnlyComplete'
      BY <2>1, <3>1, <1>0 DEF LoadInv, StartsOnlyComplete, All
    <3>3. at' \in All /\ pc' \in {"open", "create"}
      BY <2>2, <1>0, ThreadLoop
    <3>4. ASSUME pc' = "open", NEW x \in All, Before(x, at') PROVE x \in loaded'
      <4>1. at' = NextThread
        BY <2>2, <3>4, <1>0, ThreadLoop
      <4>2. Before(x, at) \/ x = at
        BY <4>1, <3>4, <1>0, NextOne
      <4> QED BY <4>2, <3>1, <2>1 DEF LoadInv
    <3>5. ASSUME pc' = "create" PROVE loaded' = All
      <4>1. LastGroup /\ LastThread
        BY <2>2, <3>5, <1>0, ThreadLoop
      <4>2. \A x \in All : Before(x, at) \/ x = at
        BY <4>1, <1>0, NextOne
      <4> QED BY <4>2, <3>1, <3>2, <2>1 DEF LoadInv
    <3> QED BY <3>2, <3>3, <3>4, <3>5 DEF LoadInv, All, Before
  <2>3. CASE pc' = "main_out" /\ UNCHANGED <<at, loaded>>
    BY <2>1, <2>3, <1>0, LoadElsewhere DEF NoThreads
  <2> QED BY <1>3, <2>2, <2>3 DEF open_function
<1>4. CASE create_threads
  <2>1. loaded = All /\ UNCHANGED loaded
    BY <1>4 DEF create_threads, Here, LoadInv
  <2>2. at' \in All /\ pc' # "open"
    BY <1>4, <1>0, ThreadLoop DEF create_threads, Goto
  <2> QED BY <2>1, <2>2 DEF LoadInv, StartsOnlyComplete, All
<1>5. CASE worker_ends
  <2>1. UNCHANGED <<at, loaded, pc>>
    BY <1>5 DEF worker_ends
  <2>2. loaded = All
    BY <1>5 DEF worker_ends, LoadInv, StartsOnlyComplete
  <2> QED BY <2>1, <2>2 DEF LoadInv, StartsOnlyComplete, All, Before
<1>6. CASE parse_cpu_folders \/ check_and_fill \/ bmkstemp \/ bunlink \/ write_asm
  BY <1>6, <1>0, LoadElsewhere
  DEF parse_cpu_folders, check_and_fill, bmkstemp, bunlink, write_asm, All
<1>7. CASE resolve_workgroup
  BY <1>7, <1>0, GroupLoop, LoadElsewhere DEF resolve_workgroup
<1>8. CASE resolve_workgroup_fails \/ allocate_workgroup_stuff_fails
  BY <1>8, <1>0, LoadElsewhere
  DEF resolve_workgroup_fails, allocate_workgroup_stuff_fails, Goto, All
<1>9. CASE manage_streams
  <2>1. NoThreads
    BY <1>9 DEF manage_streams
  <2>2. CASE ThenGroup("streams", "update")
    BY <2>1, <2>2, <1>0, GroupLoop, LoadElsewhere
  <2>3. CASE pc' = "main_out" /\ UNCHANGED at
    BY <2>1, <2>3, <1>0, LoadElsewhere
  <2> QED BY <1>9, <2>2, <2>3 DEF manage_streams, Goto
<1>10. CASE update_threads
  BY <1>10, <1>0, LoadElsewhere DEF update_threads, Goto, All
<1>11. CASE generate_code
  BY <1>11, <1>0, ThreadLoop, LoadElsewhere DEF generate_code, All
<1>12. CASE send_cmds \/ join_threads \/ release \/ destroy \/ main_out \/ signal
  BY <1>12, <1>0, LoadElsewhere
  DEF send_cmds, join_threads, release, destroy, main_out, signal, Goto, All
<1> QED
  BY <1>1, <1>2, <1>3, <1>4, <1>5, <1>6, <1>7, <1>8, <1>9, <1>10, <1>11, <1>12
  DEF Next, Exited

\* No thread is started before the functions of all threads are open: the
\* loop over them ends at the last thread of the last workgroup or with an
\* error.
THEOREM StartsComplete ==
  ASSUME Numbered
  PROVE  Spec => []StartsOnlyComplete
<1>1. Init => LoadInv
  BY FirstOne DEF Init, LoadInv, StartsOnlyComplete, All
<1>2. LoadInv /\ [Next]_vars => LoadInv'
  BY LoadNext
<1>3. LoadInv => StartsOnlyComplete
  BY DEF LoadInv
<1> QED BY <1>1, <1>2, <1>3, PTL DEF Spec

-----------------------------------------------------------------------------
(* Pointers.                                                               *)

Values == {"null", "live", "freed", "wild"}

Memory == [p : [Pointers -> Values], bad : BOOLEAN]

LEMMA PutPlaces ==
  ASSUME NEW m \in Memory, NEW S, NEW v \in Values
  PROVE  /\ Put(m, S, v) \in Memory
         /\ Put(m, S, v).bad = m.bad
         /\ \A x \in Pointers : Put(m, S, v).p[x] = IF x \in S THEN v ELSE m.p[x]
BY DEF Put, Memory

LEMMA FreePlaces ==
  ASSUME NEW m \in Memory, NEW S
  PROVE  /\ Free(m, S) \in Memory
         /\ \A x \in Pointers : Free(m, S).p[x] = IF x \in S THEN "null" ELSE m.p[x]
         /\ (\A x \in S : m.p[x] \notin {"freed", "wild"}) => Free(m, S).bad = m.bad
BY DEF Free, Memory, Values

LEMMA FollowPlaces ==
  ASSUME NEW m \in Memory, NEW S
  PROVE  /\ Follow(m, S) \in Memory
         /\ Follow(m, S).p = m.p
         /\ (\A x \in S : m.p[x] = "live") => Follow(m, S).bad = m.bad
         /\ (\E x \in S : m.p[x] # "live") => Follow(m, S).bad
BY DEF Follow, Memory

\* Which of the sets of pointers a pointer is in.
LEMMA OfOne ==
  ASSUME NEW k
  PROVE  /\ \A j, W : <<k>> \notin G(j, W)
         /\ \A K, W : <<k>> \notin T(K, W)
         /\ \A W : <<k>> \notin Arrays(W)
BY DEF G, T, Arrays

LEMMA OfTwo ==
  ASSUME NEW k, NEW w
  PROVE  /\ \A j, W : <<k, w>> \in G(j, W) <=> k = j /\ w \in W
         /\ \A K, W : <<k, w>> \notin T(K, W)
         /\ \A W : <<k, w>> \notin Arrays(W)
         /\ <<k, w>> \notin Global \cup GlobalMaps
BY DEF G, T, Arrays, Global, GlobalMaps

LEMMA OfThree ==
  ASSUME NEW k, NEW w, NEW t
  PROVE  /\ \A j, W : <<k, w, t>> \notin G(j, W)
         /\ \A K, W : <<k, w, t>> \in T(K, W) <=> k \in K /\ w \in W /\ t \in Threads
         /\ \A W : <<k, w, t>> \in Arrays(W) <=> k = "array" /\ w \in W /\ t \in Streams
         /\ <<k, w, t>> \notin Global \cup GlobalMaps
BY DEF G, T, Arrays, Global, GlobalMaps

\* All pointers, by kind.
LEMMA AllPointers ==
  /\ \A k \in OfGroup, w \in Groups : <<k, w>> \in Pointers
  /\ \A k \in OfThread, w \in Groups, t \in Threads : <<k, w, t>> \in Pointers
  /\ \A w \in Groups, s \in Streams : <<"array", w, s>> \in Pointers
  /\ <<"global">> \in Pointers /\ <<"globalmaps">> \in Pointers
  /\ \A x \in Pointers :
       \/ \E k \in OfGroup, w \in Groups : x = <<k, w>>
       \/ \E k \in OfThread, w \in Groups, t \in Threads : x = <<k, w, t>>
       \/ \E w \in Groups, s \in Streams : x = <<"array", w, s>>
       \/ x = <<"global">> \/ x = <<"globalmaps">>
<1>1. ASSUME NEW k \in OfGroup, NEW w \in Groups PROVE <<k, w>> \in Pointers
  <2>1. <<k, w>> \in G(k, Groups)
    BY DEF G
  <2> QED BY <2>1 DEF Pointers
<1>2. ASSUME NEW k \in OfThread, NEW w \in Groups, NEW t \in Threads
      PROVE  <<k, w, t>> \in Pointers
  <2>1. <<k, w, t>> \in T(OfThread, Groups)
    BY DEF T
  <2> QED BY <2>1 DEF Pointers
<1>3. ASSUME NEW w \in Groups, NEW s \in Streams PROVE <<"array", w, s>> \in Pointers
  <2>1. <<"array", w, s>> \in Arrays(Groups)
    BY DEF Arrays
  <2> QED BY <2>1 DEF Pointers
<1>4. <<"global">> \in Pointers /\ <<"globalmaps">> \in Pointers
  BY DEF Pointers, Global, GlobalMaps
<1>5. ASSUME NEW x \in Pointers
      PROVE  \/ \E k \in OfGroup, w \in Groups : x = <<k, w>>
             \/ \E k \in OfThread, w \in Groups, t \in Threads : x = <<k, w, t>>
             \/ \E w \in Groups, s \in Streams : x = <<"array", w, s>>
             \/ x = <<"global">> \/ x = <<"globalmaps">>
  <2>1. CASE \E k \in OfGroup : x \in G(k, Groups)
    BY <2>1 DEF G
  <2>2. CASE x \in T(OfThread, Groups)
    BY <2>2 DEF T
  <2>3. CASE x \in Arrays(Groups)
    BY <2>3 DEF Arrays
  <2>4. CASE x \in Global \cup GlobalMaps
    BY <2>4 DEF Global, GlobalMaps
  <2> QED BY <2>1, <2>2, <2>3, <2>4 DEF Pointers
<1> QED BY <1>1, <1>2, <1>3, <1>4, <1>5

LEMMA SetsOfPointers ==
  /\ \A k \in OfGroup, W \in SUBSET Groups : G(k, W) \subseteq Pointers
  /\ \A K \in SUBSET OfThread, W \in SUBSET Groups : T(K, W) \subseteq Pointers
  /\ \A W \in SUBSET Groups : Arrays(W) \subseteq Pointers
  /\ Global \subseteq Pointers /\ GlobalMaps \subseteq Pointers
<1>1. ASSUME NEW k \in OfGroup, NEW W \in SUBSET Groups PROVE G(k, W) \subseteq Pointers
  BY AllPointers DEF G
<1>2. ASSUME NEW K \in SUBSET OfThread, NEW W \in SUBSET Groups
      PROVE  T(K, W) \subseteq Pointers
  BY AllPointers DEF T
<1>3. ASSUME NEW W \in SUBSET Groups PROVE Arrays(W) \subseteq Pointers
  BY AllPointers DEF Arrays
<1>4. Global \subseteq Pointers /\ GlobalMaps \subseteq Pointers
  BY AllPointers DEF Global, GlobalMaps
<1> QED BY <1>1, <1>2, <1>3, <1>4

\* Nothing is freed or wild, and what has results has a group.
Clean(m) ==
  /\ \A x \in Pointers : m.p[x] \in {"null", "live"}
  /\ \A w \in Groups : Is(m, <<"results", w>>, "live") => Is(m, <<"group", w>>, "live")

\* The arrays of the workgroups of W are allocated.
Streaming(m, W) ==
  \A w \in W : Is(m, <<"streams", w>>, "live") /\ \A s \in Streams : Is(m, <<"array", w, s>>, "live")

\* What the threads work on is allocated.
Barriers(m) ==
  \A w \in Groups : Is(m, <<"threads", w>>, "live") /\ Is(m, <<"barrier", w>>, "live")

Working(m) ==
  /\ Barriers(m)
  /\ \A w \in Groups, t \in Threads, k \in Stages : Is(m, <<k, w, t>>, "live")

Ready(m) == Streaming(m, Groups) /\ Working(m)

LEMMA NonNull ==
  ASSUME NEW m \in Memory, NEW kind \in OfGroup
  PROVE  /\ NotNull(m, kind) \subseteq Groups
         /\ \A w \in Groups : w \in NotNull(m, kind) <=> m.p[<<kind, w>>] # "null"
         /\ Clean(m) => \A w \in NotNull(m, kind) : m.p[<<kind, w>>] = "live"
BY AllPointers DEF NotNull, Where, Is, Clean

\* Freeing what is null or live does no harm.
LEMMA FreeClean ==
  ASSUME NEW m \in Memory, Clean(m), NEW S \in SUBSET Pointers
  PROVE  /\ Free(m, S).bad = m.bad
         /\ \A x \in Pointers : Free(m, S).p[x] \in {"null", "live"}
         /\ (\A w \in Groups : <<"group", w>> \in S => m.p[<<"results", w>>] = "null"
                                                        \/ <<"results", w>> \in S)
              => Clean(Free(m, S))
<1>1. Free(m, S).bad = m.bad
  BY FreePlaces DEF Clean
<1>2. \A x \in Pointers : Free(m, S).p[x] = IF x \in S THEN "null" ELSE m.p[x]
  BY FreePlaces
<1>3. ASSUME \A w \in Groups : <<"group", w>> \in S => m.p[<<"results", w>>] = "null"
                                                         \/ <<"results", w>> \in S,
             NEW w \in Groups, Free(m, S).p[<<"results", w>>] = "live"
      PROVE  Free(m, S).p[<<"group", w>>] = "live"
  BY <1>2, <1>3, AllPointers DEF Clean, Is, OfGroup
<1> QED BY <1>1, <1>2, <1>3 DEF Clean, Is

\* Making pointers live.
LEMMA PutLive ==
  ASSUME NEW m \in Memory, NEW S
  PROVE  /\ \A x \in Pointers : m.p[x] = "live" => Put(m, S, "live").p[x] = "live"
         /\ \A W \in SUBSET Groups : Streaming(m, W) => Streaming(Put(m, S, "live"), W)
         /\ Working(m) => Working(Put(m, S, "live"))
         /\ Clean(m) /\ (\A w \in Groups : <<"results", w>> \in S => <<"group", w>> \in S)
              => Clean(Put(m, S, "live"))
<1> DEFINE n == Put(m, S, "live")
<1>1. \A x \in Pointers : n.p[x] = IF x \in S THEN "live" ELSE m.p[x]
  BY PutPlaces DEF Values
<1> HIDE DEF n
<1>2. \A x \in Pointers : m.p[x] = "live" => n.p[x] = "live"
  BY <1>1
<1>3. \A W \in SUBSET Groups : Streaming(m, W) => Streaming(n, W)
  BY <1>2, AllPointers DEF Streaming, Is, OfGroup
<1>4. Working(m) => Working(n)
  BY <1>2, AllPointers DEF Working, Barriers, Is, OfGroup, OfThread, Stages
<1>5. Clean(m) /\ (\A w \in Groups : <<"results", w>> \in S => <<"group", w>> \in S) => Clean(n)
  BY <1>1, AllPointers DEF Clean, Is, OfGroup
<1> QED BY <1>2, <1>3, <1>4, <1>5 DEF n

LEMMA DeleteWorkgroup ==
  ASSUME NEW m \in Memory, NEW W \in SUBSET Groups
  PROVE  /\ delete_workgroup(m, W) \in Memory
         /\ Clean(m) => Clean(delete_workgroup(m, W)) /\ delete_workgroup(m, W).bad = m.bad
<1> DEFINE R == W \cap NotNull(m, "results")
           a == Follow(m, G("results", R) \cup G("group", R))
           S == T({"maps"}, R) \cup G("results", R) \cup G("groupmaps", R)
                     \cup G("hwthreads", W) \cup G("str", W)
           b == Free(a, S)
           c == Follow(b, Global)
           d == Free(c, Global \cup GlobalMaps)
<1>1. delete_workgroup(m, W) = IF b.p[<<"global">>] = "null" THEN b ELSE d
  BY DEF delete_workgroup, Is
<1>2. a \in Memory /\ b \in Memory /\ c \in Memory /\ d \in Memory
  BY FollowPlaces, FreePlaces
<1>3. ASSUME Clean(m)
      PROVE  /\ Clean(b) /\ b.bad = m.bad
             /\ b.p[<<"global">>] # "null" => Clean(d) /\ d.bad = m.bad
  <2>1. \A x \in G("results", R) \cup G("group", R) : m.p[x] = "live"
    <3>1. \A w \in R : w \in Groups /\ m.p[<<"results", w>>] = "live"
      BY <1>3, NonNull DEF OfGroup
    <3>2. \A w \in R : m.p[<<"group", w>>] = "live"
      BY <1>3, <3>1 DEF Clean, Is
    <3> QED BY <3>1, <3>2 DEF G
  <2>2. Clean(a) /\ a.bad = m.bad
    BY <1>3, <2>1, FollowPlaces DEF Clean, Is
  <2>3. S \subseteq Pointers
    BY SetsOfPointers DEF OfGroup, OfThread
  <2>4. \A w \in Groups : <<"group", w>> \notin S
    BY OfTwo
  <2>5. Clean(b) /\ b.bad = m.bad
    BY <1>2, <2>2, <2>3, <2>4, FreeClean
  <2>6. ASSUME b.p[<<"global">>] # "null" PROVE Clean(d) /\ d.bad = m.bad
    <3>1. \A x \in Global : b.p[x] = "live"
      BY <2>5, <2>6, AllPointers DEF Global, Clean
    <3>2. Clean(c) /\ c.bad = m.bad
      BY <1>2, <2>5, <3>1, FollowPlaces DEF Clean, Is
    <3>3. Global \cup GlobalMaps \subseteq Pointers
      BY SetsOfPointers
    <3>4. \A w \in Groups : <<"group", w>> \notin Global \cup GlobalMaps
      BY OfTwo
    <3> QED BY <1>2, <3>2, <3>3, <3>4, FreeClean
  <2> QED BY <2>5, <2>6
<1> QED BY <1>1, <1>2, <1>3

LEMMA ReleaseStreams ==
  ASSUME NEW m \in Memory
  PROVE  /\ release_streams(m) \in Memory
         /\ Clean(m) => Clean(release_streams(m)) /\ release_streams(m).bad = m.bad
         /\ Barriers(m) => Barriers(release_streams(m))
<1> DEFINE W == NotNull(m, "streams")
           a == Follow(m, G("streams", W))
           S == Arrays(W) \cup G("streams", W)
           b == Free(a, S)
<1>1. release_streams(m) = b
  BY DEF release_streams
<1>2. a \in Memory /\ a.p = m.p /\ b \in Memory
  BY FollowPlaces, FreePlaces
<1>3. \A x \in Pointers : b.p[x] = IF x \in S THEN "null" ELSE m.p[x]
  BY <1>2, FreePlaces
<1>4. ASSUME Clean(m) PROVE Clean(b) /\ b.bad = m.bad
  <2>1. \A x \in G("streams", W) : m.p[x] = "live"
    BY <1>4, NonNull DEF G, OfGroup
  <2>2. Clean(a) /\ a.bad = m.bad
    BY <1>4, <2>1, FollowPlaces DEF Clean, Is
  <2>3. S \subseteq Pointers
    BY SetsOfPointers, NonNull DEF OfGroup
  <2>4. \A w \in Groups : <<"group", w>> \notin S
    BY OfTwo
  <2> QED BY <1>2, <2>2, <2>3, <2>4, FreeClean
<1>5. ASSUME Barriers(m) PROVE Barriers(b)
  <2>1. \A w \in Groups : <<"threads", w>> \notin S /\ <<"barrier", w>> \notin S
    BY OfTwo
  <2> QED BY <1>3, <1>5, <2>1, AllPointers DEF Barriers, Is, OfGroup
<1> QED BY <1>1, <1>2, <1>4, <1>5

LEMMA DestroyThreads ==
  ASSUME NEW m \in Memory
  PROVE  /\ destroy_threads(m) \in Memory
         /\ Clean(m) /\ Barriers(m) =>
              Clean(destroy_threads(m)) /\ destroy_threads(m).bad = m.bad
         /\ Barriers(m) => \A w \in Groups : Is(destroy_threads(m), <<"threads", w>>, "null")
<1> DEFINE W == NotNull(m, "threads")
           a == Follow(m, G("barrier", Groups) \cup G("threads", W))
           S == G("barrier", Groups) \cup G("threads", W) \cup T(OfThread \ {"maps"}, W)
           b == Free(a, S)
<1>1. destroy_threads(m) = b
  BY DEF destroy_threads
<1>2. a \in Memory /\ a.p = m.p /\ b \in Memory
  BY FollowPlaces, FreePlaces
<1>3. \A x \in Pointers : b.p[x] = IF x \in S THEN "null" ELSE m.p[x]
  <2> HIDE DEF S, a
  <2>1. \A x \in Pointers : b.p[x] = IF x \in S THEN "null" ELSE a.p[x]
    BY <1>2, FreePlaces
  <2> QED BY <1>2, <2>1
<1>4. ASSUME Clean(m), Barriers(m) PROVE Clean(b) /\ b.bad = m.bad
  <2>1. \A x \in G("barrier", Groups) \cup G("threads", W) : m.p[x] = "live"
    <3>1. \A w \in W : m.p[<<"threads", w>>] = "live"
      BY <1>4, NonNull DEF OfGroup
    <3> QED BY <1>4, <3>1 DEF G, Barriers, Is
  <2>2. Clean(a) /\ a.bad = m.bad
    BY <1>4, <2>1, FollowPlaces DEF Clean, Is
  <2>3. S \subseteq Pointers
    BY SetsOfPointers, NonNull DEF OfGroup
  <2>4. \A w \in Groups : <<"group", w>> \notin S
    BY OfTwo
  <2> QED BY <1>2, <2>2, <2>3, <2>4, FreeClean
<1>5. ASSUME Barriers(m), NEW w \in Groups PROVE b.p[<<"threads", w>>] = "null"
  <2>1. w \in W
    BY <1>5, NonNull DEF Barriers, Is, OfGroup
  <2>2. <<"threads", w>> \in S
    BY <2>1, OfTwo
  <2> QED BY <1>3, <2>2, AllPointers DEF OfGroup
<1> QED BY <1>1, <1>2, <1>4, <1>5 DEF Is

LEMMA FreeRuntimeConfig ==
  ASSUME NEW m \in Memory
  PROVE  /\ free_runtime_config(m) \in Memory
         /\ Clean(m) => Clean(free_runtime_config(m)) /\ free_runtime_config(m).bad = m.bad
<1> DEFINE R == NotNull(m, "results")
           W == R \cap NotNull(m, "threads")
           V == NotNull(m, "streams")
           F == G("results", R) \cup G("group", R) \cup G("threads", W) \cup G("streams", V)
           S == G("str", Groups) \cup T({"maps"}, R)
                     \cup T({"command", "testconfig", "codelines", "data"}, W)
                     \cup G("threads", R) \cup G("groupmaps", R)
                     \cup G("group", R) \cup G("results", R)
                     \cup G("hwthreads", Groups)
                     \cup Arrays(V) \cup G("streams", V)
           a == Follow(m, F)
           b == Free(a, S)
           c == Follow(b, Global)
           d == Free(c, Global \cup GlobalMaps)
<1>1. free_runtime_config(m) \in {b, c, d}
      /\ (b.p[<<"global">>] = "null" => free_runtime_config(m) = b)
  BY DEF free_runtime_config, Is
<1>2. a \in Memory /\ b \in Memory /\ c \in Memory /\ d \in Memory
  BY FollowPlaces, FreePlaces
<1>3. ASSUME Clean(m)
      PROVE  /\ Clean(b) /\ b.bad = m.bad
             /\ b.p[<<"global">>] # "null" =>
                  Clean(c) /\ c.bad = m.bad /\ Clean(d) /\ d.bad = m.bad
  <2>1. \A x \in F : m.p[x] = "live"
    <3>1. \A w \in R : w \in Groups /\ m.p[<<"results", w>>] = "live"
      BY <1>3, NonNull DEF OfGroup
    <3>2. \A w \in R : m.p[<<"group", w>>] = "live"
      BY <1>3, <3>1 DEF Clean, Is
    <3>3. \A w \in W : m.p[<<"threads", w>>] = "live"
      BY <1>3, NonNull DEF OfGroup
    <3>4. \A w \in V : m.p[<<"streams", w>>] = "live"
      BY <1>3, NonNull DEF OfGroup
    <3> QED BY <3>1, <3>2, <3>3, <3>4 DEF G
  <2>2. Clean(a) /\ a.bad = m.bad
    BY <1>3, <2>1, FollowPlaces DEF Clean, Is
  <2>3. S \subseteq Pointers
    <3>1. R \in SUBSET Groups /\ W \in SUBSET Groups /\ V \in SUBSET Groups
      BY NonNull DEF OfGroup
    <3> QED BY <3>1, SetsOfPointers DEF OfGroup, OfThread
  <2>4. \A w \in Groups : <<"group", w>> \in S => <<"results", w>> \in S
    BY OfTwo
  <2>5. Clean(b) /\ b.bad = m.bad
    BY <1>2, <2>2, <2>3, <2>4, FreeClean
  <2>6. ASSUME b.p[<<"global">>] # "null"
        PROVE  Clean(c) /\ c.bad = m.bad /\ Clean(d) /\ d.bad = m.bad
    <3>1. \A x \in Global : b.p[x] = "live"
      BY <2>5, <2>6, AllPointers DEF Global, Clean
    <3>2. Clean(c) /\ c.bad = m.bad
      BY ZenonT(40), <1>2, <2>5, <3>1, FollowPlaces DEF Clean, Is
    <3>3. Global \cup GlobalMaps \subseteq Pointers
      BY SetsOfPointers
    <3>4. \A w \in Groups : <<"group", w>> \notin Global \cup GlobalMaps
      BY OfTwo
    <3> QED BY <1>2, <3>2, <3>3, <3>4, FreeClean
  <2> QED BY <2>5, <2>6
<1> QED BY <1>1, <1>2, <1>3

-----------------------------------------------------------------------------
(* What the steps that allocate leave.                                     *)

\* resolve_workgroups is through with the workgroups of W.
ByResolving == {"hwthreads", "results", "group", "groupmaps"}

Settled(m, W) ==
  /\ \A w \in Groups : Is(m, <<"str", w>>, "live")
  /\ m.p[<<"global">>] \in {"null", "live"} /\ m.p[<<"globalmaps">>] \in {"null", "live"}
  /\ \A w \in W : /\ \A k \in ByResolving : Is(m, <<k, w>>, "live")
                  /\ \A t \in Threads : Is(m, <<"maps", w, t>>, "live")

LEMMA ResolvedPlaces ==
  ASSUME mem \in Memory, NEW w \in Groups
  PROVE  /\ Resolved(w) \in Memory /\ Resolved(w).bad = mem.bad
         /\ Clean(mem) => Clean(Resolved(w))
         /\ \A W \in SUBSET Groups : Settled(mem, W) => Settled(Resolved(w), W \cup {w})
<1> DEFINE S == G("hwthreads", {w}) \cup Global \cup GlobalMaps \cup G("results", {w})
             \cup G("group", {w}) \cup G("groupmaps", {w}) \cup T({"maps"}, {w})
           n == Put(mem, S, "live")
<1>1. n \in Memory /\ n.bad = mem.bad
  BY PutPlaces DEF Values
<1>2. Clean(mem) => Clean(n)
  <2>1. \A v \in Groups : <<"results", v>> \in S => <<"group", v>> \in S
    BY OfTwo
  <2> QED BY <2>1, PutLive
<1>3. ASSUME NEW W \in SUBSET Groups, Settled(mem, W) PROVE Settled(n, W \cup {w})
  <2>1. \A x \in Pointers : mem.p[x] = "live" => n.p[x] = "live"
    BY PutLive
  <2>2. \A x \in Pointers : x \in S => n.p[x] = "live"
    <3> HIDE DEF S
    <3> QED BY PutPlaces DEF Values
  <2>3. \A k \in ByResolving : <<k, w>> \in S
    BY OfTwo DEF ByResolving
  <2>4. \A t \in Threads : <<"maps", w, t>> \in S
    BY OfThree
  <2>5. <<"global">> \in S /\ <<"globalmaps">> \in S
    BY DEF Global, GlobalMaps
  <2> HIDE DEF n, S
  <2>6. \A v \in Groups : Is(n, <<"str", v>>, "live")
    BY <1>3, <2>1, AllPointers DEF Settled, Is, OfGroup
  <2>7. \A v \in W \cup {w}, k \in ByResolving : Is(n, <<k, v>>, "live")
    BY <1>3, <2>1, <2>2, <2>3, AllPointers DEF Settled, Is, OfGroup, ByResolving
  <2>8. \A v \in W \cup {w}, t \in Threads : Is(n, <<"maps", v, t>>, "live")
    BY <1>3, <2>1, <2>2, <2>4, AllPointers DEF Settled, Is, OfThread
  <2>9. n.p[<<"global">>] = "live" /\ n.p[<<"globalmaps">>] = "live"
    BY <2>2, <2>5, AllPointers
  <2> QED BY <2>6, <2>7, <2>8, <2>9 DEF Settled
<1> QED BY <1>1, <1>2, <1>3 DEF Resolved

Places == {"nothreads", "global", "globalmaps", "results", "maps", "group"}

LEMMA FailedPlaces ==
  ASSUME mem \in Memory, NEW w \in Groups, NEW place \in Places
  PROVE  /\ StuffFailure(w, place) \in Memory
         /\ StuffFailure(w, place).bad = mem.bad
         /\ Clean(mem) /\ place # "globalmaps" => Clean(StuffFailure(w, place))
<1> DEFINE h == Put(mem, G("hwthreads", {w}), "live")
           g == Put(h, Global \cup GlobalMaps, "live")
           r == Put(g, G("results", {w}) \cup T({"maps"}, {w}), "live")
           q == Put(r, G("results", {w}) \cup T({"maps"}, {w}), "null")
           gone == Put(q, Global \cup GlobalMaps, "null")
           f == Put(h, Global, "freed")
           u == Put(g, G("results", {w}), "null")
           z == Put(gone, G("group", {w}), "null")
           y == Put(h, Global \cup GlobalMaps, "null")
           x == Put(f, GlobalMaps, "null")
<1>1. h \in Memory /\ h.bad = mem.bad
  BY PutPlaces DEF Values
<1>2. g \in Memory /\ g.bad = mem.bad
  BY <1>1, PutPlaces DEF Values
<1>3. r \in Memory /\ r.bad = mem.bad
  BY <1>2, PutPlaces DEF Values
<1>4. q \in Memory /\ q.bad = mem.bad
  BY <1>3, PutPlaces DEF Values
<1>5. gone \in Memory /\ gone.bad = mem.bad
  BY <1>4, PutPlaces DEF Values
<1>6. f \in Memory /\ f.bad = mem.bad
  BY <1>1, PutPlaces DEF Values
<1>7. u \in Memory /\ u.bad = mem.bad
  BY <1>2, PutPlaces DEF Values
<1>8. z \in Memory /\ z.bad = mem.bad
  BY <1>5, PutPlaces DEF Values
<1>9. y \in Memory /\ y.bad = mem.bad
  BY <1>1, PutPlaces DEF Values
<1>10. x \in Memory /\ x.bad = mem.bad
  BY <1>6, PutPlaces DEF Values
<1>11. StuffFailure(w, place) \in {h, y, x, u, gone, z}
       /\ (place # "globalmaps" => StuffFailure(w, place) \in {h, y, u, gone, z})
  BY DEF StuffFailure, Places
<1>12. ASSUME Clean(mem) PROVE Clean(h) /\ Clean(y) /\ Clean(u) /\ Clean(gone) /\ Clean(z)
  <2>1. \A v \in Groups, kind \in {"hwthreads", "global"} : <<"results", v>> \notin G(kind, {w})
    BY OfTwo
  <2>2. \A v \in Groups : <<"results", v>> \notin Global \cup GlobalMaps
    BY OfTwo
  <2>3. Clean(h)
    BY <1>12, <2>1, PutLive
  <2>4. Clean(g)
    BY <1>1, <2>2, <2>3, PutLive
  <2>5. \A v \in Groups : (<<"results", v>> \in G("results", {w}) \cup T({"maps"}, {w}) <=> v = w)
                          /\ <<"group", v>> \notin G("results", {w}) \cup T({"maps"}, {w})
                          /\ <<"group", v>> \notin Global \cup GlobalMaps
                          /\ (<<"group", v>> \in G("group", {w}) <=> v = w)
                          /\ <<"results", v>> \notin G("group", {w})
                          /\ <<"group", v>> \notin G("results", {w})
                          /\ (<<"results", v>> \in G("results", {w}) <=> v = w)
    BY OfTwo
  <2>6. Clean(y)
    <3> HIDE DEF h
    <3>1. \A p \in Pointers : y.p[p] = IF p \in Global \cup GlobalMaps THEN "null" ELSE h.p[p]
      BY <1>1, PutPlaces DEF Values
    <3> QED BY <2>2, <2>3, <2>5, <3>1, AllPointers DEF Clean, Is, OfGroup
  <2>7. Clean(u)
    <3> HIDE DEF g
    <3>1. \A p \in Pointers : u.p[p] = IF p \in G("results", {w}) THEN "null" ELSE g.p[p]
      BY <1>2, PutPlaces DEF Values
    <3> QED BY <2>4, <2>5, <3>1, AllPointers DEF Clean, Is, OfGroup
  <2>8. /\ \A p \in Pointers : q.p[p] \in {"null", "live"}
        /\ q.p[<<"results", w>>] = "null"
        /\ \A v \in Groups : q.p[<<"results", v>>] = "live" => q.p[<<"group", v>>] = "live"
    <3> DEFINE S == G("results", {w}) \cup T({"maps"}, {w})
    <3>1. \A p \in Pointers : r.p[p] = IF p \in S THEN "live" ELSE g.p[p]
      <4>1. r = Put(g, S, "live")
        OBVIOUS
      <4> HIDE DEF g, r, S
      <4> QED BY <4>1, <1>2, PutPlaces DEF Values
    <3>2. \A p \in Pointers : q.p[p] = IF p \in S THEN "null" ELSE r.p[p]
      <4>1. q = Put(r, S, "null")
        OBVIOUS
      <4> HIDE DEF q, r, S
      <4> QED BY <4>1, <1>3, PutPlaces DEF Values
    <3> HIDE DEF g, r, q, S
    <3>3. \A v \in Groups : (<<"results", v>> \in S <=> v = w) /\ <<"group", v>> \notin S
      BY <2>5 DEF S
    <3> QED BY <2>4, <3>1, <3>2, <3>3, AllPointers DEF Clean, Is, OfGroup
  <2>9. Clean(gone) /\ gone.p[<<"results", w>>] = "null"
    <3> HIDE DEF q
    <3>1. \A p \in Pointers : gone.p[p] = IF p \in Global \cup GlobalMaps THEN "null" ELSE q.p[p]
      BY <1>4, PutPlaces DEF Values
    <3> QED BY <2>2, <2>5, <2>8, <3>1, AllPointers DEF Clean, Is, OfGroup
  <2>10. Clean(z)
    <3> HIDE DEF gone
    <3>1. \A p \in Pointers : z.p[p] = IF p \in G("group", {w}) THEN "null" ELSE gone.p[p]
      BY <1>5, PutPlaces DEF Values
    <3> QED BY <2>5, <2>9, <3>1, AllPointers DEF Clean, Is, OfGroup
  <2> QED BY <2>3, <2>6, <2>7, <2>9, <2>10
<1> QED
  BY <1>1, <1>5, <1>7, <1>8, <1>9, <1>10, <1>11, <1>12

\* Streams of one workgroup without their arrays.
Zeroed(w) == Put(Put(mem, G("streams", {w}), "live"), Arrays({w}), "null")

LEMMA StreamPlaces ==
  ASSUME mem \in Memory, NEW w \in Groups
  PROVE  LET none == Zeroed(w)
             full == Put(none, Arrays({w}), "live")
         IN  /\ none \in Memory /\ none.bad = mem.bad
             /\ full \in Memory /\ full.bad = mem.bad
             /\ Clean(mem) => Clean(none) /\ Clean(full)
             /\ \A W \in SUBSET Groups :
                  Streaming(mem, W) => Streaming(full, W \cup {w})
             /\ Settled(mem, Groups) => Settled(full, Groups)
<1> DEFINE one  == Put(mem, G("streams", {w}), "live")
           none == Put(one, Arrays({w}), "null")
           full == Put(none, Arrays({w}), "live")
<1>1. one \in Memory /\ one.bad = mem.bad
      /\ \A x \in Pointers : one.p[x] = IF x \in G("streams", {w}) THEN "live" ELSE mem.p[x]
  BY PutPlaces DEF Values
<1>2. none \in Memory /\ none.bad = mem.bad
      /\ \A x \in Pointers : none.p[x] = IF x \in Arrays({w}) THEN "null" ELSE one.p[x]
  <2> HIDE DEF one
  <2> QED BY <1>1, PutPlaces DEF Values
<1>3. full \in Memory /\ full.bad = mem.bad
      /\ \A x \in Pointers : full.p[x] = IF x \in Arrays({w}) THEN "live" ELSE none.p[x]
  <2> HIDE DEF none
  <2> QED BY <1>2, PutPlaces DEF Values
<1>4. none = Zeroed(w)
  BY DEF Zeroed
<1> HIDE DEF one, none, full
<1>5. \A x \in Pointers : /\ x \in Arrays({w}) => none.p[x] = "null" /\ full.p[x] = "live"
                          /\ x \in G("streams", {w}) /\ x \notin Arrays({w}) =>
                               none.p[x] = "live" /\ full.p[x] = "live"
                          /\ x \notin G("streams", {w}) /\ x \notin Arrays({w}) =>
                               none.p[x] = mem.p[x] /\ full.p[x] = mem.p[x]
  BY <1>1, <1>2, <1>3
<1>6. \A k \in OfGroup, v \in Groups :
        /\ <<k, v>> \notin Arrays({w})
        /\ <<k, v>> \in G("streams", {w}) <=> k = "streams" /\ v = w
  BY DEF G, Arrays
<1>7. \A k, v, t : /\ <<k, v, t>> \in Arrays({w}) <=> k = "array" /\ v = w /\ t \in Streams
                   /\ <<k, v, t>> \notin G("streams", {w})
  BY DEF G, Arrays
<1>8. Clean(mem) => Clean(none) /\ Clean(full)
  BY <1>5, <1>6, AllPointers DEF Clean, Is, OfGroup
<1>9. ASSUME NEW W \in SUBSET Groups, Streaming(mem, W) PROVE Streaming(full, W \cup {w})
  <2>1. \A v \in W \cup {w} : full.p[<<"streams", v>>] = "live"
    BY <1>5, <1>6, <1>9, AllPointers DEF Streaming, Is, OfGroup
  <2>2. \A v \in W \cup {w}, s \in Streams : full.p[<<"array", v, s>>] = "live"
    BY <1>5, <1>7, <1>9, AllPointers DEF Streaming, Is
  <2> QED BY <2>1, <2>2 DEF Streaming, Is
<1>10. ASSUME Settled(mem, Groups) PROVE Settled(full, Groups)
  <2>1. \A v \in Groups, k \in ByResolving \cup {"str"} : full.p[<<k, v>>] = mem.p[<<k, v>>]
    BY <1>5, <1>6, AllPointers DEF ByResolving, OfGroup
  <2>2. \A v \in Groups, t \in Threads : full.p[<<"maps", v, t>>] = mem.p[<<"maps", v, t>>]
    BY <1>5, <1>7, AllPointers DEF OfThread
  <2>3. \A k \in {"global", "globalmaps"} : full.p[<<k>>] = mem.p[<<k>>]
    BY <1>5, OfOne, AllPointers
  <2>4. \A v \in Groups : Is(full, <<"str", v>>, "live")
    BY <1>10, <2>1 DEF Settled, Is
  <2>5. \A v \in Groups, k \in ByResolving : Is(full, <<k, v>>, "live")
    BY <1>10, <2>1 DEF Settled, Is
  <2>6. \A v \in Groups, t \in Threads : Is(full, <<"maps", v, t>>, "live")
    BY <1>10, <2>2 DEF Settled, Is
  <2>7. full.p[<<"global">>] \in {"null", "live"} /\ full.p[<<"globalmaps">>] \in {"null", "live"}
    BY <1>10, <2>3 DEF Settled
  <2> QED BY <2>4, <2>5, <2>6, <2>7 DEF Settled
<1> QED BY <1>2, <1>3, <1>4, <1>8, <1>9, <1>10 DEF full

\* All workgroups with all their threads.
LEMMA UpdatedPlaces ==
  ASSUME Numbered, mem \in Memory, Streaming(mem, Groups)
  PROVE  LET done == ThreadsBefore(mem, Cardinality(Groups) + 1)
         IN  /\ done \in Memory /\ done.bad = mem.bad
             /\ Ready(done)
             /\ Clean(mem) => Clean(done)
             /\ Settled(mem, Groups) => Clean(done)
<1> DEFINE A == G("threads", Groups) \cup G("barrier", Groups)
                  \cup T({"command", "testconfig", "tstreams", "data"}, Groups)
           B == T({"codelines"}, Groups)
           set  == Put(mem, A, "live")
           done == Put(set, B, "null")
<1>1. ThreadsBefore(mem, Cardinality(Groups) + 1) = done
  <2>1. 1 .. (Cardinality(Groups) + 1) - 1 = Groups
    BY LastOnes
  <2> QED BY <2>1 DEF ThreadsBefore
<1>2. \A k, w : /\ <<k, w>> \in A <=> k \in {"threads", "barrier"} /\ w \in Groups
                /\ <<k, w>> \notin B
  BY DEF G, T
<1>3. \A k, w, t : /\ <<k, w, t>> \in A <=> k \in Stages /\ w \in Groups /\ t \in Threads
                   /\ <<k, w, t>> \in B <=> k = "codelines" /\ w \in Groups /\ t \in Threads
  BY DEF G, T, Stages
<1>4. set \in Memory /\ set.bad = mem.bad
      /\ \A x \in Pointers : set.p[x] = IF x \in A THEN "live" ELSE mem.p[x]
  <2> HIDE DEF A
  <2> QED BY PutPlaces DEF Values
<1>5. done \in Memory /\ done.bad = mem.bad
      /\ \A x \in Pointers : done.p[x] = IF x \in B THEN "null" ELSE set.p[x]
  <2> HIDE DEF B, set
  <2> QED BY <1>4, PutPlaces DEF Values
<1> HIDE DEF A, B, set, done
<1>6. Ready(done)
  <2>1. Streaming(done, Groups)
    BY <1>2, <1>3, <1>4, <1>5, AllPointers DEF Streaming, Is, OfGroup, Stages
  <2>2. Barriers(done)
    BY <1>2, <1>4, <1>5, AllPointers DEF Barriers, Is, OfGroup
  <2>3. \A w \in Groups, t \in Threads, k \in Stages : done.p[<<k, w, t>>] = "live"
    BY <1>3, <1>4, <1>5, AllPointers DEF Stages, OfThread
  <2> QED BY <2>1, <2>2, <2>3 DEF Ready, Working, Is
<1>7. \A w \in Groups : /\ done.p[<<"results", w>>] = mem.p[<<"results", w>>]
                        /\ done.p[<<"group", w>>] = mem.p[<<"group", w>>]
  BY <1>2, <1>4, <1>5, AllPointers DEF OfGroup
<1>8. Clean(mem) => Clean(done)
  BY <1>4, <1>5, <1>7 DEF Clean, Is
<1>9. ASSUME Settled(mem, Groups) PROVE Clean(done)
  <2>1. ASSUME NEW k \in OfGroup, NEW w \in Groups PROVE done.p[<<k, w>>] \in {"null", "live"}
    <3>1. CASE k \in {"threads", "barrier"}
      BY <3>1, <1>6 DEF Ready, Working, Barriers, Is
    <3>2. CASE k = "streams"
      BY <3>2, <1>6 DEF Ready, Streaming, Is
    <3>3. CASE k \in ByResolving \cup {"str"}
      <4>1. done.p[<<k, w>>] = mem.p[<<k, w>>]
        BY <3>3, <1>2, <1>4, <1>5, AllPointers DEF ByResolving
      <4> QED BY <4>1, <3>3, <1>9 DEF Settled, Is
    <3> QED BY <3>1, <3>2, <3>3 DEF OfGroup, ByResolving
  <2>2. ASSUME NEW k \in OfThread, NEW w \in Groups, NEW t \in Threads
        PROVE  done.p[<<k, w, t>>] \in {"null", "live"}
    <3>1. CASE k \in Stages
      BY <3>1, <1>6 DEF Ready, Working, Is
    <3>2. CASE k = "codelines"
      BY <3>2, <1>3, <1>5, AllPointers
    <3>3. CASE k = "maps"
      <4>1. done.p[<<k, w, t>>] = mem.p[<<k, w, t>>]
        BY <3>3, <1>3, <1>4, <1>5, AllPointers DEF Stages
      <4> QED BY <4>1, <3>3, <1>9 DEF Settled, Is
    <3> QED BY <3>1, <3>2, <3>3 DEF OfThread, Stages
  <2>3. \A w \in Groups, s \in Streams : done.p[<<"array", w, s>>] = "live"
    BY <1>6 DEF Ready, Streaming, Is
  <2>4. \A k \in {"global", "globalmaps"} : done.p[<<k>>] = mem.p[<<k>>]
    <3>1. \A k : <<k>> \notin A /\ <<k>> \notin B
      BY OfOne DEF A, B
    <3> QED BY <3>1, <1>4, <1>5, AllPointers
  <2>5. \A x \in Pointers : done.p[x] \in {"null", "live"}
    BY <1>9, <2>1, <2>2, <2>3, <2>4, AllPointers DEF Settled
  <2>6. \A w \in Groups : done.p[<<"group", w>>] = "live"
    BY <1>7, <1>9 DEF Settled, Is, ByResolving
  <2> QED BY <2>5, <2>6 DEF Clean, Is
<1> QED BY <1>1, <1>5, <1>6, <1>8, <1>9

LEMMA StoppedPlaces ==
  ASSUME mem \in Memory, fresh \in Values, NEW w \in Groups, NEW t \in Threads, NEW stage \in Stages
  PROVE  Stopped(w, t, stage) \in Memory
<1> DEFINE W == 1 .. w - 1
           a == Put(mem, G("threads", W) \cup G("barrier", W)
                   \cup T({"command", "testconfig", "tstreams", "data"}, W), "live")
           before  == Put(a, T({"codelines"}, W), "null")
           group   == Put(before, G("threads", {w}) \cup G("barrier", {w}), "live")
           blank   == Put(group, T(OfThread \ {"maps"}, {w}), fresh)
           earlier == {<<k, w, u>> : k \in Stages, u \in 1 .. t - 1}
           lines   == {<<"codelines", w, u>> : u \in 1 .. t - 1}
           some    == Put(blank, earlier \cup {<<k, w, t>> : k \in Parts(stage)}, "live")
           all     == Put(some, lines \cup (IF stage = "data" THEN {<<"codelines", w, t>>} ELSE {}), "null")
<1>1. Stopped(w, t, stage) = all
  BY DEF Stopped, ThreadsBefore
<1>2. a \in Memory
  BY PutPlaces DEF Values
<1>3. before \in Memory
  <2> HIDE DEF a
  <2> QED BY <1>2, PutPlaces DEF Values
<1>4. group \in Memory
  <2> HIDE DEF before
  <2> QED BY <1>3, PutPlaces DEF Values
<1>5. blank \in Memory
  <2> HIDE DEF group
  <2> QED BY <1>4, PutPlaces
<1>6. some \in Memory
  <2> HIDE DEF blank
  <2> QED BY <1>5, PutPlaces DEF Values
<1>7. all \in Memory
  <2> HIDE DEF some
  <2> QED BY <1>6, PutPlaces DEF Values
<1> QED BY <1>1, <1>7

LEMMA GeneratedPlaces ==
  ASSUME mem \in Memory, at \in All
  PROVE  LET n == Put(Follow(mem, G("threads", {at[1]})), {<<"codelines", at[1], at[2]>>}, "live")
         IN  /\ n \in Memory
             /\ Ready(mem) => Ready(n) /\ n.bad = mem.bad
             /\ Clean(mem) => Clean(n)
             /\ (\A w \in Groups : Is(mem, <<"threads", w>>, "null")) => n.bad
<1> DEFINE a == Follow(mem, G("threads", {at[1]}))
           n == Put(a, {<<"codelines", at[1], at[2]>>}, "live")
<1>0. at[1] \in Groups
  BY DEF All
<1>1. a \in Memory /\ a.p = mem.p
  BY FollowPlaces
<1>2. n \in Memory /\ n.bad = a.bad
  <2> HIDE DEF a
  <2> QED BY <1>1, PutPlaces DEF Values
<1>3. \A x : x \in G("threads", {at[1]}) <=> x = <<"threads", at[1]>>
  BY DEF G
<1>4. ASSUME Ready(mem) PROVE Ready(n) /\ a.bad = mem.bad
  <2>1. a.bad = mem.bad
    <3>1. \A x \in G("threads", {at[1]}) : mem.p[x] = "live"
      <4>1. mem.p[<<"threads", at[1]>>] = "live"
        BY <1>0, <1>4 DEF Ready, Working, Barriers, Is
      <4> QED BY <1>3, <4>1
    <3> QED BY <3>1, FollowPlaces
  <2>2. Ready(a)
    BY <1>1, <1>4 DEF Ready, Streaming, Working, Barriers, Is
  <2> HIDE DEF a
  <2>3. Ready(n)
    BY <1>1, <2>2, PutLive DEF Ready
  <2> QED BY <2>1, <2>3
<1>5. ASSUME Clean(mem) PROVE Clean(n)
  <2>1. Clean(a)
    BY <1>1, <1>5 DEF Clean, Is
  <2> HIDE DEF a
  <2>2. \A w \in Groups : <<"results", w>> \notin {<<"codelines", at[1], at[2]>>}
    OBVIOUS
  <2> QED BY <1>1, <2>1, <2>2, PutLive
<1>6. ASSUME \A w \in Groups : Is(mem, <<"threads", w>>, "null") PROVE a.bad
  BY <1>0, <1>3, <1>6, FollowPlaces DEF Is
<1> QED BY <1>2, <1>4, <1>5, <1>6

-----------------------------------------------------------------------------
(* What the threads work on.                                               *)

Opening  == {"mkstemp", "unlink", "write", "compile", "open"}
Starting == {"create", "commands", "join"}

\* A thread runs only while what it works on is there, or after its
\* partners could not be created or told to start.
RunsSafely ==
  (\E x \in All : worker[x] = "running") =>
    \/ failed \cap {"create", "send"} # {}
    \/ pc \in Starting \cup {"exit"} /\ Ready(mem)

UseInv ==
  /\ mem \in Memory /\ fresh \in Values /\ at \in All
  /\ pc = "flags" => at = First
  /\ pc = "streams" => Streaming(mem, 1 .. at[1] - 1)
  /\ pc = "update" => Streaming(mem, Groups)
  /\ pc = "generate" =>
       \/ Ready(mem)
       \/ /\ "barrier" \in failed
          /\ (mem.bad \/ \A w \in Groups : Is(mem, <<"threads", w>>, "null"))
  /\ pc \in Opening \cup Starting => Ready(mem) \/ ("barrier" \in failed /\ mem.bad)
  /\ RunsSafely

\* A step that starts no thread and after which nothing is needed yet, or
\* any more.
LEMMA UseElsewhere ==
  ASSUME UseInv, mem' \in Memory, fresh' = fresh, at' \in All, UNCHANGED worker,
         failed \subseteq failed', pc \notin Starting \cup {"exit"},
         pc' \notin {"flags", "streams", "update", "generate"} \cup Opening \cup Starting
  PROVE  UseInv'
BY DEF UseInv, RunsSafely, Opening, Starting, All

\* A step among those between which the memory stays as it is.
LEMMA UseAlong ==
  ASSUME UseInv, UNCHANGED <<mem, fresh, worker>>, at' \in All, failed \subseteq failed',
         pc \in Opening \cup Starting, pc' \in Opening \cup Starting,
         ~ mem.bad, pc' \in Opening => pc \in Opening
  PROVE  UseInv'
<1>1. Ready(mem)
  BY DEF UseInv
<1>2. Ready(mem')
  BY <1>1
<1>3. pc \in Opening => ~ (\E x \in All : worker[x] = "running") \/ failed \cap {"create", "send"} # {}
  BY DEF UseInv, RunsSafely, Opening, Starting
<1>4. RunsSafely'
  BY <1>2, <1>3 DEF UseInv, RunsSafely, All, Opening, Starting, Ready, Streaming, Working, Barriers, Is
<1> QED BY <1>2, <1>4 DEF UseInv, Opening, Starting, Ready, Streaming, Working, Barriers, Is

LEMMA UseStep ==
  ASSUME Numbered, UseInv, ~ mem.bad, UNCHANGED fresh, Next, ~ Exited
  PROVE  UseInv'
<1>0. /\ mem \in Memory /\ fresh \in Values /\ at \in All /\ at[1] \in Groups
      /\ pc \in Opening \cup Starting => Ready(mem)
  BY DEF UseInv, All
<1>1. ASSUME UNCHANGED worker, failed \subseteq failed', pc \notin Starting \cup {"exit"},
             pc' \notin Starting \cup {"exit"}
      PROVE  RunsSafely'
  BY <1>1 DEF UseInv, RunsSafely, All
<1>2. CASE parse_cpu_folders
  BY <1>0, <1>2, UseElsewhere DEF parse_cpu_folders, Here, Done, May, NoThreads, Opening, Starting
<1>3. CASE check_and_fill
  <2>1. /\ UNCHANGED <<mem, at, worker>> /\ pc = "flags" /\ failed \subseteq failed'
        /\ pc' \in {"streams", "main_out"}
    BY <1>3 DEF check_and_fill, Here, Done, May, NoThreads
  <2>2. CASE pc' = "main_out"
    BY <1>0, <2>1, <2>2, UseElsewhere DEF Opening, Starting
  <2>3. CASE pc' = "streams"
    <3>1. at = First
      BY <2>1 DEF UseInv
    <3>2. Streaming(mem', 1 .. at'[1] - 1)
      BY <2>1, <3>1 DEF First, Streaming
    <3>3. RunsSafely'
      BY <1>1, <2>1, <2>3 DEF Starting
    <3> QED BY <1>0, <2>1, <2>3, <3>2, <3>3 DEF UseInv, Opening, Starting
  <2> QED BY <2>1, <2>2, <2>3
<1>4. CASE resolve_workgroup
  <2>1. /\ UNCHANGED <<worker, failed>> /\ pc = "resolve" /\ mem' = Resolved(at[1])
        /\ ThenGroup("resolve", "flags")
    BY <1>4 DEF resolve_workgroup, Here, Done, NoThreads
  <2>2. at' \in All /\ (pc' = "resolve" \/ (pc' = "flags" /\ at' = First))
    <3>1. ThenGroup("resolve", "flags")
      BY <2>1
    <3> QED BY <1>0, <3>1, GroupLoop
  <2>3. mem' \in Memory
    BY <1>0, <2>1, ResolvedPlaces
  <2>4. RunsSafely'
    BY <1>1, <2>1, <2>2 DEF Starting
  <2>5. pc' \notin {"streams", "update", "generate"} \cup Opening \cup Starting
    BY <2>2 DEF Opening, Starting
  <2>6. fresh' \in Values /\ (pc' = "flags" => at' = First)
    BY <1>0, <2>2
  <2> QED BY <2>2, <2>3, <2>4, <2>5, <2>6 DEF UseInv
<1>5. CASE resolve_workgroup_fails
  <2>1. /\ UNCHANGED <<worker, at>> /\ failed \subseteq failed' /\ pc = "resolve" /\ pc' = "main_out"
        /\ mem' = Put(mem, G("hwthreads", {at[1]}), "null")
    BY <1>5 DEF resolve_workgroup_fails, Here, May, Goto, NoThreads
  <2>2. mem' \in Memory
    BY <1>0, <2>1, PutPlaces DEF Values
  <2> QED BY <1>0, <2>1, <2>2, UseElsewhere DEF Opening, Starting
<1>6. CASE allocate_workgroup_stuff_fails
  <2>1. PICK place \in Places :
          /\ May(place)
          /\ Goto("main_out", delete_workgroup(
                     delete_workgroup(StuffFailure(at[1], place), {at[1]}), 1 .. at[1] - 1))
    BY <1>6 DEF allocate_workgroup_stuff_fails, Places
  <2>2. /\ UNCHANGED <<worker, at>> /\ failed \subseteq failed' /\ pc = "resolve" /\ pc' = "main_out"
    BY <1>6, <2>1 DEF allocate_workgroup_stuff_fails, Here, May, Goto, NoThreads
  <2>3. StuffFailure(at[1], place) \in Memory
    BY <1>0, FailedPlaces
  <2>4. delete_workgroup(StuffFailure(at[1], place), {at[1]}) \in Memory
    BY <1>0, <2>3, DeleteWorkgroup
  <2>5. 1 .. at[1] - 1 \in SUBSET Groups
    BY <1>0, LastOnes
  <2>6. mem' \in Memory
    BY <2>1, <2>4, <2>5, DeleteWorkgroup DEF Goto
  <2> QED BY <1>0, <2>2, <2>6, UseElsewhere DEF Opening, Starting
<1>7. CASE manage_streams
  <2>1. /\ pc = "streams" /\ UNCHANGED worker /\ Streaming(mem, 1 .. at[1] - 1)
        /\ \/ /\ mem' = Put(Zeroed(at[1]), Arrays({at[1]}), "live")
              /\ ThenGroup("streams", "update") /\ Done
           \/ /\ mem' = Zeroed(at[1]) /\ pc' = "main_out" /\ UNCHANGED at
              /\ failed \subseteq failed'
    BY <1>7 DEF manage_streams, Here, NoThreads, UseInv, Zeroed, Goto, May
  <2>2. CASE mem' = Zeroed(at[1]) /\ pc' = "main_out" /\ UNCHANGED at /\ failed \subseteq failed'
    <3>1. mem' \in Memory
      BY <1>0, <2>2, StreamPlaces
    <3> QED BY <1>0, <2>1, <2>2, <3>1, UseElsewhere DEF Opening, Starting
  <2>3. CASE /\ mem' = Put(Zeroed(at[1]), Arrays({at[1]}), "live")
             /\ ThenGroup("streams", "update") /\ Done
    <3>1. 1 .. at[1] - 1 \in SUBSET Groups /\ (1 .. at[1] - 1) \cup {at[1]} = 1 .. at[1]
      BY <1>0, LastOnes
    <3>2. mem' \in Memory /\ Streaming(mem', 1 .. at[1])
      BY <1>0, <2>1, <2>3, <3>1, StreamPlaces
    <3>3. /\ at' \in All
          /\ \/ pc' = "streams" /\ at' = <<at[1] + 1, 1>>
             \/ pc' = "update" /\ LastGroup
      BY <1>0, <2>3, GroupLoop
    <3>4. pc' = "update" => Streaming(mem', Groups)
      <4>1. LastGroup => 1 .. at[1] = Groups
        BY LastOnes DEF LastGroup
      <4> QED BY <3>2, <3>3, <4>1
    <3>5. pc' = "streams" => Streaming(mem', 1 .. at'[1] - 1)
      <4>1. at[1] \in Nat
        BY <1>0, LastOnes
      <4>2. pc' = "streams" => at'[1] - 1 = at[1]
        BY <3>3, <4>1
      <4> QED BY <3>2, <4>2
    <3>6. RunsSafely'
      BY <1>1, <2>1, <2>3, <3>3 DEF Starting, Done
    <3>7. pc' \notin {"flags", "generate"} \cup Opening \cup Starting
      BY <3>3 DEF Opening, Starting
    <3> QED BY <1>0, <3>2, <3>3, <3>4, <3>5, <3>6, <3>7 DEF UseInv
  <2> QED BY <2>1, <2>2, <2>3
<1>8. CASE update_threads
  <2> DEFINE done == ThreadsBefore(mem, Cardinality(Groups) + 1)
  <2>1. /\ pc = "update" /\ UNCHANGED <<worker, at>> /\ Streaming(mem, Groups)
        /\ failed \subseteq failed'
    BY <1>8 DEF update_threads, Here, NoThreads, UseInv, May, Done
  <2>2. done \in Memory /\ Ready(done)
    BY <1>0, <2>1, UpdatedPlaces
  <2>3. destroy_threads(done) \in Memory
        /\ \A w \in Groups : Is(destroy_threads(done), <<"threads", w>>, "null")
    BY <2>2, DestroyThreads DEF Ready, Working
  <2> HIDE DEF done
  <2>4. CASE Goto("generate", done) /\ Done
    <3>1. mem' \in Memory /\ Ready(mem') /\ pc' = "generate"
      BY <2>2, <2>4 DEF Goto
    <3>2. RunsSafely'
      BY <1>1, <2>1, <3>1 DEF Starting
    <3> QED BY <1>0, <2>1, <3>1, <3>2 DEF UseInv, Opening, Starting, All
  <2>5. CASE May("barrier") /\ Goto("generate", destroy_threads(done))
    <3>1. mem' \in Memory /\ pc' = "generate" /\ "barrier" \in failed'
          /\ \A w \in Groups : Is(mem', <<"threads", w>>, "null")
      BY <2>3, <2>5 DEF Goto, May
    <3>2. RunsSafely'
      BY <1>1, <2>1, <3>1 DEF Starting
    <3> QED BY <1>0, <2>1, <3>1, <3>2 DEF UseInv, Opening, Starting, All
  <2>6. CASE Goto("main_out", destroy_threads(done))
    BY <1>0, <2>1, <2>3, <2>6, UseElsewhere DEF Goto, Opening, Starting
  <2>7. CASE \E w \in Groups, t \in Threads, stage \in Stages :
               Goto("main_out", destroy_threads(Stopped(w, t, stage)))
    <3>1. PICK w \in Groups, t \in Threads, stage \in Stages :
               Goto("main_out", destroy_threads(Stopped(w, t, stage)))
      BY <2>7
    <3>2. mem' \in Memory
      BY <1>0, <3>1, StoppedPlaces, DestroyThreads DEF Goto
    <3> QED BY <1>0, <2>1, <3>1, <3>2, UseElsewhere DEF Goto, Opening, Starting
  <2> QED BY <1>8, <2>4, <2>5, <2>6, <2>7 DEF update_threads, done
<1>9. CASE generate_code
  <2>1. /\ pc = "generate" /\ UNCHANGED worker /\ failed \subseteq failed'
        /\ mem' = Put(Follow(mem, G("threads", {at[1]})), {<<"codelines", at[1], at[2]>>}, "live")
    BY <1>9 DEF generate_code, Here, NoThreads, May, Done
  <2>2. at' \in All /\ pc' \in {"generate", "mkstemp", "main_out"}
    BY <1>0, <1>9, ThreadLoop DEF generate_code
  <2>3. mem' \in Memory /\ (Ready(mem') \/ ("barrier" \in failed /\ mem'.bad))
    <3>1. \/ Ready(mem)
          \/ /\ "barrier" \in failed
             /\ \A w \in Groups : Is(mem, <<"threads", w>>, "null")
      BY <2>1 DEF UseInv
    <3> DEFINE n == Put(Follow(mem, G("threads", {at[1]})), {<<"codelines", at[1], at[2]>>}, "live")
    <3>2. /\ n \in Memory
          /\ Ready(mem) => Ready(n)
          /\ (\A w \in Groups : Is(mem, <<"threads", w>>, "null")) => n.bad
      BY <1>0, GeneratedPlaces
    <3>3. mem' = n
      BY <2>1
    <3> HIDE DEF n
    <3> QED BY <2>1, <3>1, <3>2, <3>3
  <2>4. RunsSafely'
    BY <1>1, <2>1, <2>2 DEF Starting
  <2> QED BY <1>0, <2>1, <2>2, <2>3, <2>4 DEF UseInv, Opening, Starting
<1>10. CASE bmkstemp \/ bunlink \/ write_asm \/ compile \/ open_function
  <2>1. /\ UNCHANGED <<mem, worker>> /\ failed \subseteq failed' /\ pc \in Opening
    BY <1>10 DEF bmkstemp, bunlink, write_asm, compile, open_function, Here, NoThreads, May, Done,
                 Opening
  <2>2. at' \in All /\ pc' \in Opening \cup {"create", "main_out"}
    BY <1>0, <1>10, ThreadLoop
    DEF bmkstemp, bunlink, write_asm, compile, open_function, Opening
  <2>3. CASE pc' = "main_out"
    BY <1>0, <2>1, <2>2, <2>3, UseElsewhere DEF Opening, Starting
  <2>4. CASE pc' \in Opening \cup Starting
    BY <2>1, <2>2, <2>4, UseAlong
  <2> QED BY <2>2, <2>3, <2>4 DEF Starting
<1>11. CASE create_threads
  <2>1. pc = "create" /\ Ready(mem)
    BY <1>0, <1>11 DEF create_threads, Here, Starting
  <2>2. CASE ThenThread("create", "commands") /\ UNCHANGED mem /\ Done
    <3>1. at' \in All /\ pc' \in {"create", "commands"}
      BY <1>0, <2>2, ThreadLoop
    <3>2. Ready(mem') /\ mem' \in Memory
      BY <1>0, <2>1, <2>2
    <3>3. RunsSafely'
      BY <3>1, <3>2 DEF RunsSafely, Starting
    <3> QED BY <1>0, <3>1, <3>2, <3>3 DEF UseInv, Opening, Starting
  <2>3. CASE May("create") /\ Goto("main_out", destroy_threads(mem)) /\ UNCHANGED at
    <3>1. mem' \in Memory
      BY <1>0, <2>3, DestroyThreads DEF Goto
    <3>2. "create" \in failed' /\ pc' = "main_out"
      BY <2>3 DEF May, Goto
    <3> QED BY <1>0, <2>3, <3>1, <3>2 DEF UseInv, RunsSafely, Opening, Starting
  <2> QED BY <1>11, <2>2, <2>3 DEF create_threads
<1>12. CASE send_cmds
  <2>1. pc = "commands" /\ Ready(mem) /\ UNCHANGED <<at, worker>>
    BY <1>0, <1>12 DEF send_cmds, Here, Starting, NoThreads
  <2>2. CASE pc' = "join" /\ UNCHANGED mem /\ Done
    BY <2>1, <2>2, <1>0, UseAlong DEF Starting, Opening, Done
  <2>3. CASE May("send") /\ Goto("main_out", destroy_threads(mem))
    <3>1. mem' \in Memory
      BY <1>0, <2>3, DestroyThreads DEF Goto
    <3>2. "send" \in failed' /\ pc' = "main_out"
      BY <2>3 DEF May, Goto
    <3> QED BY <1>0, <2>1, <3>1, <3>2 DEF UseInv, RunsSafely, Opening, Starting
  <2> QED BY <1>12, <2>2, <2>3 DEF send_cmds
<1>13. CASE worker_ends
  <2>1. UNCHANGED <<mem, at, pc, failed>> /\ \E x \in All : worker[x] = "running"
    BY <1>13 DEF worker_ends, Done
  <2>2. RunsSafely'
    BY <2>1 DEF UseInv, RunsSafely, All, Ready, Streaming, Working, Barriers, Is
  <2> QED BY <1>0, <2>1, <2>2 DEF UseInv, Ready, Streaming, Working, Barriers, Is, All
<1>14. CASE join_threads
  <2>1. /\ UNCHANGED <<mem, at, worker>> /\ pc' = "release"
        /\ \A x \in All : worker[x] # "running"
    BY <1>14 DEF join_threads, Joined, NoThreads
  <2> QED BY <1>0, <2>1 DEF UseInv, RunsSafely, Opening, Starting, All
<1>15. CASE release
  <2>1. /\ UNCHANGED <<at, worker, failed>> /\ pc = "release" /\ pc' = "destroy"
        /\ mem' = release_streams(mem)
    BY <1>15 DEF release, NoThreads, Here, Goto, Done
  <2>2. mem' \in Memory
    BY <1>0, <2>1, ReleaseStreams
  <2> QED BY <1>0, <2>1, <2>2, UseElsewhere DEF Opening, Starting
<1>16. CASE destroy
  <2>1. /\ UNCHANGED <<at, worker, failed>> /\ pc = "destroy" /\ pc' = "main_out"
        /\ mem' = destroy_threads(mem)
    BY <1>16 DEF destroy, NoThreads, Here, Goto, Done
  <2>2. mem' \in Memory
    BY <1>0, <2>1, DestroyThreads
  <2> QED BY <1>0, <2>1, <2>2, UseElsewhere DEF Opening, Starting
<1>17. CASE main_out
  <2>1. /\ UNCHANGED <<at, worker, failed>> /\ pc = "main_out" /\ pc' = "exit"
        /\ mem' = free_runtime_config(mem)
    BY <1>17 DEF main_out, NoThreads, Here, Goto, Done
  <2>2. mem' \in Memory
    BY <1>0, <2>1, FreeRuntimeConfig
  <2> QED BY <1>0, <2>1, <2>2, UseElsewhere DEF Opening, Starting
<1>18. CASE signal
  <2>1. UNCHANGED <<mem, at, worker>> /\ pc' = "exit" /\ pc # "exit" /\ failed \subseteq failed'
    BY <1>18 DEF signal, NoThreads, May
  <2>2. RunsSafely'
    BY <2>1 DEF UseInv, RunsSafely, All, Ready, Streaming, Working, Barriers, Is
  <2> QED BY <1>0, <2>1, <2>2 DEF UseInv, Opening, Starting
<1> QED
  BY <1>2, <1>3, <1>4, <1>5, <1>6, <1>7, <1>8, <1>9, <1>10, <1>11, <1>12, <1>13, <1>14,
     <1>15, <1>16, <1>17, <1>18 DEF Next

LEMMA UseNext ==
  ASSUME Numbered, UseInv, [Next]_vars
  PROVE  UseInv'
<1>1. CASE UNCHANGED vars
  BY <1>1 DEF vars, UseInv, RunsSafely, Ready, Streaming, Working, Barriers, Is, All, First
<1>2. CASE Next /\ ~ Exited
  BY <1>2, UseStep DEF Next
<1> QED BY <1>1, <1>2 DEF Exited

LEMMA UseInit ==
  ASSUME Numbered, Fresh \subseteq {"null", "wild"}, Init
  PROVE  UseInv
<1>1. mem \in Memory /\ fresh \in Values
  BY DEF Init, Memory, Values
<1>2. at \in All /\ pc = "folders" /\ \A x \in All : worker[x] = "none"
  BY FirstOne DEF Init
<1> QED BY <1>1, <1>2 DEF UseInv, RunsSafely, Opening, Starting

\* What a running thread works on is there, whatever has failed, unless its
\* partners could not be created or told to start: main frees streams,
\* queues and barriers when all threads have been joined.
THEOREM UsesAllocated ==
  ASSUME Numbered, Fresh \subseteq {"null", "wild"}
  PROVE  Spec => []NothingFreedInUse
<1>1. Init => UseInv
  BY UseInit
<1>2. UseInv /\ [Next]_vars => UseInv'
  BY UseNext
<1>3. ASSUME UseInv PROVE NothingFreedInUse
  <2> SUFFICES ASSUME failed \cap {"create", "send"} = {}, NEW x \in All, worker[x] = "running",
                      NEW ptr \in {<<"threads", x[1]>>, <<"barrier", x[1]>>, <<"streams", x[1]>>,
                                   <<"command", x[1], x[2]>>, <<"data", x[1], x[2]>>}
                                  \cup Arrays({x[1]})
               PROVE  mem.p[ptr] = "live"
    BY DEF NothingFreedInUse
  <2>1. Ready(mem) /\ x[1] \in Groups /\ x[2] \in Threads
    BY <1>3 DEF UseInv, RunsSafely, All
  <2>2. CASE ptr \in Arrays({x[1]})
    <3>1. PICK s \in Streams : ptr = <<"array", x[1], s>>
      BY <2>2 DEF Arrays
    <3>2. mem.p[<<"array", x[1], s>>] = "live"
      BY <2>1 DEF Ready, Streaming, Is
    <3> QED BY <3>1, <3>2
  <2>3. CASE ptr \in {<<"threads", x[1]>>, <<"barrier", x[1]>>, <<"streams", x[1]>>}
    <3>1. mem.p[<<"threads", x[1]>>] = "live" /\ mem.p[<<"barrier", x[1]>>] = "live"
      BY <2>1 DEF Ready, Working, Barriers, Is
    <3>2. mem.p[<<"streams", x[1]>>] = "live"
      BY <2>1 DEF Ready, Streaming, Is
    <3> QED BY <2>3, <3>1, <3>2
  <2>4. CASE ptr \in {<<"command", x[1], x[2]>>, <<"data", x[1], x[2]>>}
    <3>1. \A k \in Stages : mem.p[<<k, x[1], x[2]>>] = "live"
      BY <2>1 DEF Ready, Working, Is
    <3>2. mem.p[<<"command", x[1], x[2]>>] = "live" /\ mem.p[<<"data", x[1], x[2]>>] = "live"
      BY <3>1 DEF Stages
    <3> QED BY <2>4, <3>2
  <2> QED BY <2>2, <2>3, <2>4
<1> QED BY <1>1, <1>2, <1>3, PTL DEF Spec

-----------------------------------------------------------------------------
(* What is freed and followed.                                             *)

Late == {"generate", "release", "destroy", "main_out"} \cup Opening \cup Starting

\* A failure that leaves pointers main_out should not touch.
Excused ==
  \/ failed \cap {"threads", "barrier", "globalmaps"} # {}
  \/ fresh = "wild" /\ failed \cap Unset # {}

\* The program settles one workgroup after the other; from update_threads
\* on no pointer is wild any more.
Safe ==
  /\ ~ mem.bad
  /\ fresh = "null" => Clean(mem)
  /\ pc = "folders" => at = First /\ Settled(mem, {})
  /\ pc = "resolve" => Settled(mem, 1 .. at[1] - 1)
  /\ pc \in {"flags", "streams", "update"} => Settled(mem, Groups)
  /\ pc \in Late => Clean(mem)
  /\ pc \in {"release", "destroy"} => Barriers(mem)

SafeInv == UseInv /\ fresh \in {"null", "wild"} /\ (~ Excused => Safe)

LEMMA SafeStep ==
  ASSUME Numbered, SafeInv, ~ mem.bad, UNCHANGED fresh, Next, ~ Exited
  PROVE  ~ Excused' => Safe'
<1> SUFFICES ASSUME ~ Excused' PROVE Safe'
  OBVIOUS
<1>0. /\ mem \in Memory /\ at \in All /\ at[1] \in Groups
      /\ fresh \in {"null", "wild"}
  BY DEF SafeInv, UseInv, All
<1>1. ASSUME failed \subseteq failed' PROVE Safe
  BY <1>1 DEF Excused, SafeInv
<1>2. ASSUME NEW f \in Unset, May(f) PROVE Safe /\ fresh = "null" /\ Clean(mem)
  <2>1. failed \subseteq failed' /\ f \in failed' \cap Unset
    BY <1>2 DEF May
  <2> QED BY <1>0, <1>1, <2>1 DEF Excused, Safe
<1>3. ASSUME pc' = "main_out", Clean(mem'), mem'.bad = mem.bad PROVE Safe'
  BY <1>3 DEF Safe
<1>4. ASSUME Safe, UNCHANGED <<mem, at>>, pc' \in Late \ {"release", "destroy"}, pc \in Late
      PROVE  Safe'
  BY <1>4 DEF Safe, Late, Opening, Starting, Clean, Is
<1>5. CASE parse_cpu_folders
  <2>1. CASE pc' = "resolve" /\ Done
    <3>1. Safe /\ pc = "folders" /\ UNCHANGED <<mem, at>>
      BY <1>1, <1>5, <2>1 DEF parse_cpu_folders, Here, Done
    <3>2. Settled(mem', 1 .. at'[1] - 1)
      BY <3>1 DEF Safe, First, Settled
    <3> QED BY <2>1, <3>1, <3>2 DEF Safe, Late, Opening, Starting
  <2>2. CASE May("folders") /\ pc' = "main_out"
    BY <1>2, <1>3, <1>5, <2>2 DEF parse_cpu_folders, Unset
  <2> QED BY <1>5, <2>1, <2>2 DEF parse_cpu_folders
<1>6. CASE resolve_workgroup
  <2>1. /\ Safe /\ pc = "resolve" /\ mem' = Resolved(at[1])
        /\ ThenGroup("resolve", "flags") /\ UNCHANGED fresh
    BY <1>1, <1>6 DEF resolve_workgroup, Here, Done
  <2>2. /\ at' \in All
        /\ \/ pc' = "resolve" /\ at' = <<at[1] + 1, 1>>
           \/ pc' = "flags" /\ LastGroup
    BY <1>0, <2>1, GroupLoop
  <2>3. at[1] \in Nat /\ 1 .. at[1] - 1 \in SUBSET Groups
        /\ (1 .. at[1] - 1) \cup {at[1]} = 1 .. at[1]
    BY <1>0, LastOnes
  <2>4. Settled(mem', 1 .. at[1]) /\ mem'.bad = mem.bad /\ (Clean(mem) => Clean(mem'))
    BY <1>0, <2>1, <2>3, ResolvedPlaces DEF Safe
  <2>5. pc' = "resolve" => at'[1] - 1 = at[1]
    BY <2>2, <2>3
  <2>6. LastGroup => 1 .. at[1] = Groups
    BY LastOnes DEF LastGroup
  <2> QED BY <2>1, <2>2, <2>4, <2>5, <2>6 DEF Safe, Late, Opening, Starting
<1>7. CASE resolve_workgroup_fails
  <2>1. Safe /\ Clean(mem) /\ pc' = "main_out" /\ mem' = Put(mem, G("hwthreads", {at[1]}), "null")
    BY <1>2, <1>7 DEF resolve_workgroup_fails, Unset, Goto
  <2>2. mem'.bad = mem.bad
        /\ \A x \in Pointers : mem'.p[x] = IF x \in G("hwthreads", {at[1]}) THEN "null" ELSE mem.p[x]
    BY <1>0, <2>1, PutPlaces DEF Values
  <2>3. \A w \in Groups : <<"results", w>> \notin G("hwthreads", {at[1]})
                          /\ <<"group", w>> \notin G("hwthreads", {at[1]})
    BY OfTwo
  <2>4. Clean(mem')
    BY <2>1, <2>2, <2>3, AllPointers DEF Clean, Is, OfGroup
  <2> QED BY <1>3, <2>1, <2>2, <2>4
<1>8. CASE allocate_workgroup_stuff_fails
  <2>1. PICK place \in Places :
          /\ May(place)
          /\ Goto("main_out", delete_workgroup(
                     delete_workgroup(StuffFailure(at[1], place), {at[1]}), 1 .. at[1] - 1))
    BY <1>8 DEF allocate_workgroup_stuff_fails, Places
  <2>2. place # "globalmaps"
    BY <2>1 DEF May, Excused
  <2>3. Safe /\ Clean(mem)
    BY <1>2, <2>1, <2>2 DEF Places, Unset
  <2> DEFINE a == StuffFailure(at[1], place)
             b == delete_workgroup(a, {at[1]})
             c == delete_workgroup(b, 1 .. at[1] - 1)
  <2>4. a \in Memory /\ Clean(a) /\ a.bad = mem.bad
    BY <1>0, <2>2, <2>3, FailedPlaces
  <2>5. b \in Memory /\ Clean(b) /\ b.bad = mem.bad
    <3> HIDE DEF a
    <3> QED BY <1>0, <2>4, DeleteWorkgroup
  <2>6. Clean(c) /\ c.bad = mem.bad
    <3>1. 1 .. at[1] - 1 \in SUBSET Groups
      BY <1>0, LastOnes
    <3> HIDE DEF b
    <3> QED BY <2>5, <3>1, DeleteWorkgroup
  <2>7. mem' = c /\ pc' = "main_out"
    BY <2>1 DEF Goto
  <2> HIDE DEF c
  <2> QED BY <1>3, <2>6, <2>7
<1>9. CASE check_and_fill
  <2>1. CASE pc' = "streams" /\ Done
    BY <1>1, <1>9, <2>1 DEF check_and_fill, Here, Done, Safe, Late, Opening, Starting, Clean,
                            Settled, Is
  <2>2. CASE May("flags") /\ pc' = "main_out"
    BY <1>2, <1>3, <1>9, <2>2 DEF check_and_fill, Unset
  <2> QED BY <1>9, <2>1, <2>2 DEF check_and_fill
<1>10. CASE manage_streams
  <2>1. CASE /\ mem' = Put(Zeroed(at[1]), Arrays({at[1]}), "live")
             /\ ThenGroup("streams", "update") /\ Done
    <3>1. Safe /\ Settled(mem, Groups)
      BY <1>1, <1>10, <2>1 DEF Done, manage_streams, Here, Safe
    <3>2. Settled(mem', Groups) /\ mem'.bad = mem.bad /\ (Clean(mem) => Clean(mem'))
      BY <1>0, <2>1, <3>1, StreamPlaces
    <3>3. pc' \in {"streams", "update"}
      BY <1>0, <2>1, GroupLoop
    <3> QED BY <3>1, <3>2, <3>3 DEF Safe, Late, Opening, Starting
  <2>2. CASE (\E f \in {"dims", "arrays"} : May(f)) /\ Goto("main_out", Zeroed(at[1]))
    <3>1. Safe /\ Clean(mem)
      BY <1>2, <2>2 DEF Unset
    <3>2. Clean(mem') /\ mem'.bad = mem.bad /\ pc' = "main_out"
      BY <1>0, <2>2, <3>1, StreamPlaces DEF Goto
    <3> QED BY <1>3, <3>2, <3>1
  <2> QED BY <1>10, <2>1, <2>2 DEF manage_streams, Zeroed
<1>11. CASE update_threads
  <2> DEFINE done == ThreadsBefore(mem, Cardinality(Groups) + 1)
  <2>1. pc = "update" /\ failed \subseteq failed' /\ Streaming(mem, Groups)
    BY <1>11 DEF update_threads, Here, May, Done, SafeInv, UseInv
  <2>2. Safe /\ Settled(mem, Groups)
    BY <1>1, <2>1 DEF Safe
  <2>3. done \in Memory /\ done.bad = mem.bad /\ Ready(done) /\ Clean(done)
    BY <1>0, <2>1, <2>2, UpdatedPlaces
  <2>4. Clean(destroy_threads(done)) /\ destroy_threads(done).bad = mem.bad
    BY <2>3, DestroyThreads DEF Ready, Working
  <2> HIDE DEF done
  <2>5. "barrier" \notin failed' /\ "threads" \notin failed'
    BY DEF Excused
  <2>6. CASE Goto("generate", done)
    BY <2>2, <2>3, <2>6 DEF Goto, Safe, Late
  <2>7. CASE Goto("main_out", destroy_threads(done))
    BY <1>3, <2>2, <2>4, <2>7 DEF Goto
  <2> QED BY <1>11, <2>5, <2>6, <2>7 DEF update_threads, done, May
<1>12. CASE generate_code
  <2>1. /\ pc = "generate" /\ failed \subseteq failed'
        /\ mem' = Put(Follow(mem, G("threads", {at[1]})), {<<"codelines", at[1], at[2]>>}, "live")
    BY <1>12 DEF generate_code, Here, NoThreads, May, Done
  <2>2. at' \in All /\ pc' \in {"generate", "mkstemp", "main_out"}
    BY <1>0, <1>12, ThreadLoop DEF generate_code
  <2>3. Safe /\ Clean(mem) /\ "barrier" \notin failed
    BY <1>1, <2>1 DEF Safe, Late, Excused
  <2>4. Ready(mem)
    BY <2>1, <2>3 DEF SafeInv, UseInv
  <2>5. Clean(mem') /\ mem'.bad = mem.bad
    BY <1>0, <2>1, <2>3, <2>4, GeneratedPlaces
  <2> QED BY <2>2, <2>3, <2>5 DEF Safe
<1>13. CASE bmkstemp \/ bunlink \/ write_asm \/ compile \/ open_function
  <2>1. /\ UNCHANGED mem /\ failed \subseteq failed' /\ pc \in Opening
    BY <1>13 DEF bmkstemp, bunlink, write_asm, compile, open_function, Here, NoThreads, May, Done,
                 Opening
  <2>2. pc' \in Opening \cup {"create", "main_out"}
    BY <1>0, <1>13, ThreadLoop
    DEF bmkstemp, bunlink, write_asm, compile, open_function, Opening
  <2> QED BY <1>1, <2>1, <2>2 DEF Safe, Late, Opening, Starting, Clean, Is
<1>14. CASE create_threads \/ send_cmds
  <2>1. pc \in Starting /\ failed \subseteq failed'
    BY <1>14 DEF create_threads, send_cmds, Here, Starting, Done, May
  <2>2. Safe /\ Clean(mem) /\ Ready(mem)
    BY <1>1, <2>1 DEF Safe, Late, SafeInv, UseInv
  <2>3. CASE UNCHANGED mem /\ pc' \in Starting
    BY <2>2, <2>3 DEF Safe, Late, Starting, Clean, Is
  <2>4. CASE Goto("main_out", destroy_threads(mem))
    <3>1. Clean(destroy_threads(mem)) /\ destroy_threads(mem).bad = mem.bad
      BY <1>0, <2>2, DestroyThreads DEF Ready, Working
    <3> QED BY <1>3, <2>4, <3>1 DEF Goto
  <2>5. ThenThread("create", "commands") => pc' \in Starting
    BY <1>0, ThreadLoop DEF Starting
  <2> QED BY <1>14, <2>3, <2>4, <2>5 DEF create_threads, send_cmds, Starting
<1>15. CASE worker_ends
  <2>1. UNCHANGED <<mem, at, pc, failed>>
    BY <1>15 DEF worker_ends, Done
  <2> QED BY <1>1, <2>1 DEF Safe, Clean, Settled, Barriers, Is
<1>16. CASE join_threads
  <2>1. UNCHANGED <<mem, failed>> /\ pc = "join" /\ pc' = "release"
    BY <1>16 DEF join_threads, Here, Done
  <2>2. Safe /\ Clean(mem) /\ Barriers(mem)
    BY <1>1, <2>1 DEF Safe, Late, Starting, SafeInv, UseInv, Ready, Working
  <2> QED BY <2>1, <2>2 DEF Safe, Clean, Barriers, Is
<1>17. CASE release
  <2>1. UNCHANGED failed /\ pc = "release" /\ pc' = "destroy" /\ mem' = release_streams(mem)
    BY <1>17 DEF release, Here, Done, Goto
  <2>2. Safe /\ Clean(mem) /\ Barriers(mem)
    BY <1>1, <2>1 DEF Safe, Late
  <2>3. Clean(mem') /\ Barriers(mem') /\ mem'.bad = mem.bad
    BY <1>0, <2>1, <2>2, ReleaseStreams
  <2> QED BY <2>1, <2>2, <2>3 DEF Safe
<1>18. CASE destroy
  <2>1. UNCHANGED failed /\ pc = "destroy" /\ pc' = "main_out" /\ mem' = destroy_threads(mem)
    BY <1>18 DEF destroy, Here, Done, Goto
  <2>2. Safe /\ Clean(mem) /\ Barriers(mem)
    BY <1>1, <2>1 DEF Safe, Late
  <2>3. Clean(mem') /\ mem'.bad = mem.bad
    BY <1>0, <2>1, <2>2, DestroyThreads
  <2> QED BY <1>3, <2>1, <2>3
<1>19. CASE main_out
  <2>1. UNCHANGED failed /\ pc = "main_out" /\ pc' = "exit" /\ mem' = free_runtime_config(mem)
    BY <1>19 DEF main_out, Here, Done, Goto
  <2>2. Safe /\ Clean(mem)
    BY <1>1, <2>1 DEF Safe, Late
  <2>3. Clean(mem') /\ mem'.bad = mem.bad
    BY <1>0, <2>1, <2>2, FreeRuntimeConfig
  <2> QED BY <2>1, <2>3 DEF Safe, Late, Opening, Starting
<1>20. CASE signal
  <2>1. UNCHANGED <<mem, at>> /\ pc' = "exit" /\ failed \subseteq failed'
    BY <1>20 DEF signal, May
  <2> QED BY <1>1, <2>1 DEF Safe, Late, Opening, Starting, Clean, Is
<1> QED
  BY <1>5, <1>6, <1>7, <1>8, <1>9, <1>10, <1>11, <1>12, <1>13, <1>14, <1>15, <1>16, <1>17,
     <1>18, <1>19, <1>20 DEF Next

\* Whatever fails and whenever, nothing is freed twice, and nothing is freed
\* or followed that was not allocated, unless update_threads stopped half-way
\* or went on without the threads, the maps of the global results could not
\* be made, or members that nobody had set yet held something.
THEOREM FreesOnlyAllocated ==
  ASSUME Numbered, Fresh \subseteq {"null", "wild"}
  PROVE  Spec => []MemorySafe
<1>1. Init => SafeInv
  <2> SUFFICES ASSUME Init PROVE SafeInv
    OBVIOUS
  <2>1. UseInv /\ fresh \in {"null", "wild"} /\ ~ mem.bad /\ pc = "folders" /\ at = First
    BY UseInit DEF Init
  <2>2. \A x \in Pointers :
          mem.p[x] = IF x \in G("str", Groups) THEN "live"
                     ELSE IF x \in Global \cup GlobalMaps THEN "null" ELSE fresh
    BY DEF Init
  <2>3. \A w \in Groups : /\ <<"str", w>> \in G("str", Groups)
                          /\ <<"results", w>> \notin G("str", Groups)
                          /\ <<"results", w>> \notin Global \cup GlobalMaps
    BY OfTwo
  <2>4. Settled(mem, {})
    BY <2>2, <2>3, AllPointers DEF Settled, Is, OfGroup, Global, GlobalMaps, G
  <2>5. fresh = "null" => Clean(mem)
    BY <2>2, <2>3, AllPointers DEF Clean, Is, OfGroup
  <2> QED BY <2>1, <2>4, <2>5 DEF SafeInv, Safe, Late, Opening, Starting
<1>2. SafeInv /\ [Next]_vars => SafeInv'
  <2> SUFFICES ASSUME SafeInv, [Next]_vars PROVE SafeInv'
    OBVIOUS
  <2>1. UseInv'
    BY UseNext DEF SafeInv
  <2>2. CASE UNCHANGED vars
    BY <2>1, <2>2 DEF vars, SafeInv, Excused, Safe, Clean, Settled, Barriers, Is
  <2>3. CASE Next /\ ~ Exited
    BY <2>1, <2>3, SafeStep DEF Next, SafeInv
  <2> QED BY <2>2, <2>3 DEF Exited
<1>3. SafeInv => MemorySafe
  BY DEF SafeInv, Excused, Safe, MemorySafe
<1> QED BY <1>1, <1>2, <1>3, PTL DEF Spec
=============================================================================
