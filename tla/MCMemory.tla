------------------------------ MODULE MCMemory ------------------------------
(* Lifecycle and StreamPartition side by side: a behaviour is one of the   *)
(* first, what main allocates and frees, or one of the second, what the    *)
(* threads write into the arrays in between.                               *)
EXTENDS MCStreamPartition

CONSTANTS Groups, Workers, StreamIds, Fresh, Faults

VARIABLES
  moves,      \* the component that moves
  mem, fresh, failed, at, disk, mkstempfiles, loaded, worker, main

\* Lifecycle, with what is proved of it
L == INSTANCE LifecycleProofs WITH Threads <- Workers, Streams <- StreamIds, pc <- main

lifecycle == <<mem, fresh, failed, at, disk, mkstempfiles, loaded, worker, main>>

MemoryInit ==
  \/ /\ moves = "lifecycle" /\ L!Init
     /\ kernel = CHOOSE k \in Kernels : TRUE
     /\ Init
  \/ /\ moves = "partition" /\ Init
     /\ fresh = "null" /\ L!Init

MemoryNext ==
  /\ UNCHANGED moves
  /\ \/ moves = "lifecycle" /\ L!Next /\ UNCHANGED vars
     \/ moves = "partition" /\ Next /\ UNCHANGED lifecycle

MemorySpec == MemoryInit /\ [][MemoryNext]_<<moves, vars, lifecycle>>

\* Whatever fails and whenever, no pointer is freed twice, nothing is freed
\* or followed that was not allocated, and nothing is freed while a thread
\* works on it, but for the failures the two parts of the property name
\* (free_runtime_config, delete_workgroup, destroy_threads, release_streams).
MemorySafe == L!MemorySafe /\ L!NothingFreedInUse

\* A program that no signal has stopped leaves no file in /tmp, but for a
\* temporary one it could not remove (_rm_tmpfiles, bunlink).
FilesRemoved == L!FilesRemoved

\* No thread is started unless the kernel of every thread has been compiled
\* and loaded (dynload_create_runtime_test_config, open_function).
StartsOnlyComplete == L!StartsOnlyComplete
=============================================================================
