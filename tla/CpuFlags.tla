------------------------------ MODULE CpuFlags ------------------------------
(***************************************************************************)
(* The checks of the machine before a test runs (src/topology.c): the CPU  *)
(* folders of sysfs read into bitmaps (src/bitmap.c), and the flags that a *)
(* kernel needs looked up in /proc/cpuinfo for each hardware thread.       *)
(*                                                                         *)
(* A host is what the files say: cpuinfo is a sequence of blocks           *)
(* [processor, flags], one for each processor that is online; folders maps *)
(* each of the five files to its entries or to Unreadable; ids are the     *)
(* hardware threads with a folder, which is what workgroups name.          *)
(***************************************************************************)
EXTENDS HwThreads

CONSTANTS
  Hosts,
  Required,            \* sets of flags a kernel may ask for
  Interesting,         \* flags that match _topology_interesting_flags
  ErrnoValues,         \* what the calls of a successful start leave in errno
  BITS_PER_ELEMENT,    \* of a bitmap
  Unreadable           \* instead of the entries of a file

ASSUME BitsAssumption == BITS_PER_ELEMENT \in Nat \ {0}
ASSUME ErrnoAssumption == ErrnoValues \subseteq Nat

ENOENT == 2

_cpu_folders == <<"present", "possible", "online", "offline", "isolated">>

\* What the files of a host say: at least one processor is online, the ids of
\* a file are numbers and ranges of numbers, and "present" has every thread
\* with a folder.
Plain(h) ==
  /\ 1 \in DOMAIN h.cpuinfo
  /\ \E last \in {h.cpuinfo[i].processor : i \in DOMAIN h.cpuinfo} :
       last \in Nat /\ \A i \in DOMAIN h.cpuinfo : h.cpuinfo[i].processor \in 0 .. last
  /\ \A f \in Range(_cpu_folders) :
       h.folders[f] # Unreadable => IsEntries(h.folders[f], Nat)
  /\ h.folders["present"] # Unreadable =>
       \A id \in h.ids : id \in Nat /\ \E e \in Range(h.folders["present"]) : Covers(e, id)

VARIABLES
  host,
  flags,           \* tcfg->flags
  _max_processor,
  cpu_lists,       \* the bitmaps by folder
  folder,          \* index of the next folder
  hwthreads,       \* of all workgroups, in their order
  cpu_info,
  errno,
  result,          \* of _read_cpuinfo
  outside,         \* history: an array was used beyond its end
  step             \* "folders", "resolve", "flags", "run", "stopped"

flagsvars == <<host, flags, _max_processor, cpu_lists, folder, hwthreads,
               cpu_info, errno, result, outside, step>>

-----------------------------------------------------------------------------
(* Bitmaps.                                                                *)

Elements(size) == (size + BITS_PER_ELEMENT - 1) \div BITS_PER_ELEMENT

create_bitmap(size) ==
  [size |-> size, data |-> [e \in 0 .. Elements(size) - 1 |-> {}]]

\* Mutant: the index is not compared with the size.
IndexAccepted(bm, index) == TRUE

IndexOfBitmap(bm, index) == index < bm.size

\* The element that holds index; it must exist.
InData(bm, index) == index \div BITS_PER_ELEMENT \in DOMAIN bm.data

set_bit(bm, index) ==
  IF IndexOfBitmap(bm, index) /\ InData(bm, index)
  THEN [bm EXCEPT !.data[index \div BITS_PER_ELEMENT] =
                    @ \cup {index % BITS_PER_ELEMENT}]
  ELSE bm

\* set_bit for one id after the other
set_bits(bm, ids) ==
  LET after[i \in 0 .. Len(ids)] ==
        IF i = 0 THEN bm ELSE set_bit(after[i - 1], ids[i])
  IN  after[Len(ids)]

is_bit_set(bm, index) ==
  /\ index < bm.size
  /\ InData(bm, index)
  /\ index % BITS_PER_ELEMENT \in bm.data[index \div BITS_PER_ELEMENT]

-----------------------------------------------------------------------------
(* The folders.                                                            *)

\* update_processors, after clear_processors
MaxProcessor(m) == Max({0} \cup {m.cpuinfo[i].processor : i \in DOMAIN m.cpuinfo})

FlagsInit ==
  /\ host \in Hosts /\ flags \in Required
  /\ _max_processor = 0 /\ cpu_lists = <<>> /\ folder = 1
  /\ hwthreads = <<>> /\ cpu_info = <<>> /\ errno = 0 /\ result = 0
  /\ outside = FALSE /\ step = "start"

\* parse_cpu_folders up to its loop
parse_cpu_folders ==
  /\ step = "start"
  /\ _max_processor' = MaxProcessor(host)
  /\ cpu_lists' = [f \in Range(_cpu_folders) |-> create_bitmap(_max_processor' + 1)]
  /\ step' = "folders"
  /\ UNCHANGED <<host, flags, folder, hwthreads, cpu_info, errno, result, outside>>

\* Mutant: the end of a range does not belong to it.
IdsInHalfOpen(entries) ==
  FlattenSeq([i \in DOMAIN entries |->
    IF Len(entries[i]) = 1 THEN entries[i]
    ELSE [j \in 1 .. entries[i][2] - entries[i][1] |-> entries[i][1] + j - 1]])

\* the ids of a file in order
IdsIn(entries) ==
  FlattenSeq([i \in DOMAIN entries |->
    LET s == entries[i][1] e == entries[i][Len(entries[i])]
    IN  [j \in 1 .. e - s + 1 |-> s + j - 1]])

\* read_cpu_cores: up to the first id that set_bit refuses
Accepted(bm, ids) ==
  LET refused == {i \in DOMAIN ids : ~ IndexOfBitmap(bm, ids[i])}
  IN  IF refused = {} THEN ids ELSE SubSeq(ids, 1, Min(refused) - 1)

\* The folder cannot be read: no later one is.
FolderUnreadable ==
  /\ step = "folders" /\ folder <= 5
  /\ host.folders[_cpu_folders[folder]] = Unreadable
  /\ errno' = ENOENT /\ step' = "stopped"
  /\ UNCHANGED <<host, flags, _max_processor, cpu_lists, folder, hwthreads,
                 cpu_info, result, outside>>

read_cpu_cores ==
  /\ step = "folders" /\ folder <= 5
  /\ host.folders[_cpu_folders[folder]] # Unreadable
  /\ LET f   == _cpu_folders[folder]
         ids == IdsIn(host.folders[f])
         ok  == Accepted(cpu_lists[f], ids)
     IN  /\ cpu_lists' = [cpu_lists EXCEPT ![f] = set_bits(@, ok)]
         /\ outside' = (outside \/ \E i \in Range(ok) : ~ InData(cpu_lists[f], i))
         /\ IF ok = ids THEN folder' = folder + 1 /\ step' = step
                        ELSE folder' = folder /\ step' = "stopped"
  /\ UNCHANGED <<host, flags, _max_processor, hwthreads, cpu_info, errno, result>>

\* clear_processors and destroy_cpu_lists at the end of parse_cpu_folders
FoldersDone ==
  /\ step = "folders" /\ folder > 5
  /\ _max_processor' = 0 /\ cpu_lists' = <<>> /\ step' = "resolve"
  /\ UNCHANGED <<host, flags, folder, hwthreads, cpu_info, errno, result, outside>>

\* Workgroups name any hardware thread (CpuList); reading sysfs may leave a
\* number in errno though it succeeds.
resolve_workgroups ==
  /\ step = "resolve"
  /\ \E n \in 1 .. 2 : hwthreads' \in [1 .. n -> host.ids]
  /\ errno' \in ErrnoValues
  /\ step' = "flags"
  /\ UNCHANGED <<host, flags, _max_processor, cpu_lists, folder, cpu_info,
                 result, outside>>

-----------------------------------------------------------------------------
(* The flags.                                                              *)

\* Every processor goes through all lines and keeps the first flags it sees.
CpuInfo(m) ==
  [p \in 0 .. MaxProcessor(m) |->
    [flags |-> m.cpuinfo[1].flags \cap Interesting]]

\* Mutants: one flag is enough, or the number is compared with that of the
\* processor's flags.
FlagsFoundAny(info, needed, h) == needed = {} \/ needed \cap info[h].flags # {}
FlagsFoundAll(info, needed, h) == needed = info[h].flags

FlagsFound(info, needed, h) == needed \subseteq info[h].flags

\* The threads in their order until one misses a flag.
_read_cpuinfo ==
  /\ step = "flags" /\ cpu_info = <<>>
  /\ LET info == CpuInfo(host)
         miss == {i \in DOMAIN hwthreads :
                    /\ hwthreads[i] \in DOMAIN info
                    /\ ~ FlagsFound(info, flags, hwthreads[i])}
         seen == IF miss = {} THEN DOMAIN hwthreads ELSE 1 .. Min(miss)
     IN  /\ outside' = (outside \/ \E i \in seen : hwthreads[i] \notin DOMAIN info)
         /\ result' = IF miss = {} THEN 0 ELSE -EINVAL
         /\ cpu_info' = info
         /\ _max_processor' = IF miss = {} THEN 0 ELSE MaxProcessor(host)
  /\ UNCHANGED <<host, flags, cpu_lists, folder, hwthreads, errno, step>>

\* An error is returned as -errno, and main goes on unless that is negative.
check_feature_flags ==
  /\ step = "flags" /\ cpu_info # <<>>
  /\ step' = IF result # 0 /\ -errno < 0 THEN "stopped" ELSE "run"
  /\ UNCHANGED <<host, flags, _max_processor, cpu_lists, folder, hwthreads,
                 cpu_info, errno, result, outside>>

FlagsDone == step \in {"run", "stopped"} /\ UNCHANGED flagsvars

FlagsNext ==
  \/ parse_cpu_folders
  \/ FolderUnreadable
  \/ read_cpu_cores
  \/ FoldersDone
  \/ resolve_workgroups
  \/ _read_cpuinfo
  \/ check_feature_flags
  \/ FlagsDone

FlagsSpec == FlagsInit /\ [][FlagsNext]_flagsvars

-----------------------------------------------------------------------------
(* Properties.                                                             *)

\* No array is used beyond its end: neither an element of a bitmap nor the
\* entry of cpu_info of a thread, for which only the refusals of
\* parse_cpu_folders stand up (read_cpu_cores, _read_cpuinfo).
InBounds == ~ outside

\* A folder that has been read is in its bitmap, id by id (read_cpu_cores).
FoldersRecorded ==
  step = "folders" =>
    \A f \in 1 .. folder - 1 :
      \A i \in 0 .. _max_processor :
        is_bit_set(cpu_lists[_cpu_folders[f]], i)
          <=> \E e \in Range(host.folders[_cpu_folders[f]]) : Covers(e, i)

FlagsOf(h) ==
  UNION {host.cpuinfo[i].flags : i \in {j \in DOMAIN host.cpuinfo :
                                             host.cpuinfo[j].processor = h}}

Online(h) == \E i \in DOMAIN host.cpuinfo : host.cpuinfo[i].processor = h

\* A test runs only on hardware threads that have every flag it needs, if
\* all processors have the flags of the first and reading sysfs has left a
\* number in errno (check_feature_flags, and main that calls it).
Alike == \A i \in DOMAIN host.cpuinfo : host.cpuinfo[i].flags = host.cpuinfo[1].flags
RunsOnlyWithFlags ==
  step = "run" /\ Alike /\ errno # 0 =>
    \A i \in DOMAIN hwthreads : Online(hwthreads[i]) => flags \subseteq FlagsOf(hwthreads[i])

\* A test is not refused on threads that have every flag it needs if these
\* are flags that are looked for (_read_cpuinfo).
RefusesOnlyMissing ==
  step = "stopped" /\ cpu_info # <<>> =>
    ~ (flags \subseteq Interesting
         /\ \A i \in DOMAIN host.cpuinfo : flags \subseteq host.cpuinfo[i].flags)

\* A test runs only on threads that have every flag it needs, on machines
\* whose processors are alike, it is not refused where all have them, and
\* reading the folders into bitmaps and looking a thread up stay within the
\* arrays (read_cpu_cores, set_bit, _read_cpuinfo, check_feature_flags).
MachineChecked ==
  InBounds /\ FoldersRecorded /\ RunsOnlyWithFlags /\ RefusesOnlyMissing
=============================================================================
