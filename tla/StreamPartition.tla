-------------------------- MODULE StreamPartition --------------------------
(***************************************************************************)
(* The arrays of the streams and how the threads of a workgroup share      *)
(* them: allocate_arrays (src/allocator.c), the sizes and offsets of       *)
(* update_threads with their validation, and initialize_local              *)
(* (src/threads.c), which writes every element of a thread's part.         *)
(*                                                                         *)
(* Arrays are counted in elements, sizes given by the user in bytes, and   *)
(* both wrap as size_t does, at Modulus.  Formulas of a kernel file are    *)
(* named by what they compute; the calculator is in Calculator.            *)
(***************************************************************************)
EXTENDS Integers, Sequences, FiniteSets, SequencesExt, FiniteSetsExt

CONSTANTS
  Kernels,   \* [threads, streams]; a stream has type, dims, offsets, sizes, toffsets
  SizeOf,    \* bytes of an element of each type
  Modulus    \* SIZE_MAX + 1

ASSUME StreamPartitionAssumption ==
  /\ Modulus \in Nat \ {0}
  /\ \A y \in DOMAIN SizeOf : SizeOf[y] \in Nat \ {0}

VARIABLES
  kernel,
  arrays,     \* stream -> what has been allocated: [bytes, ptr]
  chunk,      \* <<thread, stream>> -> [sizes, offsets, start]
  written,    \* elements that have been written: [stream, thread, element]
  todo,       \* thread -> streams it has still to initialize
  pc

vars == <<kernel, arrays, chunk, written, todo, pc>>

Wrap(n) == n % Modulus
Product(s) ==
  LET total[d \in 0 .. Len(s)] == IF d = 0 THEN 1 ELSE Wrap(total[d - 1] * s[d])
  IN  total[Len(s)]
Index(s) == 1 .. Len(s)

ThreadsOf(k) == 0 .. k.threads - 1
StreamsOf(k) == Index(k.streams)

-----------------------------------------------------------------------------
(* Arrays.                                                                 *)

\* elements of a stream in each of its dimensions
Extent(s) == [d \in Index(s.dims) |-> s.dims[d] \div SizeOf[s.type]]
getstreamelems(s) == Product(Extent(s))
getstreambytes(s) == Wrap(getstreamelems(s) * SizeOf[s.type])

\* row-major position of an index
_linear_offset(index, extent) ==
  LET off[d \in 0 .. Len(index)] ==
        IF d = 0 THEN 0 ELSE off[d - 1] * extent[d] + index[d]
  IN  off[Len(index)]

\* The array has room for the offset in every dimension; ptr is past it.
Padded(s) == [d \in Index(s.dims) |-> Extent(s)[d] + s.offsets[d]]
msize(s)  == Wrap(Product(Padded(s)) * SizeOf[s.type])

Allocatable(s) ==
  /\ Len(s.dims) \in 1 .. 3
  /\ \A d \in Index(s.dims) : s.dims[d] > 0 /\ s.offsets[d] \in 0 .. s.dims[d] - 1
  /\ msize(s) > 0

Allocated(s) == [bytes |-> msize(s), ptr |-> _linear_offset(s.offsets, Padded(s))]

-----------------------------------------------------------------------------
(* Parts of the threads.                                                   *)

\* What formula f gives for thread t of n threads and a dimension of m
\* elements, cut to an integer; t * (m / n) may come out just below one.
Formula(f, m, n, t) ==
  CASE f = "whole" -> {m}
    [] f = "zero"  -> {0}
    [] f = "share" -> {m \div n}
    [] f = "start" -> {(t * m) \div n}
         \cup (IF (t * m) % n = 0 /\ m % n > 0 /\ t > 0 THEN {(t * m) \div n - 1} ELSE {})
    [] f = "next"  -> {((t + 1) * m) \div n}

\* Mutant: offsets are added up without strides.
Part_Unstrided(sizes, offsets) ==
  [sizes |-> sizes, offsets |-> offsets,
   start |-> FoldLeft(LAMBDA a, b : a + b, 0, offsets)]

\* the part of thread t for given results of the formulas
Part(sizes, offsets) ==
  [sizes |-> sizes, offsets |-> offsets, start |-> _linear_offset(offsets, sizes)]

Parts(k, t, s) ==
  LET str == k.streams[s]
      Result(f, d) == Formula(f[d], Extent(str)[d], k.threads, t)
      Results(f) == {r \in [Index(str.dims) -> UNION {Result(f, d) : d \in Index(str.dims)}] :
                       \A d \in Index(str.dims) : r[d] \in Result(f, d)}
  IN  {Part(sizes, offsets) :
         sizes \in Results(str.sizes), offsets \in Results(str.toffsets)}

\* Mutants: only the start is compared; the last element is not admitted.
StartInRange(bytes, off, size) == off <= bytes
ShortRange(bytes, off, size)   == off + size < bytes

_ptr_in_range(bytes, off, size) == off + size <= bytes

\* update_threads looks at each dimension by itself.
Valid(k, part, s) ==
  LET str == k.streams[s]
      z   == SizeOf[str.type]
  IN  \A d \in Index(str.dims) :
        /\ part.sizes[d] # 0
        /\ _ptr_in_range(getstreambytes(str), part.start * z, part.sizes[d] * z)

\* Mutant: the last element of every row is left out.
Elements_Short(part) ==
  LET n == Len(part.sizes)
  IN  {part.start + _linear_offset(i, part.sizes) :
         i \in {j \in [1 .. n -> 0 .. Max(Range(part.sizes)) - 1] :
                  \A d \in 1 .. n : j[d] < part.sizes[d] - (IF d = n THEN 1 ELSE 0)}}

\* Elements initialize_arrays writes: with its own extents for strides.
Elements(part) ==
  LET n == Len(part.sizes)
  IN  {part.start + _linear_offset(i, part.sizes) :
         i \in {j \in [1 .. n -> 0 .. Max(Range(part.sizes)) - 1] :
                  \A d \in 1 .. n : j[d] < part.sizes[d]}}

-----------------------------------------------------------------------------
Init ==
  /\ kernel \in Kernels
  /\ arrays = <<>> /\ chunk = <<>> /\ written = {}
  /\ todo = [t \in ThreadsOf(kernel) |-> StreamsOf(kernel)]
  /\ pc = "allocate"

\* manage_streams: one array after the other.
allocate_arrays ==
  /\ pc = "allocate"
  /\ LET s == kernel.streams[Len(arrays) + 1]
     IN  IF Allocatable(s)
         THEN /\ arrays' = Append(arrays, Allocated(s))
              /\ pc' = IF Len(arrays') = Len(kernel.streams) THEN "update" ELSE pc
         ELSE pc' = "refused" /\ UNCHANGED arrays
  /\ UNCHANGED <<kernel, chunk, written, todo>>

\* update_threads up to the validation
update_threads ==
  /\ pc = "update"
  /\ chunk' \in {c \in [ThreadsOf(kernel) \X StreamsOf(kernel) ->
                          UNION {Parts(kernel, t, s) : t \in ThreadsOf(kernel),
                                                       s \in StreamsOf(kernel)}] :
                   \A x \in DOMAIN c : c[x] \in Parts(kernel, x[1], x[2])}
  /\ pc' = "validate"
  /\ UNCHANGED <<kernel, arrays, written, todo>>

validate ==
  /\ pc = "validate"
  /\ pc' = IF \A x \in DOMAIN chunk : Valid(kernel, chunk[x], x[2])
           THEN "run" ELSE "refused"
  /\ UNCHANGED <<kernel, arrays, chunk, written, todo>>

\* initialize_local of one thread for its next stream, whatever the value
\* (it is made for the first stream and read in the type of each).
initialize_local(t) ==
  /\ pc = "run" /\ todo[t] # {}
  /\ LET s == Min(todo[t])
     IN  /\ written' = written \cup
              {[stream |-> s, thread |-> t, element |-> e] : e \in Elements(chunk[<<t, s>>])}
         /\ todo' = [todo EXCEPT ![t] = @ \ {s}]
  /\ UNCHANGED <<kernel, arrays, chunk, pc>>

Ended == (pc = "refused" \/ \A t \in ThreadsOf(kernel) : todo[t] = {}) /\ UNCHANGED vars

Next ==
  \/ allocate_arrays \/ update_threads \/ validate
  \/ \E t \in ThreadsOf(kernel) : initialize_local(t)
  \/ Ended

Spec == Init /\ [][Next]_vars

-----------------------------------------------------------------------------
(* What kernel files can say.                                              *)

Formulas == {"whole", "zero", "share", "start", "next"}

\* The first dimension is cut by any formulas, the others are taken whole.
RowWise(str) ==
  /\ str.sizes[1] \in Formulas /\ str.toffsets[1] \in Formulas
  /\ \A d \in 2 .. Len(str.dims) : str.sizes[d] = "whole" /\ str.toffsets[d] = "zero"

\* What the parser makes sure of.
Typed(str) == str.type \in DOMAIN SizeOf /\ str.dims \in Seq(Nat)

\* A stream whose threads have rows.
Usual(str) == Typed(str) /\ RowWise(str)

\* elements of a row
RowLength(n, sizes) ==
  IF n = 1 THEN 1 ELSE IF n = 2 THEN sizes[2] ELSE sizes[2] * sizes[3]

\* elements of n dimensions, without a limit
Volume(n, f) == f[1] * RowLength(n, f)

\* how much of the first dimension a thread may get, and from where
Pairs == ({"share"} \X {"start", "next", "zero"}) \cup {<<"whole", "zero">>}

\* the streams of a kernel are a sequence
Listed == \A k \in Kernels : Len(k.streams) \in Nat

\* the streams of a kernel, cut into shares unless there is one thread
Shares(k) ==
  /\ k.threads \in Nat \ {0}
  /\ \A s \in StreamsOf(k) :
       LET str == k.streams[s]
       IN  /\ Usual(str)
           /\ k.threads > 1 => str.sizes[1] = "share" /\ str.toffsets[1] \in {"start", "next"}

\* What a stream asks of its formulas, and that its size can be computed: the
\* code does not notice a size that wraps.
Confined(str) ==
  /\ Usual(str)
  /\ Len(str.offsets) = Len(str.dims)
  /\ Len(str.dims) > 1 => <<str.sizes[1], str.toffsets[1]>> \in Pairs
  /\ Volume(Len(str.dims), Padded(str)) * SizeOf[str.type] < Modulus

\* Formulas whose parts end inside a dimension.
Inside == {<<"whole", "zero">>, <<"share", "zero">>, <<"share", "start">>}

\* Any dimensions are cut, each of them inside itself.
Boxed(str) ==
  /\ Typed(str)
  /\ Len(str.offsets) = Len(str.dims)
  /\ \A d \in Index(str.dims) : <<str.sizes[d], str.toffsets[d]>> \in Inside
  /\ Volume(Len(str.dims), Padded(str)) * SizeOf[str.type] < Modulus

\* The threads of a kernel share the first dimension, or its one thread has the
\* streams whole, and no stream has empty rows.
Dealt(k) ==
  /\ k.threads \in Nat \ {0} /\ Len(k.streams) \in Nat \ {0}
  /\ \A s \in StreamsOf(k) :
       LET str == k.streams[s]
       IN  /\ Confined(str)
           /\ \A d \in 2 .. Len(str.dims) : str.dims[d] >= SizeOf[str.type]
           /\ \/ str.sizes[1] = "share" /\ str.toffsets[1] \in {"start", "next"}
              \/ k.threads = 1 /\ str.sizes[1] = "whole" /\ str.toffsets[1] = "zero"

-----------------------------------------------------------------------------
(* Properties.                                                             *)

Of(x) == kernel.streams[x.stream]

\* Threads write nothing outside the memory of a stream, with parts in the
\* first dimension and offsets that stay inside or not: update_threads has
\* refused what does not fit (the validation at the end of update_threads,
\* posix_memalign in allocate_arrays).
InStream ==
  \A x \in written :
    (arrays[x.stream].ptr + x.element + 1) * SizeOf[Of(x).type] <= arrays[x.stream].bytes

\* No two threads write the same element of a stream (_linear_offset and the
\* strides of INIT_ARRAY).
Disjoint ==
  \A x, y \in written :
    x.stream = y.stream /\ x.element = y.element => x.thread = y.thread

\* When all threads are through, less than one row per thread has not been
\* written (the cut of sizes and offsets to integers in update_threads).
Row(s) == Product([Extent(s) EXCEPT ![1] = 1])
FewLeft ==
  pc = "run" /\ (\A t \in ThreadsOf(kernel) : todo[t] = {}) =>
    \A s \in StreamsOf(kernel) :
      LET str == kernel.streams[s]
          done == {x.element : x \in {y \in written : y.stream = s}}
      IN  getstreamelems(str) - Cardinality(done) < kernel.threads * Row(str)

\* A kernel is refused only if an array cannot hold an element for every
\* thread, or if a part ends outside its array (update_threads).
RefusesOnlyUnfit ==
  pc = "refused" =>
    \/ Len(arrays) < Len(kernel.streams)
    \/ \E s \in StreamsOf(kernel) :
         LET str == kernel.streams[s]
         IN  \/ Extent(str)[1] < kernel.threads
             \/ \E t \in ThreadsOf(kernel) :
                  chunk[<<t, s>>].start + Product(chunk[<<t, s>>].sizes) > getstreamelems(str)

\* The parts of the threads cover the arrays but for less than a row per
\* thread, and only a kernel whose parts cannot fit is refused
\* (update_threads).
SharedOut == FewLeft /\ RefusesOnlyUnfit
=============================================================================
