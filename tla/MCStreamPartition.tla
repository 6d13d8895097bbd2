------------------------- MODULE MCStreamPartition -------------------------
(* Kernels for StreamPartition.                                            *)
EXTENDS StreamPartition

MCSizeOf == [double |-> 2, single |-> 1]

Stream(type, dims, offsets, sizes, toffsets) ==
  [type |-> type, dims |-> [d \in DOMAIN dims |-> dims[d] * MCSizeOf[type]],
   offsets |-> offsets, sizes |-> sizes, toffsets |-> toffsets]

Zeros(n) == [d \in 1 .. n |-> 0]
Wholes(n) == [d \in 1 .. n |-> "whole"]
Nulls(n) == [d \in 1 .. n |-> "zero"]

\* Sizes and offsets as all kernels of the repository have them, in the
\* first dimension.
Rows(type, dims) ==
  Stream(type, dims, Zeros(Len(dims)),
         [Wholes(Len(dims)) EXCEPT ![1] = "share"],
         [Nulls(Len(dims)) EXCEPT ![1] = "start"])

\* A thread works on what follows its part: nothing is left for the last.
Ahead(type, dims) == [Rows(type, dims) EXCEPT !.toffsets[1] = "next"]

\* As test_allocator.c: one thread initializes an array with offsets.
Offset(type, dims, offsets) ==
  Stream(type, dims, offsets, Wholes(Len(dims)), Nulls(Len(dims)))

\* Any dimensions are cut, where the threads have elements of their own.
Cut(type, dims, cuts) ==
  LET pick(f, g) == [d \in 1 .. Len(dims) |-> IF d \in cuts THEN f ELSE g]
  IN  Stream(type, dims, Zeros(Len(dims)), pick("share", "whole"), pick("start", "zero"))

Kernel(threads, streams) == [threads |-> threads, streams |-> streams]

RowKernels ==
  {Kernel(t, <<Rows("double", <<n>>)>>) : t \in 1 .. 4, n \in 1 .. 9}
  \cup {Kernel(t, <<Rows("single", <<n, m>>)>>) : t \in 1 .. 3, n \in 1 .. 4, m \in 1 .. 3}
  \cup {Kernel(2, <<Rows("double", <<n, m, 2>>)>>) : n \in 2 .. 3, m \in 1 .. 2}
  \cup {Kernel(2, <<Rows("double", <<n>>), Rows("double", <<m, 2>>)>>) :
          n \in 1 .. 3, m \in 2 .. 3}
  \cup {Kernel(t, <<Ahead("double", <<n>>)>>) : t \in 1 .. 3, n \in 2 .. 4}
  \cup {Kernel(1, <<Offset("double", <<n>>, <<o>>)>>) : n \in 1 .. 3, o \in 0 .. 6}
  \cup {Kernel(1, <<Offset("single", <<n, m>>, <<o, p>>)>>) :
          n \in 1 .. 2, m \in 1 .. 2, o \in 0 .. 2, p \in 0 .. 2}
  \cup {Kernel(1, <<Offset("single", <<2, 2, 2>>, <<o, p, q>>)>>) :
          o \in 0 .. 1, p \in 0 .. 1, q \in 0 .. 1}
  \cup {Kernel(1, <<Offset("single", <<0>>, <<0>>)>>)}

CutKernels ==
  {Kernel(t, <<Cut("double", <<1, n>>, {2})>>) : t \in 1 .. 3, n \in 2 .. 5}
  \cup {Kernel(2, <<Cut("single", <<2, n>>, {1, 2})>>) : n \in 2 .. 5}
  \cup {Kernel(2, <<Cut("single", <<1, n, m>>, {2})>>) : n \in 2 .. 3, m \in 1 .. 2}

MCKernels == RowKernels \cup CutKernels

\* What the theorems about parts suppose of kernels.
ASSUME KernelsDealt ==
  /\ Listed
  /\ \A k \in Kernels \cap RowKernels : Shares(k) /\ Dealt(k)
  /\ \A k \in Kernels \cap CutKernels :
       k.threads \in Nat \ {0} /\ \A s \in StreamsOf(k) : Boxed(k.streams[s])
=============================================================================
