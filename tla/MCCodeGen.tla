----------------------------- MODULE MCCodeGen -----------------------------
(* Kernels for CodeGen: all short codes, and kernels like those of         *)
(* kernels/ and tests/test_ptt2asm.c.                                      *)
EXTENDS CodeGen

Word(s) == <<s>>
N == Word("N")
STR(i) == CASE i = 1 -> Word("STR0") [] i = 2 -> Word("STR1") [] i = 3 -> <<"STR1", "0">>
Stream(i) == [name |-> STR(i), dims |-> <<N>>, sizes |-> <<Word("1000")>>, ptr |-> "0x7f00"]
Streams(n) == [i \in 1 .. n |-> Stream(i)]

LOOP(label, start, dir, cond) ==
  LineOf("LOOP", <<label, Word("rax"), start, dir, Word("rdi"), cond, Word("UNROLL")>>)
Loop(label) == LOOP(label, Word("0"), Word("<"), N)
LOOPEND(label) == LineOf("LOOPEND", <<label>>)
DUMMY(label) == LineOf("DUMMY", <<label>>)
DUMMYEND(label) == LineOf("DUMMYEND", <<label>>)
Load(reg, from) == LineOf("movsd", <<reg, from>>)
Plain == Load(Word("xmm0"), Word("xmm1"))

Kernel(code, streams) ==
  [name |-> Word("load"), code |-> code, streams |-> streams,
   vars |-> <<Key(Word("UNROLL"), Word("4"))>>]

MCRegisters == <<Word("rax"), Word("rbx"), Word("rcx"), Word("rdx"), Word("rsi"), Word("rdi"),
  Word("r8"), Word("r9"), Word("r10"), Word("r11"), Word("r12"), Word("r13"), Word("r14"),
  Word("r15")>>
A == Word("a")
B == Word("b")
MCAlphabet == {Plain, Loop(A), LOOPEND(A), Loop(B), LOOPEND(B), DUMMY(B), DUMMYEND(B),
               LineOf("LOOP", <<A, Word("rax")>>)}
C == Word("c")
D == Word("d")
MCLong ==
  {<<Plain, Loop(A), Plain, DUMMY(B), Plain, DUMMYEND(B), Plain, LOOPEND(A), Plain,
     Loop(C), Plain, DUMMY(D), Plain, DUMMYEND(D), LOOPEND(C), Plain>>,
   <<Loop(A), Loop(B), Loop(C), DUMMY(D), Plain, DUMMYEND(D), LOOPEND(C), LOOPEND(B),
     LOOPEND(A)>>,
   <<DUMMY(A), DUMMY(B), DUMMYEND(B), DUMMYEND(A), Loop(C), Loop(D), LOOPEND(D), LOOPEND(C)>>}
MCCodes == {Kernel(c, Streams(1)) : c \in BoundedSeq(MCAlphabet, 4) \cup MCLong}

Dirs == {Word("<"), Word(">"), <<"=", "=">>, <<"!", "=">>}
Bounds == {N, <<"N", "-", "1">>, <<"N", "+", "8">>}
Body(n) == [i \in 1 .. n |-> Load(Word("xmm0"), STR(i))]
             \o <<Load(Word("rbx"), Word("NAME"))>>
Simple(n, start, dir, bound) ==
  Kernel(<<LOOP(A, start, dir, bound)>> \o Body(n) \o <<LOOPEND(A)>>, Streams(n))
MCKernels ==
  {Simple(n, s, d, b) : n \in 1 .. 3, s \in {Word("0"), Word("8")}, d \in Dirs, b \in Bounds}
    \cup {Simple(n, Word("0"), Word("<"), Word("0")) : n \in 1 .. 3}

=============================================================================
