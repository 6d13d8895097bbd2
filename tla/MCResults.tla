----------------------------- MODULE MCResults -----------------------------
(* Kernels, workgroups and formulas for Results, as in kernels/.           *)
EXTENDS Results

N == <<"N">>
Word(s) == <<s>>
ElemsPerIter == <<"ELEMS_PER_", "ITER">>
InstLoop == <<"I", "N", "ST_LOOP">>
Uops == Word("UOPS")
UopsLoop == <<"UOPS", "_LOOP">>
SizeofDouble == <<"SIZEOF_DOUBLE">>
SizeofInt64 == <<"SIZEOF_I", "N", "T", "64">>
Divide == Word("/")
Times == Word("*")

Bandwidth ==
  [name |-> Word("bandwidth"),
   tokens |-> <<biterations, Times, N, Divide, bnumthreads, Divide, time>>]
Instructions ==
  [name |-> Word("instructions"),
   tokens |-> <<biterations, Times, N, Divide, bnumthreads, Divide, SizeofDouble, Divide,
                ElemsPerIter, Times, InstLoop>>]
UopsPerTime == [name |-> Word("uops"), tokens |-> <<biterations, Times, UopsLoop, Divide, time>>]
(* No kernel defines what this one counts. *)
Broken == [name |-> Word("flops"), tokens |-> <<biterations, Times, Word("FLOPS")>>]

Double(dims) == [size |-> 8, dims |-> dims]
Single(dims) == [size |-> 4, dims |-> dims]

(* Loops of one and of three doubles. *)
Vars(bytes) ==
  <<[name |-> ElemsPerIter, text |-> Number(bytes \div 8)],
    [name |-> bbytesperiter, text |-> Number(bytes)],
    [name |-> Uops, text |-> Number(2)], [name |-> UopsLoop, text |-> Number(9)],
    [name |-> InstLoop, text |-> Number(11)]>>

Benchmark(groups, n, streams, bytes, metrics) ==
  [groups |-> groups, params |-> N :> n, streams |-> streams, vars |-> Vars(bytes),
   metrics |-> metrics]

\* As the maps are traversed for the names of kernels/x86_64/load.yaml.
MCHashOrder ==
  <<bglobalid, bnumthreads, <<"SIZEOF_I", "N", "T">>, SizeofDouble, bbytesperiter, InstLoop,
    ElemsPerIter, <<"SIZEOF_SI", "N", "GLE">>, N, <<"SIZEOF_HALF">>, bthreadid, bgroupid,
    SizeofInt64, biterations, freq, cycles, time, Word("bandwidth"), Word("instructions"),
    Uops, UopsLoop, Word("uops"), Word("flops"), Word("FLOPS")>>
MCAlphabet == <<cycles, freq, time>>
MCWild == {0, 5}

MCOneGroup ==
  {Benchmark(<<t>>, n, streams, bytes,
             <<Bandwidth, Instructions, UopsPerTime>>) :
     t \in 1 .. 3, n \in {60, 192, 200, 600}, bytes \in {8, 24},
     streams \in {<<Double(<<N>>)>>, <<Double(<<N>>), Single(<<N>>)>>}}

MCGroups ==
  {Benchmark(groups, n, <<Double(<<N>>)>>, bytes, <<Bandwidth, Instructions>>) :
     groups \in {<<1>>, <<2>>, <<2, 2>>, <<3, 2>>, <<1, 2, 1>>}, n \in {60, 600},
     bytes \in {8, 24}}
  \cup
  {[b EXCEPT !.vars = <<>>, !.metrics = <<Broken>>] :
     b \in {Benchmark(<<2, 1>>, n, <<Double(<<N>>)>>, 0, <<>>) : n \in {60, 200}}}
  \cup
  {[b EXCEPT !.params = Word("other") :> 1] : 
     b \in {Benchmark(<<2>>, 60, <<Double(<<N>>)>>, 8, <<>>)}}

MCTwoGroups == {Benchmark(<<2, 2>>, 600, <<Double(<<N>>)>>, 8, <<Bandwidth>>)}
=============================================================================
