---------------------------- MODULE MCKernelFile ----------------------------
(* Kernel files like those of kernels/ and tests/, with their sections in  *)
(* any order.                                                              *)
EXTENDS KernelFile

Node(dash, key, value, nodes) ==
  [dash |-> dash, key |-> key, value |-> value, nodes |-> nodes]
Entry(key, value) == Node(FALSE, <<key>>, value, <<>>)
Sub(key, nodes) == Node(FALSE, <<key>>, <<>>, nodes)
Items(s) == [k \in Index(s) |-> Node(TRUE, s[k], <<>>, <<>>)]
Section(key, nodes) == Node(TRUE, <<key>>, <<>>, nodes)
Setting(key, value) == Node(TRUE, <<key>>, value, <<>>)

N == <<"N">>
Part == <<"THREAD_ID*(N/NUM_THREADS)", "-", "1">>
Share == <<"N/NUM_THREADS">>

Typed(type) == <<Entry("dimensions", <<"1">>), Entry("datatype", <<type>>)>>
Settings ==
  {Entry("initialization", <<"-", "1">>),
   Sub("dimsizes", Items(<<N, <<"4">>>>)), Sub("options", Items(<<<<"perthread">>>>)),
   Sub("offsets", Items(<<Part>>)), Sub("sizes", Items(<<Share>>))}
Stream(name, settings) == Node(TRUE, <<name>>, <<>>, settings)
AnyOrder(set, n) == {s \in [1 .. n -> set] : \A j, k \in 1 .. n : j # k => s[j] # s[k]}

Parameter ==
  Section("Parameters", <<Node(TRUE, N, <<>>,
    <<Entry("description", <<"size", ":", " ", "-", "1">>), Entry("default", <<"2", "-", "1">>),
      Sub("options", Items(<<<<"bytes">>, <<"required">>>>))>>)>>)
Sections ==
  {Setting("Name", <<"load", "-", "nt">>), Parameter,
   Section("FeatureFlag", Items(<<<<"sse", "-", "2">>, <<"avx">>>>)),
   Setting("RequireWorkgroup", <<"true">>),
   Section("Variables", <<Entry("LOADS", <<"1">>), Entry("N", <<"8", "-", "1">>)>>),
   Section("Metrics", <<Node(FALSE, <<"Read", " ", "bandwidth">>, <<"ITER*N">>, <<>>)>>)}

Code == <<"LOOP", "(", "l", ")", NL, " ", "jl", " ", "-", ":", NL, "LOOPEND", NL>>

File(nodes) == [nodes |-> nodes, code |-> Code]
TwoStreams(settings) ==
  Section("Streams", <<Stream("STR0", settings), Stream("STR1", Typed("double"))>>)
WithStreams(settings) ==
  File(<<Setting("Name", <<"copy">>), TwoStreams(settings),
         Section("Constants", <<Entry("C", <<"1">>)>>)>>)

MCFiles ==
  {File(s) : s \in AnyOrder(Sections, 3)}
    \cup {WithStreams(Typed("single") \o s) : s \in AnyOrder(Settings, 3)}
=============================================================================
