--------------------------- MODULE MCCommandLine ---------------------------
(* Command lines like those of README.md, for kernels like those of        *)
(* kernels/ and tests/.                                                    *)
EXTENDS CommandLine

Item(opt, arg) == [opt |-> opt, arg |-> arg]
Param(name, symbol, required, default) ==
  [name |-> name, symbol |-> symbol, required |-> required, default |-> default]

MCFolder == <<"kernels">>
Other == <<"other">>
N == Param(<<"N">>, <<"-N">>, TRUE, <<>>)
Mode == Param(<<"mode">>, <<"-m">>, TRUE, <<"2">>)
Nice == Param(<<"Nice">>, <<"-N">>, TRUE, <<"7">>)
Needed == Param(<<"Need">>, <<"-N">>, TRUE, <<>>)

KernelFile(path, params) == [path |-> path, requirewg |-> TRUE, params |-> params]
MCFiles ==
  {KernelFile(PathIn(MCFolder, <<"load">>), <<N>>),
   KernelFile(PathIn(Other, <<"load">>), <<N, Mode>>),
   [KernelFile(PathIn(MCFolder, <<"plain">>), <<N>>) EXCEPT !.requirewg = FALSE],
   KernelFile(<<"my.yaml">>, <<N, Nice, Needed>>)}
MCCounts == {<<"100">>, <<"5s">>}

Load == Item(<<"-t">>, <<"load">>)
Size == Item(<<"-N">>, <<"1GB">>)
Wg(text) == Item(<<"-w">>, <<text>>)
BaseItems == {Load, Item(<<"-K">>, Other), Item(<<"-f">>, <<"my.yaml">>),
              Item(<<"-i">>, <<"100">>),
              Item(<<"--", "output">>, <<"-d">>), Item(<<"-o">>, <<"res.csv">>),
              Item(<<"-d">>, <<>>),
              Item(<<"-r">>, <<"5s">>), Item(<<"-h">>, <<>>), Item(<<"-a">>, <<>>),
              Item(<<"-p">>, <<>>), Item(<<"-t">>, <<"plain">>)}
TestItems == {Size, Item(<<"--", "N">>, <<"2GB">>), Item(<<"--", "Need">>, <<"3">>),
              Item(<<"-m">>, <<"4">>), Wg("N:0-7"), Wg("S0:0-3")}

(* Up to two items of any kind in front of, between and behind a test, a   *)
(* size and a workgroup.                                                   *)
MCLines ==
  LET some == BoundedSeq(BaseItems \cup TestItems, 2)
  IN  {s \o <<Load, Size>> : s \in some}
        \cup {<<Load, Size>> \o s \o <<Wg("N:0-7")>> : s \in some}
        \cup {<<Size, Wg("N:0-7")>> \o s \o <<Load>> : s \in some}
        \cup {<<Load, Size>> \o s \o <<Item(<<"-w">>, <<>>)>> :
                s \in BoundedSeq({Wg("N:0-7"), Wg("S0:0-3")}, 2)}
=============================================================================
