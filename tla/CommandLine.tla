---------------------------- MODULE CommandLine ----------------------------
(***************************************************************************)
(* From the command line to the start of the workgroups: the options       *)
(* (src/cli_parser.c) and main (likwid-bench.c), which goes over the       *)
(* arguments twice: for its own options and, once the kernel file is       *)
(* known, for those of the kernel.                                         *)
(*                                                                         *)
(* Arguments, names and symbols are Texts: <<"--", "file">>, <<"-f">>.     *)
(* The kinds sticky_* of options are given to none and left out.           *)
(***************************************************************************)
EXTENDS Texts, FiniteSets

CONSTANTS
  Lines,     \* what users write: sequences of [opt, arg], arg may be <<>>
  Folder,    \* the folder of kernel files that is built in
  Files,     \* kernel files: [path, requirewg, params]; a parameter is
             \* [name, symbol, required, default]
  Counts     \* the Texts that are positive numbers

VARIABLES
  line,      \* the items of this command line
  options,   \* the table of the current pass: [name, symbol, has_arg, value, values]
  i, combine, combine_opt,    \* of parseCliOptions
  runcfg,
  outcome,   \* why main stops, "run" if it goes on with the workgroups
  pc

vars == <<line, options, i, combine, combine_opt, runcfg, outcome, pc>>

Option(name, symbol, has_arg, value) ==
  [name |-> <<"--">> \o name, symbol |-> symbol, has_arg |-> has_arg, value |-> value,
   values |-> <<>>]

Flag(name, symbol) == Option(<<name>>, <<symbol>>, "no_argument", <<>>)
Setting(name, symbol) == Option(<<name>>, <<symbol>>, "required_argument", <<>>)

basecliopts ==
  <<Flag("help", "-h"), Flag("all", "-a"), Setting("verbose", "-V"), Setting("test", "-t"),
    Setting("file", "-f"), Setting("kfolder", "-K"), Setting("tmpfolder", "-D"),
    Setting("iterations", "-i"), Setting("compiler", "-C"), Setting("runtime", "-r"),
    Setting("output", "-o"), Flag("csv", "-O"), Flag("json", "-J"), Flag("detailed", "-d"),
    Flag("printdomains", "-p")>>

wgroupopts == <<Option(<<"workgroup">>, <<"-w">>, "multi_argument", <<>>)>>

-----------------------------------------------------------------------------
(***************************************************************************)
(* addCliOption.  The candidate for another symbol is taken from the first *)
(* character of the name, which is a dash.                                 *)
(***************************************************************************)
Free(opts, symbol) == \A o \in Range(opts) : o.symbol # symbol

addCliOption(opts, new) ==
  LET taken == \E o \in Range(opts) : o.name = new.name
      symbol == IF Free(opts, new.symbol) THEN new.symbol
                ELSE IF Free(opts, <<"-", "-">>) THEN <<"-", "-">> ELSE <<"****">>
  IN  IF taken /\ ~Free(opts, new.symbol) THEN opts
      ELSE Append(opts, [new EXCEPT !.symbol = symbol])

(* An option that cannot be added ends the list; main does not look at it. *)
generateTestCliOptions(kernel) ==
  LET opt(p) == Option(p.name, p.symbol, "required_argument", p.default)
      first == IF kernel.requirewg THEN wgroupopts ELSE <<>>
      With(opts, p) ==
        IF opts.failed THEN opts
        ELSE LET more == addCliOption(opts.list, opt(p))
             IN  [list |-> more, failed |-> Len(more) = Len(opts.list)]
  IN  FoldLeft(With, [list |-> first, failed |-> FALSE], kernel.params).list

-----------------------------------------------------------------------------
(***************************************************************************)
(* parseCliOptions, one argument after the other.                          *)
(***************************************************************************)
ItemArgs(item) == IF item.arg = <<>> THEN <<item.opt>> ELSE <<item.opt, item.arg>>
argv == FlattenSeq([k \in Index(line) |-> ItemArgs(line[k])])

OptionOf(arg) == {k \in Index(options) : arg \in {options[k].name, options[k].symbol}}

set_required_argument_Added(k, arg) == [options EXCEPT ![k].value = @ \o arg]
set_required_argument(k, arg) == [options EXCEPT ![k].value = arg]

Combined_Only ==
  [options EXCEPT ![IF combine_opt = 0 THEN 1 ELSE combine_opt].values = <<combine>>]

(* The list of an option gets the arguments put together for it. *)
Combined == IF combine_opt # 0 /\ combine # <<>>
            THEN [options EXCEPT ![combine_opt].values = Append(@, combine)] ELSE options

ProcessOption(k) ==
  LET x == options[k]
      more == i < Len(argv)
  IN  CASE x.has_arg = "required_argument" /\ more ->
             /\ options' = set_required_argument(k, argv[i + 1])
             /\ i' = i + 2
             /\ UNCHANGED <<combine, combine_opt>>
        [] x.has_arg = "no_argument" ->
             /\ options' = set_required_argument(k, <<"1">>)
             /\ i' = i + 1
             /\ UNCHANGED <<combine, combine_opt>>
        [] x.has_arg = "multi_argument" /\ more ->
             /\ options' = Combined
             /\ combine' = <<>>
             /\ combine_opt' = k
             /\ i' = i + 1
        [] OTHER -> i' = i + 1 /\ UNCHANGED <<options, combine, combine_opt>>

(* The first option of that name or symbol; what is none belongs to the    *)
(* workgroup before it.                                                    *)
parse_argument ==
  /\ pc \in {"parse_base", "parse_test"}
  /\ i <= Len(argv)
  /\ IF OptionOf(argv[i]) # {} THEN ProcessOption(Min(OptionOf(argv[i])))
     ELSE /\ combine' = IF combine_opt # 0 THEN Append(combine, argv[i]) ELSE combine
          /\ i' = i + 1
          /\ UNCHANGED <<options, combine_opt>>
  /\ UNCHANGED <<line, runcfg, outcome, pc>>

parse_end ==
  /\ pc \in {"parse_base", "parse_test"}
  /\ i > Len(argv)
  /\ options' = Combined
  /\ pc' = IF pc = "parse_base" THEN "assign_base" ELSE "assign_test"
  /\ UNCHANGED <<line, i, combine, combine_opt, runcfg, outcome>>

-----------------------------------------------------------------------------
Value(name) == options[CHOOSE k \in Index(options) : options[k].name = <<"--", name>>].value

PathIn(folder, name) == folder \o <<"/">> \o name \o <<".yaml">>
Exists(path) == \E f \in Files : f.path = path
FileAt(path) == CHOOSE f \in Files : f.path = path

(* The folder is looked for before anything else is assigned. *)
KernelFolder_Later == Folder
KernelFolder == IF Value("kfolder") # <<>> THEN Value("kfolder") ELSE Folder

assigned ==
  LET path == PathIn(KernelFolder, Value("test"))
      found == Value("test") # <<>> /\ Exists(path)
      given(name, default) == IF Value(name) # <<>> THEN Value(name) ELSE default
  IN  [testname |-> IF found THEN Value("test") ELSE <<>>,
       pttfile |-> given("file", IF found THEN path ELSE <<>>),
       iterations |-> Value("iterations"),
       runtime |-> given("runtime", <<"-", "1">>),
       output |-> given("output", <<"stdout">>),
       params |-> <<>>,
       wgroups |-> <<>>]

Stop(why) ==
  outcome' = why /\ pc' = "stopped" /\ UNCHANGED <<options, i, combine, combine_opt>>

assignBaseCliOptions ==
  /\ pc = "assign_base"
  /\ runcfg' = assigned
  /\ IF runcfg'.runtime # <<"-", "1">> /\ runcfg'.iterations \in Counts THEN Stop("error")
     ELSE IF Value("printdomains") # <<>> THEN Stop("domains")
     ELSE IF Value("all") # <<>> THEN Stop("list")
     ELSE IF runcfg'.testname = <<>> THEN Stop("usage")
     ELSE IF ~Exists(runcfg'.pttfile) THEN Stop("error")
     ELSE IF Value("help") # <<>> THEN Stop("help")
     ELSE /\ options' = generateTestCliOptions(FileAt(runcfg'.pttfile))
          /\ i' = 1
          /\ combine' = <<>>
          /\ combine_opt' = 0
          /\ pc' = "parse_test"
          /\ UNCHANGED outcome
  /\ UNCHANGED line

-----------------------------------------------------------------------------
kernel == FileAt(runcfg.pttfile)

Matching_Empty(p) ==
  SelectSeq(options, LAMBDA o : StartsWith(o.name, <<"--">> \o p.name))

(* Options the name of which begins with that of the parameter. *)
Matching(p) ==
  SelectSeq(options, LAMBDA o : /\ StartsWith(o.name, <<"--">> \o p.name)
                                /\ o.value # <<>> \/ o.values # <<>>)

runtime_parameters ==
  FlattenSeq([k \in Index(kernel.params) |->
    LET p == kernel.params[k]
        opts == Matching(p)
    IN  [m \in Index(opts) |-> [name |-> p.name, value |-> opts[m].value]]])

(* Every parameter counts as missing that has no value. *)
assignTestCliOptions ==
  /\ pc = "assign_test"
  /\ runcfg' = [runcfg EXCEPT !.params = runtime_parameters]
  /\ IF \E p \in Range(kernel.params) : Matching(p) = <<>> THEN Stop("missing")
     ELSE /\ pc' = "assign_workgroups"
          /\ UNCHANGED <<options, i, combine, combine_opt, outcome>>
  /\ UNCHANGED line

assignWorkgroupCliOptions ==
  /\ pc = "assign_workgroups"
  /\ IF kernel.requirewg
     THEN LET values == options[1].values
          IN  /\ runcfg' = [runcfg EXCEPT !.wgroups = values]
              /\ Stop(IF values = <<>> THEN "error" ELSE "run")
     ELSE UNCHANGED runcfg /\ Stop("run")
  /\ UNCHANGED line

Init ==
  /\ line \in Lines
  /\ options = basecliopts
  /\ i = 1
  /\ combine = <<>>
  /\ combine_opt = 0
  /\ runcfg = [testname |-> <<>>]
  /\ outcome = ""
  /\ pc = "parse_base"

Next == \/ parse_argument \/ parse_end \/ assignBaseCliOptions
        \/ assignTestCliOptions \/ assignWorkgroupCliOptions

Spec == Init /\ [][Next]_vars

-----------------------------------------------------------------------------
(***************************************************************************)
(* What was written: the items with this name or symbol.                   *)
(***************************************************************************)
Items(names) == SelectSeq(line, LAMBDA item : item.opt \in names)
Given(names, default) ==
  IF Items(names) = <<>> THEN default ELSE Last(Items(names)).arg

Base(name) == CHOOSE o \in Range(basecliopts) : o.name = <<"--", name>>
BaseGiven(name) == Given({<<"--", name>>, Base(name).symbol}, <<>>)

(* Each setting has the argument that was written after it the last time,  *)
(* wherever it stands and whatever other arguments look like, and only     *)
(* the flags that were written are set.                                    *)
OwnArguments ==
  pc = "assign_base" =>
    \A o \in Range(options) :
      IF o.has_arg = "no_argument"
      THEN (o.value # <<>>) = (Items({o.name, o.symbol}) # <<>>)
      ELSE o.value = Given({o.name, o.symbol}, <<>>)

(* The kernel that runs is the file given, or else that of the test in the *)
(* folder given, in whatever order they were written.                      *)
KernelAsGiven ==
  outcome = "run" =>
    LET folder == IF BaseGiven("kfolder") = <<>> THEN Folder ELSE BaseGiven("kfolder")
    IN  runcfg.pttfile = IF BaseGiven("file") # <<>> THEN BaseGiven("file")
                         ELSE PathIn(folder, BaseGiven("test"))

(* A kernel runs only when each of its parameters has one value: what was  *)
(* written for it, by its name or by its symbol, which is that of the      *)
(* first parameter that has it, or else its default.                       *)
ParametersAsGiven ==
  outcome = "run" =>
    \A k \in Index(kernel.params) :
      LET p == kernel.params[k]
          set == SelectSeq(runcfg.params, LAMBDA v : v.name = p.name)
          own == IF \E q \in 1 .. k - 1 : kernel.params[q].symbol = p.symbol
                 THEN {} ELSE {p.symbol}
          value == Given({<<"--">> \o p.name} \cup own, p.default)
      IN  value # <<>> /\ (Len(set) = 1 /\ set[1].value = value)

(* Every workgroup that was written is there, in order; its text begins    *)
(* with the argument of its -w.                                            *)
WorkgroupsAsGiven ==
  outcome = "run" /\ kernel.requirewg =>
    LET given == SelectSeq(Items({<<"-w">>, <<"--", "workgroup">>}), LAMBDA w : w.arg # <<>>)
    IN  /\ Len(runcfg.wgroups) = Len(given)
        /\ \A w \in Index(given) : runcfg.wgroups[w][1] = given[w].arg
=============================================================================
