----------------------------- MODULE KernelFile -----------------------------
(***************************************************************************)
(* The reader of kernel files (src/read_yaml_ptt.c): objects are told      *)
(* apart by the indentation of their first line, keys and values by the    *)
(* first colon and the first dash.                                         *)
(*                                                                         *)
(* Files are Texts, with " ", "-", ":" and the end of a line as words of   *)
(* their own.  Keys are compared as a whole; the code compares beginnings  *)
(* and ignores case, which differs for none of the keys that are known.    *)
(***************************************************************************)
EXTENDS Texts, FiniteSets

CONSTANTS
  Kernels       \* what is written to the file: see MCKernelFile

VARIABLES
  file,         \* the nodes that were written
  objs,         \* what is left of the objects of the file
  conf,
  pc

vars == <<file, objs, conf, pc>>

NL == "\n"
Blank == {" ", NL}

Ascending(set, n) == SelectSeq([k \in 1 .. n |-> k], LAMBDA k : k \in set)

First(text, words) ==
  LET at == {k \in Index(text) : text[k] \in words} IN IF at = {} THEN 0 ELSE Min(at)

read_indent(text) ==
  LET at == {k \in Index(text) : text[k] # " "}
  IN  IF at = {} THEN Len(text) ELSE Min(at) - 1

btrimws(text) ==
  LET at == {k \in Index(text) : text[k] \notin Blank}
  IN  IF at = {} THEN <<>> ELSE SubSeq(text, Min(at), Max(at))

(* bsplit at the ends of lines. *)
Between(text, ends) ==
  [k \in 1 .. Len(ends) - 1 |-> SubSeq(text, ends[k] + 1, ends[k + 1] - 1)]
LinesOf(text) ==
  Between(text, <<0>> \o SelectSeq([k \in Index(text) |-> k], LAMBDA k : text[k] = NL)
                  \o <<Len(text) + 1>>)
Joined(lines) == FlattenSeq([k \in Index(lines) |-> lines[k] \o <<NL>>])

(* A dash behind the colon belongs to the value. *)
KeyStart(text, dash, colon) ==
  IF dash > 0 /\ (colon = 0 \/ dash < colon) THEN dash + 1 ELSE read_indent(text) + 1

read_keyvalue(text) ==
  LET colon == First(text, {":"})
      dash == First(text, {"-"})
      end == IF colon > 0 THEN colon - 1 ELSE Len(text)
      rest == SubSeq(text, colon + 1, Len(text))
  IN  [key |-> btrimws(SubSeq(text, KeyStart(text, dash, colon), end)),
       value |-> IF colon > 0 THEN SubSeq(rest, read_indent(rest) + 1, Len(rest)) ELSE <<>>]

(* The lines that begin an object: those indented like the first one.      *)
ObjectStarts_Deeper(lines, some) ==
  {k \in some : read_indent(lines[k]) >= read_indent(lines[Min(some)])}

ObjectStarts(lines, some) ==
  {k \in some : read_indent(lines[k]) = read_indent(lines[Min(some)])}

Dots(lines) == {k \in Index(lines) : StartsWith(lines[k], <<"...">>)}
ObjectLines(lines, end) ==
  {k \in 1 .. end - 1 : lines[k] # <<>> /\ ~StartsWith(lines[k], <<"---">>)}
\* Empty lines are dropped from all objects but the last.
Pieces(lines, starts) ==
  [k \in 1 .. Len(starts) - 1 |->
    Joined(SelectSeq(SubSeq(lines, starts[k], starts[k + 1] - 1),
                     LAMBDA x : x # <<>> \/ k = Len(starts) - 1))]
Objects(lines, some, end) ==
  IF some = {} THEN <<>>
  ELSE Pieces(lines, Ascending(ObjectStarts(lines, some), end) \o <<end>>)
ObjectsUpTo(lines, end) == Objects(lines, ObjectLines(lines, end), end)
ObjectsOf(lines) == ObjectsUpTo(lines, Min(Dots(lines) \cup {Len(lines) + 1}))
read_obj(text) == ObjectsOf(LinesOf(text))

Parsed(objects) == [k \in Index(objects) |-> read_keyvalue(objects[k])]
KeyValues(text) == Parsed(read_obj(text))

Entries(objects) == [k \in Index(objects) |-> read_keyvalue(btrimws(objects[k])).key]
read_yaml_ptt_list(text) ==
  SelectSeq(Entries(read_obj(text)), LAMBDA x : x # <<>>)

Named(kvs) == [k \in Index(kvs) |-> [name |-> kvs[k].key, value |-> btrimws(kvs[k].value)]]
read_yaml_ptt_dict(text) == Named(KeyValues(text))

Behind(lines, dots) ==
  {k \in Index(lines) : (\E d \in dots : d < k) /\ k \notin dots}
Chosen(lines, places) == [k \in Index(places) |-> lines[places[k]]]
CodeLines(lines) == Chosen(lines, Ascending(Behind(lines, Dots(lines)), Len(lines)))
read_code(text) == btrimws(Joined(CodeLines(LinesOf(text))))

-----------------------------------------------------------------------------
(***************************************************************************)
(* The sections.  A stream begins without dimensions; its type is whatever *)
(* memory held, and a value is read as the type known so far.              *)
(***************************************************************************)
NoStream(name) ==
  [name |-> name, num_dims |-> <<"?">>, type |-> <<"?">>, dims |-> <<>>, sizes |-> <<>>,
   offsets |-> <<>>, data |-> <<>>, initialization |-> FALSE]

(* The settings that are lists, and where they are kept. *)
StreamLists == [dimsizes |-> "dims", offsets |-> "offsets", sizes |-> "sizes"]

(* Keys told apart by their first three letters. *)
StreamSetting_Prefix(s, kv) ==
  CASE kv.key \in {<<"dimensions">>, <<"dimsizes">>} ->
         [s EXCEPT !.num_dims = btrimws(kv.value)]
    [] kv.key = <<"datatype">> -> [s EXCEPT !.type = btrimws(kv.value)]
    [] OTHER -> s

StreamSetting(s, kv) ==
  CASE kv.key = <<"dimensions">> -> [s EXCEPT !.num_dims = btrimws(kv.value)]
    [] kv.key = <<"datatype">> -> [s EXCEPT !.type = btrimws(kv.value)]
    [] kv.key = <<"initialization">> -> [s EXCEPT !.data = <<s.type, btrimws(kv.value)>>]
    [] kv.key = <<"options">> ->
         [s EXCEPT !.initialization = @ \/ read_yaml_ptt_list(kv.value)[1] = <<"perthread">>]
    [] kv.key \in {<<l>> : l \in DOMAIN StreamLists} ->
         [s EXCEPT ![StreamLists[kv.key[1]]] = @ \o read_yaml_ptt_list(kv.value)]
    [] OTHER -> s

ParameterSetting(p, kv) ==
  CASE kv.key = <<"description">> -> [p EXCEPT !.description = btrimws(kv.value)]
    [] kv.key = <<"options">> -> [p EXCEPT !.options = @ \o read_yaml_ptt_list(kv.value)]
    [] kv.key = <<"default">> -> [p EXCEPT !.defvalue = btrimws(kv.value)]
    [] OTHER -> p

ReadStream(name, kvs) ==
  LET after[n \in 0 .. Len(kvs)] ==
        IF n = 0 THEN NoStream(name) ELSE StreamSetting(after[n - 1], kvs[n])
  IN  after[Len(kvs)]

NoParameter(name) ==
  [name |-> name, description |-> <<>>, options |-> <<>>, defvalue |-> <<>>]

ReadParameter(name, kvs) ==
  LET after[n \in 0 .. Len(kvs)] ==
        IF n = 0 THEN NoParameter(name) ELSE ParameterSetting(after[n - 1], kvs[n])
  IN  after[Len(kvs)]

ReadStreams(kvs) == [k \in Index(kvs) |-> ReadStream(kvs[k].key, KeyValues(kvs[k].value))]
ReadParameters(kvs) ==
  [k \in Index(kvs) |-> ReadParameter(kvs[k].key, KeyValues(kvs[k].value))]

ReadSection(c, kv) ==
  LET sections ==
        [Streams |-> [c EXCEPT !.streams = ReadStreams(KeyValues(kv.value))],
         Name |-> [c EXCEPT !.name = btrimws(kv.value)],
         Variables |-> [c EXCEPT !.vars = read_yaml_ptt_dict(kv.value)],
         Constants |-> [c EXCEPT !.constants = read_yaml_ptt_dict(kv.value)],
         Metrics |-> [c EXCEPT !.metrics = read_yaml_ptt_dict(kv.value)],
         Parameters |-> [c EXCEPT !.params = ReadParameters(KeyValues(kv.value))],
         FeatureFlag |-> [c EXCEPT !.flags = @ \o read_yaml_ptt_list(kv.value)],
         RequireWorkgroup |-> [c EXCEPT !.requirewg = @ \/ btrimws(kv.value) = <<"true">>]]
  IN  IF Len(kv.key) = 1 /\ kv.key[1] \in DOMAIN sections THEN sections[kv.key[1]] ELSE c

-----------------------------------------------------------------------------
(***************************************************************************)
(* What is in a file: nodes [dash, key, value, nodes], each one indented   *)
(* by two more than the one it belongs to.                                 *)
(***************************************************************************)
RECURSIVE Written(_, _)
Written(nodes, indent) ==
  FlattenSeq([k \in Index(nodes) |->
    LET n == nodes[k]
        dash == IF n.dash THEN <<"-", " ">> ELSE <<>>
        colon == IF n.value = <<>> /\ n.nodes = <<>> THEN <<>> ELSE <<":", " ">>
    IN  [m \in 1 .. indent |-> " "] \o dash \o n.key \o colon \o n.value \o <<NL>>
          \o Written(n.nodes, indent + 2)])

bptt == <<"---", NL>> \o Written(file.nodes, 0) \o <<"...", NL>> \o file.code

Init ==
  /\ file \in Kernels
  /\ objs = <<>>
  /\ conf = [name |-> <<>>, streams |-> <<>>, vars |-> <<>>, constants |-> <<>>,
             metrics |-> <<>>, params |-> <<>>, flags |-> <<>>, requirewg |-> FALSE,
             code |-> <<>>]
  /\ pc = "open"

open ==
  /\ pc = "open"
  /\ objs' = read_obj(bptt)
  /\ pc' = "sections"
  /\ UNCHANGED <<file, conf>>

read_section ==
  /\ pc = "sections"
  /\ objs # <<>>
  /\ conf' = ReadSection(conf, read_keyvalue(Head(objs)))
  /\ objs' = Tail(objs)
  /\ UNCHANGED <<file, pc>>

close ==
  /\ pc = "sections"
  /\ objs = <<>>
  /\ conf' = [conf EXCEPT !.code = read_code(bptt)]
  /\ pc' = "done"
  /\ UNCHANGED <<file, objs>>

Next == open \/ read_section \/ close

Spec == Init /\ [][Next]_vars

-----------------------------------------------------------------------------
(***************************************************************************)
(* What the nodes say.                                                     *)
(***************************************************************************)
Keyed(nodes, key) == SelectSeq(nodes, LAMBDA n : n.key = <<key>>)
NodesOf(s) == [k \in Index(s) |-> s[k].nodes]
KeysOf(s) == [k \in Index(s) |-> s[k].key]
ValuesOf(s) == [k \in Index(s) |-> s[k].value]
Under(nodes, key) == FlattenSeq(NodesOf(Keyed(nodes, key)))
ValueOf(nodes, key) == FlattenSeq(ValuesOf(Keyed(nodes, key)))
KeysUnder(nodes, key) == KeysOf(Under(nodes, key))
PairsOf(s) == [k \in Index(s) |-> [name |-> s[k].key, value |-> s[k].value]]
Pairs(key) == PairsOf(Under(file.nodes, key))

(* Every name, value and formula is read from where it was written,        *)
(* whatever dashes and colons there are in values and in the code.         *)
ReadsAsWritten ==
  pc = "done" =>
    /\ conf.name = ValueOf(file.nodes, "Name")
    /\ conf.vars = Pairs("Variables")
    /\ conf.constants = Pairs("Constants")
    /\ conf.metrics = Pairs("Metrics")
    /\ conf.flags = KeysUnder(file.nodes, "FeatureFlag")
    /\ conf.requirewg = (ValueOf(file.nodes, "RequireWorkgroup") = <<"true">>)
    /\ conf.code = btrimws(file.code)
    /\ Len(conf.streams) = Len(Under(file.nodes, "Streams"))
    /\ Len(conf.params) = Len(Under(file.nodes, "Parameters"))
    /\ \A k \in Index(conf.params) :
         LET p == Under(file.nodes, "Parameters")[k]
         IN  conf.params[k] = [name |-> p.key,
                               description |-> ValueOf(p.nodes, "description"),
                               options |-> KeysUnder(p.nodes, "options"),
                               defvalue |-> ValueOf(p.nodes, "default")]

(* Streams have the type, the dimensions, the first value and the parts    *)
(* that are written for them, in whatever order once the type is known.    *)
StreamsAsWritten ==
  pc = "done" =>
    \A k \in Index(conf.streams) :
      LET n == Under(file.nodes, "Streams")[k]
          s == conf.streams[k]
      IN  /\ s.name = n.key
          /\ s.type = ValueOf(n.nodes, "datatype")
          /\ s.num_dims = ValueOf(n.nodes, "dimensions")
          /\ s.dims = KeysUnder(n.nodes, "dimsizes")
          /\ s.offsets = KeysUnder(n.nodes, "offsets")
          /\ s.sizes = KeysUnder(n.nodes, "sizes")
          /\ s.initialization = (KeysUnder(n.nodes, "options") = <<<<"perthread">>>>)
          /\ LET first == ValueOf(n.nodes, "initialization")
             IN  s.data = IF first = <<>> THEN <<>> ELSE <<s.type, first>>
=============================================================================
