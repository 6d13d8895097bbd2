------------------------------ MODULE CodeGen ------------------------------
(***************************************************************************)
(* From the lines of a kernel file to assembly: prepare_ptt with its       *)
(* rounds and generate_code (src/ptt2asm.c), parse_loop and parse_dummy    *)
(* (include/ptt_keyword_*.h), loopheader and loopfooter                    *)
(* (include/isa_x86-64.h).                                                 *)
(*                                                                         *)
(* A line is [op, args]: an instruction, a keyword or what a keyword       *)
(* becomes.  Its arguments are Texts.  LOOP(l, r=s, d, c=e, t) has the     *)
(* arguments l, r, s, d, c, e, t.                                          *)
(***************************************************************************)
EXTENDS Texts, FiniteSets

CONSTANTS
  Kernels,     \* [name, code, streams, vars]; a stream is [name, dims, sizes, ptr]
  Registers    \* the registers the generator knows, as Texts, in order

VARIABLES
  kernel,
  pttin,       \* the code this round starts with
  round,
  regsused,    \* registers found in the code
  prepared,    \* what prepare_ptt returns and puts out: [err, code]
  keys,        \* names and what replaces them
  codelines,   \* the generated code
  pc

vars == <<kernel, pttin, round, regsused, prepared, keys, codelines, pc>>

EINVAL == 22
LineOf(op, args) == [op |-> op, args |-> args]

ptt_keys == <<[begin |-> "LOOP", end |-> "LOOPEND"], [begin |-> "DUMMY", end |-> "DUMMYEND"]>>
openkeys == {k.begin : k \in Range(ptt_keys)}
closekeys == {k.end : k \in Range(ptt_keys)}
EndOf(begin) == (CHOOSE k \in Range(ptt_keys) : k.begin = begin).end

get_name(line) == line.args[1]
toComment(line) == LineOf("#", <<<<line.op>>>> \o line.args)

-----------------------------------------------------------------------------
(***************************************************************************)
(* What a LOOP becomes.  The constants of comparisons are tested as        *)
(* prefixes (bstrncmp).                                                    *)
(***************************************************************************)
loopheader(name, reg, start, condreg, cond) ==
  LET At(word) == {i \in Index(cond) : i > 1 /\ cond[i] = word}
      Split(i, op) == <<LineOf("mov", <<condreg, <<"#">> \o SubSeq(cond, 1, i - 1)>>),
                        LineOf(op, <<condreg, SubSeq(cond, i + 1, Len(cond))>>)>>
      bound == IF StartsWith(cond, <<"0">>) THEN <<LineOf("xor", <<condreg, condreg>>)>>
               ELSE IF At("+") # {} THEN Split(Min(At("+")), "add")
               ELSE IF At("-") # {} THEN Split(Min(At("-")), "sub")
               ELSE <<LineOf("mov", <<condreg, <<"#">> \o cond>>)>>
      init == IF StartsWith(start, <<"0">>) THEN LineOf("xor", <<reg, reg>>)
              ELSE LineOf("mov", <<reg, start>>)
  IN  <<init>> \o bound \o <<LineOf("label", <<name>>)>>

Jump(dir, jump) == [dir |-> dir, jump |-> jump]

Jumps_Swapped == <<Jump(<<"<">>, "jg"), Jump(<<">">>, "jl"), Jump(<<"=", "=">>, "je")>>

(* The jumps in the order they are tried; with none the line is not set.   *)
Jumps == <<Jump(<<"<">>, "jl"), Jump(<<"<", "=">>, "jle"), Jump(<<">">>, "jg"),
           Jump(<<">", "=">>, "jge"), Jump(<<"=", "=">>, "je"), Jump(<<"!", "=">>, "jne")>>

jumpline(dir) ==
  LET fit == SelectSeq(Jumps, LAMBDA j : StartsWith(dir, j.dir))
  IN  IF fit = <<>> THEN "uninitialized" ELSE fit[1].jump

loopfooter(name, reg, condreg, dir, step) ==
  <<LineOf("add", <<reg, step>>), LineOf("cmp", <<reg, condreg>>),
    LineOf(jumpline(dir), <<name>>)>>

Parsed(err, code) == [err |-> err, code |-> code]

parse_loop(body) ==
  LET a == body[1].args
  IN  IF Len(a) # 7 \/ get_name(Last(body)) # a[1] THEN Parsed(EINVAL, <<>>)
      ELSE Parsed(0, <<toComment(body[1])>> \o loopheader(a[1], a[2], a[3], a[5], a[6])
                     \o SubSeq(body, 2, Len(body) - 1)
                     \o <<toComment(Last(body))>> \o loopfooter(a[1], a[2], a[5], a[4], a[7]))

parse_dummy(body) ==
  IF Len(body[1].args) # 1 \/ get_name(Last(body)) # get_name(body[1])
  THEN Parsed(EINVAL, <<>>)
  ELSE Parsed(0, <<toComment(body[1])>> \o SubSeq(body, 2, Len(body) - 1)
                 \o <<toComment(Last(body))>>)

-----------------------------------------------------------------------------
(***************************************************************************)
(* _analyse_keyword: the first keyword of the code is expanded, then those *)
(* in what it becomes.                                                     *)
(***************************************************************************)
Openings(code) == {i \in Index(code) : code[i].op \in openkeys}

(* The first line that closes the keyword of line i: 0 if there is none. *)
ClosingOfAnyName(code, i) ==
  LET close == {j \in Index(code) : j > i /\ code[j].op = EndOf(code[i].op)}
  IN  IF close = {} THEN 0 ELSE Min(close)

Closing(code, i) ==
  LET close == {j \in Index(code) : /\ j > i /\ code[j].op = EndOf(code[i].op)
                                    /\ get_name(code[j]) = get_name(code[i])}
  IN  IF close = {} THEN 0 ELSE Min(close)

RECURSIVE _analyse_keyword(_)
_analyse_keyword(code) ==
  IF Openings(code) = {} THEN Parsed(0, code)
  ELSE LET i == Min(Openings(code))
           j == Closing(code, i)
           body == SubSeq(code, i, j)
           parsed == IF code[i].op = "LOOP" THEN parse_loop(body) ELSE parse_dummy(body)
           nested == _analyse_keyword(parsed.code)
       IN  IF j = 0 THEN Parsed(EINVAL, <<>>)
           ELSE IF parsed.err # 0 THEN parsed
           ELSE IF nested.err # 0 THEN Parsed(nested.err, <<>>)
           ELSE Parsed(0, SubSeq(code, 1, i - 1) \o nested.code
                          \o SubSeq(code, j + 1, Len(code)))

(***************************************************************************)
(* prepare_ptt.  Pairs of equal labels are counted, not matched.           *)
(***************************************************************************)
Labels(code, ops) == [i \in {j \in Index(code) : code[j].op \in ops} |-> get_name(code[i])]

LabelsExist(code) ==
  DOMAIN Labels(code, openkeys) # {} /\ DOMAIN Labels(code, closekeys) # {}

LabelsMatch(code) ==
  LET open == Labels(code, openkeys)
      close == Labels(code, closekeys)
      both == {p \in (DOMAIN open) \X (DOMAIN close) : open[p[1]] = close[p[2]]}
  IN  /\ DOMAIN open # {} /\ DOMAIN close # {}
      /\ Cardinality(both) = Cardinality(DOMAIN open)
      /\ Cardinality(both) = Cardinality(DOMAIN close)

prepare_ptt ==
  /\ pc = "prepare"
  /\ IF kernel.code = <<>> \/ ~LabelsMatch(kernel.code)
     THEN /\ prepared' = Parsed(EINVAL, <<>>)
          /\ pc' = "replacements"
          /\ UNCHANGED pttin
     ELSE /\ pttin' = kernel.code
          /\ pc' = "rounds"
          /\ UNCHANGED prepared
  /\ UNCHANGED <<kernel, round, regsused, keys, codelines>>

RegistersOf(line) ==
  SelectSeq(Registers, LAMBDA r : \E a \in Range(line.args) : binstr(a, r))

RegistersOfInstructions(code) ==
  FlattenSeq([i \in Index(code) |->
    IF code[i].op \in openkeys THEN <<>> ELSE RegistersOf(code[i])])

RegistersIn(code) == FlattenSeq([i \in Index(code) |-> RegistersOf(code[i])])

(* What starts with an earlier entry counts as its duplicate. *)
bstrListRemoveDup(sl) ==
  FoldLeft(LAMBDA kept, x : IF \E k \in Range(kept) : StartsWith(x, k) THEN kept
                            ELSE Append(kept, x),
           <<>>, sl)

(* A round ignores the result of _analyse_keyword: the code is empty then. *)
analyse ==
  /\ pc = "rounds"
  /\ LET pttout == _analyse_keyword(pttin).code
     IN  IF \E l \in Range(pttout) : l.op \in openkeys \cup closekeys
         THEN /\ pttin' = pttout
              /\ UNCHANGED <<prepared, pc>>
         ELSE /\ prepared' = Parsed(0, pttout)
              /\ pc' = "replacements"
              /\ UNCHANGED pttin
  /\ regsused' = bstrListRemoveDup(regsused \o RegistersIn(pttin))
  /\ round' = round + 1
  /\ UNCHANGED <<kernel, keys, codelines>>

-----------------------------------------------------------------------------
(***************************************************************************)
(* generate_code.                                                          *)
(***************************************************************************)
bstrptr == <<"#STREAMPTRFORREPLACMENT">>
NAME == <<"N", "AME">>

header(name) ==
  <<LineOf("label", <<name>>), LineOf("push", <<>>), LineOf("streams", <<bstrptr>>)>>
footer(name) == <<LineOf("pop", <<>>), LineOf("size", <<name>>)>>

(* The loop over registers ends at the number of those still available.    *)
RemoveUsed(avail, used) ==
  FoldLeft(LAMBDA a, r : IF r <= Len(a) THEN SelectSeq(a, LAMBDA x : x # Registers[r]) ELSE a,
           avail,
           SelectSeq([r \in Index(Registers) |-> r], LAMBDA r : StartsWith(used, Registers[r])))

regsavail == FoldLeft(RemoveUsed, Registers, regsused)

Key(name, text) == [name |-> name, text |-> text]

StreamKeys(s, reg) ==
  <<Key(kernel.streams[s].name, reg)>>
    \o [d \in Index(kernel.streams[s].dims) |->
          Key(<<"#">> \o kernel.streams[s].dims[d], kernel.streams[s].sizes[d])]

(* Loads of all pointers, in one line. *)
StreamLoads ==
  FlattenSeq([s \in Index(kernel.streams) |->
    <<"mov">> \o regsavail[s] \o <<kernel.streams[s].ptr>>])

_generate_replacement_lists ==
  LET named == <<Key(NAME, kernel.name)>>
      ofstreams == FlattenSeq([s \in Index(kernel.streams) |-> StreamKeys(s, regsavail[s])])
      loads == IF kernel.streams = <<>> THEN <<>> ELSE <<Key(bstrptr, StreamLoads)>>
  IN  /\ pc = "replacements"
      /\ keys' = IF Len(kernel.streams) > Len(regsavail) THEN <<>>
                 ELSE named \o ofstreams \o loads \o kernel.vars
      /\ pc' = "replace"
      /\ UNCHANGED <<kernel, pttin, round, regsused, prepared, codelines>>

(* Errors of prepare_ptt and of the lists are ignored; generate_code       *)
(* returns 0.                                                              *)
generate_code ==
  /\ pc = "replace"
  /\ LET tmp == header(kernel.name) \o prepared.code \o footer(kernel.name)
         Replaced(l) == [l EXCEPT !.args = [a \in Index(@) |-> ReplaceKeys(keys, @[a])]]
     IN  codelines' = <<>> \o [i \in Index(tmp) |-> Replaced(tmp[i])]
  /\ pc' = "done"
  /\ UNCHANGED <<kernel, pttin, round, regsused, prepared, keys>>

Init ==
  /\ kernel \in Kernels
  /\ pttin = <<>>
  /\ round = 0
  /\ regsused = <<>>
  /\ prepared = Parsed(0, <<>>)
  /\ keys = <<>>
  /\ codelines = <<>>
  /\ pc = "prepare"

Next == prepare_ptt \/ analyse \/ _generate_replacement_lists \/ generate_code

Spec == Init /\ [][Next]_vars

-----------------------------------------------------------------------------
(***************************************************************************)
(* What the generated code must be.  A code is well nested if every        *)
(* keyword is closed by its own end, inside out, with labels used once.    *)
(***************************************************************************)
Keywords(code) == {i \in Index(code) : code[i].op \in openkeys \cup closekeys}

Nested(code) ==
  LET Step(stack, l) ==
        IF l.op \in openkeys THEN <<l>> \o stack
        ELSE IF l.op \notin closekeys THEN stack
        ELSE IF stack # <<>> /\ stack[1].op \in openkeys
                  /\ EndOf(stack[1].op) = l.op /\ stack[1].args[1] = l.args[1]
             THEN Tail(stack) ELSE <<LineOf("mismatch", <<>>)>>
  IN  FoldLeft(Step, <<>>, code) = <<>>

WellFormed(code) ==
  /\ Keywords(code) # {} /\ Nested(code)
  /\ \A i, j \in Openings(code) : i # j => code[i].args[1] # code[j].args[1]
  /\ \A i \in Openings(code) : Len(code[i].args) = IF code[i].op = "LOOP" THEN 7 ELSE 1

(* Line by line, with the opening of a LOOPEND found by its label. *)
Expansion(code) ==
  LET Opening(l) == code[CHOOSE i \in Openings(code) : code[i].args[1] = l.args[1]].args
      Lines(l) ==
        CASE l.op = "LOOP" ->
               <<toComment(l)>> 
                  \o loopheader(l.args[1], l.args[2], l.args[3], l.args[5], l.args[6])
          [] l.op = "LOOPEND" ->
               LET o == Opening(l)
               IN  <<toComment(l)>> \o loopfooter(o[1], o[2], o[5], o[4], o[7])
          [] l.op \in {"DUMMY", "DUMMYEND"} -> <<toComment(l)>>
          [] OTHER -> <<l>>
  IN  FlattenSeq([i \in Index(code) |-> Lines(code[i])])

Generated == pc \in {"replacements", "replace", "done"}

(* Nested keywords and keywords after each other are all expanded, each in *)
(* its place, whatever the order in which the rounds and the recursion     *)
(* find them.                                                              *)
ExpandsAll ==
  Generated /\ WellFormed(kernel.code) => prepared = Parsed(0, Expansion(kernel.code))

(* The rounds end for every code the labels of which were accepted: a      *)
(* keyword that is left over never makes them start again for ever.        *)
RoundsEnd == round <= Cardinality(Openings(kernel.code)) + 1

(* A stream's pointer is in a register the kernel does not use and no      *)
(* other stream has, if the code is well formed; of a malformed one only   *)
(* an empty body is generated.                                             *)
StreamRegisters ==
  pc = "replace" /\ keys # <<>> /\ WellFormed(kernel.code) =>
    \A s, t \in Index(kernel.streams) :
      /\ ~ \E l \in Range(kernel.code) : \E a \in Range(l.args) : a = regsavail[s]
      /\ s # t => regsavail[s] # regsavail[t]

(* Loops start and go on as they are written: the register starts at the   *)
(* value given, and the jump tests the condition given.                    *)
Condition == [jl |-> <<"<">>, jle |-> <<"<", "=">>, jg |-> <<">">>, jge |-> <<">", "=">>,
              je |-> <<"=", "=">>, jne |-> <<"!", "=">>]
LoopsAsWritten ==
  pc = "done" /\ WellFormed(kernel.code) =>
    \A i \in Openings(kernel.code) : kernel.code[i].op = "LOOP" =>
      LET a == kernel.code[i].args
          start == IF a[3] = <<"0">> THEN LineOf("xor", <<a[2], a[2]>>)
                   ELSE LineOf("mov", <<a[2], a[3]>>)
      IN  /\ start \in Range(codelines)
          /\ \E j \in Range(codelines) :
               j.op \in DOMAIN Condition /\ Condition[j.op] = a[4] /\ j.args = <<a[1]>>

(* An operand that is a name becomes what the name stands for, and no      *)
(* operand is cut off by "#", which starts a comment in x86-64 assembly.   *)
Assembles ==
  pc = "done" /\ keys # <<>> /\ WellFormed(kernel.code) =>
    \A i \in Index(prepared.code) : prepared.code[i].op # "#" =>
      \A a \in Index(prepared.code[i].args) :
        LET text == prepared.code[i].args[a]
            operand == codelines[i + Len(header(kernel.name))].args[a]
            named == {k \in Range(keys) : k.name = text}
        IN  /\ named # {} => \E k \in named : operand = k.text
            /\ "#" \notin Range(operand)
=============================================================================
