------------------------------- MODULE Texts -------------------------------
(***************************************************************************)
(* Texts and the replacement of names in them.  A text is a sequence of    *)
(* words, cut so that one name occurs in another as in the program: "N" in *)
(* "NUM_THREADS", "STR1" in "STR10".                                       *)
(***************************************************************************)
EXTENDS Integers, Sequences, SequencesExt, FiniteSetsExt

Index(s) == 1 .. Len(s)

blength(text) == FoldLeft(LAMBDA n, word : n + Len(word), 0, text)

(* bstrncmp with the length of the prefix. *)
StartsWith(text, prefix) ==
  Len(prefix) <= Len(text) /\ SubSeq(text, 1, Len(prefix)) = prefix

OccursAt(name, text, i) ==
  i + Len(name) - 1 <= Len(text) /\ \A j \in Index(name) : text[i + j - 1] = name[j]

binstr(text, name) == \E i \in Index(text) : OccursAt(name, text, i)

bfindreplace(text, name, by) ==
  LET from[i \in 1 .. Len(text) + 1] ==
        IF i > Len(text) THEN <<>>
        ELSE IF OccursAt(name, text, i) THEN by \o from[i + Len(name)]
        ELSE <<text[i]>> \o from[i + 1]
  IN  from[1]

InOrder(keys) == keys

(* Keys [name, text], the longest names first: a short name may be part of *)
(* a longer one.                                                           *)
LongestFirst(keys) ==
  LET max_len == Max({0} \cup {blength(v.name) : v \in Range(keys)})
  IN  FlattenSeq([i \in 1 .. max_len |->
        SelectSeq(keys, LAMBDA v : blength(v.name) = max_len - i + 1)])

ReplaceKeys(keys, text) ==
  FoldLeft(LAMBDA t, v : bfindreplace(t, v.name, v.text), text, LongestFirst(keys))
=============================================================================
