------------------------------- MODULE Tokens -------------------------------
(***************************************************************************)
(* The tokenizer of src/calculator.c.  A text is a sequence of symbols: a  *)
(* character, or a whole function name, which stands for its letters.  A   *)
(* token is a sequence of symbols.                                         *)
(***************************************************************************)
EXTENDS Integers, Sequences, SequencesExt

Aggregates == {"min", "max", "sum", "avg", "mean", "median", "var"}
Specials   == {"nan", "inf"}
Functions1 == {"abs", "floor", "ceil", "sqrt", "log"}   \* of one argument

\* type of a symbol
type(ch) ==
  CASE ch \in {"+", "-"}           -> "addop"
    [] ch \in {"*", "/", "%"}      -> "multop"
    [] ch = "^"                    -> "expop"
    [] ch = "("                    -> "lparen"
    [] ch = ")"                    -> "rparen"
    [] ch = "."                    -> "decimal"
    [] ch = " "                    -> "space"
    [] ch = ","                    -> "argsep"
    [] ch \in {"0", "1", "2", "3"} -> "digit"
    [] ch \in {"E", "x"} \cup Specials \cup Aggregates \cup Functions1
                                   -> "text"
    [] OTHER                       -> "invalid"

isSpecialValue(tk) == Len(tk) = 1 /\ tk[1] \in Specials

isFunction(tk) == Len(tk) = 1 /\ tk[1] \in Aggregates \cup Functions1

\* The type of a token; "invalid" for the NULL that an empty stack yields.
RECURSIVE tokenType(_)
tokenType(tk) ==
  IF tk = <<>> THEN "invalid"
  ELSE LET t == type(tk[1])
       IN  CASE t = "text" -> IF isFunction(tk) THEN "function"
                              ELSE IF isSpecialValue(tk) THEN "value"
                              ELSE "identifier"
             [] t = "addop" /\ tk[1] = "-" /\ Len(tk) > 1 -> tokenType(Tail(tk))
             [] t \in {"decimal", "digit"} -> "value"
             [] OTHER -> t

-----------------------------------------------------------------------------

\* Once the number has an exponent, any sign is taken.
ExponentSign(s, k, exp) == s[k] \in {"+", "-"} /\ exp

\* The last position of the number whose symbols before k have been taken.
RECURSIVE NumberEnd(_, _, _, _)
NumberEnd(s, k, dec, exp) ==
  IF k > Len(s) THEN k - 1
  ELSE CASE type(s[k]) = "digit"            -> NumberEnd(s, k + 1, dec, exp)
         [] type(s[k]) = "decimal" /\ ~ dec -> NumberEnd(s, k + 1, TRUE, exp)
         [] s[k] = "E" /\ ~ exp             -> NumberEnd(s, k + 1, dec, TRUE)
         [] ExponentSign(s, k, exp)         -> NumberEnd(s, k + 1, dec, exp)
         [] OTHER                           -> k - 1

RECURSIVE TextEnd(_, _)
TextEnd(s, k) ==
  IF k < Len(s) /\ type(s[k + 1]) = "text" THEN TextEnd(s, k + 1) ELSE k

\* A minus starts a number where no operand has just ended.
NegativeAllowed(toks) ==
  toks = <<>> \/ tokenType(Last(toks)) \in
                   {"addop", "multop", "expop", "lparen", "argsep"}

\* The end of the token that starts at k.
TokenEnd(s, k, toks) ==
  CASE s[k] = "-" /\ NegativeAllowed(toks) -> NumberEnd(s, k + 1, FALSE, FALSE)
    [] type(s[k]) = "digit"                -> NumberEnd(s, k + 1, FALSE, FALSE)
    [] type(s[k]) = "decimal"              -> NumberEnd(s, k + 1, TRUE, FALSE)
    [] type(s[k]) = "text"                 -> TextEnd(s, k)
    [] OTHER                               -> k

\* The tokens of s from k on; an invalid symbol ends the text.
RECURSIVE TokensFrom(_, _, _)
TokensFrom(s, k, toks) ==
  IF k > Len(s) \/ (k <= Len(s) /\ type(s[k]) = "invalid") THEN toks
  ELSE IF type(s[k]) = "space" THEN TokensFrom(s, k + 1, toks)
  ELSE LET e  == TokenEnd(s, k, toks)
           tk == (IF s[k] = "." THEN <<"0">> ELSE <<>>) \o SubSeq(s, k, e)
       IN  TokensFrom(s, e + 1, Append(toks, tk))

CountOf(toks, types) ==
  Len(SelectSeq(toks, LAMBDA tk : tokenType(tk) \in types))

\* tokenize: no tokens where the code returns an error: parentheses that do
\* not balance in number, or nothing but operators and parentheses.
tokenize(s) ==
  LET toks == TokensFrom(s, 1, <<>>)
      lpar == CountOf(toks, {"lparen"})
      rpar == CountOf(toks, {"rparen"})
      ops  == CountOf(toks, {"addop", "multop", "expop"})
  IN  IF lpar # rpar \/ Len(toks) = lpar + rpar + ops THEN <<>> ELSE toks

-----------------------------------------------------------------------------

\* How many symbols of s from k on are digits.
RECURSIVE Digits(_, _)
Digits(s, k) ==
  IF k <= Len(s) /\ type(s[k]) = "digit" THEN 1 + Digits(s, k + 1) ELSE 0

\* buildNumber: strtod reads the longest numeral at the start of a token.
buildNumber(tk) ==
  LET sign == IF tk[1] = "-" THEN 1 ELSE 0
      int  == sign + Digits(tk, sign + 1)
      mant == IF int < Len(tk) /\ tk[int + 1] = "."
              THEN int + 1 + Digits(tk, int + 2) ELSE int
      e    == mant + 1
      esgn == IF e < Len(tk) /\ tk[e + 1] \in {"+", "-"} THEN 1 ELSE 0
      exp  == Digits(tk, e + esgn + 1)
  IN  IF isSpecialValue(tk) THEN tk
      ELSE IF e <= Len(tk) /\ tk[e] = "E" /\ exp > 0
      THEN SubSeq(tk, 1, e + esgn + exp) ELSE SubSeq(tk, 1, mant)
=============================================================================
