---------------------------- MODULE MCCalculator ----------------------------
(***************************************************************************)
(* Formulas and the texts they are written as, and short arbitrary texts.  *)
(***************************************************************************)
EXTENDS Calculator

Ops == {"+", "-", "*", "/", "%", "^"}

\* Formulas over the numbers 0 and -1.
RECURSIVE FormulasOf(_)
FormulasOf(n) ==
  IF n = 0 THEN {<<"num", <<"0">>>>, <<"num", <<"-", "1">>>>}
  ELSE LET F == FormulasOf(n - 1)
       IN  F \cup {<<op, <<l, r>>>> : op \in Ops, l \in F, r \in F}
             \cup {<<"sum", <<a>>>> : a \in F}
             \cup {<<"sum", <<a, b>>>> : a \in F, b \in F}

IsOp(f) == f[1] \in Ops

\* Whether an operand needs parentheses, at the side where the operator of
\* its parent associates or at the other.
Needs(op, f, assocSide) ==
  /\ IsOp(f)
  /\ LET d == Rank(type(f[1])) - Rank(type(op))
     IN  d < 0 \/ (d = 0 /\ ~ assocSide)

Parens(t, yes) == IF yes THEN <<"(">> \o t \o <<")">> ELSE t

\* The text of a formula, with all parentheses or those needed.
RECURSIVE Text(_, _)
Text(f, all) ==
  CASE f[1] = "num" -> f[2]
    [] IsOp(f) ->
         LET left == type(f[1]) # "expop"
             l == f[2][1]
             r == f[2][2]
         IN  Parens(Text(l, all), all \/ Needs(f[1], l, left)) \o <<f[1]>>
               \o Parens(Text(r, all), all \/ Needs(f[1], r, ~ left))
    [] OTHER ->
         <<f[1], "(">> \o Text(f[2][1], all)
           \o (IF Len(f[2]) = 2 THEN <<",">> \o Text(f[2][2], all) ELSE <<>>)
           \o <<")">>

FormulaTexts ==
  {<<Text(f, all), f>> : f \in FormulasOf(2), all \in BOOLEAN}

\* Any text of up to four symbols, and of five that are well-formed numbers,
\* operators, parentheses and functions.
Symbols == {"1", "-", "(", ")", ",", "sum"}
AnyTexts ==
  {<<t, <<>>>> : t \in UNION {[1 .. n -> Symbols \cup {"x", "nan"}] : n \in 1 .. 4}
                       \cup [1 .. 5 -> Symbols]}
=============================================================================
