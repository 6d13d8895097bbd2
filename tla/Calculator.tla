----------------------------- MODULE Calculator -----------------------------
(***************************************************************************)
(* The evaluation of a formula by src/calculator.c: the shunting-yard loop *)
(* of postfix, which evaluates operators as they leave the operator stack, *)
(* over the stacks of src/stack.c, and calculator_calc around it.          *)
(*                                                                         *)
(* A number is the term that computes it, so that the result of a formula  *)
(* tells how the formula was read; what it amounts to is computed where    *)
(* the code looks at it, at a divisor.  Strings are on several stacks at   *)
(* once and are freed by hand: an item carries an identity, the position   *)
(* of its token, 0 for the constant separator, or a negative number for a  *)
(* string that num2Str has allocated.                                      *)
(***************************************************************************)
EXTENDS Tokens

CONSTANT Texts     \* pairs of a text and the formula it was written from

VARIABLES
  formula,   \* what is to be computed; <<>> for a text that is no formula
  tokens,
  i,         \* position in tokens
  calc,      \* the stacks of postfix, the error, and what has been freed
  pc

vars == <<formula, tokens, i, calc, pc>>

Zero     == <<"num", <<"0">>>>
Nan      == <<"num", <<"nan">>>>
Infinity == <<"num", <<"inf">>>>
SepItem  == [id |-> 0, term |-> <<"sep">>]        \* FUNCTIONSEPARATOR

Item(k) == [id   |-> k,
            term |-> IF tokenType(tokens[k]) = "value"
                     THEN <<"num", buildNumber(tokens[k])>>
                     ELSE <<"tok", tokens[k]>>]

\* What buildNumber reads in the string of a term: 0 if it is no number.
Value(term) == IF term[1] \in {"tok", "sep"} THEN Zero ELSE term

ItemType(it) == IF it.term[1] = "tok" THEN tokenType(it.term[2]) ELSE "value"

\* tokenType(stackTop(s)); an empty stack yields NULL
TopType(s) == IF s = <<>> THEN "invalid" ELSE ItemType(Last(s))

-----------------------------------------------------------------------------

\* The numbers that terms amount to: <<p, q>> is the fraction p/q, with q >= 0;
\* q = 0 for the infinities, and p = 0 as well for NaN.
IsZero(a) == a[1] = 0 /\ a[2] # 0

Plus(a, b) ==
  IF a[2] = 0 /\ b[2] = 0 THEN <<IF a[1] * b[1] > 0 THEN a[1] ELSE 0, 0>>
  ELSE <<a[1] * b[2] + b[1] * a[2], a[2] * b[2]>>

Minus(a, b)  == Plus(a, <<-b[1], b[2]>>)
Times(a, b)  == <<a[1] * b[1], a[2] * b[2]>>
Reciprocal(a) == IF a[1] < 0 THEN <<-a[2], -a[1]>> ELSE <<a[2], a[1]>>
Over(a, b)   == Times(a, Reciprocal(b))

\* The cast to int cuts off towards zero.
Truncated(a) == <<IF a[1] < 0 THEN -((-a[1]) \div a[2]) ELSE a[1] \div a[2], 1>>

\* pow, for whole exponents
Power(a, b) ==
  LET n == b[1] \div b[2]
      Raised(k) == <<a[1] ^ k, a[2] ^ k>>
  IN  CASE b[1] = n * b[2] /\ n = 0 -> <<1, 1>>
        [] b[1] = n * b[2] /\ n > 0 -> Raised(n)
        [] b[1] = n * b[2] /\ n < 0 -> Reciprocal(Raised(-n))

ToDigit(ch) == CHOOSE d \in 0 .. 3 : <<"0", "1", "2", "3">>[d + 1] = ch

Whole(digits) ==
  LET n[k \in 0 .. Len(digits)] ==
        IF k = 0 THEN 0 ELSE 10 * n[k - 1] + ToDigit(digits[k])
  IN  n[Len(digits)]

\* strtod, for whole numbers
Numeral(tk) ==
  CASE tk = <<"nan">> -> <<0, 0>>
    [] tk = <<"inf">> -> <<1, 0>>
    [] tk[1] = "-"    -> <<-Whole(Tail(tk)), 1>>
    [] type(tk[1]) = "digit" -> <<Whole(tk), 1>>

SumOf(args) ==
  LET total[k \in 0 .. Len(args)] ==
        IF k = 0 THEN <<0, 1>> ELSE Plus(total[k - 1], args[k])
  IN  total[Len(args)]

\* of functions, sum alone
Result(f, args) ==
  CASE f = "sum" -> SumOf(args)
    [] f = "+"   -> Plus(args[1], args[2])
    [] f = "-"   -> Minus(args[1], args[2])
    [] f = "*"   -> Times(args[1], args[2])
    [] f = "/"   -> Over(args[1], args[2])
    [] f = "%"   -> Minus(args[1], Times(Truncated(Over(args[1], args[2])), args[2]))
    [] f = "^"   -> Power(args[1], args[2])

\* The number a term stands for.
RECURSIVE Amount(_)
Amount(term) ==
  IF term[1] = "num" THEN Numeral(term[2])
  ELSE Result(term[1], [k \in DOMAIN term[2] |-> Amount(term[2][k])])

-----------------------------------------------------------------------------

\* stackPush: a push on a full stack is refused, and nobody asks.
Push(m, stk, it) ==
  IF Len(m[stk]) < m.size THEN [m EXCEPT ![stk] = Append(@, it)]
                          ELSE [m EXCEPT !.lost = TRUE]

\* A new string from num2Str.
Fresh(m, term) == [id |-> - (m.made + 1), term |-> term]
PushFresh(m, term) == [Push(m, "out", Fresh(m, term)) EXCEPT !.made = @ + 1]

Free(m, s) == [m EXCEPT !.freed = @ \o [k \in DOMAIN s |-> s[k].id]]

\* Only some functions have several arguments.
TooManyInputs(fn, n) == n > 2 /\ fn \notin Aggregates

\* The items above the last separator.
Arguments(s) ==
  LET seps == {k \in DOMAIN s : s[k].term = <<"sep">>}
  IN  SubSeq(s, (IF seps = {} THEN 0 ELSE Max(seps)) + 1, Len(s))

\* doFunc.  An aggregate takes all items down to the separator, the other
\* functions one.  The comparison at the end reads the top of an empty stack.
doFunc(m, fn) ==
  LET n    == Len(m.out)
      n1   == IF fn \in Aggregates /\ n > 0
              THEN 1 + Len(Arguments(Front(m.out))) ELSE 1
      rest == SubSeq(m.out, 1, n - n1)
      args == [k \in 1 .. n1 |-> Value(m.out[n - n1 + k].term)]
  IN  IF n = 0 \/ (n = 1 /\ m.out[1] = SepItem) \/ TooManyInputs(fn, n)
      THEN [PushFresh([m EXCEPT !.out = <<>>], Nan) EXCEPT !.err = TRUE]
      ELSE IF rest = <<>> THEN [m EXCEPT !.crash = TRUE]
      ELSE PushFresh([m EXCEPT !.out =
                        IF Last(rest) = SepItem THEN Front(rest) ELSE rest],
                     <<fn, args>>)

\* Mutant: only a numeral is taken for zero, not a number that was computed.
doOpLiteral(m, op) ==
  LET n    == Len(m.out)
      l    == Value(m.out[n - 1].term)
      r    == Value(m.out[n].term)
      div0 == op \in {"/", "%"} /\ r = Zero
  IN  [PushFresh([m EXCEPT !.out = SubSeq(@, 1, n - 2)],
                 IF div0 THEN Nan ELSE <<op, <<l, r>>>>)
         EXCEPT !.err = div0]

\* doOp.  It is the computed divisor that must not be zero.
doOp(m, op) ==
  LET n == Len(m.out)
      l == Value(m.out[n - 1].term)
      r == Value(m.out[n].term)
      Pushed(div0) ==
        [PushFresh([m EXCEPT !.out = SubSeq(@, 1, n - 2)],
                   IF ~ div0 THEN <<op, <<l, r>>>>
                   ELSE IF IsZero(Amount(l)) THEN Nan ELSE Infinity)
           EXCEPT !.err = div0]
  IN  Pushed(op \in {"/", "%"} /\ IsZero(Amount(r)))

\* evalStackPush.  An operator without two operands is pushed as it is.
evalStackPush(m, it) ==
  CASE ItemType(it) = "function" ->
         LET r == doFunc(m, it.term[2][1])
         IN  IF r.err THEN [Free(r, r.out) EXCEPT !.out = <<>>] ELSE r
    [] ItemType(it) \in {"addop", "multop", "expop"} ->
         IF Len(m.out) >= 2 THEN doOp(m, it.term[2][1]) ELSE Push(m, "out", it)
    [] ItemType(it) = "value" -> Push(m, "out", it)
    [] OTHER -> m

\* The top of the operator stack is evaluated, and the result noted on the
\* stack of intermediate results.
Move(m) ==
  LET r == evalStackPush([m EXCEPT !.ops = Front(@)], Last(m.ops))
  IN  IF r.err \/ r.crash \/ r.out = <<>> THEN r
      ELSE Push(r, "mid", Last(r.out))

MoveWhile(m, Test(_)) ==
  LET RECURSIVE Loop(_)
      Loop(c) == IF ~ c.err /\ ~ c.crash /\ c.ops # <<>> /\ Test(c)
                 THEN Loop(Move(c)) ELSE c
  IN  Loop(m)

-----------------------------------------------------------------------------

Rank(t) == CASE t = "addop" -> 1 [] t = "multop" -> 2 [] t = "expop" -> 3

Operators == {"addop", "multop", "expop"}

\* precedence, by the types of two tokens
precedence(t1, t2) ==
  CASE t1 = t2 -> 0
    [] t1 # t2 /\ {t1, t2} \subseteq Operators -> IF Rank(t1) < Rank(t2) THEN -1 ELSE 1
    [] t1 = "function" /\ t2 \in Operators \cup {"lparen"} -> 1
    [] t1 \in Operators /\ t2 = "function" -> -1
    [] OTHER -> 0

leftAssoc(t) == t \in {"addop", "multop"}

\* Mutant: every operator associates to the left.
YieldsLeft(t, m) ==
  TopType(m.ops) \in Operators /\ precedence(t, TopType(m.ops)) <= 0

\* An operator of type t lets the one on the stack go first.
Yields(t, m) ==
  /\ TopType(m.ops) \in Operators
  /\ precedence(t, TopType(m.ops)) < (IF leftAssoc(t) THEN 1 ELSE 0)

\* Mutant: room for the numbers only.
StackSizeOfValues(toks) == CountOf(toks, {"value"})

\* The capacity of all stacks.
StackSize(toks) == Len(toks)

Init ==
  /\ \E t \in Texts : /\ formula = t[2]
                      /\ tokens = tokenize(t[1])
  /\ i = 1
  /\ calc = [out |-> <<>>, ops |-> <<>>, mid |-> <<>>, size |-> StackSize(tokens),
             made |-> 0, freed |-> <<>>, lost |-> FALSE, crash |-> FALSE,
             err |-> tokens = <<>>]
  /\ pc = "postfix"

\* The token of type t at i is consumed, with c the stacks after it.
Consume(t, c) ==
  /\ pc = "postfix" /\ ~ calc.err /\ ~ calc.crash /\ i <= Len(tokens)
  /\ tokenType(tokens[i]) = t
  /\ calc' = c
  /\ i' = i + 1
  /\ UNCHANGED <<formula, tokens, pc>>

Number == Consume("value", evalStackPush(calc, Item(i)))

Function ==
  Consume("function",
          Push(MoveWhile(calc, LAMBDA m :
                           precedence("function", TopType(m.ops)) <= 0),
               "ops", Item(i)))

\* An operator alone on the stack stays there.
UntilParen(c) ==
  MoveWhile(c, LAMBDA m : TopType(m.ops) # "lparen" /\ Len(m.ops) > 1)

Separator == Consume("argsep", UntilParen(calc))

Operator ==
  \E t \in Operators :
    Consume(t, Push(MoveWhile(calc, LAMBDA m : Yields(t, m)), "ops", Item(i)))

LeftParen ==
  Consume("lparen",
          Push(IF TopType(calc.ops) = "function" THEN Push(calc, "out", SepItem)
                                                 ELSE calc,
               "ops", Item(i)))

\* Back to the left parenthesis, and the function before it.
RightParen ==
  LET c == UntilParen(calc)
      d == [c EXCEPT !.ops = IF @ = <<>> THEN @ ELSE Front(@)]
  IN  Consume("rparen",
        IF c.err \/ c.crash THEN c
        ELSE IF c.ops # <<>> /\ TopType(c.ops) # "lparen"
             THEN [c EXCEPT !.err = TRUE]
        ELSE MoveWhile(d, LAMBDA m : TopType(m.ops) = "function"))

\* The switch has no case for an identifier.
Identifier == Consume("identifier", calc)

\* The operators left at the end; the last intermediate result is kept, the
\* others are freed.
Drain ==
  /\ pc = "postfix" /\ ~ calc.err /\ ~ calc.crash /\ i > Len(tokens)
  /\ LET c == MoveWhile(calc, LAMBDA m : TRUE)
     IN  calc' = IF c.err \/ c.crash \/ c.mid = <<>> THEN c
                 ELSE [Free(c, Front(c.mid)) EXCEPT !.mid = <<>>]
  /\ pc' = "calc"
  /\ UNCHANGED <<formula, tokens, i>>

\* Mutant: the token that is the result is freed with the tokens.
FinishTwice ==
  /\ pc # "done" /\ ~ calc.crash /\ (calc.err \/ pc = "calc")
  /\ calc' =
       LET bad  == calc.err \/ Len(calc.out) # 1
           held == [k \in DOMAIN tokens |-> Item(k)]
       IN  [Free(Free(calc, IF calc.out = <<>> THEN <<>> ELSE <<Last(calc.out)>>),
                 held) EXCEPT !.err = bad]
  /\ pc' = "done"
  /\ UNCHANGED <<formula, tokens, i>>

\* The rest of calculator_calc: after an error the top of the stack is freed,
\* otherwise the only item is the result; then all tokens but the result.
Finish ==
  /\ pc # "done" /\ ~ calc.crash /\ (calc.err \/ pc = "calc")
  /\ calc' =
       LET bad  == ~ calc.err /\ Len(calc.out) # 1
           top  == IF calc.out = <<>> \/ bad THEN <<>> ELSE <<Last(calc.out)>>
           held == SelectSeq([k \in DOMAIN tokens |-> Item(k)],
                             LAMBDA it : calc.err \/ top # <<it>>)
       IN  [Free(Free(calc, top), held) EXCEPT !.err = calc.err \/ bad]
  /\ pc' = "done"
  /\ UNCHANGED <<formula, tokens, i>>

Done == (pc = "done" \/ calc.crash) /\ UNCHANGED vars

Next == \/ Number \/ Function \/ Separator \/ Operator \/ LeftParen
        \/ RightParen \/ Identifier \/ Drain \/ Finish \/ Done

Spec == Init /\ [][Next]_vars

-----------------------------------------------------------------------------

\* A formula divides by zero if one of its operands does, or if what its
\* divisor amounts to is zero.
RECURSIVE DividesByZero(_)
DividesByZero(f) ==
  /\ f[1] # "num"
  /\ \/ \E k \in DOMAIN f[2] : DividesByZero(f[2][k])
     \/ f[1] \in {"/", "%"} /\ IsZero(Amount(f[2][2]))

Computed == pc = "done" /\ formula # <<>>

\* A formula is computed as it was written: operators by precedence and
\* association, each with its operands in order, functions over all their
\* arguments (postfix, precedence, doFunc, doOp).
ComputesFormula ==
  Computed /\ ~ DividesByZero(formula)
    => ~ calc.err /\ [k \in DOMAIN calc.out |-> Value(calc.out[k].term)]
                      = <<formula>>

\* calculator_calc fails on a formula exactly if it divides by zero.
FailsOnDivisionByZero == Computed => (calc.err <=> DividesByZero(formula))

\* However evaluation ends, no string is freed twice, the constant separator
\* is not freed, and no empty stack is read: results are shared by the output
\* and the intermediate stack, numbers by the output and the tokens.
MemorySafe ==
  /\ ~ calc.crash
  /\ IsInjective(calc.freed)
  /\ \A k \in DOMAIN calc.freed : calc.freed[k] # 0

\* No item is lost because a stack is full, separators included (stackPush
\* fails silently, postfix sizes its stacks by the number of tokens).
StacksSuffice == ~ calc.lost
=============================================================================
