------------------------------ MODULE MCReport ------------------------------
(* Results, Calculator and Map side by side: a behaviour is one of the     *)
(* stores and tables, one of the evaluation of a formula, or one of the    *)
(* map that the stores are made of.                                        *)
EXTENDS MCResults, MCMap

CONSTANT Formulas                                \* Texts of Calculator

VARIABLES
  moves,                                         \* the component that moves
  formula, tokens, position, calc, step          \* Calculator

C == INSTANCE MCCalculator WITH Texts <- Formulas, i <- position, pc <- step

calculator == <<formula, tokens, position, calc, step>>

\* for the values alone, which do not depend on the constants they are for
CV == INSTANCE MCCalculator WITH Texts <- {}, i <- position, pc <- step

MCFormulas     == CV!FormulaTexts \cup CV!AnyTexts
MCBenchmarks   == MCOneGroup \cup MCGroups

SomeBenchmark  == bench = (CHOOSE b \in Benchmarks : TRUE) /\ detailed = TRUE /\ Init
SomeFormula    == formula = <<"num", <<"0">>>> /\ C!Init
UnlimitedMap   == max_size = 0 /\ MapInit

ReportInit ==
  \/ moves = "results"    /\ SomeFormula   /\ UnlimitedMap /\ Init
  \/ moves = "calculator" /\ SomeBenchmark /\ UnlimitedMap /\ C!Init
  \/ moves = "map"        /\ SomeBenchmark /\ SomeFormula  /\ MapInit

ReportNext ==
  /\ UNCHANGED moves
  /\ \/ moves = "results"    /\ Next    /\ UNCHANGED <<calculator, mapvars>>
     \/ moves = "calculator" /\ C!Next  /\ UNCHANGED <<vars, mapvars>>
     \/ moves = "map"        /\ MapNext /\ UNCHANGED <<vars, calculator>>

ReportSpec == ReportInit /\ [][ReportNext]_<<moves, vars, calculator, mapvars>>

\* With one workgroup, as benchmarks are usually run, every metric of a
\* thread is computed from the thread's own work (update_results).
OneGroupMetrics == Len(bench.groups) = 1 => MetricsOfOwnWork

\* A formula is computed as it was written, and calculator_calc fails exactly
\* if it divides by zero (postfix, precedence, doFunc, doOp).
ComputesFormula == C!ComputesFormula /\ C!FailsOnDivisionByZero

\* However the evaluation of a formula ends, no string is freed twice and no
\* empty stack is read; and no text, well formed or not, loses an item to a
\* full stack (postfix, calculator_calc, stackPush).
CalculatorSafe == (formula # <<>> => C!MemorySafe) /\ C!StacksSuffice
=============================================================================
