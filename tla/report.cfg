SPECIFICATION ReportSpec
CONSTANTS
  Benchmarks <- MCBenchmarks
  HashOrder <- MCHashOrder
  Alphabet <- MCAlphabet
  Wild <- MCWild
  MaxNumber = 1000
  Formulas <- MCFormulas
  HASH_TABLE_MIN_SHIFT = 2
  HashOf <- StringHash
  NULL = NULL
  Keys = {"a", "b", "c", "d"}
  ValuesOf <- StringValues
  MaxSizes = {0, 3}
  NullKeys = {}
INVARIANTS
  SearchesEnd
  WholeIterations
  OneGroupMetrics
  EveryNumberInPlace
  ComputesFormula
  CalculatorSafe
  IsDictionary
  TableMatchesArray
PROPERTIES
  IndexStable
CHECK_DEADLOCK FALSE
