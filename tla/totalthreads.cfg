SPECIFICATION Spec
CONSTANTS
  Benchmarks <- MCTwoGroups
  HashOrder <- MCHashOrder
  Alphabet <- MCAlphabet
  Wild <- MCWild
  MaxNumber = 1000
INVARIANTS
  MetricsOfOwnWork
CHECK_DEADLOCK FALSE
