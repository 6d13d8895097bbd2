SPECIFICATION TopologySpec
CONSTANTS
  Machines <- MCMachines
  Texts <- MCTexts
  Hosts <- MCHosts
  Required <- MCRequired
  Interesting = {"avx", "fma"}
  ErrnoValues = {0, 2}
  BITS_PER_ELEMENT = 3
  Unreadable = Unreadable
INVARIANTS
  SortedByTopology
  SelectsPositions
  GivesItsThreads
  MachineChecked
PROPERTIES
  LoopEnds
