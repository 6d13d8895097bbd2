SPECIFICATION InputsSpec
CONSTANTS
  Kernels <- MCBoth
  Registers <- MCRegisters
  CommandLines <- MCLines
  Files <- MCFiles
  Folder <- MCFolder
  Counts <- MCCounts
  WrittenFiles <- MCWritten
INVARIANTS
  FileAsWritten
  AllExpanded
  StreamRegisters
  CodeAsWritten
  RunAsGiven
CHECK_DEADLOCK FALSE
