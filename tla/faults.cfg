SPECIFICATION Spec
CONSTANTS
  NumThreads = 3
  Workgroup <- TwoAndOne
  Pinnable = {0, 1, 2}
  Iterations = {0}
  Runtimes = {}
  MIN_ITERATIONS = 1
  MIN_RUNTIME = 7
  NANOS_PER_SEC = 10
  TicksPerIter = 4
  Jitter = 1
  FreqSamples = {10}
  Script <- MainScript
  Streams = {"STR0"}
  PerThread = {"STR0"}
  MaxTimeouts = 2
  CreateMayFail = TRUE
  SendMayFail = TRUE
INVARIANTS
  CalledTogether
  KernelReady
  WorksPinned
  FreedAfterExit
  AllOrNoneRan
  ReportsWholeScript
CHECK_DEADLOCK FALSE
