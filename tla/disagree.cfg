SPECIFICATION FairSpec
CONSTANTS
  NumThreads = 2
  Workgroup <- OneGroup
  Pinnable = {0, 1}
  Iterations = {0}
  Runtimes = {}
  MIN_ITERATIONS = 1
  MIN_RUNTIME = 5
  NANOS_PER_SEC = 10
  TicksPerIter = 4
  Jitter = 1
  FreqSamples = {10}
  Script <- MainScript
  Streams = {"STR0"}
  PerThread = {"STR0"}
  MaxTimeouts = 0
  CreateMayFail = FALSE
  SendMayFail = FALSE
PROPERTIES
  IterationsDetected
CHECK_DEADLOCK FALSE
