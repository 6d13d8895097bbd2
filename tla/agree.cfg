SPECIFICATION FairSpec
CONSTANTS
  NumThreads = 2
  Workgroup <- OneGroup
  Pinnable = {0, 1}
  Iterations = {0, 3}
  Runtimes = {7, 12}
  MIN_ITERATIONS = 1
  MIN_RUNTIME = 7
  NANOS_PER_SEC = 10
  TicksPerIter = 4
  Jitter = 1
  FreqSamples = {10}
  Script <- MainScript
  Streams = {"STR0"}
  PerThread = {"STR0"}
  MaxTimeouts = 0
  CreateMayFail = FALSE
  SendMayFail = FALSE
INVARIANTS
  TypeOK
  TimerCalibrated
  NoLostWakeup
  TimedTogether
  ResultsMeasured
PROPERTIES
  Termination
  BulkSynchronous
