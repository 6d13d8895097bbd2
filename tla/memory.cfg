SPECIFICATION MemorySpec
CONSTANTS
  Kernels <- MCKernels
  SizeOf <- MCSizeOf
  Modulus = 4096
  Groups = {1, 2}
  Workers = {1, 2}
  StreamIds = {1}
  Fresh = {"null", "wild"}
  Faults = {"folders", "text", "nothreads", "global", "globalmaps", "results", "maps", "group", "flags", "dims", "arrays", "chunks", "threads", "barrier", "generate", "mkstemp", "unlink", "write", "compile", "dlopen", "create", "send", "signal"}
INVARIANTS
  MemorySafe
  FilesRemoved
  StartsOnlyComplete
  InStream
  Disjoint
  SharedOut
