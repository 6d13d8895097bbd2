SPECIFICATION Spec
CONSTANTS
  Groups = {1, 2}
  Threads = {1, 2}
  Streams = {1}
  Fresh = {"null"}
  Faults = {"signal"}
INVARIANTS
  NotedFilesRemoved
