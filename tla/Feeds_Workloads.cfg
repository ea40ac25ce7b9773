SPECIFICATION Spec
CONSTANTS
  Threads = {"t1", "t2", "t3"}
  Workloads <- MCWorkloads
  Usm = {"u1", "u2", "p1", "p2"}
  MaxQueues = 3
  PinnedChunk <- MCPinnedChunk
  None = None
CHECK_DEADLOCK FALSE
INVARIANTS
  ResultsAreExact
  MemoryOutlivesUse
  PinnedBuffersAreKept
PROPERTIES
  CallsReturn
