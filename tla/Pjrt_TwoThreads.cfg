SPECIFICATION Spec
CONSTANTS
  Threads = {"t1", "t2"}
  NumDevices = 3
  Addressable = {1, 2}
  Workloads <- MCWorkloads
  None = None
CHECK_DEADLOCK FALSE
INVARIANTS
  MemoryOutlivesDevices
  DevicePointersStayValid
  StatusIsTheFutures
PROPERTIES
  CostAnalysisStays
  EverythingCompletes
