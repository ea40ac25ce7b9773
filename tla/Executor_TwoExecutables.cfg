SPECIFICATION Spec
CONSTANTS
  Executors = {"x", "y"}
  Executables = {"e1", "e2"}
  Addresses = {"a1", "a2"}
  Runs = {"r1", "r2", "r3", "r4"}
  Job <- MCJob
  Kernels <- MCKernels
  Constants <- MCConstants
  Empty = "empty"
  MaxAllocs = 2
  MaxFailures = 1
  None = None
INVARIANTS
  RefcountIsOwners
  KernelsRunOwnCode
  ConstantsStayAllocated
PROPERTY
  EveryRunReturns
