SPECIFICATION Spec
CONSTANTS
  Modulus = 5
  Cells = {1, 2, 3, 4, 5, 6, 7, 8, 9, 10}
  InitialMem <- MCInitialMem
  Runs = {"r1", "r2"}
  Jobs <- AllJobs
  Null = Null
INVARIANTS
  ResultsAreExact
  CallersKeepTheirBuffers
  OneOwner
  FreedWhenIdle
PROPERTY
  EveryRunReturns
