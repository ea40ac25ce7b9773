SPECIFICATION Spec
CONSTANTS
  Threads = {1, 2, 3, 4}
  Ids = {"run"}
  Program <- OneCliqueProgram
INVARIANTS
  TypeOK
  Lockstep
  LaunchesAreCliques
  ReturnsAfterLaunch
PROPERTY EveryCallReturns
