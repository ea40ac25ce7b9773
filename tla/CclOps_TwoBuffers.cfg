SPECIFICATION Spec
CONSTANTS
  Threads = {1, 2, 3, 4}
  Ids = {"run.1", "run.3"}
  Program <- TwoCliquesTwoBuffers
INVARIANT LaunchesAreCliques
