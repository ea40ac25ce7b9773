SPECIFICATION ThunkSpec
CONSTANTS
  Threads = {1, 2}
  Ids = {"run"}
  Program <- TwoOps
  Schedule <- Overlapped
  Configs <- AllConfigs
INVARIANTS
  DoneEventMeansDone
  FirstCallBlocks
PROPERTIES
  ImplementsCollective
  EverythingFinishes
