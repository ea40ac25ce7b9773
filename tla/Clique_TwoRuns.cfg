SPECIFICATION Spec
CONSTANTS
  Devices = {1, 2, 3}
  Runs = {1, 2}
  Operations <- SplitThenAll
INVARIANTS
  SameOrderOnEveryRank
  WaitingUnderOneIdIsOneGroup
PROPERTIES
  IdStaysWhileCommsExist
  EveryRunFinishes
