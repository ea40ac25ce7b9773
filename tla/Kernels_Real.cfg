SPECIFICATION Spec
CONSTANTS
  MaxCount = 4
  RankCounts = {2, 3, 4}
  GroupSizes = {1, 3}
  Types = {"F32", "PRED"}
INVARIANTS
  ResultsAreExact

