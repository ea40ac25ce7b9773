CONSTANTS
  WarpSize = 4
  RowTile = 2
  ColumnTile = 2
  BatchBound = 2
  MinThreadsX = 8
  BlockSize = 16
  NumRows = 2
  MaxTileSize = 4
  Reductions <- MCReductions
  Transposes <- MCTransposes
  SortBounds <- MCSortBounds
  LibraryCallsTried <- MCLibraryCalls
  Attentions <- MCAttentions
  TileOf <- MCTileOf
SPECIFICATION Spec
INVARIANTS
  ReductionsAreExact
  TransposesAreExact
  SortsAreExact
  CallsAreExact
  AttentionIsExact
