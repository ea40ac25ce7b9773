----------------------------- MODULE TilingScheme -----------------------------
(***************************************************************************)
(* Which elements of a three-dimensional view the threads of a tiled       *)
(* kernel visit: TilingScheme (kernel_mapping_scheme.h) and the loops      *)
(* around a tile (EmitThreadIdInfo, EmitTilingKernel, EmitTile and         *)
(* EmitXTileLoop of ir_emitter_unnested.cc).                               *)
(*                                                                         *)
(* Dimensions are Z, Y, X = 1, 2, 3.  A scheme s is a record of the view's *)
(* size (dims), the elements a thread takes in each dimension (tile), the  *)
(* threads of a block (threads), the order in which a thread walks X       *)
(* ("linear" or "strided"), the vector size (vec), the number of logical   *)
(* blocks in a physical one (scaling) and the dimension that is tiled with *)
(* X (tiling).                                                             *)
(***************************************************************************)
EXTENDS Naturals, Sequences

CONSTANT WarpSize   \* threads of a warp; 32 on the devices

DimZ == 1
DimY == 2
DimX == 3

CeilOfRatio(a, b) == (a + b - 1) \div b
RoundUpTo(a, b)   == CeilOfRatio(a, b) * b

GetBlockTileSizeFor(s, d) == s.threads[d] * s.tile[d]
GetDimInBlock(s, d)       == CeilOfRatio(s.dims[d], GetBlockTileSizeFor(s, d))
GetNumThreadsPerBlock(s)  == s.threads[DimZ] * s.threads[DimY] * s.threads[DimX]
GetNumberOfBlocks(s) ==
  GetDimInBlock(s, DimZ) * GetDimInBlock(s, DimY) * GetDimInBlock(s, DimX)

\* With several logical blocks in a physical one, the last may be incomplete.
GetNumberOfBlocksPhysical(s)     == CeilOfRatio(GetNumberOfBlocks(s), s.scaling)
GetNumThreadsPerBlockPhysical(s) == GetNumThreadsPerBlock(s) * s.scaling

-----------------------------------------------------------------------------
(* EmitThreadIdInfo.                                                       *)

\* The place of physical thread t of physical block b.
ThreadIdInfo(s, b, t) ==
  LET logical == t % GetNumThreadsPerBlock(s)
      scaling == t \div GetNumThreadsPerBlock(s) IN
  [x |-> logical % s.threads[DimX],
   y |-> logical \div s.threads[DimX],
   lane |-> logical % WarpSize,
   block |-> b * s.scaling + scaling,
   scaling |-> scaling]

\* A thread without a block returns at once.
BlockExists(s, id) == id.block < GetNumberOfBlocks(s)

-----------------------------------------------------------------------------
(* EmitTilingKernel.                                                       *)

\* The dimension of Z and Y that is not tiled.
NonTiling(s) == IF s.tiling = DimY THEN DimZ ELSE DimY

\* Block b's coordinates: X varies fastest, the non-tiling dimension slowest.
BlockCoords(s, b) ==
  LET nx == GetDimInBlock(s, DimX)
      nt == GetDimInBlock(s, s.tiling)
  IN  [d \in DimZ .. DimX |->
         CASE d = DimX     -> b % nx
           [] d = s.tiling -> (b \div nx) % nt
           [] OTHER        -> b \div (nx * nt)]

\* The elements of dimension d in block b: the last block may not be full.
SizeInBlock(s, b, d) ==
  IF BlockCoords(s, b)[d] = GetDimInBlock(s, d) - 1
    THEN s.dims[d] - (GetDimInBlock(s, d) - 1) * GetBlockTileSizeFor(s, d)
    ELSE GetBlockTileSizeFor(s, d)

TileDimensions(s, b) == <<SizeInBlock(s, b, s.tiling), SizeInBlock(s, b, DimX)>>

TileOrigin(s, b) ==
  [d \in DimZ .. DimX |-> BlockCoords(s, b)[d] * GetBlockTileSizeFor(s, d)]

\* The tiles of block b: one, or one for each step of loop_z.
TilesOf(s, b) ==
  LET n == NonTiling(s) IN
  IF GetBlockTileSizeFor(s, n) = 1 THEN {TileOrigin(s, b)}
  ELSE {[TileOrigin(s, b) EXCEPT ![n] = @ + k] : k \in 0 .. SizeInBlock(s, b, n) - 1}

-----------------------------------------------------------------------------
(* EmitTile and EmitXTileLoop.                                             *)

\* Where the thread with index x begins in X.
GetStartOffsetX(s, x) == x * (IF s.order = "strided" THEN s.vec ELSE s.tile[DimX])

\* The steps of thread id over a tile of the given bounds: y is where it is in
\* Y, j and i count the vectors and the elements of a vector in X.
Steps(s, id, bounds) ==
  [y : {y \in id.y .. bounds[1] - 1 : (y - id.y) % s.threads[s.tiling] = 0},
   j : 0 .. s.tile[DimX] \div s.vec - 1,
   i : 0 .. s.vec - 1]

XLoc(s, id, step) ==
  LET stride_x == IF s.order = "linear" THEN 1 ELSE s.threads[DimX] IN
  step.j * stride_x * s.vec + step.i + GetStartOffsetX(s, id.x)

\* The steps that are taken: the bound in X is tested unless the order is
\* strided and the tile is full.
Emitted(s, id, bounds) ==
  {step \in Steps(s, id, bounds) :
     \/ s.order = "strided" /\ GetBlockTileSizeFor(s, DimX) = bounds[2]
     \/ XLoc(s, id, step) < bounds[2]}

\* The element a step works on.
ElementAt(s, origin, id, step) ==
  [origin EXCEPT ![s.tiling] = @ + step.y, ![DimX] = @ + XLoc(s, id, step)]
=============================================================================
