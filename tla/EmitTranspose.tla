---------------------------- MODULE EmitTranspose ----------------------------
(***************************************************************************)
(* The kernel EmitUnnestedTranspose emits for a fusion whose root          *)
(* transposes a three-dimensional view so that X changes place with Y or   *)
(* Z: a block copies a tile to shared memory and, after a barrier, writes  *)
(* it out transposed (EmitTransposeTile of ir_emitter_unnested.cc).        *)
(*                                                                         *)
(* An element is represented by where it is in the input.                  *)
(***************************************************************************)
EXTENDS KernelBlocks

CONSTANTS
  NumRows,     \* kNumRows: the rows of threads of a block, 4
  Transposes   \* the transposes tried

\* A transpose: the size of the output's view (dims), the permutation (order,
\* with the dimensions counted from 1) and whether the fusion has another root
\* that does not transpose (other).  X moves.
ASSUME TransposesAssumption ==
  /\ WarpSize % NumRows = 0
  /\ Transposes \subseteq
       [kind : {"transpose"}, dims : [DimZ .. DimX -> Nat \ {0}],
        order : {<<1, 3, 2>>, <<3, 2, 1>>}, other : BOOLEAN]

Permute(v, order) == [d \in DimZ .. DimX |-> v[order[d]]]

\* EmitUnnestedTranspose: the dimension that becomes X is tiled with X.
TransposeScheme(k) ==
  LET tiled == k.order[DimX] IN
  [dims    |-> Permute(k.dims, k.order),
   tile    |-> [<<1, 1, 1>> EXCEPT ![tiled] = WarpSize \div NumRows],
   threads |-> [<<1, 1, WarpSize>> EXCEPT ![tiled] = NumRows],
   order   |-> "linear",
   vec     |-> 1,
   scaling |-> 1,
   tiling  |-> tiled]

IsTranspose == kernel.kind = "transpose"

\* The steps of warp w over the block's tile with the given origin and bounds.
\* EmitTilingKernel calls the tile generator for each tile of the block.
Visits(w, origin, bounds) ==
  UNION {{[y |-> step.y, x |-> XLoc(scheme, Id(w, l), step),
           element |-> ElementAt(scheme, origin, Id(w, l), step)] :
            step \in Emitted(scheme, Id(w, l), bounds)} : l \in Active(w)}

\* Copies input elements to shared memory: tile[y][x] = input[index].  The
\* other roots of the fusion are computed and written on the way.
StoreTile(w) ==
  /\ IsTranspose /\ Phase(w) = "store"
  /\ LET visits == Visits(w, TileOrigin(scheme, block), TileDimensions(scheme, block)) IN
     /\ shared' = [c \in {<<v.y, v.x>> : v \in visits} |->
                     {v.element : v \in {u \in visits : <<u.y, u.x>> = c}}] @@ shared
     /\ writes' = IF kernel.other
                    THEN writes \cup {[root |-> "other", at |-> v.element,
                                       value |-> {v.element}] : v \in visits}
                    ELSE writes
  /\ Goto(w, "sync")
  /\ UNCHANGED <<kernel, scheme, block>>

\* Mutant: the bounds of the tile are not exchanged with its axes.
LoadTile_SameBounds(w) ==
  /\ IsTranspose /\ Phase(w) = "combine"
  /\ LET origin == Permute(TileOrigin(scheme, block), kernel.order)
         visits == Visits(w, origin, TileDimensions(scheme, block))
     IN  writes' = writes \cup {[root |-> "transpose", at |-> v.element,
                                 value |-> Cell(<<v.x, v.y>>)] : v \in visits}
  /\ Goto(w, "done")
  /\ UNCHANGED <<kernel, scheme, block, shared>>

\* After the barrier: output[transposed index] = tile[x][y], over the tile with
\* its bounds exchanged.
LoadTile(w) ==
  /\ IsTranspose /\ Phase(w) = "combine"
  /\ LET origin == Permute(TileOrigin(scheme, block), kernel.order)
         bounds == TileDimensions(scheme, block)
         visits == Visits(w, origin, <<bounds[2], bounds[1]>>)
     IN  writes' = writes \cup {[root |-> "transpose", at |-> v.element,
                                 value |-> Cell(<<v.x, v.y>>)] : v \in visits}
  /\ Goto(w, "done")
  /\ UNCHANGED <<kernel, scheme, block, shared>>

TransposeInit == \E t \in Transposes : Launch(t, TransposeScheme(t))
TransposeNext == \E w \in Warps : StoreTile(w) \/ LoadTile(w)

-----------------------------------------------------------------------------
(* Properties.                                                             *)

\* The tile of an output, padded against bank conflicts.
TransposeCells ==
  (0 .. GetBlockTileSizeFor(scheme, scheme.tiling) - 1)
    \X (0 .. GetBlockTileSizeFor(scheme, DimX))

IndexesOf(dims) ==
  (0 .. dims[DimZ] - 1) \X (0 .. dims[DimY] - 1) \X (0 .. dims[DimX] - 1)

\* When the kernel is done, every element of the transposed output has been
\* written with the input element the permutation puts there and with nothing
\* else, whatever part of the last tiles is outside of the view and in whatever
\* order the warps came to the barrier; another root of the fusion has all of
\* its elements in place.  No thread stores outside of the tile in shared memory.
TransposesAreExact ==
  /\ IsTranspose => DOMAIN shared \subseteq TransposeCells
  /\ IsTranspose /\ KernelDone =>
       writes = {[root |-> "transpose", at |-> o, value |-> {Permute(o, kernel.order)}] :
                   o \in IndexesOf(kernel.dims)}
                \cup (IF ~kernel.other THEN {}
                      ELSE {[root |-> "other", at |-> i, value |-> {i}] :
                              i \in IndexesOf(scheme.dims)})
=============================================================================
