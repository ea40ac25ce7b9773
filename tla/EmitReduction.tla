---------------------------- MODULE EmitReduction ----------------------------
(***************************************************************************)
(* The kernel EmitUnnestedReduction emits for one reduction: the choice of *)
(* the tiling (ComputeReductionCodegenInfo), the threads' partial results, *)
(* and their reduction through warp shuffles and shared memory             *)
(* (EmitReductionOutputFor{Row,Column}Reduction of ir_emitter_unnested.cc).*)
(*                                                                         *)
(* A value is the set of the input elements that were reduced into it, so  *)
(* that a result shows what went into it.                                  *)
(***************************************************************************)
EXTENDS KernelBlocks

CONSTANTS
  RowTile, ColumnTile,  \* GetReductionTiling: 16 and 128 elements of a thread
  BatchBound,           \* BatchedReductionRaceFreeBound
  MinThreadsX,          \* MinThreadsXRowReduction
  BlockSize,            \* the default block size of row reductions, 512
  Reductions            \* the reductions tried

\* A reduction: is_row, the size of its view (dims), the roots of its fusion
\* (fan_out), the width of its smallest input (bits), whether the heuristics
\* are for vectorizing it (vectorize), the unrolling that saturates the device
\* (unroll), and what std::clamp yields when its bounds are crossed (crossed).
ASSUME ReductionsAssumption ==
  Reductions \subseteq
    [kind : {"reduction"}, is_row : BOOLEAN, dims : [DimZ .. DimX -> Nat \ {0}],
     fan_out : Nat \ {0}, bits : {1, 8, 16, 32, 64}, vectorize : BOOLEAN,
     unroll : Nat \ {0}, crossed : {"low", "high"}]

-----------------------------------------------------------------------------
(* ComputeReductionCodegenInfo.                                            *)

RowReductionGetRowsPerWarp(size) ==
  IF WarpSize % size # 0 \/ size >= WarpSize THEN 1 ELSE WarpSize \div size

MaxOf(a, b) == IF a > b THEN a ELSE b
MinOf(a, b) == IF a < b THEN a ELSE b

NearestPowerOfTwo(v) ==
  LET upper == CHOOSE p \in {2 ^ k : k \in 0 .. v} : p >= v /\ p \div 2 < v
      lower == upper \div 2
  IN  IF upper - v < v - lower THEN upper ELSE lower

GetReductionTiling(r) ==
  IF r.is_row THEN <<MinOf(r.dims[DimZ], BatchBound), 1, RowTile>>
  ELSE <<1, ColumnTile, 1>>

\* The threads of a block in X.
num_threads_x(r) ==
  LET size == r.dims[DimX]
      max_block_size == MaxOf(MinThreadsX, BlockSize \div NearestPowerOfTwo(r.fan_out)) IN
  IF ~r.is_row THEN WarpSize
  ELSE IF RowReductionGetRowsPerWarp(size) > 1 THEN size
  ELSE MinOf(max_block_size, RoundUpTo(CeilOfRatio(size, RowTile), WarpSize))

\* An output is produced by one block, so it needs no atomic operation.
ReductionIsRaceFree(r) ==
  IF r.is_row
    THEN r.dims[DimX] <= MinThreadsX * RowTile /\ r.dims[DimZ] <= BatchBound
    ELSE r.dims[DimY] <= WarpSize * ColumnTile

\* CanVectorizeReduction and the heuristics behind it.
Vectorizes(r) ==
  /\ r.vectorize
  /\ IF r.is_row
       THEN r.dims[DimX] % 2 = 0 /\ num_threads_x(r) > WarpSize
       ELSE /\ r.dims[DimX] % (WarpSize * 2) = 0 /\ r.dims[DimX] >= WarpSize * 2
            /\ r.unroll > 1

\* How many outputs a thread of a column reduction works on.  The last step is
\* std::clamp(2, lower, unroll), which is undefined when lower > unroll: the
\* library returns one bound or the other.
num_partial_results(r) ==
  LET lower == IF r.bits <= 32
                 THEN MaxOf(MinOf(64 \div r.bits, 8) \div r.fan_out, 2) ELSE 2 IN
  IF r.is_row \/ ~Vectorizes(r) THEN 1
  ELSE IF lower > r.unroll /\ r.crossed = "high" THEN r.unroll ELSE lower

\* CalculateVirtualThreadScalingFactorForReduction
Scaling(r) ==
  IF r.is_row /\ r.dims[DimX] <= 128
    THEN RowReductionGetRowsPerWarp(r.dims[DimX]) ELSE 1

Scheme(r) ==
  [dims    |-> r.dims,
   tile    |-> [GetReductionTiling(r) EXCEPT ![DimX] = @ * num_partial_results(r)],
   threads |-> <<1, IF r.is_row THEN 1 ELSE WarpSize, num_threads_x(r)>>,
   order   |-> IF r.is_row THEN "strided" ELSE "linear",
   vec     |-> IF Vectorizes(r) THEN 2 ELSE 1,
   scaling |-> Scaling(r),
   tiling  |-> DimY]

\* The CHECKs of TilingScheme and EmitIRForReduction.
Checked(r) ==
  /\ Scheme(r).tile[DimX] % Scheme(r).vec = 0
  /\ GetNumThreadsPerBlockPhysical(Scheme(r)) % WarpSize = 0

-----------------------------------------------------------------------------
(* Values.                                                                 *)

Twice == <<"twice">>   \* an element was reduced twice

\* The reduction function.
Reduce(a, b) == a \cup b \cup (IF a \cap b = {} THEN {} ELSE {Twice})

IsRow    == kernel.kind = "reduction" /\ kernel.is_row
IsColumn == kernel.kind = "reduction" /\ ~kernel.is_row
OneRow   == RowReductionGetRowsPerWarp(scheme.dims[DimX]) = 1

\* GenerateElementForReducer over the tiles of a thread: its p-th partial
\* result.  In a column reduction a thread has one for every column it visits.
Partial(id, p) ==
  LET visits == {v \in TilesOf(scheme, id.block)
                         \X Emitted(scheme, id, TileDimensions(scheme, id.block)) :
                   kernel.is_row \/ XLoc(scheme, id, v[2]) - GetStartOffsetX(scheme, id.x) = p}
      element(v) == ElementAt(scheme, v[1], id, v[2])
      inside(v)  == \A d \in DimZ .. DimX : element(v)[d] < scheme.dims[d]
  IN  {IF inside(v) THEN element(v) ELSE Stray : v \in visits}
        \cup (IF \E v, u \in visits : v # u /\ element(v) = element(u) THEN {Twice} ELSE {})

\* EmitFullWarpShuffleDownLoopForReduce: with every distance from half a warp
\* down to one, each lane takes in the value of the lane that far up.
WarpShuffleDown(values, results_per_warp) ==
  LET shuffle(v, d) == [l \in Lanes |-> Reduce(v[l], v[(l + d) % WarpSize])]
      widest == (WarpSize \div 2) \div results_per_warp
  IN  FoldLeft(shuffle, values,
               SelectSeq([k \in 1 .. WarpSize |-> widest \div 2 ^ (k - 1)], LAMBDA d : d >= 1))

\* The partial results of a warp's lanes; a lane that has returned has none.
PartialsOf(w, p) ==
  [l \in Lanes |-> IF l \in Active(w) THEN Partial(Id(w, l), p) ELSE {Stray}]

\* GetOutputAddressForReduction: the output thread id writes as its p-th.
OutputAddress(id, p) ==
  LET origin == TileOrigin(scheme, id.block) IN
  IF kernel.is_row THEN origin[DimY] + id.y
  ELSE origin[DimZ] * scheme.dims[DimX] + origin[DimX] + GetStartOffsetX(scheme, id.y) + p

Write(id, p, value) ==
  [at |-> OutputAddress(id, p), by |-> <<id.block, id.x, id.y>>, value |-> value]

-----------------------------------------------------------------------------
(* The phases of a warp.                                                   *)

\* A row reduction with several rows in a warp: no shared memory, the first
\* thread of each row writes.
WriteRows(w) ==
  /\ Phase(w) = "store" /\ IsRow /\ ~OneRow
  /\ LET rows == WarpShuffleDown(PartialsOf(w, 0), RowReductionGetRowsPerWarp(scheme.dims[DimX]))
     IN  writes' = writes \cup
           {Write(Id(w, l), 0, rows[l]) : l \in {k \in Active(w) : Id(w, k).x = 0}}
  /\ Goto(w, "done")
  /\ UNCHANGED <<kernel, scheme, block, shared>>

\* A row reduction with one row in a block: lane 0 stores what the warp has.
StoreWarp(w) ==
  /\ Phase(w) = "store" /\ IsRow /\ OneRow
  /\ shared' = (w :> WarpShuffleDown(PartialsOf(w, 0), 1)[0]) @@ shared
  /\ Goto(w, "sync")
  /\ UNCHANGED <<kernel, scheme, block, writes>>

\* After the barrier, the first warp reduces what the warps stored, with the
\* initial value for warps that do not exist.
ReduceWarps(w) ==
  /\ Phase(w) = "combine" /\ IsRow
  /\ LET num_warps == scheme.threads[DimX] \div WarpSize
         selected  == [l \in Lanes |-> IF l < num_warps THEN Cell(l) ELSE {}]
         reduced   == IF GetNumThreadsPerBlock(scheme) > WarpSize
                        THEN WarpShuffleDown(selected, 1) ELSE selected
     IN  IF w # 0 THEN UNCHANGED <<shared, writes>>
         ELSE /\ shared' = [c \in DOMAIN shared |-> reduced[c]]
              /\ writes' = writes \cup {Write(Id(0, 0), 0, reduced[0])}
  /\ Goto(w, "done")
  /\ UNCHANGED <<kernel, scheme, block>>

\* A column reduction: every thread stores a partial result, transposed.
StoreTransposed(w) ==
  /\ Phase(w) = "store" /\ IsColumn
  /\ shared' = [c \in {<<Id(w, l).x, Id(w, l).y>> : l \in Lanes} |->
                  Partial([Id(w, 0) EXCEPT !.x = c[1], !.y = c[2]], warp_pc[w].p)] @@ shared
  /\ Goto(w, "sync")
  /\ UNCHANGED <<kernel, scheme, block, writes>>

\* Some warps are outside of the view and write nothing.
HasOutput(id) ==
  LET bounds == TileDimensions(scheme, id.block) IN
  GetStartOffsetX(scheme, id.y) < bounds[2] /\ id.x < bounds[1]

\* Mutant: no barrier before the next partial result.
ReduceColumn_NoBarrier(w) ==
  /\ Phase(w) = "combine" /\ IsColumn
  /\ LET p == warp_pc[w].p
         column == WarpShuffleDown([l \in Lanes |-> Cell(<<Id(w, l).y, Id(w, l).x>>)], 1)
     IN  /\ writes' = IF HasOutput(Id(w, 0))
                        THEN writes \cup {Write(Id(w, 0), p, column[0])} ELSE writes
         /\ shared' = [c \in {<<Id(w, l).y, Id(w, l).x>> : l \in Lanes} |-> column[c[2]]] @@ shared
         /\ warp_pc' = [warp_pc EXCEPT ![w] =
              IF p = num_partial_results(kernel) - 1 THEN [p |-> p, phase |-> "done"]
              ELSE [p |-> p + 1, phase |-> "store"]]
  /\ UNCHANGED <<kernel, scheme, block>>

\* After the barrier, the warp of a column reduces it in place, and lane 0
\* writes; the next partial result waits for another barrier.
ReduceColumn(w) ==
  /\ Phase(w) = "combine" /\ IsColumn
  /\ LET p == warp_pc[w].p
         column == WarpShuffleDown([l \in Lanes |-> Cell(<<Id(w, l).y, Id(w, l).x>>)], 1)
     IN  /\ writes' = IF HasOutput(Id(w, 0))
                        THEN writes \cup {Write(Id(w, 0), p, column[0])} ELSE writes
         /\ shared' = [c \in {<<Id(w, l).y, Id(w, l).x>> : l \in Lanes} |-> column[c[2]]] @@ shared
         /\ warp_pc' = [warp_pc EXCEPT ![w] =
              IF p = num_partial_results(kernel) - 1 THEN [p |-> p, phase |-> "done"]
              ELSE [p |-> p + 1, phase |-> "wait"]]
  /\ UNCHANGED <<kernel, scheme, block>>

ReductionInit == \E r \in {q \in Reductions : Checked(q)} : Launch(r, Scheme(r))

ReductionNext ==
  \/ \E w \in Warps : \/ WriteRows(w) \/ StoreWarp(w) \/ ReduceWarps(w)
                      \/ StoreTransposed(w) \/ ReduceColumn(w)
  \/ IsColumn /\ SyncThreads("wait", "store")

-----------------------------------------------------------------------------
(* Properties.                                                             *)

\* AllocateShared: a padded square, or a cell for each warp.
ReductionCells ==
  CASE IsColumn -> (0 .. scheme.threads[DimX] - 1) \X (0 .. scheme.threads[DimX])
    [] OneRow -> 0 .. GetNumThreadsPerBlock(scheme) \div WarpSize - 1
    [] OTHER -> {}

\* The outputs, and the elements that belong to one of them.
OutputsOf(r) ==
  0 .. (IF r.is_row THEN r.dims[DimY] ELSE r.dims[DimZ] * r.dims[DimX]) - 1
InputsOf(r, o) ==
  IF r.is_row
    THEN {<<z, o, x>> : z \in 0 .. r.dims[DimZ] - 1, x \in 0 .. r.dims[DimX] - 1}
    ELSE {<<o \div r.dims[DimX], y, o % r.dims[DimX]>> : y \in 0 .. r.dims[DimY] - 1}

\* The kernel writes the outputs of the reduction and nothing else, and each
\* gets every element of its row or column exactly once, whatever the order of
\* the warps between the barriers: by one store when the reduction is race
\* free, otherwise by atomic operations with disjoint values.  No thread stores
\* outside of the shared memory that AllocateShared reserved.
ReductionsAreExact ==
  /\ kernel.kind = "reduction" => DOMAIN shared \subseteq ReductionCells
  /\ kernel.kind = "reduction" /\ KernelDone =>
       /\ {w.at : w \in writes} = OutputsOf(kernel)
       /\ \A o \in OutputsOf(kernel) :
            LET to == {w \in writes : w.at = o} IN
            /\ UNION {w.value : w \in to} = InputsOf(kernel, o)
            /\ \A v, w \in to : v # w => v.value \cap w.value = {}
            /\ ReductionIsRaceFree(kernel) => Cardinality(to) = 1
=============================================================================
