------------------------------- MODULE EmitSort -------------------------------
(***************************************************************************)
(* The thunks EmitSort emits for a sort (ir_emitter_unnested.cc): a copy   *)
(* unless the buffers are shared, one kernel for each mask of a bitonic    *)
(* sorter whose pairs are far apart, and one kernel for a run of masks     *)
(* whose pairs stay within a tile.  The body of a kernel is                *)
(* EmitSortInPlace of XLA's llvm_ir (external): every position is compared *)
(* with the position that has the bits of the mask flipped.  The pairs of  *)
(* a mask are disjoint, so the order of the threads does not matter.       *)
(*                                                                         *)
(* The sorter never looks at the values but to compare two of them, so     *)
(* keys of 0 and 1 are enough to show that it sorts.                       *)
(***************************************************************************)
EXTENDS Naturals, FiniteSets, SequencesExt

CONSTANTS
  MaxTileSize,   \* 2048
  SortBounds     \* the sizes of the sorted dimension that are tried

\* A sort of one element is not emitted: its CHECKs would fail.
ASSUME SortBoundsAssumption ==
  /\ SortBounds \subseteq Nat \ {0, 1}
  /\ \E k \in 1 .. MaxTileSize : MaxTileSize = 2 ^ k

VARIABLES
  sort,        \* bound of the sorted dimension; no_tiling: a tile is too large
               \* for the device; shares: source and destination are one buffer
  stage, mask, \* the loops of EmitSort; stage = num_stages after them
  xor_masks,   \* the masks collected for one kernel
  thunks,      \* what was emitted and has not run, in order
  source,      \* the operand; history once a shared buffer is sorted
  values       \* the destination buffer, sorted in place

sortVars == <<sort, stage, mask, xor_masks, thunks, source, values>>

num_stages ==
  CHOOSE k \in 1 .. sort.bound : 2 ^ k >= sort.bound /\ 2 ^ (k - 1) < sort.bound

kTileSize == IF 2 ^ num_stages < MaxTileSize THEN 2 ^ num_stages ELSE MaxTileSize

\* A kernel is the sequence of its masks.
CopyThunk == <<>>

\* The first mask of a stage flips all of the low bits, the others one bit.
xor_mask == IF mask = stage THEN 2 ^ (stage + 1) - 1 ELSE 2 ^ mask

Positions == 0 .. sort.bound - 1

SortInit ==
  /\ sort \in [bound : SortBounds, no_tiling : BOOLEAN, shares : BOOLEAN]
  /\ stage = 0 /\ mask = 0
  /\ xor_masks = <<>>
  /\ thunks = IF sort.shares THEN <<>> ELSE <<CopyThunk>>
  /\ source = <<>> /\ values = <<>>

NextMask ==
  IF mask > 0 THEN mask' = mask - 1 /\ stage' = stage
  ELSE stage' = stage + 1 /\ mask' = stage + 1

\* The pairs of this mask stay within a tile.
FitsInTile == xor_mask < kTileSize /\ ~sort.no_tiling

CollectMask ==
  /\ stage < num_stages /\ FitsInTile
  /\ xor_masks' = Append(xor_masks, xor_mask)
  /\ NextMask
  /\ UNCHANGED <<sort, thunks, source, values>>

\* Mutant: the collected masks stay collected when a wide one is emitted.
EmitMask_Unflushed ==
  /\ stage < num_stages /\ ~FitsInTile
  /\ thunks' = Append(thunks, <<xor_mask>>)
  /\ NextMask
  /\ UNCHANGED <<sort, xor_masks, source, values>>

\* A kernel of its own, after one for the masks that were collected.
EmitMask ==
  /\ stage < num_stages /\ ~FitsInTile
  /\ thunks' = thunks \o (IF xor_masks = <<>> THEN <<>> ELSE <<xor_masks>>) \o <<<<xor_mask>>>>
  /\ xor_masks' = <<>>
  /\ NextMask
  /\ UNCHANGED <<sort, source, values>>

EmitRest ==
  /\ stage = num_stages /\ xor_masks # <<>>
  /\ thunks' = Append(thunks, xor_masks)
  /\ xor_masks' = <<>>
  /\ UNCHANGED <<sort, stage, mask, source, values>>

AllEmitted == stage = num_stages /\ xor_masks = <<>>

\* The program runs: the operand has been computed.
Start ==
  /\ AllEmitted /\ source = <<>>
  /\ source' \in [Positions -> {0, 1}]
  /\ values' = IF sort.shares THEN source' ELSE [p \in Positions |-> 2]
  /\ UNCHANGED <<sort, stage, mask, xor_masks, thunks>>

\* DeviceToDeviceCopyThunk
Copy ==
  /\ source # <<>> /\ thunks # <<>> /\ Head(thunks) = CopyThunk
  /\ values' = source
  /\ thunks' = Tail(thunks)
  /\ UNCHANGED <<sort, stage, mask, xor_masks, source>>

Bit(n, k)   == (n \div 2 ^ k) % 2
Xor(n, m)   == FoldLeft(+, 0, [k \in 1 .. num_stages |->
                 IF Bit(n, k - 1) = Bit(m, k - 1) THEN 0 ELSE 2 ^ (k - 1)])

\* One mask: every pair inside the bound is put in order.
CompareAll(v, m) ==
  [p \in Positions |->
     LET q == Xor(p, m) IN
     IF q \notin Positions THEN v[p]
     ELSE IF p < q THEN (IF v[q] < v[p] THEN v[q] ELSE v[p])
     ELSE (IF v[p] < v[q] THEN v[q] ELSE v[p])]

\* One block of a tiled kernel: its tile is read, put through the masks and
\* written back.  A position outside of the tile is not in shared memory.
RunTile(v, masks, tile) ==
  FoldLeft(LAMBDA u, m : [p \in Positions |->
             IF p \div kTileSize = tile /\ Xor(p, m) \div kTileSize = tile
               THEN CompareAll(u, m)[p] ELSE u[p]], v, masks)

\* EmitSortInPlace: several masks are for a tiled kernel.
SortInPlace ==
  /\ source # <<>> /\ thunks # <<>> /\ Head(thunks) # CopyThunk
  /\ LET masks == Head(thunks)
         num_blocks == (sort.bound + kTileSize - 1) \div kTileSize
     IN  values' = IF Len(masks) = 1 THEN CompareAll(values, masks[1])
                   ELSE FoldLeft(LAMBDA v, t : RunTile(v, masks, t - 1), values,
                                 [t \in 1 .. num_blocks |-> t])
  /\ thunks' = Tail(thunks)
  /\ UNCHANGED <<sort, stage, mask, xor_masks, source>>

SortNext ==
  CollectMask \/ EmitMask \/ EmitRest \/ Start \/ Copy \/ SortInPlace

SortDone == source # <<>> /\ thunks = <<>>

-----------------------------------------------------------------------------
(* Properties.                                                             *)

\* When the thunks of a sort have run, the destination holds the operand's
\* keys, all of them and in order, whatever the size and however the masks
\* were grouped into kernels.
SortsAreExact ==
  SortDone =>
    /\ \A p \in Positions : p + 1 \in Positions => values[p] <= values[p + 1]
    /\ \A k \in {0, 1} : Cardinality({p \in Positions : values[p] = k})
                          = Cardinality({p \in Positions : source[p] = k})
=============================================================================
