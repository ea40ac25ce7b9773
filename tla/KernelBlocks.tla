----------------------------- MODULE KernelBlocks -----------------------------
(***************************************************************************)
(* The device side of a tiled kernel: its blocks, the warps of a block,    *)
(* their shared memory and the barrier.  The warps of a block interleave   *)
(* between barriers.  Blocks meet only in the output, where every write is *)
(* kept, so they run one after the other here.                             *)
(***************************************************************************)
EXTENDS TilingScheme, FiniteSets, SequencesExt

VARIABLES
  kernel,   \* what the kernel computes
  scheme,   \* its TilingScheme
  block,    \* the physical block that runs
  warp_pc,  \* warp_pc[w]: the partial result and the phase warp w is at
  shared,   \* shared memory of the block
  writes    \* history: every write to the output

blockVars == <<kernel, scheme, block, warp_pc, shared, writes>>

Stray == <<"stray">>   \* an element outside the view, or no value at all

WarpsOf(sc) == 0 .. GetNumThreadsPerBlockPhysical(sc) \div WarpSize - 1
Warps       == WarpsOf(scheme)
Lanes       == 0 .. WarpSize - 1
Id(w, l)    == ThreadIdInfo(scheme, block, w * WarpSize + l)
Active(w)   == {l \in Lanes : BlockExists(scheme, Id(w, l))}

Phase(w)    == warp_pc[w].phase
Goto(w, ph) == warp_pc' = [warp_pc EXCEPT ![w].phase = ph]

\* Shared memory cell c; nothing is known of one nobody stored to.
Cell(c) == IF c \in DOMAIN shared THEN shared[c] ELSE {Stray}

\* Where the warps of a block begin: without threads there is nothing to do.
Begin(sc, b) ==
  [w \in WarpsOf(sc) |->
     [p |-> 0,
      phase |-> IF \E l \in Lanes : BlockExists(sc, ThreadIdInfo(sc, b, w * WarpSize + l))
                  THEN "store" ELSE "done"]]

\* The launch of kernel k with scheme sc.
Launch(k, sc) ==
  /\ kernel = k
  /\ scheme = sc
  /\ block = 0
  /\ warp_pc = Begin(sc, 0)
  /\ shared = <<>>
  /\ writes = {}

\* EmitSyncThreads: all warps of the block get there before any goes on.
SyncThreads(from, to) ==
  /\ \A w \in Warps : Phase(w) = from
  /\ warp_pc' = [w \in Warps |-> [warp_pc[w] EXCEPT !.phase = to]]
  /\ UNCHANGED <<kernel, scheme, block, shared, writes>>

BlockDone == \A w \in Warps : Phase(w) = "done"

\* The next block; its shared memory holds nothing yet.
NextBlock ==
  /\ BlockDone
  /\ block + 1 < GetNumberOfBlocksPhysical(scheme)
  /\ block' = block + 1
  /\ warp_pc' = Begin(scheme, block + 1)
  /\ shared' = <<>>
  /\ UNCHANGED <<kernel, scheme, writes>>

KernelDone == block = GetNumberOfBlocksPhysical(scheme) - 1 /\ BlockDone
=============================================================================
