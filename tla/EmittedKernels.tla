---------------------------- MODULE EmittedKernels ----------------------------
(***************************************************************************)
(* What thunks run on the device: the kernels IrEmitterUnnested emits for  *)
(* reductions, transposes and sorts, calls of oneDNN and XeTLA, and the    *)
(* fused attention kernel.  A behaviour is one of them.                    *)
(***************************************************************************)
EXTENDS EmitReduction, EmitTranspose, EmitSort, LibraryCalls, FusedAttention

vars == <<blockVars, sortVars, callVars, attVars>>

NoKernel ==
  /\ kernel = [kind |-> "none"]
  /\ scheme = <<>> /\ block = 0 /\ warp_pc = <<>> /\ shared = <<>> /\ writes = {}

NoSort ==
  /\ sort = <<>> /\ stage = 0 /\ mask = 0 /\ xor_masks = <<>>
  /\ thunks = <<>> /\ source = <<>> /\ values = <<>>

NoCall == call = <<>> /\ memory = <<>> /\ primitive = <<>> /\ call_pc = "none"

NoAttention ==
  /\ attention = <<>> /\ att_pc = "none"
  /\ policy = <<>> /\ sg_pc = <<>> /\ arrived = <<>> /\ regs = <<>>
  /\ Qi_slm = <<>> /\ softmax_slm = <<>> /\ Pij_slm = <<>> /\ out = <<>>

Init ==
  \/ (ReductionInit \/ TransposeInit) /\ NoSort /\ NoCall /\ NoAttention
  \/ SortInit /\ NoKernel /\ NoCall /\ NoAttention
  \/ CallInit /\ NoKernel /\ NoSort /\ NoAttention
  \/ AttentionInit /\ NoKernel /\ NoSort /\ NoCall

Tiled     == kernel.kind # "none"
Calls     == call_pc # "none"
Attends   == att_pc # "none"
Sorts     == ~Tiled /\ ~Calls /\ ~Attends
AllDone   == CASE Tiled -> KernelDone
               [] Calls -> CallDone
               [] Attends -> AttentionDone
               [] OTHER -> SortDone

Next ==
  \/ /\ Tiled
     /\ \/ ReductionNext
        \/ TransposeNext
        \/ SyncThreads("sync", "combine")
        \/ NextBlock
     /\ UNCHANGED <<sortVars, callVars, attVars>>
  \/ Sorts /\ SortNext /\ UNCHANGED <<blockVars, callVars, attVars>>
  \/ Calls /\ CallNext /\ UNCHANGED <<blockVars, sortVars, attVars>>
  \/ Attends /\ AttentionNext /\ UNCHANGED <<blockVars, sortVars, callVars>>
  \/ AllDone /\ UNCHANGED vars

Spec == Init /\ [][Next]_vars
=============================================================================
