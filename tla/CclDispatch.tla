----------------------------- MODULE CclDispatch -----------------------------
(***************************************************************************)
(* What a collective is allowed to be at each of the three places the      *)
(* program decides it: CheckImplementable when the thunk is emitted        *)
(* (ccl_*_thunk.cc), LockCclComm when the communicator is taken            *)
(* (ccl_collective_thunk.cc), and the if-chains of the sycl_* entry points *)
(* and kernels (ccl_ops.cc), whose last branch is LOG(FATAL).              *)
(***************************************************************************)
EXTENDS Naturals

\* The five collectives of ccl_ops.h.
ReductionOps == {"allreduce", "reduce_scatter"}
MoveOps      == {"allgather", "alltoall", "permute"}
Kinds        == ReductionOps \cup MoveOps

\* ReductionKind, and the value move-only collectives carry instead.
ReductionKinds == {"SUM", "PRODUCT", "MIN", "MAX"}
NoReduction    == "NONE"

\* The array element types of XLA that a collective's operand can have.
PrimitiveTypes ==
  {"PRED", "S8", "U8", "S16", "U16", "S32", "U32", "S64", "U64",
   "F16", "F32", "F64", "BF16", "C64", "C128"}
ComplexTypes == {"C64", "C128"}

MAX_RANK_SIZE    == 16
kLimitedRankSize == MAX_RANK_SIZE \div 2

-----------------------------------------------------------------------------
(* Emission time.                                                          *)

\* The element types that reach a thunk: 16-bit integers only when the
\* collective moves data without computing on it.
IsTypeSupportedByNccl(dtype, kind) ==
  \/ dtype \in PrimitiveTypes \ {"S16", "U16"}
  \/ dtype \in {"S16", "U16"} /\ kind \notin ReductionOps

\* The reduction computations that are recognised: and/or of PRED (as MIN and
\* MAX), addition of complex numbers, the four reductions of everything else.
MatchAllReduceComputation(dtype) ==
  CASE dtype = "PRED"          -> {"MIN", "MAX"}
    [] dtype \in ComplexTypes  -> {"SUM"}
    [] OTHER                   -> ReductionKinds

\* CheckImplementable of the five thunks, for a dense operand whose gather or
\* split dimension is the most major one.
CheckImplementable(kind, reduction, dtype) ==
  /\ IsTypeSupportedByNccl(dtype, kind)
  /\ IF kind \in ReductionOps
       THEN reduction \in MatchAllReduceComputation(dtype)
       ELSE reduction = NoReduction

-----------------------------------------------------------------------------
(* Launch time.                                                            *)

\* The element types for which the if-chain of a sycl_* entry point picks a
\* kernel; every other type ends in LOG(FATAL).
DispatchedTypes(kind, reduction) ==
  LET plain == {"PRED", "F32", "F64", "S32", "S64", "BF16"} IN
  IF kind \in ReductionOps /\ reduction \in {"SUM", "PRODUCT"}
    THEN plain \cup ComplexTypes
    ELSE plain

\* The clique sizes for which a kernel has a branch; every other size ends in
\* LOG(FATAL).
DispatchedRanks(kind) ==
  CASE kind = "allreduce" -> {2, 4, 6, 8, 10, 12}
    [] kind = "alltoall"  -> 0 .. kLimitedRankSize
    [] OTHER              -> 0 .. MAX_RANK_SIZE

\* TRUE iff the launch submits a kernel rather than ending the process.
Dispatches(kind, reduction, dtype, nranks) ==
  /\ dtype \in DispatchedTypes(kind, reduction)
  /\ nranks \in DispatchedRanks(kind)

\* LockCclComm's bound on the number of participants (LOG(FATAL) above it).
LockAdmits(nranks) == nranks <= MAX_RANK_SIZE
=============================================================================
