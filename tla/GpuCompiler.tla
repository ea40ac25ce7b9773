---------------------------- MODULE GpuCompiler ----------------------------
(***************************************************************************)
(* gpu_compiler.cc and spir_compiler.cc: the pipelines a module passes     *)
(* through, and the backend.  One step runs one pipeline.                  *)
(*                                                                         *)
(* The passes of this repository rewrite the graph.  The passes of XLA     *)
(* that matter to them do too (dead code, equal instructions, transposes); *)
(* of the others only the traits of the module are kept that the comments  *)
(* between the passes speak of: what a pass leaves behind, what another    *)
(* one cleans up, and what a third one must not meet.                      *)
(***************************************************************************)
EXTENDS GemmRewriter, ConvRewriter, MhaRewriter, LibraryRewriters

\* A job is [program, traits, flags, partitions].
CONSTANTS Jobs,
          GraphOf(_)   \* the computation a program stands for

VARIABLES job,      \* what is compiled
          source,   \* its computation
          graph,    \* the computation as the passes have left it
          traits,   \* what else is in the module
          missed,   \* <<pass, trait>>: the pass met what it must not meet
          todo      \* the pipelines that are left

vars == <<job, source, graph, traits, missed, todo>>

-----------------------------------------------------------------------------
(* XLA's passes. *)

\* TransposeFolding: the product reads the matrix as it is.
FoldTranspose(g, i, k) ==
  LET a == Args(g, i)[k]
      n == At(g, i).n
      turned == IF k = 1 THEN [n EXCEPT !.lc = 3 - @] ELSE [n EXCEPT !.rc = 3 - @]
  IN IF Op(g, i) = "dot" /\ Op(g, a) = "transpose" /\ Len(Dims(g, a)) = 2
     THEN [g EXCEPT !.ins[i].args[k] = Args(g, a)[1], !.ins[i].at.n = turned]
     ELSE g
TransposeFolding(g) ==
  RemoveUnused(FoldLeft(LAMBDA h, i : FoldTranspose(FoldTranspose(h, i, 1), i, 2), g,
                        SelectSeq(PostOrder(g), LAMBDA i : Op(g, i) = "dot")))

\* AlgebraicSimplifier drops a reshape that keeps the shape; ReshapeDecomposer
\* turns the others into bitcasts.
DropReshape(g, i) ==
  IF Op(g, i) = "reshape" /\ Dims(g, Args(g, i)[1]) = Dims(g, i)
  THEN ReplaceInstruction(g, i, Args(g, i)[1]) ELSE g
ReshapeToBitcast(g, i) == IF Op(g, i) = "reshape" THEN [g EXCEPT !.ins[i].op = "bitcast"] ELSE g

\* What the passes clean up, and what some leave behind in its place.
Cleans == [CallInliner |-> {"call"}, ZeroSizedHloElimination |-> {"zero_sized"},
           TopkRewriter |-> {"sort_and_slice"}, ShardingRemover |-> {"sharding"},
           StatefulRngSpmdPartitioner |-> {"sharding"}, RngExpander |-> {"rng"},
           QrExpander |-> {"qr"}, BatchNormExpander |-> {"batch_norm"},
           DynamicPadder |-> {"dynamic"}, AllReducePromotion |-> {"all_reduce_16"},
           TupleSimplifier |-> {"tuple_pairs"}, FlattenCallGraph |-> {"shared_computation"},
           AlgebraicSimplifier |-> {"copies"}, HloDCE |-> {"dead"},
           OptimizationBarrierExpander |-> {"barrier"}]
Leaves == [batch_norm |-> {"zero_sized"}, all_reduce_16 |-> {"dead"}]
LeavesAlways == [GpuConvRewriter |-> {"tuple_pairs"}, GpuLayoutAssignment |-> {"copies"},
                 FusionMerger |-> {"dead"}, GpuHorizontalLoopFusion |-> {"dead"}, CopyFusion |-> {"dead"}]
AfterPass(pass, t) ==
  LET cleaned == IF pass \in DOMAIN Cleans THEN t \cap Cleans[pass] ELSE {}
  IN (t \ cleaned) \cup UNION {Leaves[x] : x \in cleaned \cap DOMAIN Leaves}
       \cup (IF pass \in DOMAIN LeavesAlways THEN LeavesAlways[pass] ELSE {})

\* What a pass must not meet, by the comments; the last one is the emitter.
MustNotMeet == [StatefulRngSpmdPartitioner |-> {"sort_and_slice", "call", "zero_sized"},
                DotDecomposer |-> {"call"},
                GpuLayoutAssignment |-> {"shared_computation", "tuple_pairs"},
                GemmRewriter |-> {"copies", "zero_sized"},
                CopyInsertion |-> {"dead"},
                IrEmitter |-> {"call", "zero_sized", "sharding", "rng", "qr", "batch_norm", "dynamic",
                               "all_reduce_16", "copies", "dead", "barrier"}]

-----------------------------------------------------------------------------
(* The pipelines. *)

If(flag, passes) == IF flag \in job.flags THEN passes ELSE <<>>
IfNot(flag, passes) == IF flag \in job.flags THEN <<>> ELSE passes
\* HloPassFix: as often as something changes; twice is enough for the traits.
Fix(passes) == passes \o passes

PreSpmd == <<"CallInliner", "ZeroSizedHloElimination", "ConditionalCanonicalizer",
             "TopkDecomposer", "TopkRewriter">>
Spmd == <<"CallInliner", "ZeroSizedHloElimination", "ConditionalCanonicalizer", "TopkRewriter">>
        \o Fix(<<"AlgebraicSimplifier", "SortSimplifier", "TupleSimplifier", "ScatterSimplifier",
                 "ScatterExpander", "GatherSimplifier", "GatherExpander", "WhileLoopConstantSinking",
                 "WhileLoopSimplifier", "ReshapeMover", "HloConstantFolding", "ConditionalSimplifier",
                 "HloDCE">>)
        \o <<"HloConstantSplitter", "ShardingPropagation", "StatefulRngSpmdPartitioner",
             "CollectivePermuteMotion">>
ShardingRemoval == <<"ShardingRemover", "HloDCE">>
Expansion ==
  <<"HloVerifier", "TopKSplitter", "TopkSpecializer", "TopkDecomposer", "OperandUpcaster", "ResultCaster",
    "RngExpander", "RngBitGeneratorExpander", "ComparisonExpander", "ZeroSizedHloElimination">>
  \o If("deterministic", <<"ScatterExpander">>)
  \o <<"GpuScatterExpander", "QrExpander", "EighExpander", "DynamicIndexSplitter", "CallInliner",
       "DotDimensionSorter", "DotDecomposer", "StochasticConvertDecomposer", "Convolution4DExpander",
       "ConvolutionPredExpander", "StableSortExpander", "BatchNormExpander", "LogisticExpander",
       "ConditionalCanonicalizer", "DynamicDimensionSimplifier", "DynamicPadder">>
Simplification ==
  Fix(<<"ZeroSizedHloElimination", "GatherSimplifier", "GatherExpander", "ScatterSimplifier",
        "ScatterExpander", "ScatterSliceSimplifier", "AlgebraicSimplifier", "BitcastDtypesExpander",
        "DotDimensionSorter", "DotDecomposer", "DotMerger", "SortSimplifier", "TupleSimplifier",
        "WhileLoopConstantSinking", "WhileLoopSimplifier", "SliceSinker", "ReshapeMover",
        "HloConstantFolding", "ConditionalSimplifier", "RealImagExpander", "TransposeFolding",
        "HloCSE", "HloDCE">>)
  \o Fix(<<"ConvertMover", "AlgebraicSimplifier">>)
  \o <<"WhileLoopTripCountAnnotator", "HloComputationDeduplicator">>
Collectives ==
  <<"AllReduceFolder", "ReduceScatterCreator", "AllReduceReassociate", "ReduceScatterReassociate",
    "WhileLoopAllReduceCodeMotion">>
  \o If("data_parallel", <<"DataParallelCollectiveOptimizer">>)
  \o <<"AlgebraicSimplifier", "AllGatherBroadcastReorder", "AllReducePromotion", "HloDCE">>
ConvCanonicalization ==
  <<"FloatNormalization", "MklRewriter", "GpuConvRewriter", "OnednnFusedConvRewriter",
    "GpuConvPaddingLegalization", "CallInliner", "TupleSimplifier">>
  \o Fix(<<"AlgebraicSimplifier">>) \o Fix(<<"ReshapeMover">>)
  \o Fix(<<"ConvertMover", "AlgebraicSimplifier">>) \o <<"HloConstantFolding">>
LayoutAssignment == If("LLM", <<"DotExpandDims">>) \o <<"FlattenCallGraph", "GpuLayoutAssignment">>
HloNormalization ==
  <<"HloConstantFolding">>
  \o Fix(<<"AlgebraicSimplifier">>)
  \o <<"TransposeFolding", "ReshapeDecomposer", "ReduceDecomposer", "MoveCopyToUsers",
       "GemmRewriter", "GemmBroadcastFoldingRewriter">>
  \o If("normalize_layouts", <<"LayoutNormalization", "AlgebraicSimplifier">>)
  \o <<"BroadcastCanonicalizer", "ReductionDegenerateDimRemover", "ReductionLayoutNormalizer",
       "ReductionDimensionGrouper", "ReductionSplitter", "GpuTreeReductionRewriter">>
PostLayoutAssignment ==
  <<"FloatNormalization", "FloatNormalization", "FloatNormalization">>
  \o If("simplify_fp", <<"SimplifyFPConversions">>)
  \o <<"TupleSimplifier">> \o Fix(<<"AlgebraicSimplifier">>) \o <<"HloCSE">>
MhaFusion == <<"RedundantConvertMover", "HloDCE">> \o If("xetla", <<"FusedMHARewriter">>)
             \o <<"HloDCE", "HloCSE">>
SolverCalls == <<"TriangularSolveRewriter">>
Fusion ==
  Fix(<<"VariadicOpSplitter">>
      \o If("priority_fusion", <<"GpuInstructionFusion">>)
      \o IfNot("priority_fusion", <<"GpuInstructionFusion", "GpuInstructionFusion", "FusionMerger">>)
      \o <<"FusionCSE", "GpuMultiOutputFusion", "FusionCSE", "HloDCE">>)
  \o Fix(<<"GpuHorizontalLoopFusion", "GpuHorizontalInputFusion", "FusionCSE", "HloDCE">>)
PostFusion ==
  <<"AllGatherCombiner", "AllReduceCombiner", "ReduceScatterCombiner">>
  \o If("contiguous", <<"AllReduceContiguous">>)
  \o If("blueconnect", <<"AllReduceBlueConnect">>)
  \o <<"AsyncCollectiveCreator", "GpuAsyncCollectiveAnnotator">>
  \o IfNot("spmd", <<"CollectivesScheduleLinearizer">>)
  \o <<"AlgebraicSimplifier", "HloComputationDeduplicator">>
PrepareHloModuleForIrEmitting ==
  <<"HloDCE">> \o If("alias_passthrough", <<"AliasPassthroughParams">>)
  \o <<"LoopScheduleLinearizer", "CopyInsertion", "CopyFusion", "GpuHorizontalLoopFusion", "HloDCE",
       "GpuSanitizeConstantNames">>
\* CompileModuleToLlvmIrImpl: the passes after scheduling, then the emitter.
CompileModuleToLlvmIr ==
  <<"GpuConvertAsyncCollectivesToSync", "OptimizationBarrierExpander", "HloRematerialization",
    "BufferAssigner", "IrEmitter">>

Pipelines == <<"PreSpmd", "Partitioning", "Expansion", "Simplification", "Collectives",
               "ConvCanonicalization", "LayoutAssignment", "HloNormalization", "PostLayoutAssignment",
               "MhaFusion", "SolverCalls", "Fusion", "PostFusion", "Prepare", "Compile">>
PassesOf(pipeline) ==
  CASE pipeline = "PreSpmd" -> PreSpmd
    [] pipeline = "Partitioning" -> IF job.partitions > 1 THEN Spmd ELSE ShardingRemoval
    [] pipeline = "Expansion" -> Expansion
    [] pipeline = "Simplification" -> Simplification
    [] pipeline = "Collectives" -> Collectives
    [] pipeline = "ConvCanonicalization" -> ConvCanonicalization
    [] pipeline = "LayoutAssignment" -> LayoutAssignment
    [] pipeline = "HloNormalization" -> HloNormalization
    [] pipeline = "PostLayoutAssignment" -> PostLayoutAssignment
    [] pipeline = "MhaFusion" -> IfNot("no_mha", MhaFusion)
    [] pipeline = "SolverCalls" -> SolverCalls
    [] pipeline = "Fusion" -> Fusion
    [] pipeline = "PostFusion" -> PostFusion
    [] pipeline = "Prepare" -> PrepareHloModuleForIrEmitting
    [] pipeline = "Compile" -> CompileModuleToLlvmIr

-----------------------------------------------------------------------------
(* Running a pass. *)

\* A rewriter visits the instructions it finds at its start, operands first,
\* and stops at an error.
VisitAll(g, Visit(_, _)) ==
  FoldLeft(LAMBDA h, i : IF h.status = "ok" /\ i \in Ids(h) THEN Visit(h, i) ELSE h, g, PostOrder(g))
RunOnednnFusedConvRewriter(g) ==
  CheckNoIllegalIntegerConvs(
    FoldLeft(LAMBDA h, pass : VisitAll(h, LAMBDA k, i : ConvVisit(pass, k, i)), g, ConvPasses))
RunFusedMHARewriter(g) ==
  FoldLeft(LAMBDA G, i : UNION {IF h.status = "ok" /\ i \in Ids(h) THEN MhaVisit(h, i) ELSE {h} : h \in G},
           {g}, PostOrder(g))
Rewrite(pass, g) ==
  CASE pass = "HloDCE" -> {RemoveUnused(g)}
    [] pass = "HloCSE" -> {MergeEqual(g)}
    [] pass = "TransposeFolding" -> {TransposeFolding(g)}
    [] pass = "AlgebraicSimplifier" -> {VisitAll(g, DropReshape)}
    [] pass = "ReshapeDecomposer" -> {VisitAll(g, ReshapeToBitcast)}
    [] pass = "MklRewriter" -> {VisitAll(g, CreateCholesky)}
    [] pass = "OnednnFusedConvRewriter" -> {RunOnednnFusedConvRewriter(g)}
    [] pass = "DotExpandDims" -> {VisitAll(g, ExpandDotDims)}
    [] pass = "GemmRewriter" -> {VisitAll(g, GemmRewriterVisit)}
    [] pass = "RedundantConvertMover" -> {VisitAll(g, RemoveRedundantConversion)}
    [] pass = "FusedMHARewriter" -> RunFusedMHARewriter(g)
    [] pass = "TriangularSolveRewriter" -> {VisitAll(g, TriangularSolve)}
    [] OTHER -> {g}

RunPass(s, pass) ==
  IF s.graph.status # "ok" THEN {s}
  ELSE {[graph |-> h, traits |-> AfterPass(pass, s.traits),
         missed |-> s.missed \cup
           IF pass \in DOMAIN MustNotMeet THEN {pass} \X (s.traits \cap MustNotMeet[pass]) ELSE {}] :
          h \in Rewrite(pass, s.graph)}
RunPasses(s, passes) ==
  FoldLeft(LAMBDA S, pass : UNION {RunPass(x, pass) : x \in S}, {s}, passes)

-----------------------------------------------------------------------------
Init ==
  /\ job \in Jobs
  /\ source = GraphOf(job.program)
  /\ graph = source
  /\ traits = job.traits
  /\ missed = {}
  /\ todo = Pipelines

\* Several partitions need the partitioner.
CanPartition == job.partitions > 1 => "spmd" \in job.flags

RunPipeline ==
  /\ todo # <<>> /\ graph.status = "ok"
  /\ Head(todo) = "Partitioning" => CanPartition
  /\ \E s \in RunPasses([graph |-> graph, traits |-> traits, missed |-> missed], PassesOf(Head(todo))) :
       /\ graph' = s.graph
       /\ traits' = s.traits
       /\ missed' = s.missed
  /\ todo' = Tail(todo)
  /\ UNCHANGED <<job, source>>

\* num_partitions=%d but SPMD partitioning not enabled.
RefusePartitions ==
  /\ todo # <<>> /\ graph.status = "ok"
  /\ Head(todo) = "Partitioning" /\ ~CanPartition
  /\ graph' = Failed(graph)
  /\ todo' = <<>>
  /\ UNCHANGED <<job, source, traits, missed>>

\* The module is compiled as one, whatever the number of threads.
Finished == todo = <<>> \/ graph.status # "ok"
Next == RunPipeline \/ RefusePartitions \/ (Finished /\ UNCHANGED vars)
Spec == Init /\ [][Next]_vars

-----------------------------------------------------------------------------
(* Properties. *)

\* The graph computes after every pipeline what the program says: no fusion
\* into a library call changes a value, drops an operand or an activation, or
\* reads a matrix the wrong way round.
MeaningIsKept == graph.status = "ok" => Meaning(graph) = Meaning(source)

\* A program of the supported kinds compiles: no rewriter leaves a shape
\* mismatch, an untransformed integer convolution or an unfolded transpose to
\* a check of a later one, and neither a pass nor the emitter meets what the
\* order of the passes (OptimizeHloModule) is there to keep from it.
CompilesSupportedPrograms ==
  /\ CanPartition => graph.status = "ok"
  /\ missed = {}

\* CanShareBufferHint: the operand a call may overwrite with its result.
CanShareBufferHint(g, user) ==
  CASE Op(g, user) = "gemm" /\ At(g, user).target = "lt" /\ At(g, user).beta # 0 -> {Args(g, user)[3]}
    [] Op(g, user) = "conv" /\ At(g, user).fused /\ At(g, user).side_scale # "0" -> {Last(Args(g, user))}
    [] Op(g, user) = "potrf" -> {Args(g, user)[1]}
    [] OTHER -> {}
\* output_to_operand_aliasing: the operand whose buffer the result must take.
Aliased(g, u) ==
  IF Op(g, u) \in {"gemm", "conv"} /\ At(g, u).alias # 0 THEN {Args(g, u)[At(g, u).alias]} ELSE {}

\* The bias of a convolution without side input: the code has the result take the
\* buffer of this vector, which is too small.
BiasVector(g, u) == IF Op(g, u) = "conv" /\ Len(Args(g, u)) = 3 THEN {Args(g, u)[3]} ELSE {}

\* Computed from constants alone: CSE may find an equal tensor elsewhere, and
\* copy-insertion copies what two instructions then read.
RECURSIVE OfConstants(_, _)
OfConstants(g, i) == Op(g, i) # "param" /\ \A a \in ToSet(Args(g, i)) : OfConstants(g, a)

\* A buffer that a call may or must share with its result has the result's type
\* and size, whatever the later passes do to both, except BiasVector.  The matrix
\* whose buffer a product must take is no caller's that was not donated, and nobody
\* else reads it ("the gemm is the only user") unless it is made of constants.
SharedBuffersFit ==
  \A u \in Ids(graph) :
    /\ \A a \in (CanShareBufferHint(graph, u) \cup Aliased(graph, u)) \ BiasVector(graph, u) :
         Type(graph, a) = Type(graph, u) /\ Dims(graph, a) = Dims(graph, u)
    /\ Op(graph, u) = "gemm" => \A a \in Aliased(graph, u) :
         /\ Op(graph, a) = "param" => At(graph, a).donated
         /\ OfConstants(graph, a) \/ Users(graph, a) = {u}
=============================================================================
