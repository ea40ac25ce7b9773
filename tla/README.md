# A TLA+ model of the Intel extension for OpenXLA

The repository is a PJRT plug-in that lets XLA compile and run programs on Intel
GPUs.  It replaces what upstream XLA does for CUDA: the stream executor over SYCL
and Level Zero, the GPU executable and its thunks, the collectives between the
devices of one process, the compiler pipeline with its own rewriters and emitters,
and the C interface.  This directory models the parts where several host threads,
device queues and shared tables meet, the compiler's pipelines and rewriters, the
kernels its emitters produce and the library calls its thunks make, model-checks them
with TLC, and proves with TLAPS the central facts about the collectives, the tables of
the executor, the C interface and the pool of pinned buffers.

`PROJECT.json` lists the components, runs, mutants, the map from definitions to
source lines, the findings, the hazards and the theorems.  Sources are named
relative to `src/`.

## 1. The system

| Part | Sources | State it keeps | Operations | Meets |
|---|---|---|---|---|
| Collective entry points | `xla/service/gpu/ccl_ops.cc`, `.h` | the process-wide `Manager`: one mutex, one condition variable, three maps from a communicator id to waiting participants | `sycl_allreduce`, `sycl_allgather`, `sycl_alltoall`, `sycl_reduce_scatter`, `sycl_collective_permute` | called by the collective thunks; submits to device queues |
| Collective kernels | `ccl_ops.cc` | none | five kernels, instantiated by type and rank count | buffers of all ranks |
| Collective thunks | `ccl_collective_thunk.cc`, `ccl_all_*_thunk.cc`, `ccl_collective_permute_thunk.cc` | `first_call_to_execute_`, `done_events_` | `ExecuteOnStream`, `AsyncExecutor::Execute`, `Await`, the `Run*` functions | communicators, entry points, streams |
| Communicator cliques | `ccl_utils.cc`, `ccl_utils.h` | cliques with lock, run id, unique id, communicators, `ready` | `AcquireCclComm`, `AcquireCclClique`, `CclUniqueIdCallback` | rendezvous of one run; entry points through the id |
| GpuExecutor | `xla/stream_executor/sycl/sycl_executor.cc` | modules with reference counts, kernels, weak cache of constants | `LoadModule`, `GetKernel`, `UnloadKernel`, `UnloadModule`, `CreateOrShareConstant` | executables and kernel thunks |
| GpuExecutable | `gpu_executable.cc`, thunks | `module_handles_`, `module_globals_`, `shared_constants_`; per run buffers and result | `ExecuteAsyncOnStream`, `ResolveConstantGlobals`, destructor | executor, allocator, stream, control-flow thunks |
| SYCL runtime | `sycl_gpu_runtime.cc`, `sycl_driver.cc`, `sycl_event.cc`, `sycl_stream.cc` | device and stream pools, events | create, record, wait, synchronize | everything that enqueues |
| Feeds, transfer manager | `infeed_thunk.cc`, `outfeed_thunk.cc`, `gpu_transfer_manager.cc` | queue of destinations (external), pool of pinned buffers | transfer, read dynamic shapes | host callers |
| PJRT wrapper and client | `xla/pjrt/*` | objects handed across the C interface, events, the client's allocator | the `PJRT_*` entry points | executable |
| Compiler | `gpu_compiler.cc`, `spir_compiler.cc`, `compile_module_to_llvm_ir.cc` | the module being compiled | pass pipelines, buffer assignment, code generation | rewriters, emitters |
| Rewriters | `gemm_rewriter.cc`, `onednn_fused_conv_rewriter.cc`, `fused_mha_rewriter.cc`, ... | the HLO graph | pattern rewrites | compiler |
| Emitters | `ir_emitter_unnested.cc`, `ir_emitter.cc`, `ir_emitter_nested.cc` | thunk sequence, IR | one handler per operation | compiler, thunks |
| Library thunks, XeTLA kernels | `gemm_thunk.cc`, `convolution_thunk.cc`, `xetla/` | plan caches | one library call each | kernel libraries |
| Platform, Python, packaging | `sycl_platform.cc`, `xla/python`, `xla/tools` | registration | registration | process start |

How they interact.  A client thread per device calls `ExecuteAsyncOnStream`.  It
resolves constants and kernels in tables shared by all executables of the device,
allocates buffers, and walks the thunks.  A compute thunk only enqueues.  A
collective thunk meets the threads of the other devices twice: once in the
rendezvous that hands out communicators, once in the `Manager`, where the last
thread submits one kernel, on rank 0's queue, for the buffers of all devices, with
barriers between the queues around it.

What is hard: the rendezvous shares one condition variable between unrelated groups
and waits on it without a predicate; barriers and events must order queues that no
host waits for; two runs lock cliques and communicators of several devices; the
executor's tables are keyed by addresses that are used again; errors return from
the middle of allocation, aliasing and resolution; temporary buffers are freed
while the device may still run; the warps of an emitted kernel meet at barriers over
tiles that may end anywhere; handles of the C interface are destroyed while devices
still use what is behind them; feeds hand over memory of one thread's stack to another
thread's stream; rewriters meet each other's results in an order the program decides;
layouts, strides and post-operations have to describe the same computation to a library.
Each of these is in the list of hazards with the
line where it bites.

What makes the parts correct: a collective is computed once, from exactly the
operands of one group, after they were written and before the results are read;
nobody waits for ever; a kernel runs the code of its own binary while that is
loaded; a constant is allocated as long as somebody uses it; a run returns the value
of its program, and every buffer has one owner; an emitted kernel reads every element
of an output once and writes every output, and nothing else; a rewritten program means
what it meant; a library is told to compute what the instruction says; memory outlives
the operations that use it, and every operation that was begun completes.

## 2. Modules

| Module | Models | Composes |
|---|---|---|
| `CclDispatch` | which collectives, types and rank counts are accepted, and which have a kernel | |
| `CclOps` | the `Manager` and the five `sycl_*` calls | `CclDispatch` |
| `CclOpsProofs`, `CclCollectiveThunkProofs`, `CclCliqueProofs`, `CclKernelsProofs`, `GpuExecutorProofs`, `GpuExecutableProofs`, `FeedsProofs`, `PjrtWrapperProofs` | theorems about the module of that name (section 5) | that module |
| `Collective` | abstract: a collective takes effect once, after all inputs and before any use | |
| `CclCollectiveThunk` | the thunks, the events and the device queues | extends `CclOps`; refines `Collective` |
| `CclClique` | cliques, communicators, locks of concurrent runs | |
| `CclKernels` | counts and kernels on symbolic buffers | `CclDispatch` |
| `GpuExecutor` | the tables of the executor and the life of executables | |
| `GpuExecutable` | a run: buffers, aliasing, thunks, stream, tear-down | |
| `ThunkSemantics` | abstract: the value of a thunk sequence, with which results are compared | `GpuExecutable` |
| `TilingScheme` | which elements the threads of a tiled kernel visit | |
| `KernelBlocks` | blocks, warps, shared memory, the barrier | `TilingScheme` |
| `EmitReduction`, `EmitTranspose` | the choice of the tiling and the phases of the kernel | `KernelBlocks` |
| `EmitSort` | the thunks of a bitonic sort, emitted and run | |
| `LibraryCalls` | convolutions and matrix products, from the instruction to what the library computes | `HloGraph` for terms |
| `FusedAttention` | the fused attention call and its XeTLA kernel | |
| `EmittedKernels` | one of these kernels or calls, emitted and run | the five above |
| `SyclRuntime` | queues, streams, events, copies and fills | |
| `Feeds` | infeed, outfeed, reading of dynamic shapes, the pool of pinned buffers | `SyclRuntime` |
| `PjrtWrapper` | the handles of the C interface and the operations behind them | |
| `HloGraph`, `HloValues` | graphs of instructions, and the symbolic value each stands for | |
| `GemmRewriter`, `ConvRewriter`, `MhaRewriter`, `LibraryRewriters` | the rewriters, as functions on graphs | `HloValues` |
| `GpuCompiler` | the pipelines, one step each, and the backend | the rewriters |
| `MC*` | the instances for TLC | |

**CclOps.**  A thread is a host thread of one device, and all threads make the calls
of `Program`.  `collectives` holds the three maps, flattened to keys `<<map, id>>`;
a participant is a thread and a call, which determines the stream, buffers and rank
the code stores.  The critical section of a `sycl_*` call runs under `Manager::mu`,
so it is one action: `Wait` pushes and sleeps, `Launch` erases, submits and
notifies, `Fatal` is the `LOG(FATAL)` of a type or rank count without kernel.
`Return` is the wake-up, after which the code tests nothing.  `launches` is a history
variable.

**CclCollectiveThunk** extends `CclOps` and adds to its calls what surrounds
them (`ThunkInit`, `ThunkNext`, `ThunkSpec`): the wait for the compute stream, `LaunchSubmissions` (barriers and kernel in
the order the launch submits them), the done event, the unsynchronised
`first_call_to_execute_`, `Await`, and in-order queues that execute commands.
`config` is chosen at first: which operations are asynchronous, one stream or several
(`IsMultipleStreamEnabled`), first run or later.  `OperationsAssumption` says that the
calls of an operation lie together in `Program` and pass one communicator, in which ranks
differ, and `ScheduleAssumption` that `Schedule`
has the input, start, done and output thunk of every operation once, in this order.
`Emitted` leaves out the done thunks of synchronous operations, for which the emitter
makes none.

**CclClique** gives every run one thread per device.  A group meets at a rendezvous
(external: modelled as "all have arrived"), holds the clique while its members
create and lock their communicators, and each drops its reference afterwards.

**CclKernels** is a pure algorithm with two steps: the `Run*` function computes the
count, the kernel computes the result.  Elements are symbolic, so that a result shows
which operands went into it.

**GpuExecutor** has one action per critical section of the executor.  A run resolves
constants, loads kernels, launches and returns; the destructor of an executable
releases its members in reverse order of declaration.  Addresses of binaries and of
constants are reused.  An entry of the executor's cache of constants is a `weak_ptr`: it
expires with the last executable that shares the memory, so memory that is given out
again is not taken for the old constant.  `lost` counts handles dropped by failed
resolutions.

**GpuExecutable** follows one call of `ExecuteAsyncOnStream`: allocate, decide the
buffer of every output, walk the thunks with a stack of sequences, wait or not, tear
down, return.  Two runs share the cells of device memory.  The device executes streams
in order.  `JobsAssumption` states what the run takes from buffer assignment and from its
caller: a parameter has one allocation; an output lies in an allocation of its own or in
that of the parameter it aliases, which no other output aliases (XLA verifies the alias
configuration); memory that outlives the run is an output's; kernels read allocations
that have memory and write only memory the run allocates or a parameter that becomes an
output of its own; a donated buffer is nobody else's argument and no constant.  The field
`sequences` of a program is the set of its thunk sequences, nested ones and tails
included, so that the host's stack has a type.

**TilingScheme and KernelBlocks** are what reductions and transposes share: the
scheme of `kernel_mapping_scheme.h`, the loops of `EmitTilingKernel`, `EmitTile` and
`EmitXTileLoop` as sets of visited elements, and a device that runs the warps of a
block in any order between barriers.  Blocks share nothing but the output, where every
write is kept, so they run one after the other.

**EmitReduction** translates `ComputeReductionCodegenInfo` and the two output functions.
A value is the set of the elements reduced into it; an element that comes twice, from
outside the view or from a lane without a value leaves a mark.  A row reduction goes
through `WriteRows`, or `StoreWarp`, barrier, `ReduceWarps`; a column reduction through
`StoreTransposed`, barrier, `ReduceColumn`, once for each partial result.
**EmitTranspose** copies a tile (`StoreTile`), meets at the barrier and writes it out
(`LoadTile`).  **EmitSort** runs the two loops of `EmitSort` one mask at a time, then
the emitted thunks; the body of the kernels is XLA's and external.

**LibraryCalls.**  A behaviour is one call.  The emitter derives the thunk's
configuration, the thunk derives memory descriptions (dimensions, strides, type),
attributes and a list of post-operations, the library (external) reads what the
descriptions say.  Memory is a function from addresses to named elements, so that a
wrong stride, an exchanged operand or a post-operation in the wrong place yields
another set of products.  The reference is the instruction's definition.

**FusedAttention** runs one row of one work-group of the kernel of `xetla/sdp`: the
subgroups that share the row go through the tiles of keys, exchange Q, maxima, sums and
probabilities through local memory, and meet at one named barrier whose arrivals and
waits are separate steps, as in the code.  The exponential has base 2 so that numbers are
exact; an output is the weight every row of V has in it.

**SyclRuntime and Feeds.**  A workload is the list of the calls that host threads make;
the threads interleave and every queue runs its commands one after the other.  `multi`
is `XLA_ENABLE_MULTIPLE_STREAM`.  A call that blocks has a step for each wait.  Feeds adds the
infeed and outfeed thunks leaf by leaf, the host callbacks of an outfeed, and
`ReadDynamicShapes` with its mutex-protected stack of buffers and each caller's
`checked_out_buffers`.  XLA's managers, which hold the
feeds, are external.  The reference executes every call at once in the order of the list.

**PjrtWrapper.**  Handles are heap objects whose addresses are reused.  A future is an
operation on a device with the memory it uses and the lambdas registered on it; memory
behind a `shared_ptr` is alive while a frame of a call or a lambda holds it.  Every entry
point that creates, uses or destroys an object is an action, and `Execute` has one step per
device.  The caller keeps the contract of the interface.

**HloGraph, HloValues and the rewriters.**  A graph is a sequence of instructions with
opcode, operands, attributes, type and dimensions; a rewriter is a function on graphs
that follows the visitor in the order it visits.  The value of an instruction is a
symbolic term in which a bitcast is the identity, sums and products are unordered, and
rounding of a computed number to another floating-point type is ignored, while
conversions to integers and narrowing of inputs and constants are not.
**GpuCompiler** runs one pipeline per step in the order of `OptimizeHloModule`,
`OptimizeHloConvolutionCanonicalization`, `OptimizeHloPostLayoutAssignment`,
`PrepareHloModuleForIrEmitting` and the backend.  XLA's own passes rewrite the graph where
the rewriters depend on it, and otherwise keep traits of the module: what a pass removes,
what it leaves behind, what another pass must not meet.

## 3. Runs

Twelve runs, two of which must end in a violation.

| Run | Shows | Instance |
|---|---|---|
| `ops_one_clique` | groups are whole, calls return after their launch, nobody is left asleep; the inductive invariant of the proofs | 4 threads, 7 calls of 4 operations, the last without a kernel |
| `ops_two_buffers` | **violation**: two cliques with two buffers | 4 threads in 2 cliques |
| `thunk_all_configs` | refinement of `Collective`, meaning of the done event, first run blocks, hosts and queues finish | 2 devices, 2 overlapping operations, all 16 settings |
| `clique_two_runs` | one lock order on every rank, waiting under one id is one group, ids stay, no deadlock | 2 runs, 3 devices, split then all |
| `kernels_real` | every result exact and inside its buffers | 2 to 4 ranks, up to 4 elements, work groups of 1 and 3, all permutes |
| `executor_two_executables` | exact counts and modules loaded exactly as long as somebody owns them, own code, constants allocated exactly as long as shared, runs return | 2 executables, 2 executors, 2 addresses, 4 runs, 1 failure |
| `executable_all_jobs` | exact results, one owner and no leak but of an error, callers keep buffers, freed when idle, runs return | 7 jobs of 2 runs over 3 programs |
| `emitted_kernels` | reductions, transposes and sorts, convolutions, matrix products and fused attention are exact; barriers are always reached by all | warps of 4; 96 row and 96 column reductions, 108 transposes, sorts of 2 to 9 keys; 393 convolutions, 878 products, 38 attention calls of up to 6 keys with 2 to 4 subgroups |
| `feeds_workloads` | every location the host reads holds what the list of calls says; memory outlives the commands that use it; pinned buffers are neither lost nor shared; matching calls return | 6 workloads of up to 3 threads, one or several streams |
| `pjrt_workloads` | memory outlives devices, device pointers stay valid, an event's future is queried once unless its caller awaits it again, cost properties stay, everything completes | 4 workloads, 3 devices of which 2 addressable, up to 2 threads |
| `compiler_all_programs` | the meaning of a program is kept after every pipeline; supported programs compile and no pass meets what it must not; a shared result buffer fits, except the bias of a convolution (section 4); a matrix that a product overwrites has no other reader | products, convolutions, attention blocks, solvers, traits |
| `compiler_two_biases` | **violation**: a second bias before attention | one program |

Why the bounds are enough.  Four threads give two cliques of two, the least with which
one clique can wake another; three operations over two maps give a thread that is a
whole operation ahead.  Two overlapping operations give a done event in flight while
another start thunk runs.  Three devices with a split and a joint clique give runs
that meet the cliques in different orders.  Work groups of 3 with up to 4 elements
have a last group that is partly idle; all-reduce of 3 ranks reaches the missing
kernel.  Two executables and two addresses give sharing and reuse of an address.  The
cells of each job are chosen so that allocation fails in some interleavings and memory
is reused in others.  With warps of 4, threads of 2 elements and tiles of 4 the kernels
meet every case of the real sizes (32; 16 or 128; 2048) with shapes of a few elements:
rows that share a warp, fill part of a block, need several tiles or several blocks,
columns and tiles that end inside a tile, masks within a tile and beyond it.  Sorts
use keys 0 and 1, which suffice for a network of comparisons.  Convolutions have one to
three dimensions with padding, stride and dilation and every layout that has a format (and
one that has none); products have every combination of row- and column-major operands.
Attention has one key, part of a tile, a tile and a part, and two tiles, so that the
maximum rises, stays and falls between tiles.

The workloads of the feeds are: one thread with two streams, events and dependencies
(`TwoStreams`); synchronous copies and fills of two threads (`Synchronous`); a program with two
infeeds and three outfeeds, one of nothing, fed and read by two other threads
(`FedProgram`); two readers of dynamic shapes with more leaves than the two pinned buffers
(`TwoReaders`); and feeds that do not match at their first leaf (`WrongInfeed`,
`WrongOutfeed`).  Those of the C interface are: executions on both devices with callbacks;
executables and their cost analysis from two threads; transfers and their events from two
threads, each event awaited at most once more than needed; executions whose outputs are copied, with a client that is destroyed and
created again.  The programs of the compiler are one product, convolution or attention
block under sequences of up to four layers (bias, matrix, activation, conversion, factor,
second use), products of vectors, Cholesky and triangular solves, and programs with any
one or two traits, or all, under three settings of the flags that add or drop passes.

Bounds: `MaxCount`, `RankCounts` and `GroupSizes` of the kernels; `MaxAllocs` and
`MaxFailures` of the executor; `MaxQueues` of a device; `handles`, `futures`, `executables`,
`clients` and `awaits` of a PJRT workload; the tile sizes of the emitted kernels.

Fairness is weak fairness of each host thread and each queue.  The operating
system schedules threads and hands a free mutex to a thread that asks; an in-order
SYCL queue executes what is submitted.  What the client does next (start a run, drop a
result or an executable) has no fairness.  No strong fairness is used.  In
`pjrt_workloads` devices complete their operations and a call that has begun goes on; in
`feeds_workloads` threads are scheduled and queues finish their commands.

Deadlock is checked except in these two: a caller of the C interface may stop making calls,
and a thread whose outfeed literal does not match really waits for ever (the thunk fails
after it has taken the destination, and nobody tells the waiting thread).

## 4. Findings

Each is a run that must end in a violation, with a quoted line of the source.

1. `ops_two_buffers`: `cv.wait(l)` returns on any clique's `notify_all`; with two
   buffers a woken thread joins its own stale entry, and a kernel is submitted for one
   rank twice and for its partner not at all.
2. `compiler_two_biases`: the attention rewriter accepts as first product one into which a
   bias has already been fused, and passes only its two operands and the bias of the
   following addition: the first bias is lost.

The following came up while modelling.  The models contain the code's behaviour; the
instances stay outside of these cases, so that the properties say what holds elsewhere.

* Counts of complex buffers are doubled although the kernels are instantiated for
  `std::complex` (`ccl_all_reduce_thunk.cc:64`): `kernels_real` has real types only.
* An instruction that lists one replica group forms one clique per partition, all under
  one id (`ccl_utils.h:68`): `clique_two_runs` lists its groups.
* A failed `CreateOrShareConstant` drops the module handle before it is scoped
  (`gpu_executable.cc:307`), and the module stays loaded; the model counts it as an owner.
* A run that ends with an error forgets the buffers it had allocated and that were no output
  yet (`gpu_executable.cc:424`, `:630`), and the aliased outputs: `OneOwner` names them
  (`Lost`), shows that no other buffer is lost, and that nobody gets them again.
* `std::clamp` is called with value and lower bound exchanged
  (`ir_emitter_unnested.cc:5236`), undefined when the bounds cross.  Both outcomes are checked where
  the maximum is two; a maximum of six would write past the row.
* XeTLA has no kernel for a GELU without a bias, ignores a matrix beside a bias and a
  GELU, and reads a column-major second operand as row-major (`xetla/gemm/gemm.cc:242`).
* The legacy `GemmThunk` drops the matrix when beta is not 0, and errors of a running
  oneDNN primitive are swallowed (`gpu_conv_runner.cc:96`).
* A fused ELU fails at run time.  A convolution of S8 into F32 describes its result with
  the input's type.  Reversal of the window and dilation of the base are ignored.
* A convolution into which only a bias was fused is told that its result takes the bias's
  buffer, as if the last operand were a side input (`onednn_fused_conv_rewriter.cc:397`): a
  vector instead of a tensor, and for the index of the whole tuple that the call returns.
  What XLA makes of the pair is not in this repository; `ConvRewriter` records it, and
  `SharedBuffersFit` leaves this operand out by name (`BiasVector`).
* The attention kernel reads a bias without the dimension of heads, replaces a factor above
  one and ignores dropout (`xetla/sdp/fmha_forward.h:221`).  A mask, and the kinds without softmax, fail
  at run time.
* One matcher of the attention rewriter lacks a return (`fused_mha_rewriter.cc:480`).
* `PJRT_Event_Await` queries the future of an event that already has a status again
  (`pjrt_c_api_wrapper_impl.cc:1354`), although it "can only safely be called once"
  (`pjrt_c_api_wrapper_impl.h:106`); `PJRT_Event_Error` looks first.  In the model such a
  query returns anything, and `StatusIsTheFutures` speaks of what the wrapper does unless
  its caller awaits an event twice or after `PJRT_Event_Error`.
* A mismatch at a later leaf of an infeed frees memory that a copy may still read.

## 5. Proofs

Eight modules hold the theorems; `PROJECT.json` lists them.  Each proves `Spec => []IInv`
for an inductive invariant `IInv` with one lemma per part or per action, and derives the
properties from it.  The hypotheses are the `ASSUME`s of the modelled components, which
TLC evaluates in every run, and the ones named here.

**`CclOpsProofs`**: any finite set of threads, any ids, any program.
`TypeCorrect` needs nothing else.  `LockstepHolds`, `ReturnsAfterLaunchHolds` and
`LaunchesAreCliquesHolds` are about programs whose every call is made by all threads as
one clique under one id (`OneClique`).  Neither `ReturnsAfterLaunch` nor
`LaunchesAreCliques` is inductive: whether a group of the right size is the right group
depends on what else waits under its key.  `Lockstep` supplies this: all threads have
reached the same call, where a notified thread counts as past its call; the `Manager`
holds exactly the waiting threads, at their current call; every call they are past has
been launched.  Then a group of `Cardinality(Threads)` participants is everybody
(`CompleteIsEverybody`), and a launch moves all threads past the call in one step.
Without `OneClique` the theorems are false: `ops_two_buffers` is the counterexample.

**`CclCollectiveThunkProofs`**: any threads, any program of one clique (`OneClique`), any
schedule, every setting.  `DoneEventMeansDoneHolds`, `FirstCallBlocksHolds` and
`ImplementsCollectiveHolds` follow from `ThunkInvariantHolds`.  None is inductive, because
an event, a kernel or an output is allowed by commands that wait in other queues.  The
invariant is about what is known at the end of a queue.  A fact is that an input or a
kernel was executed.  A command needs facts (`Needs`: an output those of its collective,
a kernel its inputs, a signal what its event stands for) and may give some (`Gives`: a
wait, what its events stand for).  `Knowledge` says that whatever a command needs has
happened or is given by a command ahead of it in its queue, that an event that was
signalled stands for what happened, and what the end of each queue knows at each place of
its host; `Control` says where each host is in the schedule and in its calls, and builds on
`Lockstep`.  A submission keeps this if what it needs is known where it is
submitted, an execution because the head of a queue has nothing ahead of it.  The
refinement is step by step: the executions of an input, of the last kernel of a collective
and of an output are `Compute`, `Perform` and `Use` of `Collective`, every other step is a
stutter.

**`CclCliqueProofs`**: any devices, runs and operations.
`SameOrderHolds` and `IdStaysHolds` hold without further hypotheses.  The invariant says
that a group leaves its rendezvous together (`GroupsPass`, `Waiting`), that one group at a
time holds a clique (`OneGroupHolds`), that the ranks this group has locked are exactly
one run ahead of the ranks it has not (`OneRunAhead`), and that communicators exist only
under a name (`Named`).  The order of the runs on one rank is then equal to the order on
every other rank or one longer, and nothing else.
`WaitingUnderOneIdIsOneGroup` needs a hypothesis.  Either the cliques of a program get
different ids within a run (`DistinctIdsOneGroup`, any number of runs), or there is one
run at a time and one partition (`OneRunOneGroup`; then `GroupsLeave`, nobody returns
from an operation before its group has joined it, orders the groups that share an id).  With neither it is false: two concurrent runs of a program with a
synchronous and an asynchronous operation on the same devices and one replica group use
the id of the run for both cliques, and their ranks meet under it.  This is the case of
`ccl_utils.h:68` in section 4.

**`CclKernelsProofs`**: `ResultsAreExactHolds`, for every rank count, element count,
work-group size and permute, and every type that is not complex (`RealTypes`; for complex
types the code doubles the count, section 4).  `FoldFacts` shows what the loop over the
ranks accumulates; one lemma per kernel shows that the guards of the last work group
leave exactly the elements of the buffer.

**`GpuExecutorProofs`**: any executables, executors, addresses, contents, runs and
failures.  `RefcountIsOwners` is not inductive because what a count means depends on which
addresses are in use: `LiveOnly` (only live executables have kernels, handles and
running resolutions, and live binaries lie at different addresses), `Resolving` and
`Loading` (what a run inside a critical section has found) make it so.  `Counted`
decomposes the count into kernels, handles, resolutions and lost handles.
`KernelsRunOwnCode` adds `CodeOfModule` and `ModuleOfBinary`.  `ConstantsStayAllocated`
has an invariant of its own: a cache entry that has not expired leads to memory with its
content, shared memory holds its constant, and allocated memory is shared.

**`GpuExecutableProofs`**: any well-formed programs and jobs (`JobsAssumption`), any runs
and memory.  `OneOwner` is not inductive: whether a step frees a cell twice depends on where
the run's buffers lie.  `Mine` are the allocations the run made or that became an output;
`Placed` says that these lie in memory of the job, that every other buffer is still the
caller's, and that each result is the buffer of its allocation; `Apart` that the buffers of
`Mine` differ from each other and from the arguments that are still owned; `Donated` that a
donated argument is owned or became an output that `~ExecutionOutput` leaves; `Progress` how
far the run has come.  Then the memory of a run that is not over is the cells of `Mine` and
the owned arguments,
and every step of a run only moves cells between what it holds and `free` (`CellsMove`), so
that nobody else is affected.  `TemporaryIs` shows that `TearDown` frees exactly what is not
in the result.  `WritesApart` (no enqueued command writes what callers keep) gives
`CallersKeepTheirBuffersHolds`.  `StreamsKept` gives `FreedWhenIdleHolds`, which is about
executions in which no run failed after it had an output (`FailedEarly`): a run that fails
later frees its outputs while its stream may still use them, also in blocking mode (section 6).

**`PjrtWrapperProofs`**: any threads, devices and workloads.  `HeldForUse` says for each
running operation which frame or lambda holds its memory; it needs `OneMemory` (the
operations of an execution use the one piece of memory its frame holds), `InUse` (the
handle a call in progress works on is still there, and one thread waits for an event) and
`Owners` (a future has one event or belongs to one execution in progress).  `DeviceTable` is the shape of the client's table of devices while it is filled and
afterwards.  `Statuses` (an event has been queried once more than its caller awaited it again, and
not at all without a status) and `CostWritten` carry the last two properties;
`CostAnalysisStaysHolds` is an action property.

**`FeedsProofs`**: `PinnedBuffersAreKeptHolds`, any threads, workloads and buffers.
`Kept` splits the pinned buffers into those of the pool and those of each caller's frame
or of the frame behind its wait.  `CheckOutSplits` and `FoldSplits` show that the loop of
`ReadDynamicShapes` takes the last buffers of the pool.

Folds and loops are recursive functions, for which the library's induction theorems
cannot be used.  The proofs go by the least counterexample: the equation has a solution
up to every bound (`FoldExists`), so the `CHOOSE` satisfies it, and a least place at which
the claim fails contradicts the equation (`LeastIn`).

What the proof attempts changed.  Memory of a constant that is given out again made an
old entry of the executor's cache valid in the model; in the code the `weak_ptr` has
expired, and `ReleaseConstant` now says so.  The reader of dynamic shapes now keeps
`checked_out_buffers`, as the code does, and the property counts places instead of sums.
`CallersKeepTheirBuffers` spoke of the cells of donated arguments in a failed run's result;
such a cell may by then have been freed by its owner and handed out again, so that the
property could be false of correct code.  It now speaks of the outputs that took their
donated argument.  `ThunkSemantics` was split from `GpuExecutable` and `SelectSeq` left
`CclCollectiveThunk`, so that the prover can use the two modules.

Only model-checked:

* liveness (`EveryCallReturns`, `EverythingFinishes`, `EveryRunFinishes`, `EveryRunReturns`,
  `CallsReturn`, `EverythingCompletes`), which the prover does not reach;
* `FreedWhenIdle` in executions in which a run failed with an output: it holds for the jobs
  of `executable_all_jobs`, and not for all;
* `ResultsAreExact` of `GpuExecutable`: the meaning of a program is the recursive `Eval`;
* `ResultsAreExact` and `MemoryOutlivesUse` of `Feeds`: they depend on how a workload's
  calls are synchronised, which is a property of the list and not of the runtime;
* `GpuCompiler`, `LibraryCalls` and `EmittedKernels` with the kernels it
  composes: they rest on recursive operators over graphs and terms, and the
  prover cannot use modules with such operators.

## 6. Assumptions and what is left out

* Condition variables do not wake spuriously.  The code would return from the call at
  once; see the hazard at `ccl_ops.cc:517`.
* The build without oneCCL (`ITEX_USE_CCL` unset).
* All-reduce is in place; all devices belong to one process.
* In `executable_all_jobs` thunks fail only with the asynchronous allocator, and a
  passed-through parameter is donated or shared as the PJRT client does it.
* Allocations have one size; kernels compute small arithmetic; values are modulo 5.
* Reductions have one operand and one group; row reductions fit the shared memory
  budget; shapes whose scheme fails a `CHECK` are not emitted.  Whether a fusion may be
  vectorized, and the unrolling that saturates the device, are inputs.  A sort has one
  operand of one row.
* In `MCGpuCompiler` a GELU of a converted product is followed by the conversion
  back, a vector is not added to a slice of columns, and attention has one bias
  (section 4).
* In `AttentionIsExact` the bias is the same for every head, the factor is at most one
  and a head has at most 256 elements; `MCTileOf` scales the tiles down.
* In `Feeds` and `SyclRuntime` data passes between streams behind events, as XLA's callers do it, and
  the pool's map is read and written atomically, which the code does not ensure
  (`sycl_gpu_runtime.cc:268` searches and fills it without a lock).
* The caller of the C interface uses a handle only between its creation and destruction,
  shares no handle but an executable between threads and destroys the client last.

Hazards of the code that no property covers, because the outcome lies outside of the
model or is the same as a case that is covered: a run that fails between a start and its done thunk
leaves an event for the next run (`ccl_collective_thunk.cc:238`); the stream id is part of a
clique's key and not of its unique id (`ccl_utils.cc:172`); buffers are freed early
when a thunk fails in blocking mode (`gpu_executable.cc:630`; that such an error, like one of
`:424`, leaks buffers is modelled, section 4); 64-bit counts are
truncated to `int` (`ccl_all_reduce_thunk.cc:338`); FFT reads `is_input_complex` before it is set.

Not modelled:

* the thunks of FFT, Cholesky, triangular solve, fused QKV, custom calls, copies and
  fills: one library call each, without cases that a state machine would show;
* the QKV rewriter: off unless an environment variable is set;
* the matrix kernels of XeTLA: templates over a vendored library, without state;
* the emitters of elementwise loops, select-and-scatter, scatter, PadToStatic and
  input-fusible slices; the LLVM instructions themselves;
* the XLA runtime path, which the code switches off, and the splitting of the LLVM
  module for parallel code generation;
* getters of the C interface, the client's allocator configuration, device
  enumeration, the platform's registration, packaging and the Python glue: no behaviour
  over time.

## 7. Plan

Done, in this order: rendezvous (`CclOps`), thunks and queues, cliques, kernels,
executor tables, execution of a run, proofs of the rendezvous, kernels of reductions,
transposes and sorts, the C interface, rewriters and pipelines, the runtime with the
feeds, library calls and the attention kernel; proofs of the cliques, the kernels of the
collectives, the executor's tables, the C interface and the pool of pinned buffers; the
refinement of `Collective` by the thunks, and the ownership of a run's buffers.

Next:

1. Proofs: `MemoryOutlivesUse` of `Feeds`, with a definition of well-synchronised
   workloads; what a stack of sequences computes, with the evaluation of thunks as a
   recursive function on a finite set of sequences.
2. The other emitters with index arithmetic or atomics: select-and-scatter, scatter,
   PadToStatic, input-fusible slices, the grouping of disjoint reductions.
3. The stream pool of `sycl_gpu_runtime.cc` with torn interleavings.
