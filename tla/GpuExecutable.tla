----------------------------- MODULE GpuExecutable -----------------------------
(***************************************************************************)
(* GpuExecutable::ExecuteAsyncOnStream (gpu_executable.cc): the life of    *)
(* the device buffers of a run, and the thunks that compute in them.       *)
(*                                                                         *)
(* A run builds its buffer allocations, decides for every output whether   *)
(* it reuses a donated argument, a fresh copy of one or an allocation of   *)
(* its own, lets the host walk the thunks while the stream executes what   *)
(* they enqueue, frees its temporary buffers and returns the outputs.      *)
(* Several runs share the device memory.                                   *)
(*                                                                         *)
(* When the allocator allows asynchronous deallocation, all runs use one   *)
(* stream and memory may be handed out again while the stream still uses   *)
(* it.  Otherwise every run has its own stream and waits for it.           *)
(***************************************************************************)
EXTENDS Naturals, Sequences, FiniteSets, SequencesExt

CONSTANTS
  Modulus,     \* bound: values are taken modulo this number
  Cells,       \* device memory, in buffers of one size: a set of naturals
  InitialMem,  \* what each cell holds at first
  Runs,        \* the calls of ExecuteAsyncOnStream
  Jobs,        \* what the runs may be asked to do
  Null         \* no buffer

Values == 0 .. Modulus - 1

\* The thunks of a program, by the index of the allocations they work on.  fn
\* names what a kernel computes.
Kernel(fn, args, out)   == [op |-> "kernel", fn |-> fn, args |-> args, out |-> out]
While(cond, pred, body) == [op |-> "while", cond |-> cond, pred |-> pred, body |-> body]
For(limit, body)        == [op |-> "for", limit |-> limit, body |-> body]
Conditional(index, is_bool, branches) ==
  [op |-> "conditional", index |-> index, is_bool |-> is_bool, branches |-> branches]

\* The kernels used in the instances.
KernelNames == {"add", "inc", "less", "copy"}
Apply(fn, v) ==
  CASE fn = "add"  -> (v[1] + v[2]) % Modulus
    [] fn = "inc"  -> (v[1] + 1) % Modulus
    [] fn = "less" -> IF v[1] < v[2] THEN 1 ELSE 0
    [] fn = "copy" -> v[1]

\* A program: allocations, thunks, and outputs.  The table of a tuple is no
\* leaf.  sequences are its thunk sequences, the nested ones too, with what
\* remains of each as it is executed.
AllocationRecords ==
  [kind : {"param", "constant", "temp", "output", "thread_local"},
   param : Nat, cell : Nat, live_out : BOOLEAN]
OutputRecords ==
  [alloc : Nat, alias : {"none", "may", "must"}, passthrough : BOOLEAN, leaf : BOOLEAN]

\* What kernels read; and what they write: memory the run allocates and the
\* parameters that become an output of their own.
Readable(p) == {i \in DOMAIN p.allocations : p.allocations[i].kind # "thread_local"}
Writable(p) == {i \in DOMAIN p.allocations : p.allocations[i].kind \in {"temp", "output"}}
                 \cup {o.alloc : o \in {q \in Range(p.outputs) :
                                        q.alias # "none" /\ ~q.passthrough}}

WellFormedThunk(p, t) ==
  \/ /\ t.op = "kernel" /\ t.fn \in KernelNames
     /\ t.args \in Seq(Readable(p)) /\ t.out \in Writable(p)
  \/ t.op = "while" /\ t.pred \in Readable(p) /\ {t.cond, t.body} \subseteq p.sequences
  \/ t.op = "for" /\ t.limit \in Nat /\ t.body \in p.sequences
  \/ /\ t.op = "conditional" /\ t.index \in Readable(p)
     /\ t.branches \in Seq(p.sequences) /\ t.branches # <<>>
     /\ t.is_bool => Len(t.branches) = 2

\* A parameter has one allocation.  An output lies in one that the run allocates,
\* or in that of the parameter it aliases, which no other output aliases.
\* Memory that outlives the run is an output's.
WellFormedProgram(p) ==
  /\ p.allocations \in Seq(AllocationRecords)
  /\ \A i, j \in DOMAIN p.allocations :
       LET a == p.allocations[i]  b == p.allocations[j] IN
       a.kind = "param" /\ b.kind = "param" /\ a.param = b.param => i = j
  /\ p.outputs \in Seq(OutputRecords) /\ p.outputs # <<>>
  /\ \A o \in DOMAIN p.outputs :
       LET out == p.outputs[o] IN
       /\ out.alloc \in DOMAIN p.allocations
       /\ p.allocations[out.alloc].kind = IF out.alias = "none" THEN "output" ELSE "param"
       /\ out.alias # "none" => out.leaf
       /\ \A q \in DOMAIN p.outputs \ {o} :
            out.alias # "none" => p.outputs[q].alloc # out.alloc
  /\ \A i \in DOMAIN p.allocations :
       LET a == p.allocations[i] IN
       /\ a.kind = "output" => a.live_out
       /\ a.live_out => \/ a.kind \in {"temp", "output"}
                        \/ a.kind = "param" /\ \E o \in Range(p.outputs) : o.alloc = i
  /\ {p.thunks, <<>>} \subseteq p.sequences
  /\ \A s \in p.sequences :
       /\ s = <<>> \/ Tail(s) \in p.sequences
       /\ s \in Seq(Range(s)) /\ \A t \in Range(s) : WellFormedThunk(p, t)

\* What a run is given: its program, the cells of its arguments, whether they
\* come as ShapedBuffers (then none can be donated), the parameters whose buffer
\* is donated, and the ones whose buffer is null although it has elements, or is
\* not aligned.  A parameter that is passed through is donated, or the run is
\* rejected before, for want of a donation.
ParamAt(p, o) == p.allocations[p.outputs[o].alloc].param
WellFormedRun(run, cells) ==
  LET p == run.program IN
  /\ WellFormedProgram(p)
  /\ run.args \in Seq(cells) /\ run.donated \subseteq DOMAIN run.args
  /\ run.shaped \in BOOLEAN
  /\ run.shaped => run.donated = {}
  /\ \A i \in DOMAIN p.allocations :
       LET a == p.allocations[i] IN
       /\ a.kind = "param" => a.param \in DOMAIN run.args
       /\ a.kind = "constant" => a.cell \in cells
  /\ \A o \in DOMAIN p.outputs : p.outputs[o].passthrough =>
       \/ ParamAt(p, o) \in run.donated
       \/ ~run.shaped /\ \E q \in 1 .. o - 1 :
            p.outputs[q].alias = "must" /\ ParamAt(p, q) \notin run.donated

\* A job: the runs, whether the allocator allows asynchronous deallocation,
\* whether a thunk may fail, and which cells are in use.  A buffer that is
\* donated is nobody else's argument and no constant.
ASSUME CellsAssumption ==
  Cells \subseteq Nat /\ Null \notin Cells /\ InitialMem \in [Cells -> Values]
ASSUME JobsAssumption ==
  \A j \in Jobs :
    /\ {j.async, j.fails} \subseteq BOOLEAN /\ j.cells \subseteq Cells
    /\ DOMAIN j.runs = Runs
    /\ \A r \in Runs : WellFormedRun(j.runs[r], j.cells)
    /\ \A r, s \in Runs : \A p \in j.runs[r].donated :
         /\ \A q \in DOMAIN j.runs[s].args :
              j.runs[r].args[p] = j.runs[s].args[q] => r = s /\ p = q
         /\ \A i \in DOMAIN j.runs[s].program.allocations :
              LET a == j.runs[s].program.allocations[i] IN
              a.kind = "constant" => a.cell # j.runs[r].args[p]

VARIABLES
  job,      \* the job, chosen at first
  pc,       \* where a run is
  buffers,  \* buffer_allocations: the cell of each allocation so far
  result,   \* the result's buffer of each output so far
  aliased,  \* the outputs of AddAliasedIndex
  owned,    \* the parameters whose ExecutionInput still owns its buffer
  stack,    \* the thunk sequences the host is inside of, innermost first
  stream,   \* stream[s]: the operations enqueued and not executed, in order
  mem,      \* the contents of device memory
  free      \* the cells that are not allocated

vars == <<job, pc, buffers, result, aliased, owned, stack, stream, mem, free>>

Job(r)         == job.runs[r]
allocations(r) == Job(r).program.allocations
output_info(r) == Job(r).program.outputs
StreamOf(r)    == IF job.async THEN "compute" ELSE r
Params(r)      == DOMAIN Job(r).args

\* Every argument that is not given away, and every resolved constant, belongs
\* to somebody else for good.
Constants == UNION {{a.cell : a \in {b \in Range(allocations(r)) : b.kind = "constant"}} :
                      r \in Runs}
Lent      == UNION {{Job(r).args[p] : p \in Params(r) \ Job(r).donated} : r \in Runs}
Given     == UNION {{Job(r).args[p] : p \in Job(r).donated} : r \in Runs}

Init ==
  /\ job \in Jobs
  /\ pc = [r \in Runs |-> "allocate"]
  /\ buffers = [r \in Runs |-> <<>>]
  /\ result = [r \in Runs |-> <<>>]
  /\ aliased = [r \in Runs |-> {}]
  /\ owned = [r \in Runs |-> Job(r).donated]
  /\ stack = [r \in Runs |-> <<>>]
  /\ stream = [s \in Runs \cup {"compute"} |-> <<>>]
  /\ mem = InitialMem
  /\ free = job.cells \ (Constants \cup Lent \cup Given)

-----------------------------------------------------------------------------
(* Device memory and streams.                                              *)

\* The allocator hands out the lowest free cell.
Lowest == CHOOSE c \in free : \A d \in free : c <= d

Enqueue(r, fn, args, out) ==
  stream' = [stream EXCEPT ![StreamOf(r)] =
               Append(@, [run |-> r, fn |-> fn, args |-> args, out |-> out])]

Drained(r) == stream[StreamOf(r)] = <<>>

\* The device executes the next operation of a stream.
Device(s) ==
  /\ stream[s] # <<>>
  /\ LET o == Head(stream[s]) IN
     mem' = [mem EXCEPT ![o.out] = Apply(o.fn, [i \in DOMAIN o.args |-> mem[o.args[i]]])]
  /\ stream' = [stream EXCEPT ![s] = Tail(@)]
  /\ UNCHANGED <<job, pc, buffers, result, aliased, owned, stack, free>>

\* Mutant: an error releases the aliased buffers too.
Released_Aliased(r) ==
  Range(result[r]) \cup {Job(r).args[p] : p \in owned[r]}

\* What an error return deallocates: ~ExecutionOutput the result's buffers
\* but the aliased ones, ~ExecutionInput the arguments it still owns.
Released(r) ==
  {result[r][o] : o \in DOMAIN result[r] \ aliased[r]}
    \cup {Job(r).args[p] : p \in owned[r]}

\* An error return: everything else the run had allocated is forgotten.
Fail(r) ==
  /\ pc' = [pc EXCEPT ![r] = "failed"]
  /\ free' = free \cup (Released(r) \ {Null})
  /\ stack' = [stack EXCEPT ![r] = <<>>]
  /\ UNCHANGED <<job, buffers, result, aliased, owned, stream, mem>>

-----------------------------------------------------------------------------
(* GenerateBufferAllocations.                                              *)

\* The allocation run r has come to.
Allocation(r)   == allocations(r)[Len(buffers[r]) + 1]
Allocating(r)   == pc[r] = "allocate" /\ Len(buffers[r]) < Len(allocations(r))
NeedsMemory(a)  == a.kind \in {"temp", "output"}

\* BufferForAllocation for everything that exists already.
UseBuffer(r) ==
  /\ Allocating(r) /\ ~NeedsMemory(Allocation(r))
  /\ LET a == Allocation(r) IN
     /\ a.kind = "param" => a.param \notin Job(r).bad
     /\ buffers' = [buffers EXCEPT ![r] = Append(@,
                      CASE a.kind = "param"        -> Job(r).args[a.param]
                        [] a.kind = "constant"     -> a.cell
                        [] a.kind = "thread_local" -> Null)]
  /\ UNCHANGED <<job, pc, result, aliased, owned, stack, stream, mem, free>>

\* A null or misaligned argument.
RejectArgument(r) ==
  /\ Allocating(r)
  /\ Allocation(r).kind = "param" /\ Allocation(r).param \in Job(r).bad
  /\ Fail(r)

\* BufferForAllocation for a temporary buffer or an output.
Allocate(r) ==
  /\ Allocating(r) /\ NeedsMemory(Allocation(r)) /\ free # {}
  /\ buffers' = [buffers EXCEPT ![r] = Append(@, Lowest)]
  /\ free' = free \ {Lowest}
  /\ UNCHANGED <<job, pc, result, aliased, owned, stack, stream, mem>>

\* ResourceExhausted.
AllocateFails(r) ==
  Allocating(r) /\ NeedsMemory(Allocation(r)) /\ free = {} /\ Fail(r)

AllAllocated(r) ==
  /\ pc[r] = "allocate" /\ Len(buffers[r]) = Len(allocations(r))
  /\ pc' = [pc EXCEPT ![r] = "outputs"]
  /\ UNCHANGED <<job, buffers, result, aliased, owned, stack, stream, mem, free>>

-----------------------------------------------------------------------------
(* The buffers of the outputs.                                             *)

Output(r)       == output_info(r)[Len(result[r]) + 1]
Outputs(r)      == pc[r] = "outputs" /\ Len(result[r]) < Len(output_info(r))
ParamOf(r)      == allocations(r)[Output(r).alloc].param
HasOwnership(r) == Output(r).alias # "none" /\ ParamOf(r) \in owned[r]

\* is_entire_tuple_contents_aliased
EntirelyAliased(r) == \A o \in Range(output_info(r)) : o.leaf => o.alias # "none"

\* A must-alias parameter was not donated.
Rejected(r) ==
  Output(r).alias = "must" /\ ~Job(r).shaped /\ ~HasOwnership(r)
MustAlias(r) == Outputs(r) /\ Rejected(r) /\ Fail(r)

\* The caller gives the argument's buffer away: it becomes the output.
Donate(r) ==
  /\ Outputs(r) /\ HasOwnership(r)
  /\ result' = [result EXCEPT ![r] = Append(@, Job(r).args[ParamOf(r)])]
  /\ owned' = [owned EXCEPT ![r] = @ \ {ParamOf(r)}]
  /\ aliased' = [aliased EXCEPT ![r] = @ \cup {Len(result[r]) + 1}]
  /\ UNCHANGED <<job, pc, buffers, stack, stream, mem, free>>

CopyProtected(r) ==
  /\ Outputs(r) /\ ~HasOwnership(r) /\ ~Rejected(r)
  /\ Output(r).alias # "none" /\ ~Output(r).passthrough /\ Output(r).leaf

\* Aliasing is specified but the buffer is not donated: the run works in a
\* fresh copy of the argument.
CopyProtection(r) ==
  /\ CopyProtected(r) /\ free # {}
  /\ Enqueue(r, "copy", <<buffers[r][Output(r).alloc]>>, Lowest)
  /\ result' = [result EXCEPT ![r] = Append(@, Lowest)]
  /\ buffers' = [buffers EXCEPT ![r][Output(r).alloc] = Lowest]
  /\ free' = free \ {Lowest}
  /\ UNCHANGED <<job, pc, aliased, owned, stack, mem>>

CopyProtectionFails(r) == CopyProtected(r) /\ free = {} /\ Fail(r)

\* The output is an allocation of the run, or a parameter passed through.
TakeAllocation(r) ==
  /\ Outputs(r) /\ ~HasOwnership(r) /\ ~CopyProtected(r) /\ ~Rejected(r)
  /\ result' = [result EXCEPT ![r] = Append(@, buffers[r][Output(r).alloc])]
  /\ aliased' = [aliased EXCEPT ![r] =
                   IF EntirelyAliased(r) THEN @ \cup {Len(result[r]) + 1} ELSE @]
  /\ UNCHANGED <<job, pc, buffers, owned, stack, stream, mem, free>>

\* All outputs have a buffer: the thunks are executed, in a sequence from
\* which there is nothing to resume.
BeginThunks(r) ==
  /\ pc[r] = "outputs" /\ Len(result[r]) = Len(output_info(r))
  /\ pc' = [pc EXCEPT ![r] = "thunks"]
  /\ stack' = [stack EXCEPT ![r] =
       <<[thunks |-> Job(r).program.thunks, resume |-> [op |-> "return"]]>>]
  /\ UNCHANGED <<job, buffers, result, aliased, owned, stream, mem, free>>

\* The stream does not fit the executable, or a thunk cannot be initialized.
InitializeFails(r) ==
  job.fails /\ pc[r] = "outputs" /\ Len(result[r]) = Len(output_info(r)) /\ Fail(r)

-----------------------------------------------------------------------------
(* ExecuteThunks: SequentialThunk, WhileThunk, ForThunk, ConditionalThunk. *)

Frame(r)    == Head(stack[r])
InThunks(r) == pc[r] = "thunks" /\ stack[r] # <<>>
AtThunk(r, op) ==
  InThunks(r) /\ Frame(r).thunks # <<>> /\ Head(Frame(r).thunks).op = op
AtEnd(r, op) ==
  InThunks(r) /\ Frame(r).thunks = <<>> /\ Frame(r).resume.op = op

\* The stack with the current thunk left behind, and with a sequence entered.
Advanced(r) == <<[Frame(r) EXCEPT !.thunks = Tail(@)]>> \o Tail(stack[r])
Enter(thunks, resume, under) == <<[thunks |-> thunks, resume |-> resume]>> \o under

\* KernelThunk::ExecuteOnStream: enqueue and go on.
LaunchKernel(r) ==
  /\ AtThunk(r, "kernel")
  /\ LET t == Head(Frame(r).thunks) IN
     Enqueue(r, t.fn, [i \in DOMAIN t.args |-> buffers[r][t.args[i]]], buffers[r][t.out])
  /\ stack' = [stack EXCEPT ![r] = Advanced(r)]
  /\ UNCHANGED <<job, pc, buffers, result, aliased, owned, mem, free>>

\* A thunk returns an error; what is enqueued stays enqueued.
ThunkFails(r) == job.fails /\ AtThunk(r, "kernel") /\ Fail(r)

EnterWhile(r) ==
  /\ AtThunk(r, "while")
  /\ LET t == Head(Frame(r).thunks) IN
     stack' = [stack EXCEPT ![r] =
       Enter(t.cond, [op |-> "test", thunk |-> t], Advanced(r))]
  /\ UNCHANGED <<job, pc, buffers, result, aliased, owned, stream, mem, free>>

\* The condition is read back from the device, after BlockHostUntilDone.
TestWhile(r) ==
  /\ AtEnd(r, "test") /\ Drained(r)
  /\ LET t == Frame(r).resume.thunk IN
     stack' = [stack EXCEPT ![r] =
       IF mem[buffers[r][t.pred]] # 0
       THEN Enter(t.body, [op |-> "loop", thunk |-> t], Tail(@)) ELSE Tail(@)]
  /\ UNCHANGED <<job, pc, buffers, result, aliased, owned, stream, mem, free>>

\* Mutant: the loop goes back to the body and reads the old condition.
LoopWhile_SkipsCondition(r) ==
  /\ AtEnd(r, "loop")
  /\ LET t == Frame(r).resume.thunk IN
     stack' = [stack EXCEPT ![r] = Enter(<<>>, [op |-> "test", thunk |-> t], Tail(@))]
  /\ UNCHANGED <<job, pc, buffers, result, aliased, owned, stream, mem, free>>

LoopWhile(r) ==
  /\ AtEnd(r, "loop")
  /\ LET t == Frame(r).resume.thunk IN
     stack' = [stack EXCEPT ![r] = Enter(t.cond, [op |-> "test", thunk |-> t], Tail(@))]
  /\ UNCHANGED <<job, pc, buffers, result, aliased, owned, stream, mem, free>>

\* A ForThunk repeats its body loop_limit times.
EnterFor(r) ==
  /\ AtThunk(r, "for")
  /\ LET t == Head(Frame(r).thunks) IN
     stack' = [stack EXCEPT ![r] =
       Enter(<<>>, [op |-> "count", thunk |-> t, left |-> t.limit], Advanced(r))]
  /\ UNCHANGED <<job, pc, buffers, result, aliased, owned, stream, mem, free>>

LoopFor(r) ==
  /\ AtEnd(r, "count")
  /\ LET t == Frame(r).resume.thunk
         left == Frame(r).resume.left IN
     stack' = [stack EXCEPT ![r] =
       IF left = 0 THEN Tail(@)
       ELSE Enter(t.body, [op |-> "count", thunk |-> t, left |-> left - 1], Tail(@))]
  /\ UNCHANGED <<job, pc, buffers, result, aliased, owned, stream, mem, free>>

\* Mutant: an index out of range takes the first branch.
Branch_First(thunk, value) ==
  IF thunk.is_bool THEN IF value # 0 THEN 1 ELSE 2
  ELSE IF value + 1 \in DOMAIN thunk.branches THEN value + 1 ELSE 1

\* The branch a ConditionalThunk takes: a true predicate the first of two, an
\* index out of range the last.
Branch(thunk, value) ==
  IF thunk.is_bool THEN IF value # 0 THEN 1 ELSE 2
  ELSE IF value + 1 \in DOMAIN thunk.branches THEN value + 1 ELSE Len(thunk.branches)

\* A ConditionalThunk reads the index back and enters one branch.
EnterConditional(r) ==
  /\ AtThunk(r, "conditional") /\ Drained(r)
  /\ LET t == Head(Frame(r).thunks) IN
     stack' = [stack EXCEPT ![r] =
       Enter(t.branches[Branch(t, mem[buffers[r][t.index]])],
             [op |-> "leave"], Advanced(r))]
  /\ UNCHANGED <<job, pc, buffers, result, aliased, owned, stream, mem, free>>

LeaveConditional(r) ==
  /\ AtEnd(r, "leave")
  /\ stack' = [stack EXCEPT ![r] = Tail(@)]
  /\ UNCHANGED <<job, pc, buffers, result, aliased, owned, stream, mem, free>>

-----------------------------------------------------------------------------
(* The end of a run.                                                       *)

\* Mutant: temporary buffers are freed without waiting for the stream.
MaybeSync_Skipped(r) == AtEnd(r, "return")

\* MaybeSyncAndProfile: without asynchronous deallocation, wait.
MaybeSync(r) == AtEnd(r, "return") /\ (job.async \/ Drained(r))

\* Mutant: only the live-out allocations are considered.
Temporary_LiveOutOnly(r) ==
  {buffers[r][i] : i \in {j \in DOMAIN buffers[r] :
     allocations(r)[j].live_out /\ buffers[r][j] \notin Range(result[r])}}

\* BufferAllocations::TearDown: the temporary buffers, and the live-out
\* allocations that did not become part of the result.
Temporary(r) ==
  {buffers[r][i] : i \in {j \in DOMAIN buffers[r] :
     \/ allocations(r)[j].kind = "temp"
     \/ allocations(r)[j].live_out /\ buffers[r][j] \notin Range(result[r])}}

\* The run frees its temporary buffers and returns; arguments it owns and did
\* not use as outputs travel with the result (MarkToBeReleasedArguments).
TearDown(r) ==
  /\ MaybeSync(r)
  /\ free' = free \cup Temporary(r)
  /\ pc' = [pc EXCEPT ![r] = "returned"]
  /\ stack' = [stack EXCEPT ![r] = <<>>]
  /\ UNCHANGED <<job, buffers, result, aliased, owned, stream, mem>>

\* The client takes the result and lets go of the arguments that came with it.
Consume(r) ==
  /\ pc[r] = "returned"
  /\ free' = free \cup {Job(r).args[p] : p \in owned[r]}
  /\ pc' = [pc EXCEPT ![r] = "consumed"]
  /\ UNCHANGED <<job, buffers, result, aliased, owned, stack, stream, mem>>

\* The client deallocates the result.
DropResult(r) ==
  /\ pc[r] = "consumed"
  /\ free' = free \cup Range(result[r])
  /\ pc' = [pc EXCEPT ![r] = "dropped"]
  /\ UNCHANGED <<job, buffers, result, aliased, owned, stack, stream, mem>>

Host(r) ==
  \/ UseBuffer(r) \/ RejectArgument(r) \/ Allocate(r) \/ AllocateFails(r) \/ AllAllocated(r)
  \/ MustAlias(r) \/ Donate(r) \/ CopyProtection(r) \/ CopyProtectionFails(r)
  \/ TakeAllocation(r) \/ BeginThunks(r) \/ InitializeFails(r)
  \/ LaunchKernel(r) \/ ThunkFails(r) \/ EnterWhile(r) \/ TestWhile(r) \/ LoopWhile(r)
  \/ EnterFor(r) \/ LoopFor(r) \/ EnterConditional(r) \/ LeaveConditional(r)
  \/ TearDown(r)

Returned   == \A r \in Runs : pc[r] \in {"returned", "consumed", "dropped", "failed"}
Terminated == /\ \A r \in Runs : pc[r] \in {"dropped", "failed"}
              /\ \A s \in DOMAIN stream : stream[s] = <<>>
Stop       == Terminated /\ UNCHANGED vars

Next ==
  \/ \E r \in Runs : Host(r) \/ Consume(r) \/ DropResult(r)
  \/ \E s \in DOMAIN stream : Device(s)
  \/ Stop

\* Host threads are scheduled and the device executes what is enqueued; when
\* the client looks at a result is its own choice.
Fairness == /\ \A r \in Runs : WF_vars(Host(r))
            /\ \A s \in Runs \cup {"compute"} : WF_vars(Device(s))
Spec == Init /\ [][Next]_vars /\ Fairness

-----------------------------------------------------------------------------
(* Properties.                                                             *)

\* An argument that was not donated keeps its contents although an output is
\* declared to alias it (copy-protection), and an argument that was donated
\* and became an output is not released by an error.
CallersKeepTheirBuffers ==
  /\ \A c \in Lent : c \notin free /\ mem[c] = InitialMem[c]
  /\ \A r \in Runs : pc[r] = "failed" =>
       \A o \in DOMAIN result[r] :
         output_info(r)[o].alias # "none" /\ ParamAt(Job(r).program, o) \in Job(r).donated
           => result[r][o] \notin free

\* What run r allocated for itself.
Own(r) == {buffers[r][i] : i \in {j \in DOMAIN buffers[r] : NeedsMemory(allocations(r)[j])}}

\* The device memory that run r or, after it, its client is responsible for.
Held(r) ==
  CASE pc[r] \in {"allocate", "outputs", "thunks"} ->
         Own(r) \cup Range(result[r]) \cup {Job(r).args[p] : p \in owned[r]}
    [] pc[r] = "returned" -> Range(result[r]) \cup {Job(r).args[p] : p \in owned[r]}
    [] pc[r] = "consumed" -> Range(result[r])
    [] pc[r] \in {"dropped", "failed"} -> {}

\* What an error return leaks: the buffers that the run allocated and that were
\* no output yet, and the outputs that ~ExecutionOutput leaves.
Lost(r) ==
  IF pc[r] = "failed"
  THEN (Own(r) \ Range(result[r])) \cup {result[r][o] : o \in aliased[r] \cap DOMAIN result[r]}
  ELSE {}

\* Every buffer is free, has exactly one owner, or was leaked by a run that failed
\* and is never handed out again; unless a run fails, TearDown, the result and
\* the released arguments account for all that it had.  A failed run leaks no
\* other buffer than those of Lost: its outputs and the arguments it owns are freed.
OneOwner ==
  /\ \A r, s \in Runs : r # s => (Held(r) \cup Lost(r)) \cap (Held(s) \cup Lost(s)) = {}
  /\ \A r \in Runs : (Held(r) \cup Lost(r)) \cap (free \cup Lent \cup Constants) = {}
  /\ job.cells = free \cup Lent \cup Constants \cup UNION {Held(r) \cup Lost(r) : r \in Runs}

\* An allocator without asynchronous deallocation never gets a buffer back
\* that an enqueued operation still uses ("Make sure kernels are completed
\* before deallocating temporary buffers").
FreedWhenIdle ==
  ~job.async =>
    \A s \in DOMAIN stream : \A o \in Range(stream[s]) :
      ({o.out} \cup Range(o.args)) \cap free = {}

\* Every run returns: the loops the host walks see the conditions the device
\* computes, and nobody waits for a stream that does not drain.
EveryRunReturns == <>Returned
=============================================================================
