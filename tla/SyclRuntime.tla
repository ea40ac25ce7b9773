----------------------------- MODULE SyclRuntime -----------------------------
(***************************************************************************)
(* The stream executor of the plug-in from a caller's side                 *)
(* (sycl_executor.cc, sycl_driver.cc, sycl_event.cc) and the runtime under *)
(* it (sycl_gpu_runtime.cc): a pool of in-order SYCL queues per device,    *)
(* streams that stand for one of them, events, copies that return at once  *)
(* or wait, and memory that the host frees while queues may still use it.  *)
(*                                                                         *)
(* A workload is the list of the calls the host's threads make.  Every     *)
(* thread makes its own calls in the order of the list; the threads        *)
(* interleave, and every queue runs its commands one after the other.      *)
(* The workloads are synchronised as XLA's callers are: data passes from   *)
(* one stream to another behind an event or a dependency, and the host     *)
(* reads a copy and reuses the memory it copies from only after a call     *)
(* that waits (a copy to or from unpinned memory does so by itself).       *)
(***************************************************************************)
EXTENDS Naturals, Sequences, FiniteSets, TLC, SequencesExt, FiniteSetsExt

CONSTANTS
  Threads,    \* host threads
  Workloads,  \* a set of lists of calls
  Usm,        \* host locations that are USM host memory
  MaxQueues,  \* bound: queues of one device
  None

VARIABLES
  work,       \* the calls of this behaviour
  multi,      \* XLA_ENABLE_MULTIPLE_STREAM
  pool,       \* pool[d]: the queues of device d, the default one first
  stream,     \* stream[s]: the queue of stream s
  queue,      \* queue[q]: the commands q has not finished, in order
  completed,  \* completed[q]: how many commands q has finished
  event,      \* event[e]: the command whose end e is, None before it is recorded
  mem,        \* mem[l]: what the location l holds
  freed,      \* locations that were freed
  pc,         \* pc[t]: the place in work of the call thread t is in or makes next
  at          \* at[t]: where in that call t is

runtimeVars == <<work, multi, pool, stream, queue, completed, event, mem, freed, pc, at>>
deviceVars == <<pool, stream, queue, completed, event>>

Idle == [do |-> "idle"]
NextCall(t, i) == Min({j \in i + 1 .. Len(work) : work[j].t = t} \cup {Len(work) + 1})
Call(t) == work[pc[t]]

\* Thread t begins the call `op`.
Calls(t, op) == at[t] = Idle /\ pc[t] <= Len(work) /\ Call(t).op = op
In(t, do) == at[t].do = do
Goto(t, state) == at' = [at EXCEPT ![t] = state] /\ UNCHANGED pc
Return(t) == at' = [at EXCEPT ![t] = Idle] /\ pc' = [pc EXCEPT ![t] = NextCall(t, @)]
Continue(t, state) == IF state = Idle THEN Return(t) ELSE Goto(t, state)

Done == \A t \in Threads : at[t] = Idle /\ pc[t] > Len(work)

-----------------------------------------------------------------------------
(* StreamPool.  A device's queues are made when it is first used.  A       *)
(* queue's name is its device and its place in the pool.                   *)

GetStreamsPool(d) == IF d \in DOMAIN pool THEN pool[d] ELSE <<<<d, 1>>>>
DefaultStream(d) == GetStreamsPool(d)[1]

NewQueue(queues, d) == Append(queues, <<d, Len(queues) + 1>>)
CreatedPool(d) ==
  LET queues == GetStreamsPool(d) IN IF multi THEN NewQueue(queues, d) ELSE queues

(* Erasing works on a copy of the vector: the pool keeps every queue.      *)
ErasedPool(queues, q) == queues

Grown(f, queues, start) ==
  [q \in Range(queues) \ DOMAIN f |-> start] @@ f
\* The pool of d becomes `queues`, with a state for queues that are new.
PoolBecomes(d, queues) ==
  /\ pool' = d :> queues @@ pool
  /\ queue' = Grown(queue, queues, <<>>)
  /\ completed' = Grown(completed, queues, 0)

AllocateStream(t) ==
  /\ Calls(t, "allocate_stream")
  /\ LET d == Call(t).dev IN
       /\ PoolBecomes(d, CreatedPool(d))
       /\ stream' = Call(t).s :> Last(CreatedPool(d)) @@ stream
  /\ Return(t)
  /\ UNCHANGED <<work, multi, event, mem, freed>>

DeallocateStream(t) ==
  /\ Calls(t, "deallocate_stream")
  /\ LET s == Call(t).s  q == stream[s]  d == q[1] IN
       /\ pool' = [pool EXCEPT ![d] = ErasedPool(@, q)]
       /\ stream' = [x \in DOMAIN stream \ {s} |-> stream[x]]
  /\ Return(t)
  /\ UNCHANGED <<work, multi, queue, completed, event, mem, freed>>

-----------------------------------------------------------------------------
(* Commands.  A mark is a command of a queue: its place in the order of    *)
(* all commands the queue ever got.                                        *)

Mark(queues, q) == <<q, completed[q] + Len(queues[q])>>
Over(mark) == mark = None \/ completed[mark[1]] >= mark[2]

Submitted(queues, q, command) == [queues EXCEPT ![q] = Append(@, command)]
Copy(dst, src) == [op |-> "copy", dst |-> dst, src |-> src]
Fill(dst, val) == [op |-> "fill", dst |-> dst, val |-> val]
Kernel(dst, src) == [op |-> "kernel", dst |-> dst, src |-> src]
Barrier(on) == [op |-> "barrier", on |-> on]
Callback(tree, leaf) == [op |-> "callback", tree |-> tree, leaf |-> leaf]

Waiting(mark, then) == [do |-> "wait", mark |-> mark, then |-> then]

(* Submits a command and waits for it unless the call is asynchronous.     *)
(* A copy of nothing returns before it reaches the queue.                  *)
Submits(t, q, command, async, size, then) ==
  IF size = 0
  THEN Continue(t, then) /\ UNCHANGED queue
  ELSE /\ queue' = Submitted(queue, q, command)
       /\ IF async THEN Continue(t, then)
                   ELSE Goto(t, Waiting(Mark(queue', q), then))

(* A copy to or from the host is asynchronous only if the host's memory    *)
(* is USM host memory.                                                     *)
IsAsync(host) == host \in Usm

Launch(t) ==
  /\ Calls(t, "kernel")
  /\ Submits(t, stream[Call(t).s], Kernel(Call(t).dst, Call(t).src), TRUE, 1, Idle)
  /\ UNCHANGED <<work, multi, pool, stream, completed, event, mem, freed>>

MemcpyHostToDevice(t) ==
  /\ Calls(t, "htod")
  /\ Submits(t, stream[Call(t).s], Copy(Call(t).dst, Call(t).src), IsAsync(Call(t).src), Call(t).size, Idle)
  /\ UNCHANGED <<work, multi, pool, stream, completed, event, mem, freed>>

MemcpyDeviceToHost(t) ==
  /\ Calls(t, "dtoh")
  /\ Submits(t, stream[Call(t).s], Copy(Call(t).dst, Call(t).src), IsAsync(Call(t).dst), Call(t).size, Idle)
  /\ UNCHANGED <<work, multi, pool, stream, completed, event, mem, freed>>

MemcpyDeviceToDevice(t) ==
  /\ Calls(t, "dtod")
  /\ Submits(t, stream[Call(t).s], Copy(Call(t).dst, Call(t).src), TRUE, Call(t).size, Idle)
  /\ UNCHANGED <<work, multi, pool, stream, completed, event, mem, freed>>

(* A value is the data the host or a fill wrote and how often a kernel was *)
(* applied to it.                                                          *)
Value(data) == [data |-> data, kernels |-> 0]
Applied(v) == IF v = None THEN None ELSE [v EXCEPT !.kernels = @ + 1]
\* What l holds; None before anything was written to it.
Content(l) == IF l \in DOMAIN mem THEN mem[l] ELSE None

(* The pattern of a fill.  Memory whose address and size are multiples of  *)
(* four is filled by words, whose four bytes are the byte that was given;  *)
(* other memory by bytes.                                                  *)
Byte(val) == val % 256
Word(val) == [i \in 0 .. 3 |-> Byte(val)]
Pattern(call) ==
  IF call.address % 4 = 0 /\ call.size % 4 = 0
  THEN Value([i \in 1 .. 4 * (call.size \div 4) |-> Word(call.val)[i % 4]])
  ELSE Value([i \in 1 .. call.size |-> Byte(call.val)])

MemZero(t) ==
  /\ Calls(t, "memzero")
  /\ Submits(t, stream[Call(t).s], Fill(Call(t).dst, Pattern([Call(t) EXCEPT !.val = 0])), TRUE, Call(t).size, Idle)
  /\ UNCHANGED <<work, multi, pool, stream, completed, event, mem, freed>>

(* The synchronous calls use the device's default queue and wait.          *)
SynchronousMemcpy(t) ==
  /\ Calls(t, "sync_copy")
  /\ Submits(t, DefaultStream(Call(t).dev), Copy(Call(t).dst, Call(t).src), FALSE, Call(t).size, Idle)
  /\ UNCHANGED <<work, multi, pool, stream, completed, event, mem, freed>>

SynchronousMemSet(t) ==
  /\ Calls(t, "sync_memset")
  /\ Submits(t, DefaultStream(Call(t).dev), Fill(Call(t).dst, Pattern(Call(t))), FALSE, Call(t).size, Idle)
  /\ UNCHANGED <<work, multi, pool, stream, completed, event, mem, freed>>

-----------------------------------------------------------------------------
(* Events.  With one queue per device nothing is recorded, a wait is a     *)
(* wait of the host for the queue, and an event always polls as complete.  *)

Recorded(queues, q) == IF multi THEN Submitted(queues, q, Barrier({})) ELSE queues
RecordedMark(queues, q) == Mark(Recorded(queues, q), q)

RecordEvent(t) ==
  /\ Calls(t, "record")
  /\ LET q == stream[Call(t).s]  e == Call(t).e IN
       /\ queue' = Recorded(queue, q)
       /\ event' = IF multi THEN e :> RecordedMark(queue, q) @@ event ELSE event
  /\ Return(t)
  /\ UNCHANGED <<work, multi, pool, stream, completed, mem, freed>>

EventMark(e) == IF e \in DOMAIN event THEN event[e] ELSE None

\* Stream s waits for the command `mark`; `queues` are the queues so far.
WaitStreamOnEvent(t, queues, q, mark) ==
  IF multi
  THEN queue' = Submitted(queues, q, Barrier({mark})) /\ Return(t)
  ELSE queue' = queues /\ Goto(t, Waiting(Mark(queues, q), Idle))

WaitForEvent(t) ==
  /\ Calls(t, "wait_event")
  /\ WaitStreamOnEvent(t, queue, stream[Call(t).s], EventMark(Call(t).e))
  /\ UNCHANGED <<work, multi, pool, stream, completed, event, mem, freed>>

CreateStreamDependency(t) ==
  /\ Calls(t, "depend")
  /\ LET other == stream[Call(t).other] IN
       WaitStreamOnEvent(t, Recorded(queue, other), stream[Call(t).s], RecordedMark(queue, other))
  /\ UNCHANGED <<work, multi, pool, stream, completed, event, mem, freed>>

PollForStatus(t) ==
  /\ Calls(t, "poll")
  /\ mem' = Call(t).dst :> (~multi \/ Over(EventMark(Call(t).e))) @@ mem
  /\ Return(t)
  /\ UNCHANGED <<work, multi, deviceVars, freed>>

BlockHostUntilDone(t) ==
  /\ Calls(t, "block")
  /\ Goto(t, Waiting(Mark(queue, stream[Call(t).s]), Idle))
  /\ UNCHANGED <<work, multi, deviceVars, mem, freed>>

(* Waits for the queues of the pool one after the other.                   *)
SyncNext(d, i) ==
  IF i > Len(pool[d]) THEN Idle
  ELSE Waiting(Mark(queue, pool[d][i]), [do |-> "sync", dev |-> d, i |-> i + 1])

SynchronizeContext(t) ==
  /\ \/ Calls(t, "sync_all") /\ Goto(t, SyncNext(Call(t).dev, 1))
     \/ In(t, "sync") /\ Continue(t, SyncNext(at[t].dev, at[t].i))
  /\ UNCHANGED <<work, multi, deviceVars, mem, freed>>

(* A wait of the host ends when the command it waits for is over.          *)
WaitReturns(t) ==
  /\ In(t, "wait") /\ Over(at[t].mark)
  /\ Continue(t, at[t].then)
  /\ UNCHANGED <<work, multi, deviceVars, mem, freed>>

-----------------------------------------------------------------------------
(* Memory of the device and of the host.                                   *)

Allocate(t) ==
  /\ Calls(t, "malloc")
  /\ mem' = Call(t).dst :> None @@ mem
  /\ freed' = freed \ {Call(t).dst}
  /\ Return(t)
  /\ UNCHANGED <<work, multi, deviceVars>>

Deallocate(t) ==
  /\ Calls(t, "free")
  /\ freed' = freed \cup {Call(t).src}
  /\ Return(t)
  /\ UNCHANGED <<work, multi, deviceVars, mem>>

(* The host itself writes a value to its memory, takes a value from it, or *)
(* goes on once another thread has come to some place of the list.         *)
HostStep(t) ==
  /\ \/ Calls(t, "write") /\ mem' = Call(t).dst :> Call(t).val @@ mem
     \/ Calls(t, "read") /\ mem' = Call(t).dst :> Content(Call(t).src) @@ mem
     \/ Calls(t, "start") /\ pc[Call(t).after] > Call(t).place /\ UNCHANGED mem
  /\ Return(t)
  /\ UNCHANGED <<work, multi, deviceVars, freed>>

-----------------------------------------------------------------------------
(* A queue finishes its next command.                                      *)

Runnable(command) == command.op = "barrier" => \A mark \in command.on : Over(mark)
Effect(command) ==
  CASE command.op = "copy" -> command.dst :> Content(command.src) @@ mem
    [] command.op = "kernel" -> command.dst :> Applied(Content(command.src)) @@ mem
    [] command.op = "fill" -> command.dst :> command.val @@ mem
    [] OTHER -> mem

Finishes(q) ==
  /\ queue[q] # <<>> /\ Runnable(Head(queue[q]))
  /\ mem' = Effect(Head(queue[q]))
  /\ queue' = [queue EXCEPT ![q] = Tail(@)]
  /\ completed' = [completed EXCEPT ![q] = @ + 1]
  /\ UNCHANGED <<work, multi, pool, stream, event, freed, pc, at>>

ExecutorCall(t) ==
  \/ AllocateStream(t) \/ DeallocateStream(t) \/ Launch(t)
  \/ MemcpyHostToDevice(t) \/ MemcpyDeviceToHost(t) \/ MemcpyDeviceToDevice(t)
  \/ MemZero(t) \/ SynchronousMemcpy(t) \/ SynchronousMemSet(t)
  \/ RecordEvent(t) \/ WaitForEvent(t) \/ CreateStreamDependency(t)
  \/ PollForStatus(t) \/ BlockHostUntilDone(t) \/ SynchronizeContext(t)
  \/ WaitReturns(t) \/ Allocate(t) \/ Deallocate(t) \/ HostStep(t)

Queues == {<<c.dev, i>> : c \in {c \in UNION {Range(w) : w \in Workloads} : c.op = "allocate_stream"},
                          i \in 1 .. MaxQueues}

RuntimeInit ==
  /\ work \in Workloads /\ multi \in BOOLEAN
  /\ pool = <<>> /\ stream = <<>> /\ queue = <<>> /\ completed = <<>> /\ event = <<>>
  /\ mem = <<>> /\ freed = {}
  /\ pc = [t \in Threads |-> NextCall(t, 0)]
  /\ at = [t \in Threads |-> Idle]
=============================================================================
