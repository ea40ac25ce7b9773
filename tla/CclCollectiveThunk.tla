-------------------------- MODULE CclCollectiveThunk --------------------------
(***************************************************************************)
(* CclCollectiveThunk::ExecuteOnStream, its AsyncExecutor and the Done     *)
(* thunk (ccl_collective_thunk.cc), composed with the Manager (CclOps) and *)
(* with the device queues the sycl_* calls submit to (ccl_ops.cc,          *)
(* sycl_driver.cc).                                                        *)
(*                                                                         *)
(* Each host thread walks the same schedule of thunks.  Host actions       *)
(* append commands to queues; a queue executes its commands in order, one  *)
(* at a time, independently of the host and of the other queues.           *)
(* XLA_ENABLE_MULTIPLE_STREAM decides whether the compute stream and the   *)
(* async_comms_stream of a device are two queues, ordered by events, or    *)
(* the same one, where waiting for an event is waiting on the host for the *)
(* queue to drain.  That choice, the thunks made with !is_sync, and        *)
(* whether the executable has run before are fixed for a run: they are the *)
(* components of config, chosen in the initial state.                      *)
(*                                                                         *)
(* An operation is named by the index of its first sycl_* call.  Acquiring *)
(* the communicator is represented by what CclClique shows of it: nobody   *)
(* of a clique proceeds before all its members have arrived at the         *)
(* operation.                                                              *)
(***************************************************************************)
EXTENDS CclOps, SequencesExt

CONSTANTS
  Schedule,  \* the compiled program: sequence of [thunk, op]
  Configs    \* the settings tried: set of [async, multiple_streams, first_run]

VARIABLES
  config,       \* the settings of this run
  at,           \* at[t]: index in Schedule of the thunk thread t executes
  stage,        \* stage[t]: how far it is in that thunk
  first_call_to_execute,  \* per start thunk, shared by all threads
  done_events,  \* per start thunk, the devices with a stored done event
  failed,       \* the threads whose thunk returned an error
  queue,        \* per device queue, the commands not executed yet
  events,       \* the device events that have completed
  inputsRun, kernelsRun, outputsRun   \* history: what the devices executed

hostVars  == <<config, at, stage, first_call_to_execute, done_events, failed>>
runVars   == <<events, inputsRun, kernelsRun, outputsRun>>
thunkVars == <<vars, hostVars, queue, runVars>>

OpOf(c)      == c - Program[c].current_call
Operations   == {OpOf(c) : c \in DOMAIN Program}
CallsOf(o)   == o .. o + Program[o].max_call - 1
IsAsync(o)   == o \in config.async
Clique(t, o) == Program[o].comm[t].devices

\* The calls of an operation follow one another and pass one communicator,
\* in which every member has a rank of its own.
ASSUME OperationsAssumption ==
  /\ \A c \in DOMAIN Program : OpOf(c) \in DOMAIN Program /\ c \in CallsOf(OpOf(c))
  /\ \A o \in Operations : \A c \in CallsOf(o) :
       /\ c \in DOMAIN Program /\ OpOf(c) = o
       /\ Program[c].max_call = Program[o].max_call /\ Program[c].comm = Program[o].comm
  /\ \A o \in Operations, t \in Threads : \A u \in Clique(t, o) \ {t} :
       Program[o].comm[t].rank # Program[o].comm[u].rank

\* Each operation has its inputs computed, is started, awaited and used once,
\* in this order, and the operations start in the order of the calls.
ThunkKinds == {"input", "start", "done", "output"}
ASSUME ScheduleAssumption ==
  /\ Schedule \in Seq([thunk : ThunkKinds, op : Operations])
  /\ \A i, j \in DOMAIN Schedule :
       /\ Schedule[i] = Schedule[j] => i = j
       /\ Schedule[i].thunk = "start" /\ Schedule[j].thunk = "start" /\ i < j
            => Schedule[i].op < Schedule[j].op
  /\ \A o \in Operations : \E i \in [ThunkKinds -> DOMAIN Schedule] :
       /\ \A k \in ThunkKinds : Schedule[i[k]] = [thunk |-> k, op |-> o]
       /\ i["input"] < i["start"] /\ i["start"] < i["done"] /\ i["done"] < i["output"]
  /\ Configs \subseteq [async : SUBSET Operations, multiple_streams : BOOLEAN,
                        first_run : BOOLEAN]

\* EmitCclAsyncDone: the done operation of a start thunk that has no
\* AsyncExecutor emits nothing.
Emitted == {i \in DOMAIN Schedule : Schedule[i].thunk = "done" => IsAsync(Schedule[i].op)}

\* The thunk after the one at i.
Following(i) == Min({j \in Emitted : j > i} \cup {Len(Schedule) + 1})

-----------------------------------------------------------------------------
(* Device queues.                                                          *)

MainStream(t)  == <<t, "main">>
CommsStream(t) == IF config.multiple_streams THEN <<t, "comms">> ELSE MainStream(t)
Queues         == Threads \X {"main", "comms"}

\* The stream an operation runs on: params.stream or async_comms_stream.
StreamOf(t, o) == IF IsAsync(o) THEN CommsStream(t) ELSE MainStream(t)

Work(thunk, t, o) == [cmd |-> "work", thunk |-> thunk, thread |-> t, op |-> o]
Kernel(g)         == [cmd |-> "kernel", group |-> g]
Signal(e)         == [cmd |-> "signal", event |-> e]
WaitFor(es)       == [cmd |-> "wait", events |-> es]
On(q, c)          == [queue |-> q, command |-> c]

\* The queues after a submission, and after a sequence of them.
Submitted(queues, sub) == [queues EXCEPT ![sub.queue] = Append(@, sub.command)]
Submit(queues, subs)   == FoldLeft(Submitted, queues, subs)

\* stream->wait() and BlockHostUntilDone return when the queue has drained.
Drained(q) == queue[q] = <<>>

\* WaitStreamOnEvent: a barrier on the event, or in single-stream mode a
\* host wait for the whole queue, which leaves nothing to submit.
EventWait(q, e) == IF config.multiple_streams THEN <<On(q, WaitFor({e}))>> ELSE <<>>
MayWait(q)      == config.multiple_streams \/ Drained(q)

\* RecordEvent: a barrier whose event the stream signals; nothing in
\* single-stream mode.
EventRecord(q, e) == IF config.multiple_streams THEN <<On(q, Signal(e))>> ELSE <<>>

-----------------------------------------------------------------------------
(* The submissions of one launch (sycl_allreduce and its siblings).        *)

Rank(p)       == Program[p.call].comm[p.thread].rank
PartStream(p) == StreamOf(p.thread, OpOf(p.call))

\* std::sort by rank, which leaves the order of equal ranks open.
SortedByRank(g) ==
  {p \in [1 .. Cardinality(g) -> g] :
     /\ \A i, j \in DOMAIN p : i # j => p[i] # p[j]
     /\ \A i, j \in DOMAIN p : i < j => Rank(p[i]) <= Rank(p[j])}

\* Mutant: rank 0's stream waits for nobody.
stream_wait_streamlist_Dropped(queues, p) == queues

\* stream_wait_streamlist: rank 0's stream waits for all the others.
stream_wait_streamlist(queues, p) ==
  LET ready(i) == <<"ready", p[i].thread, p[i].call>> IN
  Submit(Submit(queues, [i \in 1 .. Len(p) - 1 |-> On(PartStream(p[i + 1]), Signal(ready(i + 1)))]),
         <<On(PartStream(p[1]), WaitFor({ready(i) : i \in 2 .. Len(p)}))>>)

\* Mutants: the others do not wait; or they wait and rank 0 never signals.
streamlist_wait_stream_Dropped(queues, p) == queues
streamlist_wait_stream_NoSignal(queues, p) ==
  Submit(queues, [i \in 1 .. Len(p) - 1 |->
    On(PartStream(p[i + 1]), WaitFor({<<"finished", p[1].thread, p[1].call>>}))])

\* streamlist_wait_stream: all the others wait for rank 0's stream.
streamlist_wait_stream(queues, p) ==
  LET finished == <<"finished", p[1].thread, p[1].call>> IN
  Submit(Submit(queues, <<On(PartStream(p[1]), Signal(finished))>>),
         [i \in 1 .. Len(p) - 1 |-> On(PartStream(p[i + 1]), WaitFor({finished}))])

\* The barriers surround the first and the last call of an operation; the
\* kernel goes to rank 0's stream.  (alltoall and permute have a single call.)
LaunchSubmissions(p, call) ==
  LET ready == IF call.current_call = 0 THEN stream_wait_streamlist(queue, p) ELSE queue
      run   == Submit(ready, <<On(PartStream(p[1]), Kernel(Range(p)))>>)
  IN  IF call.current_call = call.max_call - 1 THEN streamlist_wait_stream(run, p) ELSE run

-----------------------------------------------------------------------------
(* Host threads.                                                           *)

ThunkInit ==
  /\ Init
  /\ config \in Configs
  /\ at = [t \in Threads |-> Following(0)]
  /\ stage = [t \in Threads |-> "begin"]
  /\ first_call_to_execute = [o \in Operations |-> config.first_run]
  /\ done_events = [o \in Operations |-> {}]
  /\ failed = {}
  /\ queue = [q \in Queues |-> <<>>]
  /\ events = {} /\ inputsRun = {} /\ kernelsRun = {} /\ outputsRun = {}

At(t, thunks, s) ==
  /\ ~aborted /\ t \notin failed
  /\ at[t] \in DOMAIN Schedule
  /\ Schedule[at[t]].thunk \in thunks
  /\ stage[t] = s
Op(t) == Schedule[at[t]].op

Goto(t, s)    == stage' = [stage EXCEPT ![t] = s] /\ UNCHANGED at
NextThunk(t)  == /\ at' = [at EXCEPT ![t] = Following(@)]
                 /\ stage' = [stage EXCEPT ![t] = "begin"]

\* A compute thunk: the kernels that produce an operation's inputs, or use
\* its results, go to the compute stream.
EnqueueWork(t) ==
  /\ At(t, {"input", "output"}, "begin")
  /\ queue' = Submit(queue, <<On(MainStream(t), Work(Schedule[at[t]].thunk, t, Op(t)))>>)
  /\ NextThunk(t)
  /\ UNCHANGED <<vars, config, first_call_to_execute, done_events, failed, runVars>>

\* ExecuteOnStream reaches LockCclComm: the thread arrives at the rendezvous.
Arrive(t) ==
  /\ At(t, {"start"}, "begin")
  /\ Goto(t, "lock")
  /\ UNCHANGED <<vars, config, first_call_to_execute, done_events, failed, queue, runVars>>

HasArrived(u, t) == at[u] > at[t] \/ (at[u] = at[t] /\ stage[u] # "begin")

\* LockCclComm returns once all members are there.  An asynchronous thunk
\* then makes async_comms_stream wait for the compute stream.
Locked(t) ==
  LET e == <<"inputs", t, Op(t)>> IN
  /\ At(t, {"start"}, "lock")
  /\ \A u \in Clique(t, Op(t)) : HasArrived(u, t)
  /\ IF IsAsync(Op(t))
       THEN /\ MayWait(CommsStream(t))
            /\ queue' = Submit(queue, EventRecord(MainStream(t), e)
                                        \o EventWait(CommsStream(t), e))
       ELSE UNCHANGED queue
  /\ Goto(t, "calls")
  /\ UNCHANGED <<vars, config, first_call_to_execute, done_events, failed, runVars>>

\* The loop of RunAllReduce and its siblings: on to the next buffer, or out
\* of RunCclCollective after the last.
AfterCall(t, c) ==
  IF Program[c].current_call = Program[c].max_call - 1
    THEN IF IsAsync(OpOf(c)) THEN "record" ELSE "first"
    ELSE "calls"
SetCallStage(t) == Goto(t, AfterCall(t, pos[t]))

CallWait(t) ==
  /\ At(t, {"start"}, "calls")
  /\ Wait(t)
  /\ UNCHANGED <<hostVars, queue, runVars>>

CallLaunch(t) ==
  /\ At(t, {"start"}, "calls")
  /\ Launch(t)
  /\ \E p \in SortedByRank(Joined(t)) :
       queue' = LaunchSubmissions(p, Program[pos[t]])
  /\ SetCallStage(t)
  /\ UNCHANGED <<config, first_call_to_execute, done_events, failed, runVars>>

CallReturn(t) ==
  /\ At(t, {"start"}, "calls")
  /\ Return(t)
  /\ SetCallStage(t)
  /\ UNCHANGED <<config, first_call_to_execute, done_events, failed, queue, runVars>>

\* AsyncExecutor::Execute after fn: record the done event and store it;
\* TF_RET_CHECK that the previous one was consumed.
RecordDone(t) ==
  LET o == Op(t) IN
  /\ At(t, {"start"}, "record")
  /\ queue' = Submit(queue, EventRecord(CommsStream(t), <<"done", t, o>>))
  /\ done_events' = [done_events EXCEPT ![o] = @ \cup {t}]
  /\ failed' = IF t \in done_events[o] THEN failed \cup {t} ELSE failed
  /\ Goto(t, "first")
  /\ UNCHANGED <<vars, config, first_call_to_execute, runVars>>

\* Mutant: the flag is cleared before the stream is drained.
ReadFirst_ClearsFlag(t) ==
  /\ At(t, {"start"}, "first")
  /\ IF first_call_to_execute[Op(t)] THEN Goto(t, "block") ELSE NextThunk(t)
  /\ first_call_to_execute' = [first_call_to_execute EXCEPT ![Op(t)] = FALSE]
  /\ UNCHANGED <<vars, config, done_events, failed, queue, runVars>>

\* The unsynchronised read of first_call_to_execute_.
ReadFirst(t) ==
  /\ At(t, {"start"}, "first")
  /\ IF first_call_to_execute[Op(t)] THEN Goto(t, "block") ELSE NextThunk(t)
  /\ UNCHANGED <<vars, config, first_call_to_execute, done_events, failed, queue, runVars>>

\* BlockHostUntilDone returns; first_call_to_execute_ = false.
BlockHostUntilDone(t) ==
  /\ At(t, {"start"}, "block")
  /\ Drained(StreamOf(t, Op(t)))
  /\ first_call_to_execute' = [first_call_to_execute EXCEPT ![Op(t)] = FALSE]
  /\ NextThunk(t)
  /\ UNCHANGED <<vars, config, done_events, failed, queue, runVars>>

\* AsyncExecutor::Await: take the stored event and make the compute stream
\* wait for it; TF_RET_CHECK that there is one.
Await(t) ==
  LET o == Op(t) IN
  /\ At(t, {"done"}, "begin")
  /\ done_events' = [done_events EXCEPT ![o] = @ \ {t}]
  /\ IF t \in done_events[o]
       THEN /\ MayWait(MainStream(t))
            /\ queue' = Submit(queue, EventWait(MainStream(t), <<"done", t, o>>))
            /\ NextThunk(t)
            /\ UNCHANGED failed
       ELSE /\ failed' = failed \cup {t}
            /\ UNCHANGED <<queue, at, stage>>
  /\ UNCHANGED <<vars, config, first_call_to_execute, runVars>>

HostStep(t) ==
  \/ EnqueueWork(t) \/ Arrive(t) \/ Locked(t)
  \/ CallWait(t) \/ CallLaunch(t) \/ CallReturn(t)
  \/ RecordDone(t) \/ ReadFirst(t) \/ BlockHostUntilDone(t) \/ Await(t)

-----------------------------------------------------------------------------
(* Device queues execute in order (sycl::property::queue::in_order).       *)

Execute(q) ==
  LET c == Head(queue[q]) IN
  /\ queue[q] # <<>>
  /\ c.cmd = "wait" => c.events \subseteq events
  /\ queue' = [queue EXCEPT ![q] = Tail(@)]
  /\ events' = IF c.cmd = "signal" THEN events \cup {c.event} ELSE events
  /\ inputsRun' = IF c.cmd = "work" /\ c.thunk = "input"
                    THEN inputsRun \cup {<<c.thread, c.op>>} ELSE inputsRun
  /\ outputsRun' = IF c.cmd = "work" /\ c.thunk = "output"
                     THEN outputsRun \cup {<<c.thread, c.op>>} ELSE outputsRun
  /\ kernelsRun' = IF c.cmd = "kernel"
                     THEN kernelsRun \cup {c.group} ELSE kernelsRun
  /\ UNCHANGED <<vars, hostVars>>

Finished ==
  /\ \A t \in Threads : at[t] = Len(Schedule) + 1
  /\ \A q \in Queues : Drained(q)
ThunkStop == Finished /\ UNCHANGED thunkVars

ThunkNext ==
  \/ \E t \in Threads : HostStep(t)
  \/ \E q \in Queues : Execute(q)
  \/ ThunkStop

\* Every host thread keeps being scheduled and every queue keeps executing.
ThunkFairness == /\ \A t \in Threads : WF_thunkVars(HostStep(t))
                 /\ \A q \in Queues : WF_thunkVars(Execute(q))
ThunkSpec == ThunkInit /\ [][ThunkNext]_thunkVars /\ ThunkFairness

-----------------------------------------------------------------------------
(* Properties.                                                             *)

\* Thread t's buffers of all calls of operation o have been through a kernel.
KernelsDone(t, o) ==
  \A c \in CallsOf(o) :
    \E g \in kernelsRun : [thread |-> t, call |-> c] \in g

\* The done event an asynchronous start records stands for the completion of
\* the collective ("Create an event on the async stream for the completion
\* of the collective"): once it has completed, the kernels have run.  Every
\* done thunk finds the event of its own start and no start finds one that was
\* not consumed, so no thunk returns an error.
DoneEventMeansDone ==
  /\ \A t \in Threads, o \in Operations :
       <<"done", t, o>> \in events => KernelsDone(t, o)
  /\ failed = {}

\* In the first run, no thread is past a start thunk before the collective
\* ran on the devices, although only the threads that read
\* first_call_to_execute_ before it is cleared block.
FirstCallBlocks ==
  config.first_run =>
    \A t \in Threads : \A i \in 1 .. at[t] - 1 :
      Schedule[i].thunk = "start" => KernelsDone(t, Schedule[i].op)

\* Every run of the schedule ends, on the hosts and on the devices: no host
\* thread and no queue waits for ever for another.
EverythingFinishes == <>Finished

\* The collectives implement Collective: each takes effect once, after its
\* members' inputs and before the use of its results.
Abstract == INSTANCE Collective WITH
  inputs    <- inputsRun,
  performed <- {<<Clique(x[1], x[2]), x[2]>> :
                  x \in {y \in Threads \X Operations :
                          \A u \in Clique(y[1], y[2]) : KernelsDone(u, y[2])}},
  outputs   <- outputsRun
ImplementsCollective == Abstract!Spec
=============================================================================
