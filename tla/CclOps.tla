-------------------------------- MODULE CclOps --------------------------------
(***************************************************************************)
(* The host-side rendezvous of ccl_ops.cc: the process-wide Manager and    *)
(* the five sycl_* entry points.                                           *)
(*                                                                         *)
(* One host thread per device runs the same sequence of sycl_* calls.  A   *)
(* call pushes the thread's participant into the Manager map of its        *)
(* collective, under the string id of its communicator.  A thread that     *)
(* does not complete the group waits on the Manager's one condition        *)
(* variable, once and without re-testing anything; the thread that does    *)
(* erases the entry, submits the kernel for the whole group and notifies   *)
(* every waiter.  The critical section is held under Manager::mu, so it is *)
(* one action.                                                             *)
(*                                                                         *)
(* A participant is the pair of the thread and the index of its call: they *)
(* determine the stream, the buffers and the rank the code stores.  A      *)
(* vector of participants is a set here because the code sorts it by rank  *)
(* before using anything but its size.                                     *)
(***************************************************************************)
EXTENDS CclDispatch, FiniteSets, Sequences

CONSTANTS
  Threads,   \* the host threads, one per device
  Ids,       \* the communicator ids (run id, with or without a postfix)
  Program    \* the sycl_* calls every thread makes, in order

\* What a thread passes as ncclComm_t: its id, the devices of the clique the
\* communicator was made for, and its rank among them.
Comms == [id : Ids, devices : SUBSET Threads, rank : Nat]

\* One sycl_* call: which entry point with which element type and reduction,
\* its place (current_call, max_call) among the calls of its operation, and
\* the communicator each thread passes.
CallRecords ==
  [kind : Kinds, reduction : ReductionKinds \cup {NoReduction},
   dtype : PrimitiveTypes, current_call : Nat, max_call : Nat,
   comm : [Threads -> Comms]]

ASSUME ThreadsAssumption == IsFiniteSet(Threads)
ASSUME ProgramAssumption ==
  /\ Program \in Seq(CallRecords)
  /\ \A c \in DOMAIN Program, t \in Threads :
       t \in Program[c].comm[t].devices

VARIABLES
  pos,          \* pos[t]: the call thread t is in, or is about to make
  pc,           \* pc[t]: where thread t is with respect to that call
  collectives,  \* the Manager's maps: participants waiting under each key
  launches,     \* history: the groups for which a kernel was submitted
  aborted       \* a LOG(FATAL) has ended the process

vars == <<pos, pc, collectives, launches, aborted>>

Calls        == DOMAIN Program
Participants == [thread : Threads, call : Calls]

\* The Manager has one map for allreduce, allgather and reduce_scatter and
\* one each for alltoall and permute.
MapOf(kind) == IF kind \in {"alltoall", "permute"} THEN kind ELSE "collectives"
Keys        == {"collectives", "alltoall", "permute"} \X Ids

Comm(t, c)   == Program[c].comm[t]
KeyOf(t, c)  == <<MapOf(Program[c].kind), Comm(t, c).id>>
nranks(t, c) == Cardinality(Comm(t, c).devices)

Init ==
  /\ pos = [t \in Threads |-> 1]
  /\ pc = [t \in Threads |-> "running"]
  /\ collectives = [k \in Keys |-> {}]
  /\ launches = {}
  /\ aborted = FALSE

-----------------------------------------------------------------------------
\* The group under t's key once t has pushed its participant.
Joined(t) ==
  collectives[KeyOf(t, pos[t])] \cup {[thread |-> t, call |-> pos[t]]}

\* Mutant: a size test that is satisfied one participant early.
Complete_OneEarly(t) == Cardinality(Joined(t)) >= nranks(t, pos[t]) - 1

\* The size test of the sycl_* functions: p.size() against comm->nranks.
Complete(t) == Cardinality(Joined(t)) = nranks(t, pos[t])

\* t is outside the Manager and has a call left to make.
Calling(t) == ~aborted /\ pc[t] = "running" /\ pos[t] \in Calls

\* Mutant: notify_one.
NotifyAll_One ==
  LET waiting == {u \in Threads : pc[u] = "waiting"} IN
  IF waiting = {} THEN pc
  ELSE [pc EXCEPT ![CHOOSE u \in waiting : TRUE] = "notified"]

\* Manager::cv.notify_all(): every waiting thread, whatever it waits for.
NotifyAll == [u \in Threads |-> IF pc[u] = "waiting" THEN "notified" ELSE pc[u]]

\* Mutant: every entry point pushes into the map of sycl_allreduce.
Wait_WrongMap(t) ==
  /\ Calling(t)
  /\ ~Complete(t)
  /\ collectives' = [collectives EXCEPT
                       ![<<"collectives", Comm(t, pos[t]).id>>] = Joined(t)]
  /\ pc' = [pc EXCEPT ![t] = "waiting"]
  /\ UNCHANGED <<pos, launches, aborted>>

\* Mutant: push without cv.wait.
Wait_DoesNotBlock(t) ==
  /\ Calling(t)
  /\ ~Complete(t)
  /\ collectives' = [collectives EXCEPT ![KeyOf(t, pos[t])] = Joined(t)]
  /\ pos' = [pos EXCEPT ![t] = @ + 1]
  /\ UNCHANGED <<pc, launches, aborted>>

\* A sycl_* call whose participant does not complete the group: push, wait.
Wait(t) ==
  /\ Calling(t)
  /\ ~Complete(t)
  /\ collectives' = [collectives EXCEPT ![KeyOf(t, pos[t])] = Joined(t)]
  /\ pc' = [pc EXCEPT ![t] = "waiting"]
  /\ UNCHANGED <<pos, launches, aborted>>

\* TRUE iff the if-chains reach a kernel for t's call.
HasKernel(t) ==
  LET call == Program[pos[t]] IN
  Dispatches(call.kind, call.reduction, call.dtype, nranks(t, pos[t]))

\* Mutant: the entry is not erased.
Launch_KeepsEntry(t) ==
  /\ Calling(t)
  /\ Complete(t)
  /\ HasKernel(t)
  /\ collectives' = [collectives EXCEPT ![KeyOf(t, pos[t])] = Joined(t)]
  /\ launches' = launches \cup {Joined(t)}
  /\ pc' = NotifyAll
  /\ pos' = [pos EXCEPT ![t] = @ + 1]
  /\ UNCHANGED aborted

\* A sycl_* call whose participant completes the group: erase the entry,
\* submit the kernel for the group, notify, return.
Launch(t) ==
  /\ Calling(t)
  /\ Complete(t)
  /\ HasKernel(t)
  /\ collectives' = [collectives EXCEPT ![KeyOf(t, pos[t])] = {}]
  /\ launches' = launches \cup {Joined(t)}
  /\ pc' = NotifyAll
  /\ pos' = [pos EXCEPT ![t] = @ + 1]
  /\ UNCHANGED aborted

\* The same call for a type, reduction or clique size without a kernel:
\* LOG(FATAL), after the entry was erased and before anybody is notified.
Fatal(t) ==
  /\ Calling(t)
  /\ Complete(t)
  /\ ~HasKernel(t)
  /\ collectives' = [collectives EXCEPT ![KeyOf(t, pos[t])] = {}]
  /\ aborted' = TRUE
  /\ UNCHANGED <<pos, pc, launches>>

\* A notified thread gets the mutex back and returns from cv.wait and from
\* the sycl_* call: there is nothing after the wait.
Return(t) ==
  /\ ~aborted
  /\ pc[t] = "notified"
  /\ pc' = [pc EXCEPT ![t] = "running"]
  /\ pos' = [pos EXCEPT ![t] = @ + 1]
  /\ UNCHANGED <<collectives, launches, aborted>>

\* Every thread has made all its calls, or the process has ended.
Terminated == aborted \/ \A t \in Threads : pos[t] = Len(Program) + 1
Stop       == Terminated /\ UNCHANGED vars

Step(t) == Wait(t) \/ Launch(t) \/ Fatal(t) \/ Return(t)
Next    == (\E t \in Threads : Step(t)) \/ Stop

\* Every host thread keeps being scheduled, and the mutex is handed to a
\* thread that keeps asking for it.
Fairness == \A t \in Threads : WF_vars(Step(t))
Spec     == Init /\ [][Next]_vars /\ Fairness

-----------------------------------------------------------------------------
(* Properties.                                                             *)

\* The state has the shape the code gives it: only threads inside a call
\* wait, and an entry holds participants of calls that use its key.
TypeOK ==
  /\ pos \in [Threads -> 1 .. Len(Program) + 1]
  /\ pc \in [Threads -> {"running", "waiting", "notified"}]
  /\ \A t \in Threads : pc[t] # "running" => pos[t] \in Calls
  /\ collectives \in [Keys -> SUBSET Participants]
  /\ \A k \in Keys : \A p \in collectives[k] : KeyOf(p.thread, p.call) = k
  /\ launches \in SUBSET (SUBSET Participants)
  /\ aborted \in BOOLEAN

\* The participants that belong together: every device of one clique, at one
\* call of the program.
CliqueGroup(t, c) ==
  {[thread |-> u, call |-> c] : u \in Comm(t, c).devices}

\* Every kernel is submitted for exactly the participants of one clique at
\* one call (ccl_ops.cc, the use of p after "p.size() != comm->nranks"): no
\* rank missing, none twice, nobody of another clique or of another call.
LaunchesAreCliques ==
  \A g \in launches : \E p \in g : g = CliqueGroup(p.thread, p.call)

\* The group a participant was submitted in, if any.
Launched(t, c) == \E g \in launches : [thread |-> t, call |-> c] \in g

\* A sycl_* call returns only once the kernel that reads and writes its
\* buffers has been submitted (the reason for cv.wait): what the thread
\* enqueues next is ordered after it.
ReturnsAfterLaunch ==
  \A t \in Threads : \A c \in 1 .. pos[t] - 1 : Launched(t, c)

\* Every call is made by all threads as one clique, under one id.
OneClique ==
  \A c \in Calls : \A t, u \in Threads :
    Comm(t, c).devices = Threads /\ Comm(t, c).id = Comm(u, c).id

\* The call thread t will make when it is next outside the Manager: a
\* notified thread is past its call although it has not returned from it.
Reached(t) == IF pc[t] = "notified" THEN pos[t] + 1 ELSE pos[t]

\* With one clique the threads move in lockstep: a launch takes all of them
\* past a call at once, the Manager holds exactly the waiting threads, at the
\* call they all are in, and every call they are past has been launched.
\* (Inductive: the proofs in CclOpsProofs rest on it.)
Lockstep ==
  /\ \A t, u \in Threads : Reached(t) = Reached(u)
  /\ \A t \in Threads : \A c \in 1 .. Reached(t) - 1 : Launched(t, c)
  /\ ~aborted =>
       /\ \A k \in Keys : \A p \in collectives[k] :
            pc[p.thread] = "waiting" /\ pos[p.thread] = p.call
       /\ \A t \in Threads : pc[t] = "waiting" =>
            [thread |-> t, call |-> pos[t]] \in collectives[KeyOf(t, pos[t])]

\* Nobody waits for ever: each thread gets through its calls, unless a
\* LOG(FATAL) ends the process.
EveryCallReturns == <>Terminated
=============================================================================
