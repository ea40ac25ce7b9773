------------------------------ MODULE CclClique ------------------------------
(***************************************************************************)
(* How the threads of a collective get their communicators: LockCclComm    *)
(* (ccl_collective_thunk.cc), AcquireCclComm and AcquireCclClique          *)
(* (ccl_utils.cc), CclUniqueIdCallback and Lockable (ccl_utils.h).         *)
(*                                                                         *)
(* Several runs of an executable may be in progress, each with one host    *)
(* thread per device; a thread is the pair <<run, device>>.  Every thread  *)
(* performs the same operations, and for each it meets the other devices   *)
(* of its clique, in its own run, at a rendezvous; the group then locks    *)
(* the clique, makes the communicators the first time, and each member     *)
(* locks the communicator of its rank until its operation is over.         *)
(***************************************************************************)
EXTENDS Integers, FiniteSets, Sequences

CONSTANTS
  Devices,    \* global device ids, positive integers
  Runs,       \* run ids (RunId::ToInt), positive integers
  Operations  \* sequence of [groups, replica_groups, stream_id]

\* The devices of a group, which is a sequence: rank is the position in it.
Members(g) == {g[i] : i \in DOMAIN g}

\* An operation: the device groups it forms, the number of replica_groups its
\* instruction lists (one list may form several groups, one per partition),
\* and the stream it runs on (0 sync, 1 async).
ASSUME OperationsAssumption ==
  /\ Devices \subseteq Nat \ {0} /\ IsFiniteSet(Devices)
  /\ Runs \subseteq Nat \ {0}
  /\ Operations \in Seq([groups : SUBSET Seq(Devices),
                         replica_groups : Nat, stream_id : {0, 1}])
  /\ \A o \in DOMAIN Operations : \A d \in Devices :
       \E g \in Operations[o].groups : d \in Members(g)
  /\ \A o \in DOMAIN Operations : \A g, h \in Operations[o].groups :
       g # h => Members(g) \cap Members(h) = {}

Threads == Runs \X Devices
RunOf(t)    == t[1]
DeviceOf(t) == t[2]

VARIABLES
  at,             \* at[t]: the operation thread t performs
  stage,          \* stage[t]: how far it is with it
  arrived,        \* the threads waiting at each rendezvous
  clique_lock,    \* per clique, the threads that hold the lock's shared_ptr
  run_id,         \* CclCliqueState::run_id, -1 before the first use
  unique_id,      \* CclCliqueState::unique_id
  communicators,  \* the devices whose communicator exists
  ready,          \* CclCliqueState::ready has been notified
  comm_lock,      \* per clique and device, the threads holding the communicator
  order           \* history: the runs that locked each communicator, in order

lockVars == <<clique_lock, comm_lock, order>>
vars == <<at, stage, arrived, lockVars, run_id, unique_id, communicators, ready>>

\* NcclCliqueKey: the participating devices and the stream.
CliqueKeys ==
  UNION {{<<g, Operations[o].stream_id>> : g \in Operations[o].groups} :
           o \in DOMAIN Operations}
DevicesOf(k) == Members(k[1])

\* GetParticipatingDevices, and the key built from it.
Participants(d, o) == CHOOSE g \in Operations[o].groups : d \in Members(g)
KeyOf(t) == <<Participants(DeviceOf(t), at[t]), Operations[at[t]].stream_id>>
GroupOf(t) == {<<RunOf(t), d>> : d \in DevicesOf(KeyOf(t))}

\* Operations without a channel id all carry the id of their module, so a
\* rendezvous is told apart by its run and clique only.
RendezvousKeys == Runs \X CliqueKeys
RendezvousOf(t) == <<RunOf(t), KeyOf(t)>>

\* CclUniqueIdCallback: the run id, with the first device of the clique as
\* postfix unless the instruction lists exactly one replica group.
UniqueId_NoPostfix(r, g, o) == <<r>>
UniqueId(r, g, o) ==
  IF Operations[o].replica_groups = 1 THEN <<r>> ELSE <<r, g[1]>>

Init ==
  /\ at = [t \in Threads |-> 1]
  /\ stage = [t \in Threads |-> "begin"]
  /\ arrived = [k \in RendezvousKeys |-> {}]
  /\ clique_lock = [k \in CliqueKeys |-> {}]
  /\ run_id = [k \in CliqueKeys |-> -1]
  /\ unique_id = [k \in CliqueKeys |-> <<>>]
  /\ communicators = [k \in CliqueKeys |-> {}]
  /\ ready = [k \in CliqueKeys |-> FALSE]
  /\ comm_lock = [k \in CliqueKeys |-> [d \in DevicesOf(k) |-> {}]]
  /\ order = [k \in CliqueKeys |-> [d \in DevicesOf(k) |-> <<>>]]

In(t, s)   == at[t] \in DOMAIN Operations /\ stage[t] = s
Goto(t, s) == stage' = [stage EXCEPT ![t] = s]

-----------------------------------------------------------------------------
\* AcquireCclClique: the thread joins the rendezvous of its run and clique.
Arrive(t) ==
  /\ In(t, "begin")
  /\ arrived' = [arrived EXCEPT ![RendezvousOf(t)] = @ \cup {t}]
  /\ Goto(t, "rendezvous")
  /\ UNCHANGED <<at, lockVars, run_id, unique_id, communicators, ready>>

\* Mutants: the clique is handed out while another group has it; it is
\* renamed on every use.
AcquireCclClique_NoLock(t) ==
  LET k == KeyOf(t)  r == RendezvousOf(t) IN
  /\ In(t, "rendezvous")
  /\ arrived[r] = GroupOf(t)
  /\ unique_id' = IF run_id[k] < 0
                    THEN [unique_id EXCEPT
                            ![k] = UniqueId(RunOf(t), k[1], at[t])]
                    ELSE unique_id
  /\ run_id' = [run_id EXCEPT ![k] = RunOf(t)]
  /\ clique_lock' = [clique_lock EXCEPT ![k] = @ \cup GroupOf(t)]
  /\ arrived' = [arrived EXCEPT ![r] = {}]
  /\ stage' = [u \in Threads |-> IF u \in GroupOf(t) THEN "check" ELSE stage[u]]
  /\ UNCHANGED <<at, comm_lock, order, communicators, ready>>
AcquireCclClique_Renames(t) ==
  LET k == KeyOf(t)  r == RendezvousOf(t) IN
  /\ In(t, "rendezvous")
  /\ arrived[r] = GroupOf(t)
  /\ clique_lock[k] = {}
  /\ unique_id' = [unique_id EXCEPT ![k] = UniqueId(RunOf(t), k[1], at[t])]
  /\ run_id' = [run_id EXCEPT ![k] = RunOf(t)]
  /\ clique_lock' = [clique_lock EXCEPT ![k] = GroupOf(t)]
  /\ arrived' = [arrived EXCEPT ![r] = {}]
  /\ stage' = [u \in Threads |-> IF u \in GroupOf(t) THEN "check" ELSE stage[u]]
  /\ UNCHANGED <<at, comm_lock, order, communicators, ready>>

\* All have arrived: one of them (t) runs the rendezvous function, which
\* waits for the clique, names it on its first use, and hands the lock to
\* every thread of the group.  The participants are all local, so the check
\* that run ids increase is vacuous and run_id is only recorded.
AcquireCclClique(t) ==
  LET k == KeyOf(t)  r == RendezvousOf(t) IN
  /\ In(t, "rendezvous")
  /\ arrived[r] = GroupOf(t)
  /\ clique_lock[k] = {}
  /\ unique_id' = IF run_id[k] < 0
                    THEN [unique_id EXCEPT
                            ![k] = UniqueId(RunOf(t), k[1], at[t])]
                    ELSE unique_id
  /\ run_id' = [run_id EXCEPT ![k] = RunOf(t)]
  /\ clique_lock' = [clique_lock EXCEPT ![k] = GroupOf(t)]
  /\ arrived' = [arrived EXCEPT ![r] = {}]
  /\ stage' = [u \in Threads |-> IF u \in GroupOf(t) THEN "check" ELSE stage[u]]
  /\ UNCHANGED <<at, comm_lock, order, communicators, ready>>

\* if (!state.ready.HasBeenNotified())
CheckReady(t) ==
  /\ In(t, "check")
  /\ Goto(t, IF ready[KeyOf(t)] THEN "acquire" ELSE "create")
  /\ UNCHANGED <<at, arrived, lockVars, run_id, unique_id, communicators, ready>>

\* Insert this rank's communicator under state.mu; the thread that inserts
\* the last one notifies, the others wait for the notification.
CreateComm(t) ==
  LET k == KeyOf(t)  made == communicators[k] \cup {DeviceOf(t)} IN
  /\ In(t, "create")
  /\ communicators' = [communicators EXCEPT ![k] = made]
  /\ IF Cardinality(made) = Cardinality(GroupOf(t))
       THEN ready' = [ready EXCEPT ![k] = TRUE] /\ Goto(t, "acquire")
       ELSE UNCHANGED ready /\ Goto(t, "notified")
  /\ UNCHANGED <<at, arrived, lockVars, run_id, unique_id>>

WaitForNotification(t) ==
  /\ In(t, "notified")
  /\ ready[KeyOf(t)]
  /\ Goto(t, "acquire")
  /\ UNCHANGED <<at, arrived, lockVars, run_id, unique_id, communicators, ready>>

\* Mutant: the reference to the clique lock is not dropped.
AcquireComm_KeepsClique(t) ==
  LET k == KeyOf(t)  d == DeviceOf(t) IN
  /\ In(t, "acquire")
  /\ comm_lock[k][d] = {}
  /\ comm_lock' = [comm_lock EXCEPT ![k][d] = {t}]
  /\ order' = [order EXCEPT ![k][d] = Append(@, RunOf(t))]
  /\ Goto(t, "locked")
  /\ UNCHANGED <<at, arrived, clique_lock, run_id, unique_id, communicators, ready>>

\* state.communicators[rank]->Acquire(), and the return from AcquireCclComm,
\* which drops this thread's reference to the clique lock.
AcquireComm(t) ==
  LET k == KeyOf(t)  d == DeviceOf(t) IN
  /\ In(t, "acquire")
  /\ comm_lock[k][d] = {}
  /\ comm_lock' = [comm_lock EXCEPT ![k][d] = {t}]
  /\ order' = [order EXCEPT ![k][d] = Append(@, RunOf(t))]
  /\ clique_lock' = [clique_lock EXCEPT ![k] = @ \ {t}]
  /\ Goto(t, "locked")
  /\ UNCHANGED <<at, arrived, run_id, unique_id, communicators, ready>>

\* Every member of t's group has called into the Manager for t's operation.
AllJoined(t) ==
  \A u \in GroupOf(t) : at[u] > at[t] \/ (at[u] = at[t] /\ stage[u] = "locked")

\* The collective itself returns only after every member has joined it
\* (CclOps); then ExecuteOnStream returns and the communicator's lock is
\* released.
Release(t) ==
  LET k == KeyOf(t)  d == DeviceOf(t) IN
  /\ In(t, "locked")
  /\ AllJoined(t)
  /\ comm_lock' = [comm_lock EXCEPT ![k][d] = @ \ {t}]
  /\ at' = [at EXCEPT ![t] = @ + 1]
  /\ Goto(t, "begin")
  /\ UNCHANGED <<arrived, clique_lock, order, run_id, unique_id, communicators, ready>>

Step(t) ==
  \/ Arrive(t) \/ AcquireCclClique(t) \/ CheckReady(t) \/ CreateComm(t)
  \/ WaitForNotification(t) \/ AcquireComm(t) \/ Release(t)

Finished == \A t \in Threads : at[t] = Len(Operations) + 1
Stop     == Finished /\ UNCHANGED vars
Next     == (\E t \in Threads : Step(t)) \/ Stop

\* Every thread keeps being scheduled; a lock that is free is granted.
Fairness == \A t \in Threads : WF_vars(Step(t))
Spec     == Init /\ [][Next]_vars /\ Fairness

-----------------------------------------------------------------------------
(* Properties.                                                             *)

\* The groups go through the communicators of a clique in one order, the
\* same for every rank ("Ensure that this group of threads have exclusive
\* access to the clique to prevent threads from different groups locking
\* communicators in the clique"): otherwise two runs could each hold a
\* communicator the other one needs.
SameOrderOnEveryRank ==
  \A k \in CliqueKeys : \A d, e \in DevicesOf(k) :
    \A i \in DOMAIN order[k][d] \cap DOMAIN order[k][e] :
      order[k][d][i] = order[k][e][i]

\* Every communicator holds a reference to its clique's unique_id: the id
\* never changes once a communicator exists.
IdStaysWhileCommsExist ==
  [][\A k \in CliqueKeys :
       communicators[k] # {} => unique_id'[k] = unique_id[k]]_vars

\* t's participant waits in the Manager's map for other members of its group.
Pending(t) == stage[t] = "locked" /\ ~AllJoined(t)

\* Participants that wait in the Manager under one id belong to one group: it
\* completes a group by counting what it finds under the id ("The order
\* should be: (r0p0, r1p0), (r0p1, r1p1)": one group for each partition).
WaitingUnderOneIdIsOneGroup ==
  \A t, u \in Threads :
    /\ Pending(t) /\ Pending(u)
    /\ unique_id[KeyOf(t)] = unique_id[KeyOf(u)]
    => u \in GroupOf(t) /\ at[u] = at[t]

\* Every thread of every run gets its communicators and finishes: the locks
\* of concurrent runs never wait for each other in a circle.
EveryRunFinishes == <>Finished
=============================================================================
