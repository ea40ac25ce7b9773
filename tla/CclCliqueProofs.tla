--------------------------- MODULE CclCliqueProofs ---------------------------
(***************************************************************************)
(* Proofs about CclClique, for any devices, any concurrent runs and any    *)
(* sequence of operations: the groups go through a clique's communicators  *)
(* in one order on every rank, the unique id stays while a communicator    *)
(* refers to it, and, when no two cliques of the program have the same id, *)
(* the participants that wait under an id are one group.                   *)
(***************************************************************************)
EXTENDS CclClique, TLAPS

Ops == DOMAIN Operations
OpRecords == [groups : SUBSET Seq(Devices), replica_groups : Nat, stream_id : {0, 1}]

\* The stages in which a thread holds the lock of its clique.
Holding == {"check", "create", "notified", "acquire"}
Stages  == {"begin", "rendezvous", "locked"} \cup Holding

TypeOK ==
  /\ at \in [Threads -> Nat]
  /\ stage \in [Threads -> Stages]
  /\ \A t \in Threads : stage[t] # "begin" => at[t] \in Ops
  /\ arrived \in [RendezvousKeys -> SUBSET Threads]
  /\ clique_lock \in [CliqueKeys -> SUBSET Threads]
  /\ run_id \in [CliqueKeys -> Int]
  /\ DOMAIN unique_id = CliqueKeys
  /\ communicators \in [CliqueKeys -> SUBSET Devices]
  /\ ready \in [CliqueKeys -> BOOLEAN]
  /\ DOMAIN comm_lock = CliqueKeys
  /\ DOMAIN order = CliqueKeys
  /\ \A k \in CliqueKeys : /\ comm_lock[k] \in [DevicesOf(k) -> SUBSET Threads]
                           /\ order[k] \in [DevicesOf(k) -> Seq(Runs)]

\* Thread t has left the rendezvous of operation o.
Passed(t, o) == at[t] > o \/ (at[t] = o /\ stage[t] \in Holding \cup {"locked"})

\* A group leaves its rendezvous together.
GroupsPass ==
  \A t, u \in Threads : \A o \in Ops :
    /\ RunOf(t) = RunOf(u)
    /\ Participants(DeviceOf(t), o) = Participants(DeviceOf(u), o)
    /\ Passed(t, o)
    => Passed(u, o)

\* Only threads that wait there are at a rendezvous.
Waiting ==
  \A r \in RendezvousKeys : \A t \in arrived[r] :
    stage[t] = "rendezvous" /\ RendezvousOf(t) = r

\* The lock of a clique is held by threads of one run, for one operation,
\* and by every thread between its rendezvous and its communicator.
OneGroupHolds ==
  /\ \A t \in Threads : stage[t] \in Holding => t \in clique_lock[KeyOf(t)]
  /\ \A k \in CliqueKeys : \A t \in clique_lock[k] :
       stage[t] \in Holding /\ KeyOf(t) = k
  /\ \A k \in CliqueKeys : \A t, u \in clique_lock[k] :
       RunOf(t) = RunOf(u) /\ at[t] = at[u]

\* The rank of device d in clique k has still to be locked by the holders.
ToLock(k, d) == \E t \in clique_lock[k] : DeviceOf(t) = d

\* The ranks the holders have locked are one run ahead of the others.
OneRunAhead ==
  \A k \in CliqueKeys : \A d, e \in DevicesOf(k) :
    /\ (ToLock(k, d) <=> ToLock(k, e)) => order[k][d] = order[k][e]
    /\ \A t \in clique_lock[k] :
         DeviceOf(t) = d /\ ~ToLock(k, e) =>
           order[k][e] = Append(order[k][d], RunOf(t))

\* A clique that is or was in use has a name: the id of its first run.
Named ==
  \A k \in CliqueKeys :
    clique_lock[k] # {} \/ communicators[k] # {} => run_id[k] >= 0

IInv == TypeOK /\ GroupsPass /\ Waiting /\ OneGroupHolds /\ OneRunAhead /\ Named
-----------------------------------------------------------------------------
(* The groups of an operation.                                             *)

LEMMA RunsFacts == \A r \in Runs : r \in Int /\ r > 0
<1> QED BY OperationsAssumption

\* Every device has its one group in an operation.
LEMMA GroupFacts ==
  ASSUME NEW o \in Ops, NEW d \in Devices
  PROVE  /\ Participants(d, o) \in Operations[o].groups
         /\ d \in Members(Participants(d, o))
         /\ Members(Participants(d, o)) \subseteq Devices
         /\ \A e \in Members(Participants(d, o)) :
              Participants(e, o) = Participants(d, o)
<1> DEFINE P == Participants(d, o)
<1>1. \E g \in Operations[o].groups : d \in Members(g)
  BY OperationsAssumption DEF Ops
<1>2. P \in Operations[o].groups /\ d \in Members(P)
  BY <1>1, Zenon DEF Participants
<1>3. Operations \in Seq(OpRecords)
  BY OperationsAssumption DEF OpRecords
<1>4. P \in Seq(Devices)
  <2>1. Operations[o] \in OpRecords
    BY <1>3 DEF Ops
  <2> QED BY <1>2, <2>1 DEF OpRecords
<1>5. Members(P) \subseteq Devices
  BY <1>4 DEF Members
<1>6. ASSUME NEW e \in Members(P) PROVE Participants(e, o) = P
  <2>1. Participants(e, o) \in Operations[o].groups /\ e \in Members(Participants(e, o))
    BY <1>2, Zenon DEF Participants
  <2> QED BY <1>2, <2>1, OperationsAssumption DEF Ops
<1> QED BY <1>2, <1>5, <1>6

\* What a thread in an operation refers to.
LEMMA KeyFacts ==
  ASSUME TypeOK, NEW t \in Threads, at[t] \in Ops
  PROVE  /\ RunOf(t) \in Runs /\ DeviceOf(t) \in Devices
         /\ t = <<RunOf(t), DeviceOf(t)>>
         /\ KeyOf(t) \in CliqueKeys /\ RendezvousOf(t) \in RendezvousKeys
         /\ KeyOf(t)[1] = Participants(DeviceOf(t), at[t])
         /\ DeviceOf(t) \in DevicesOf(KeyOf(t))
         /\ DevicesOf(KeyOf(t)) \subseteq Devices
         /\ GroupOf(t) \subseteq Threads /\ t \in GroupOf(t)
         /\ \A u \in GroupOf(t) :
              /\ RunOf(u) = RunOf(t) /\ DeviceOf(u) \in DevicesOf(KeyOf(t))
              /\ Participants(DeviceOf(u), at[t]) = Participants(DeviceOf(t), at[t])
<1>1. RunOf(t) \in Runs /\ DeviceOf(t) \in Devices /\ t = <<RunOf(t), DeviceOf(t)>>
  BY DEF Threads, RunOf, DeviceOf
<1>2. KeyOf(t)[1] = Participants(DeviceOf(t), at[t])
  BY DEF KeyOf
<1>3. KeyOf(t) \in CliqueKeys
  BY <1>1, GroupFacts DEF KeyOf, CliqueKeys, Ops
<1>4. RendezvousOf(t) \in RendezvousKeys
  BY <1>1, <1>3 DEF RendezvousOf, RendezvousKeys
<1>5. DeviceOf(t) \in DevicesOf(KeyOf(t)) /\ DevicesOf(KeyOf(t)) \subseteq Devices
  BY <1>1, <1>2, GroupFacts DEF DevicesOf
<1>6. GroupOf(t) \subseteq Threads /\ t \in GroupOf(t)
  BY <1>1, <1>5 DEF GroupOf, Threads
<1>7. ASSUME NEW u \in GroupOf(t)
      PROVE  /\ RunOf(u) = RunOf(t) /\ DeviceOf(u) \in DevicesOf(KeyOf(t))
             /\ Participants(DeviceOf(u), at[t]) = Participants(DeviceOf(t), at[t])
  <2>1. RunOf(u) = RunOf(t) /\ DeviceOf(u) \in DevicesOf(KeyOf(t))
    BY DEF GroupOf, RunOf, DeviceOf
  <2> QED BY <1>1, <1>2, <2>1, GroupFacts DEF DevicesOf
<1> QED BY <1>1, <1>2, <1>3, <1>4, <1>5, <1>6, <1>7

\* A thread of the same run whose device is in t's clique is in t's group.
LEMMA GroupMember ==
  ASSUME TypeOK, NEW t \in Threads, at[t] \in Ops, NEW u \in Threads,
         RunOf(u) = RunOf(t), DeviceOf(u) \in DevicesOf(KeyOf(t))
  PROVE  u \in GroupOf(t)
<1>1. u = <<RunOf(u), DeviceOf(u)>>
  BY DEF Threads, RunOf, DeviceOf
<1> QED BY <1>1 DEF GroupOf
-----------------------------------------------------------------------------
(* Types.                                                                  *)

LEMMA TypeInit == Init => TypeOK
<1> SUFFICES ASSUME Init PROVE TypeOK
  OBVIOUS
<1>1. at \in [Threads -> Nat] /\ stage \in [Threads -> Stages]
  BY DEF Init, Stages, Holding
<1>2. \A t \in Threads : stage[t] = "begin"
  BY DEF Init
<1>3. /\ arrived \in [RendezvousKeys -> SUBSET Threads]
      /\ clique_lock \in [CliqueKeys -> SUBSET Threads]
      /\ run_id \in [CliqueKeys -> Int]
      /\ DOMAIN unique_id = CliqueKeys
      /\ communicators \in [CliqueKeys -> SUBSET Devices]
  BY DEF Init
<1>4. ready \in [CliqueKeys -> BOOLEAN]
  BY DEF Init
<1>5. /\ DOMAIN comm_lock = CliqueKeys
      /\ DOMAIN order = CliqueKeys
  BY DEF Init
<1>6. \A k \in CliqueKeys : comm_lock[k] \in [DevicesOf(k) -> SUBSET Threads]
  BY DEF Init
<1>7. \A k \in CliqueKeys : order[k] \in [DevicesOf(k) -> Seq(Runs)]
  BY DEF Init
<1> QED BY <1>1, <1>2, <1>3, <1>4, <1>5, <1>6, <1>7 DEF TypeOK

LEMMA TypeStep ==
  ASSUME TypeOK, Waiting, [Next]_vars
  PROVE  TypeOK'
<1> USE DEF Ops, Stages, Holding
<1>1. ASSUME NEW t \in Threads, Arrive(t) PROVE TypeOK'
  BY <1>1, KeyFacts DEF Arrive, In, Goto, TypeOK, lockVars
<1>2. ASSUME NEW t \in Threads, AcquireCclClique(t) PROVE TypeOK'
  <2>1. at[t] \in Ops
    BY <1>2 DEF AcquireCclClique, In
  <2>2. /\ KeyOf(t) \in CliqueKeys /\ RendezvousOf(t) \in RendezvousKeys
        /\ RunOf(t) \in Int /\ GroupOf(t) \subseteq Threads
    BY <2>1, KeyFacts, RunsFacts
  <2>3. /\ clique_lock' \in [CliqueKeys -> SUBSET Threads]
        /\ arrived' \in [RendezvousKeys -> SUBSET Threads]
        /\ run_id' \in [CliqueKeys -> Int]
        /\ DOMAIN unique_id' = CliqueKeys
    BY <1>2, <2>2 DEF AcquireCclClique, TypeOK
  <2>4. /\ stage' \in [Threads -> Stages]
        /\ \A u \in Threads : stage'[u] # "begin" => at'[u] \in Ops
    <3>1. stage' = [u \in Threads |-> IF u \in GroupOf(t) THEN "check" ELSE stage[u]]
      BY <1>2 DEF AcquireCclClique
    <3> HIDE DEF Ops
    <3>2. ASSUME NEW u \in GroupOf(t) PROVE at[u] \in Ops
      <4>1. u \in arrived[RendezvousOf(t)]
        BY <1>2 DEF AcquireCclClique
      <4>2. u \in Threads /\ stage[u] = "rendezvous"
        BY <2>2, <4>1 DEF TypeOK, Waiting
      <4> QED BY <4>2 DEF TypeOK
    <3> QED BY <1>2, <3>1, <3>2 DEF AcquireCclClique, TypeOK
  <2> QED BY <1>2, <2>3, <2>4 DEF AcquireCclClique, TypeOK
<1>3. ASSUME NEW t \in Threads, CheckReady(t) PROVE TypeOK'
  BY <1>3, KeyFacts DEF CheckReady, In, Goto, TypeOK, lockVars
<1>4. ASSUME NEW t \in Threads, CreateComm(t) PROVE TypeOK'
  <2>1. KeyOf(t) \in CliqueKeys /\ DeviceOf(t) \in Devices
    BY <1>4, KeyFacts DEF CreateComm, In
  <2>2. communicators' \in [CliqueKeys -> SUBSET Devices]
    BY <1>4, <2>1 DEF CreateComm, TypeOK
  <2>3. ready' \in [CliqueKeys -> BOOLEAN]
    BY <1>4, <2>1 DEF CreateComm, TypeOK
  <2>4. /\ stage' \in [Threads -> Stages]
        /\ \A u \in Threads : stage'[u] # "begin" => at'[u] \in Ops
    BY <1>4 DEF CreateComm, In, Goto, TypeOK
  <2> QED BY <1>4, <2>2, <2>3, <2>4 DEF CreateComm, TypeOK, lockVars
<1>5. ASSUME NEW t \in Threads, WaitForNotification(t) PROVE TypeOK'
  BY <1>5, KeyFacts DEF WaitForNotification, In, Goto, TypeOK, lockVars
<1>6. ASSUME NEW t \in Threads, AcquireComm(t) PROVE TypeOK'
  <2>1. /\ KeyOf(t) \in CliqueKeys /\ RunOf(t) \in Runs
        /\ DeviceOf(t) \in DevicesOf(KeyOf(t))
    BY <1>6, KeyFacts DEF AcquireComm, In
  <2>2. /\ DOMAIN order' = CliqueKeys
        /\ \A k \in CliqueKeys : order'[k] \in [DevicesOf(k) -> Seq(Runs)]
    BY <1>6, <2>1 DEF AcquireComm, TypeOK
  <2>3. /\ DOMAIN comm_lock' = CliqueKeys
        /\ \A k \in CliqueKeys : comm_lock'[k] \in [DevicesOf(k) -> SUBSET Threads]
    BY <1>6, <2>1 DEF AcquireComm, TypeOK
  <2>4. /\ stage' \in [Threads -> Stages]
        /\ \A u \in Threads : stage'[u] # "begin" => at'[u] \in Ops
        /\ clique_lock' \in [CliqueKeys -> SUBSET Threads]
    BY <1>6, <2>1 DEF AcquireComm, In, Goto, TypeOK
  <2> QED BY <1>6, <2>2, <2>3, <2>4 DEF AcquireComm, TypeOK
<1>7. ASSUME NEW t \in Threads, Release(t) PROVE TypeOK'
  <2>1. KeyOf(t) \in CliqueKeys /\ DeviceOf(t) \in DevicesOf(KeyOf(t))
    BY <1>7, KeyFacts DEF Release, In
  <2>2. /\ DOMAIN comm_lock' = CliqueKeys
        /\ \A k \in CliqueKeys : comm_lock'[k] \in [DevicesOf(k) -> SUBSET Threads]
    BY <1>7, <2>1 DEF Release, TypeOK
  <2>3. /\ at' \in [Threads -> Nat] /\ stage' \in [Threads -> Stages]
        /\ \A u \in Threads : stage'[u] # "begin" => at'[u] \in Ops
    BY <1>7 DEF Release, In, Goto, TypeOK
  <2> QED BY <1>7, <2>2, <2>3 DEF Release, TypeOK
<1>8. CASE UNCHANGED vars
  BY <1>8 DEF vars, lockVars, TypeOK
<1> QED BY <1>1, <1>2, <1>3, <1>4, <1>5, <1>6, <1>7, <1>8 DEF Next, Step, Stop
-----------------------------------------------------------------------------
(* The groups leave their rendezvous together.                             *)

\* When the last member is there, all are at the same operation.
LEMMA GroupTogether ==
  ASSUME TypeOK, GroupsPass, Waiting, NEW t \in Threads, AcquireCclClique(t),
         NEW u \in GroupOf(t)
  PROVE  /\ u \in Threads /\ at[u] = at[t] /\ KeyOf(u) = KeyOf(t)
         /\ stage[u] = "rendezvous"
<1>1. at[t] \in Ops /\ stage[t] = "rendezvous" /\ u \in arrived[RendezvousOf(t)]
  BY DEF AcquireCclClique, In, Ops
<1>2. /\ u \in Threads /\ RunOf(u) = RunOf(t) /\ RendezvousOf(t) \in RendezvousKeys
      /\ Participants(DeviceOf(u), at[t]) = Participants(DeviceOf(t), at[t])
  BY <1>1, KeyFacts
<1>3. stage[u] = "rendezvous" /\ KeyOf(u) = KeyOf(t)
  BY <1>1, <1>2 DEF Waiting, RendezvousOf
<1>4. at[u] \in Ops /\ at[u] \in Nat /\ at[t] \in Nat
  BY <1>2, <1>3 DEF TypeOK
<1>5. Participants(DeviceOf(u), at[u]) = Participants(DeviceOf(t), at[u])
  <2>1. DeviceOf(t) \in Members(Participants(DeviceOf(u), at[u]))
    BY <1>1, <1>2, <1>3, <1>4, KeyFacts DEF DevicesOf
  <2> QED BY <1>2, <1>4, <2>1, KeyFacts, GroupFacts
<1>6. ~Passed(u, at[u]) /\ ~Passed(t, at[t])
  BY <1>1, <1>3, <1>4 DEF Passed, Holding
<1>7. ~(at[u] < at[t])
  BY <1>2, <1>4, <1>5, <1>6 DEF GroupsPass, Passed
<1>8. ~(at[t] < at[u])
  BY <1>1, <1>2, <1>4, <1>6 DEF GroupsPass, Passed
<1> QED BY <1>2, <1>3, <1>4, <1>7, <1>8

LEMMA WaitingStep ==
  ASSUME TypeOK, GroupsPass, Waiting, [Next]_vars
  PROVE  Waiting'
<1> USE DEF Ops
<1>1. ASSUME NEW t \in Threads, Arrive(t) PROVE Waiting'
  <2>1. RendezvousOf(t) \in RendezvousKeys
    BY <1>1, KeyFacts DEF Arrive, In
  <2>2. \A u \in Threads : RendezvousOf(u)' = RendezvousOf(u)
    BY <1>1 DEF Arrive, RendezvousOf, KeyOf
  <2> QED BY <1>1, <2>1, <2>2 DEF Arrive, In, Goto, TypeOK, Waiting
<1>2. ASSUME NEW t \in Threads, AcquireCclClique(t) PROVE Waiting'
  <2>1. RendezvousOf(t) \in RendezvousKeys /\ arrived[RendezvousOf(t)] = GroupOf(t)
    BY <1>2, KeyFacts DEF AcquireCclClique, In
  <2>2. \A u \in Threads : RendezvousOf(u)' = RendezvousOf(u)
    BY <1>2 DEF AcquireCclClique, RendezvousOf, KeyOf
  <2>3. ASSUME NEW r \in RendezvousKeys, NEW u \in arrived'[r]
        PROVE  stage'[u] = "rendezvous" /\ RendezvousOf(u)' = r
    <3>1. r # RendezvousOf(t) /\ u \in arrived[r]
      BY <1>2, <2>1, <2>3 DEF AcquireCclClique, TypeOK
    <3>2. u \in Threads /\ stage[u] = "rendezvous" /\ RendezvousOf(u) = r
      BY <3>1 DEF Waiting, TypeOK
    <3>3. u \notin GroupOf(t)
      BY <2>1, <3>1, <3>2 DEF Waiting
    <3> QED BY <1>2, <2>2, <3>2, <3>3 DEF AcquireCclClique
  <2> QED BY <2>3 DEF Waiting
<1>3. ASSUME NEW t \in Threads, at' = at, arrived' = arrived,
             NEW s, stage' = [stage EXCEPT ![t] = s], stage[t] # "rendezvous"
      PROVE  Waiting'
  <2>1. \A u \in Threads : RendezvousOf(u)' = RendezvousOf(u)
    BY <1>3 DEF RendezvousOf, KeyOf
  <2> QED BY <1>3, <2>1 DEF Waiting, TypeOK
<1>4. ASSUME NEW t \in Threads, CheckReady(t) \/ CreateComm(t)
                                \/ WaitForNotification(t) \/ AcquireComm(t)
      PROVE  Waiting'
  <2>1. \E s : stage' = [stage EXCEPT ![t] = s]
    BY <1>4 DEF CheckReady, CreateComm, WaitForNotification, AcquireComm, Goto
  <2>2. at' = at /\ arrived' = arrived /\ stage[t] # "rendezvous"
    BY <1>4 DEF CheckReady, CreateComm, WaitForNotification, AcquireComm, In
  <2> QED BY <1>3, <2>1, <2>2
<1>5. ASSUME NEW t \in Threads, Release(t) PROVE Waiting'
  <2>1. \A u \in Threads : u # t => RendezvousOf(u)' = RendezvousOf(u)
    BY <1>5 DEF Release, RendezvousOf, KeyOf, TypeOK
  <2> QED BY <1>5, <2>1 DEF Release, In, Goto, Waiting, TypeOK
<1>6. CASE UNCHANGED vars
  BY <1>6 DEF vars, lockVars, Waiting, RendezvousOf, KeyOf
<1> QED BY <1>1, <1>2, <1>4, <1>5, <1>6 DEF Next, Step, Stop

LEMMA GroupsPassStep ==
  ASSUME TypeOK, GroupsPass, Waiting, [Next]_vars
  PROVE  GroupsPass'
<1> USE DEF Ops
<1>1. ASSUME \A u \in Threads, o \in Ops : Passed(u, o)' = Passed(u, o)
      PROVE  GroupsPass'
  BY <1>1 DEF GroupsPass
<1>2. ASSUME NEW t \in Threads, AcquireCclClique(t) PROVE GroupsPass'
  <2>1. at[t] \in Ops /\ at' = at
    BY <1>2 DEF AcquireCclClique, In
  <2>2. ASSUME NEW u \in Threads, NEW o \in Ops
        PROVE  Passed(u, o)' <=> Passed(u, o) \/ (u \in GroupOf(t) /\ o = at[t])
    <3>1. CASE u \in GroupOf(t)
      <4>1. at[u] = at[t] /\ stage[u] = "rendezvous" /\ stage'[u] = "check"
        BY <1>2, <3>1, GroupTogether DEF AcquireCclClique
      <4> QED BY <2>1, <3>1, <4>1 DEF Passed, Holding
    <3>2. CASE u \notin GroupOf(t)
      BY <1>2, <3>2 DEF AcquireCclClique, Passed
    <3> QED BY <3>1, <3>2
  <2>3. ASSUME NEW u \in Threads, NEW v \in Threads, NEW o \in Ops,
               RunOf(u) = RunOf(v),
               Participants(DeviceOf(u), o) = Participants(DeviceOf(v), o),
               Passed(u, o)'
        PROVE  Passed(v, o)'
    <3>1. CASE Passed(u, o)
      BY <2>2, <2>3, <3>1 DEF GroupsPass
    <3>2. CASE u \in GroupOf(t) /\ o = at[t]
      <4>1. /\ RunOf(v) = RunOf(t)
            /\ Participants(DeviceOf(v), o) = KeyOf(t)[1]
        BY <2>1, <2>3, <3>2, KeyFacts
      <4>2. DeviceOf(v) \in DevicesOf(KeyOf(t))
        <5>1. DeviceOf(v) \in Devices
          BY DEF Threads, DeviceOf
        <5> QED BY <4>1, <5>1, GroupFacts DEF DevicesOf
      <4>3. v \in GroupOf(t)
        BY <2>1, <4>1, <4>2, GroupMember
      <4> QED BY <2>2, <3>2, <4>3
    <3> QED BY <2>2, <2>3, <3>1, <3>2
  <2> QED BY <2>3 DEF GroupsPass
<1>3. ASSUME NEW t \in Threads,
             Arrive(t) \/ CheckReady(t) \/ CreateComm(t)
               \/ WaitForNotification(t) \/ AcquireComm(t)
      PROVE  \A u \in Threads, o \in Ops : Passed(u, o)' = Passed(u, o)
  <2>1. /\ at' = at
        /\ \E s \in Stages :
             /\ stage' = [stage EXCEPT ![t] = s]
             /\ s \in Holding \cup {"locked"} <=> stage[t] \in Holding \cup {"locked"}
    BY <1>3 DEF Arrive, CheckReady, CreateComm, WaitForNotification, AcquireComm,
                Goto, In, Stages, Holding
  <2> QED BY <2>1 DEF Passed, TypeOK
<1>4. ASSUME NEW t \in Threads, Release(t)
      PROVE  \A u \in Threads, o \in Ops : Passed(u, o)' = Passed(u, o)
  <2>1. \A o \in Ops : o \in Int
    BY OperationsAssumption
  <2>2. /\ at' = [at EXCEPT ![t] = @ + 1] /\ stage' = [stage EXCEPT ![t] = "begin"]
        /\ stage[t] = "locked"
    BY <1>4 DEF Release, Goto, In
  <2> QED BY <2>1, <2>2 DEF Passed, TypeOK, Holding
<1>5. CASE UNCHANGED vars
  BY <1>1, <1>5 DEF vars, lockVars, Passed
<1> QED BY <1>1, <1>2, <1>3, <1>4, <1>5 DEF Next, Step, Stop
-----------------------------------------------------------------------------
(* One group at a time holds a clique.                                     *)

LEMMA OneGroupHoldsStep ==
  ASSUME TypeOK, GroupsPass, Waiting, OneGroupHolds, [Next]_vars
  PROVE  OneGroupHolds'
<1> USE DEF Ops
<1>1. ASSUME NEW t \in Threads, AcquireCclClique(t) PROVE OneGroupHolds'
  <2> DEFINE k == KeyOf(t)
  <2>1. /\ at' = at /\ k \in CliqueKeys /\ clique_lock[k] = {}
        /\ clique_lock' = [clique_lock EXCEPT ![k] = GroupOf(t)]
        /\ stage' = [u \in Threads |-> IF u \in GroupOf(t) THEN "check" ELSE stage[u]]
        /\ GroupOf(t) \subseteq Threads
    BY <1>1, KeyFacts DEF AcquireCclClique, In
  <2>2. \A u \in Threads : KeyOf(u)' = KeyOf(u)
    BY <2>1 DEF KeyOf
  <2>3. \A u \in GroupOf(t) : at[u] = at[t] /\ KeyOf(u) = k /\ RunOf(u) = RunOf(t)
    BY <1>1, GroupTogether, KeyFacts DEF AcquireCclClique, In
  <2>4. /\ clique_lock'[k] = GroupOf(t)
        /\ \A j \in CliqueKeys : j # k => clique_lock'[j] = clique_lock[j]
    BY <2>1 DEF TypeOK
  <2> HIDE DEF k
  <2>5. ASSUME NEW u \in Threads, stage'[u] \in Holding
        PROVE  u \in clique_lock'[KeyOf(u)']
    <3>1. CASE u \in GroupOf(t)
      BY <2>2, <2>3, <2>4, <3>1
    <3>2. CASE u \notin GroupOf(t)
      <4>1. stage[u] \in Holding /\ u \in clique_lock[KeyOf(u)]
        BY <2>1, <2>5, <3>2 DEF OneGroupHolds
      <4>2. KeyOf(u) \in CliqueKeys /\ KeyOf(u) # k
        BY <2>1, <4>1, KeyFacts DEF TypeOK, Holding
      <4> QED BY <2>2, <2>4, <4>1, <4>2
    <3> QED BY <3>1, <3>2
  <2>6. ASSUME NEW j \in CliqueKeys, NEW u \in clique_lock'[j]
        PROVE  stage'[u] \in Holding /\ KeyOf(u)' = j
    <3>1. CASE j = k
      BY <2>1, <2>2, <2>3, <2>4, <2>6, <3>1 DEF Holding
    <3>2. CASE j # k
      <4>1. u \in Threads /\ stage[u] \in Holding /\ KeyOf(u) = j
        BY <2>4, <2>6, <3>2 DEF OneGroupHolds, TypeOK
      <4> QED BY <2>1, <2>2, <4>1 DEF Holding
    <3> QED BY <3>1, <3>2
  <2>7. ASSUME NEW j \in CliqueKeys, NEW u \in clique_lock'[j], NEW v \in clique_lock'[j]
        PROVE  RunOf(u) = RunOf(v) /\ at'[u] = at'[v]
    BY <2>1, <2>3, <2>4 DEF OneGroupHolds
  <2> QED BY <2>5, <2>6, <2>7 DEF OneGroupHolds
<1>2. ASSUME NEW t \in Threads,
             Arrive(t) \/ CheckReady(t) \/ CreateComm(t) \/ WaitForNotification(t)
      PROVE  OneGroupHolds'
  <2>1. /\ at' = at /\ clique_lock' = clique_lock
        /\ \E s \in Stages :
             /\ stage' = [stage EXCEPT ![t] = s]
             /\ s \in Holding <=> stage[t] \in Holding
    BY <1>2 DEF Arrive, CheckReady, CreateComm, WaitForNotification, lockVars,
                Goto, In, Stages, Holding
  <2>2. \A u \in Threads : KeyOf(u)' = KeyOf(u)
    BY <2>1 DEF KeyOf
  <2> QED BY <2>1, <2>2 DEF OneGroupHolds, TypeOK
<1>3. ASSUME NEW t \in Threads, AcquireComm(t) PROVE OneGroupHolds'
  <2>1. /\ at' = at /\ KeyOf(t) \in CliqueKeys
        /\ clique_lock' = [clique_lock EXCEPT ![KeyOf(t)] = @ \ {t}]
        /\ stage' = [stage EXCEPT ![t] = "locked"]
    BY <1>3, KeyFacts DEF AcquireComm, Goto, In
  <2>2. \A u \in Threads : KeyOf(u)' = KeyOf(u)
    BY <2>1 DEF KeyOf
  <2>3. \A j \in CliqueKeys : clique_lock'[j] = clique_lock[j] \ {t}
    BY <2>1 DEF OneGroupHolds, TypeOK
  <2>4. \A u \in Threads : stage'[u] = IF u = t THEN "locked" ELSE stage[u]
    BY <2>1 DEF TypeOK
  <2>5. ASSUME NEW u \in Threads, stage'[u] \in Holding
        PROVE  u \in clique_lock'[KeyOf(u)']
    <3>1. u # t /\ stage[u] \in Holding
      BY <2>4, <2>5 DEF Holding
    <3>2. KeyOf(u) \in CliqueKeys /\ u \in clique_lock[KeyOf(u)]
      BY <3>1, KeyFacts DEF TypeOK, Holding, OneGroupHolds
    <3> QED BY <2>2, <2>3, <3>1, <3>2
  <2>6. ASSUME NEW j \in CliqueKeys, NEW u \in clique_lock'[j]
        PROVE  stage'[u] \in Holding /\ KeyOf(u)' = j
    BY <2>2, <2>3, <2>4 DEF OneGroupHolds, TypeOK
  <2>7. ASSUME NEW j \in CliqueKeys, NEW u \in clique_lock'[j], NEW v \in clique_lock'[j]
        PROVE  RunOf(u) = RunOf(v) /\ at'[u] = at'[v]
    BY <2>1, <2>3 DEF OneGroupHolds
  <2> QED BY <2>5, <2>6, <2>7 DEF OneGroupHolds
<1>4. ASSUME NEW t \in Threads, Release(t) PROVE OneGroupHolds'
  <2>1. /\ at' = [at EXCEPT ![t] = @ + 1] /\ stage' = [stage EXCEPT ![t] = "begin"]
        /\ stage[t] = "locked" /\ clique_lock' = clique_lock
    BY <1>4 DEF Release, Goto, In
  <2>2. \A u \in Threads : u # t => KeyOf(u)' = KeyOf(u) /\ at'[u] = at[u]
    BY <2>1 DEF KeyOf, TypeOK
  <2>3. \A j \in CliqueKeys : t \notin clique_lock[j]
    BY <2>1 DEF OneGroupHolds, Holding
  <2> QED BY <2>1, <2>2, <2>3 DEF OneGroupHolds, TypeOK, Holding
<1>5. CASE UNCHANGED vars
  BY <1>5 DEF vars, lockVars, OneGroupHolds, KeyOf
<1> QED BY <1>1, <1>2, <1>3, <1>4, <1>5 DEF Next, Step, Stop
-----------------------------------------------------------------------------
(* The order of the runs on the ranks of a clique.                         *)

LEMMA OneRunAheadStep ==
  ASSUME TypeOK, OneGroupHolds, OneRunAhead, [Next]_vars
  PROVE  OneRunAhead'
<1> USE DEF Ops
<1>1. ASSUME NEW t \in Threads, AcquireCclClique(t) PROVE OneRunAhead'
  <2>0. PICK k : k = KeyOf(t)
    OBVIOUS
  <2>1. /\ k \in CliqueKeys /\ clique_lock[k] = {} /\ order' = order
        /\ clique_lock' = [clique_lock EXCEPT ![k] = GroupOf(t)]
    BY <1>1, <2>0, KeyFacts DEF AcquireCclClique, In
  <2>2. /\ clique_lock'[k] = GroupOf(t)
        /\ \A j \in CliqueKeys : j # k => clique_lock'[j] = clique_lock[j]
    BY <2>1 DEF TypeOK
  <2>3. \A d, e \in DevicesOf(k) : order[k][d] = order[k][e]
    BY <2>1 DEF OneRunAhead, ToLock
  <2>4. \A d \in DevicesOf(k) : ToLock(k, d)'
    <3> TAKE d \in DevicesOf(k)
    <3>1. <<RunOf(t), d>> \in clique_lock'[k]
      BY <2>0, <2>2 DEF GroupOf
    <3> QED BY <3>1 DEF ToLock, DeviceOf
  <2>5. ASSUME NEW j \in CliqueKeys, NEW d \in DevicesOf(j), NEW e \in DevicesOf(j)
        PROVE  /\ (ToLock(j, d)' <=> ToLock(j, e)') => order'[j][d] = order'[j][e]
               /\ \A u \in clique_lock'[j] :
                    DeviceOf(u) = d /\ ~ToLock(j, e)' =>
                      order'[j][e] = Append(order'[j][d], RunOf(u))
    <3>1. CASE j = k
      BY <2>1, <2>3, <2>4, <3>1
    <3>2. CASE j # k
      <4>1. ToLock(j, d)' = ToLock(j, d) /\ ToLock(j, e)' = ToLock(j, e)
        BY <2>2, <3>2 DEF ToLock
      <4> QED BY <2>1, <2>2, <3>2, <4>1 DEF OneRunAhead
    <3> QED BY <3>1, <3>2
  <2> QED BY <2>5 DEF OneRunAhead
<1>2. ASSUME NEW t \in Threads, AcquireComm(t) PROVE OneRunAhead'
  <2>0. PICK k, c : k = KeyOf(t) /\ c = DeviceOf(t)
    OBVIOUS
  <2>1. /\ k \in CliqueKeys /\ c \in DevicesOf(k) /\ t \in clique_lock[k]
        /\ clique_lock' = [clique_lock EXCEPT ![k] = @ \ {t}]
        /\ order' = [order EXCEPT ![k][c] = Append(@, RunOf(t))]
    BY <1>2, <2>0, KeyFacts DEF AcquireComm, In, OneGroupHolds, Holding
  <2>2. /\ clique_lock'[k] = clique_lock[k] \ {t}
        /\ \A j \in CliqueKeys : j # k => clique_lock'[j] = clique_lock[j]
    BY <2>1 DEF TypeOK
  <2>3. /\ order'[k][c] = Append(order[k][c], RunOf(t))
        /\ \A d \in DevicesOf(k) : d # c => order'[k][d] = order[k][d]
        /\ \A j \in CliqueKeys : j # k => order'[j] = order[j]
    BY <2>1 DEF TypeOK
  <2>4. \A u \in clique_lock[k] : RunOf(u) = RunOf(t) /\ (DeviceOf(u) = c => u = t)
    <3> TAKE u \in clique_lock[k]
    <3>1. u \in Threads /\ RunOf(u) = RunOf(t)
      BY <2>1 DEF TypeOK, OneGroupHolds
    <3>2. u = <<RunOf(u), DeviceOf(u)>> /\ t = <<RunOf(t), DeviceOf(t)>>
      BY <3>1 DEF Threads, RunOf, DeviceOf
    <3> QED BY <2>0, <3>1, <3>2
  <2>5. ToLock(k, c) /\ ~ToLock(k, c)'
    BY <2>0, <2>1, <2>2, <2>4 DEF ToLock
  <2>6. \A d \in DevicesOf(k) : d # c => (ToLock(k, d)' <=> ToLock(k, d))
    BY <2>0, <2>2, <2>4 DEF ToLock
  <2>7. ASSUME NEW j \in CliqueKeys, NEW d \in DevicesOf(j), NEW e \in DevicesOf(j)
        PROVE  /\ (ToLock(j, d)' <=> ToLock(j, e)') => order'[j][d] = order'[j][e]
               /\ \A u \in clique_lock'[j] :
                    DeviceOf(u) = d /\ ~ToLock(j, e)' =>
                      order'[j][e] = Append(order'[j][d], RunOf(u))
    <3>1. CASE j # k
      <4>1. ToLock(j, d)' = ToLock(j, d) /\ ToLock(j, e)' = ToLock(j, e)
        BY <2>2, <3>1 DEF ToLock
      <4> QED BY <2>2, <2>3, <3>1, <4>1 DEF OneRunAhead
    <3>2. CASE j = k /\ d # c /\ e # c
      <4>1. (ToLock(j, d)' <=> ToLock(j, d)) /\ (ToLock(j, e)' <=> ToLock(j, e))
        BY <2>6, <3>2
      <4>2. order'[j][d] = order[j][d] /\ order'[j][e] = order[j][e]
        BY <2>3, <3>2
      <4>3. \A u \in clique_lock'[j] : u \in clique_lock[j]
        BY <2>2, <3>2
      <4> QED BY <4>1, <4>2, <4>3 DEF OneRunAhead
    <3>3. CASE j = k /\ d = c /\ e # c
      <4>1. ~ToLock(k, e) => order[k][e] = Append(order[k][c], RunOf(t))
        BY <2>0, <2>1, <3>3 DEF OneRunAhead
      <4>2. \A u \in clique_lock'[k] : DeviceOf(u) # c
        BY <2>2, <2>4
      <4> QED BY <2>3, <2>5, <2>6, <3>3, <4>1, <4>2
    <3>4. CASE j = k /\ d # c /\ e = c
      <4>1. ~ToLock(k, d) => order[k][d] = Append(order[k][c], RunOf(t))
        BY <2>0, <2>1, <3>4 DEF OneRunAhead
      <4>2. ToLock(k, d) => order[k][d] = order[k][c]
        BY <2>1, <2>5, <3>4 DEF OneRunAhead
      <4>3. \A u \in clique_lock'[k] : DeviceOf(u) = d => ToLock(k, d) /\ RunOf(u) = RunOf(t)
        BY <2>2, <2>4 DEF ToLock
      <4> QED BY <2>3, <2>5, <2>6, <3>4, <4>1, <4>2, <4>3
    <3>5. CASE j = k /\ d = c /\ e = c
      <4>1. \A u \in clique_lock'[k] : DeviceOf(u) # c
        BY <2>2, <2>4
      <4> QED BY <3>5, <4>1
    <3> QED BY <3>1, <3>2, <3>3, <3>4, <3>5
  <2> QED BY <2>7 DEF OneRunAhead
<1>3. ASSUME clique_lock' = clique_lock, order' = order PROVE OneRunAhead'
  BY <1>3 DEF OneRunAhead, ToLock
<1> QED BY <1>1, <1>2, <1>3 DEF Next, Step, Stop, Arrive, CheckReady, CreateComm,
       WaitForNotification, Release, vars, lockVars

LEMMA NamedStep ==
  ASSUME TypeOK, OneGroupHolds, Named, [Next]_vars
  PROVE  Named'
<1> USE DEF Ops
<1>1. ASSUME NEW t \in Threads, AcquireCclClique(t) PROVE Named'
  <2>1. KeyOf(t) \in CliqueKeys /\ RunOf(t) > 0 /\ RunOf(t) \in Int
    BY <1>1, KeyFacts, RunsFacts DEF AcquireCclClique, In
  <2> QED BY <1>1, <2>1 DEF AcquireCclClique, Named, TypeOK
<1>2. ASSUME NEW t \in Threads, CreateComm(t) PROVE Named'
  <2>1. KeyOf(t) \in CliqueKeys /\ clique_lock[KeyOf(t)] # {}
    BY <1>2, KeyFacts DEF CreateComm, In, OneGroupHolds, Holding
  <2> QED BY <1>2, <2>1 DEF CreateComm, Named, TypeOK, lockVars
<1>3. ASSUME NEW t \in Threads, AcquireComm(t) PROVE Named'
  <2>1. KeyOf(t) \in CliqueKeys
    BY <1>3, KeyFacts DEF AcquireComm, In
  <2> QED BY <1>3, <2>1 DEF AcquireComm, Named, TypeOK
<1>4. ASSUME UNCHANGED <<clique_lock, run_id, communicators>> PROVE Named'
  BY <1>4 DEF Named
<1> QED BY <1>1, <1>2, <1>3, <1>4 DEF Next, Step, Stop, Arrive, CheckReady,
       WaitForNotification, Release, vars, lockVars
-----------------------------------------------------------------------------
(* The theorems.                                                           *)

\* The inductive invariant: a group leaves its rendezvous together, one group
\* at a time holds a clique, and the ranks it has locked are one run ahead.
THEOREM InvariantHolds == Spec => []IInv
<1>1. Init => IInv
  <2> SUFFICES ASSUME Init PROVE IInv
    OBVIOUS
  <2>1. TypeOK
    BY TypeInit
  <2>2. GroupsPass
    <3>1. \A t \in Threads, o \in Ops : ~Passed(t, o)
      <4>1. \A o \in Ops : o \in Nat /\ o >= 1
        BY OperationsAssumption DEF Ops
      <4> QED BY <4>1 DEF Init, Passed, Holding
    <3> QED BY <3>1 DEF GroupsPass
  <2>3. Waiting /\ OneGroupHolds
    BY DEF Init, Waiting, OneGroupHolds, Holding
  <2>4. OneRunAhead
    BY DEF Init, OneRunAhead, ToLock
  <2>5. Named
    BY DEF Init, Named
  <2> QED BY <2>1, <2>2, <2>3, <2>4, <2>5 DEF IInv
<1>2. IInv /\ [Next]_vars => IInv'
  BY TypeStep, WaitingStep, GroupsPassStep, OneGroupHoldsStep, OneRunAheadStep,
     NamedStep DEF IInv
<1> QED BY <1>1, <1>2, PTL DEF Spec

\* The runs go through the communicators of a clique in one order, the same
\* on every rank, for any number of concurrent runs and any program: the lock
\* AcquireCclComm keeps until it has its communicator rules out that two runs
\* each hold a communicator the other one needs.
THEOREM SameOrderHolds == Spec => []SameOrderOnEveryRank
<1>1. IInv => SameOrderOnEveryRank
  <2> SUFFICES ASSUME IInv, NEW k \in CliqueKeys,
                      NEW d \in DevicesOf(k), NEW e \in DevicesOf(k),
                      NEW i \in DOMAIN order[k][d] \cap DOMAIN order[k][e]
               PROVE  order[k][d][i] = order[k][e][i]
    BY DEF SameOrderOnEveryRank
  <2>1. order[k][d] \in Seq(Runs) /\ order[k][e] \in Seq(Runs)
    BY DEF IInv, TypeOK
  <2>2. CASE ToLock(k, d) <=> ToLock(k, e)
    BY <2>2 DEF IInv, OneRunAhead
  <2>3. CASE ToLock(k, d) /\ ~ToLock(k, e)
    <3>1. PICK t \in clique_lock[k] : DeviceOf(t) = d
      BY <2>3 DEF ToLock
    <3>2. order[k][e] = Append(order[k][d], RunOf(t))
      BY <2>3, <3>1 DEF IInv, OneRunAhead
    <3> QED BY <2>1, <3>2
  <2>4. CASE ~ToLock(k, d) /\ ToLock(k, e)
    <3>1. PICK t \in clique_lock[k] : DeviceOf(t) = e
      BY <2>4 DEF ToLock
    <3>2. order[k][d] = Append(order[k][e], RunOf(t))
      BY <2>4, <3>1 DEF IInv, OneRunAhead
    <3> QED BY <2>1, <3>2
  <2> QED BY <2>2, <2>3, <2>4
<1> QED BY <1>1, InvariantHolds, PTL

\* AcquireCclClique never renames a clique whose communicators exist: each of
\* them was created under the id that the state still has.
THEOREM IdStaysHolds == Spec => IdStaysWhileCommsExist
<1>1. IInv /\ [Next]_vars =>
        [\A k \in CliqueKeys : communicators[k] # {} => unique_id'[k] = unique_id[k]]_vars
  <2> SUFFICES ASSUME IInv, Next, NEW k \in CliqueKeys, communicators[k] # {}
               PROVE  unique_id'[k] = unique_id[k]
    BY DEF vars, lockVars
  <2>1. run_id[k] >= 0
    BY DEF IInv, Named
  <2>2. ASSUME NEW t \in Threads, AcquireCclClique(t) PROVE unique_id'[k] = unique_id[k]
    BY <2>1, <2>2 DEF AcquireCclClique, IInv, TypeOK
  <2>3. CASE unique_id' = unique_id
    BY <2>3
  <2> QED BY <2>2, <2>3 DEF Next, Step, Stop, Arrive, CheckReady, CreateComm,
         WaitForNotification, AcquireComm, Release, vars
<1> QED BY <1>1, InvariantHolds, PTL DEF Spec, IdStaysWhileCommsExist
-----------------------------------------------------------------------------
(* The participants that wait under an id.                                 *)

\* Every clique in use has been named by some run, at an operation of its.
NamedBy(k, r, o) ==
  /\ k[1] \in Operations[o].groups /\ k[2] = Operations[o].stream_id
  /\ unique_id[k] = UniqueId(r, k[1], o)
NamedOnce ==
  \A k \in CliqueKeys : run_id[k] >= 0 => \E r \in Runs, o \in Ops : NamedBy(k, r, o)

\* Nobody returns from an operation before its group has joined it.
GroupsLeave ==
  \A t, u \in Threads : \A o \in Ops :
    /\ RunOf(t) = RunOf(u)
    /\ Participants(DeviceOf(t), o) = Participants(DeviceOf(u), o)
    /\ at[t] > o
    => at[u] > o \/ (at[u] = o /\ stage[u] = "locked")

LEMMA NamedOnceStep ==
  ASSUME TypeOK, NamedOnce, [Next]_vars
  PROVE  NamedOnce'
<1>1. ASSUME NEW t \in Threads, AcquireCclClique(t) PROVE NamedOnce'
  <2>1. at[t] \in Ops
    BY <1>1 DEF AcquireCclClique, In, Ops
  <2>2. PICK j \in CliqueKeys : j = KeyOf(t)
    BY <2>1, KeyFacts
  <2>3. /\ RunOf(t) \in Runs /\ j[1] = Participants(DeviceOf(t), at[t])
        /\ j[1] \in Operations[at[t]].groups /\ j[2] = Operations[at[t]].stream_id
    BY <2>1, <2>2, KeyFacts, GroupFacts DEF KeyOf
  <2>4. ASSUME NEW k \in CliqueKeys, run_id'[k] >= 0
        PROVE  \E r \in Runs, o \in Ops : NamedBy(k, r, o)'
    <3>1. CASE unique_id'[k] = unique_id[k] /\ run_id[k] >= 0
      BY <3>1 DEF NamedOnce, NamedBy
    <3>2. CASE k = j /\ run_id[k] < 0
      <4>1. unique_id'[k] = UniqueId(RunOf(t), k[1], at[t])
        BY <1>1, <2>2, <3>2 DEF AcquireCclClique, TypeOK
      <4> QED BY <2>1, <2>3, <3>2, <4>1 DEF NamedBy
    <3>3. run_id[k] \in Int
      BY DEF TypeOK
    <3>4. k # j => unique_id'[k] = unique_id[k] /\ run_id'[k] = run_id[k]
      BY <1>1, <2>2 DEF AcquireCclClique, TypeOK
    <3>5. run_id[k] >= 0 /\ k = j => unique_id'[k] = unique_id[k]
      BY <1>1, <2>2 DEF AcquireCclClique, TypeOK
    <3> QED BY <2>4, <3>1, <3>2, <3>3, <3>4, <3>5
  <2> QED BY <2>4 DEF NamedOnce
<1>2. ASSUME UNCHANGED <<run_id, unique_id>> PROVE NamedOnce'
  BY <1>2 DEF NamedOnce, NamedBy
<1> QED BY <1>1, <1>2 DEF Next, Step, Stop, Arrive, CheckReady, CreateComm,
       WaitForNotification, AcquireComm, Release, vars

LEMMA GroupsLeaveStep ==
  ASSUME TypeOK, Waiting, GroupsPass, GroupsLeave, [Next]_vars
  PROVE  GroupsLeave'
<1>0. \A o \in Ops : o \in Nat
  BY OperationsAssumption DEF Ops
<1>1. ASSUME at' = at, \A u \in Threads : stage[u] = "locked" => stage'[u] = "locked"
      PROVE  GroupsLeave'
  BY <1>1 DEF GroupsLeave
<1>2. ASSUME NEW t \in Threads, AcquireCclClique(t) PROVE GroupsLeave'
  <2>1. \A u \in GroupOf(t) : stage[u] = "rendezvous"
    BY <1>2, GroupTogether
  <2> QED BY <1>1, <1>2, <2>1 DEF AcquireCclClique
<1>3. ASSUME NEW t \in Threads,
             Arrive(t) \/ CheckReady(t) \/ CreateComm(t)
               \/ WaitForNotification(t) \/ AcquireComm(t)
      PROVE  GroupsLeave'
  <2>1. /\ at' = at
        /\ \E s : stage' = [stage EXCEPT ![t] = s] /\ stage[t] # "locked"
    BY <1>3 DEF Arrive, CheckReady, CreateComm, WaitForNotification, AcquireComm,
                Goto, In
  <2> QED BY <1>1, <2>1 DEF TypeOK
<1>4. ASSUME NEW t \in Threads, Release(t) PROVE GroupsLeave'
  <2>1. /\ at' = [at EXCEPT ![t] = @ + 1] /\ stage' = [stage EXCEPT ![t] = "begin"]
        /\ stage[t] = "locked" /\ at[t] \in Ops /\ AllJoined(t)
    BY <1>4 DEF Release, Goto, In, Ops
  <2>2. ASSUME NEW u \in Threads, NEW v \in Threads, NEW o \in Ops,
               RunOf(u) = RunOf(v),
               Participants(DeviceOf(u), o) = Participants(DeviceOf(v), o),
               at'[u] > o
        PROVE  at'[v] > o \/ (at'[v] = o /\ stage'[v] = "locked")
    <3>1. /\ at[v] \in Nat /\ at[u] \in Nat /\ at'[u] \in Nat /\ o \in Nat
          /\ at'[u] = IF u = t THEN at[u] + 1 ELSE at[u]
      BY <1>0, <2>1 DEF TypeOK
    <3>2. at[v] > o \/ (at[v] = o /\ stage[v] = "locked")
      <4>1. CASE at[u] > o
        BY <2>2, <4>1 DEF GroupsLeave
      <4>2. CASE u = t /\ at[t] = o
        <5>1. DeviceOf(v) \in DevicesOf(KeyOf(t))
          <6>1. DeviceOf(v) \in Devices
            BY DEF Threads, DeviceOf
          <6> QED BY <2>1, <2>2, <4>2, <6>1, KeyFacts, GroupFacts DEF DevicesOf
        <5>2. v \in GroupOf(t)
          BY <2>1, <2>2, <4>2, <5>1, GroupMember
        <5> QED BY <2>1, <4>2, <5>2 DEF AllJoined
      <4> QED BY <2>2, <3>1, <4>1, <4>2
    <3>3. CASE v = t
      BY <2>1, <3>1, <3>2, <3>3 DEF TypeOK
    <3>4. CASE v # t
      BY <2>1, <3>2, <3>4 DEF TypeOK
    <3> QED BY <3>3, <3>4
  <2> QED BY <2>2 DEF GroupsLeave
<1>5. CASE UNCHANGED vars
  BY <1>5 DEF vars, GroupsLeave
<1> QED BY <1>2, <1>3, <1>4, <1>5 DEF Next, Step, Stop

\* A participant that waits has a member of its group still on the way, which
\* holds the lock of their clique.
LEMMA PendingHolds ==
  ASSUME IInv, NEW t \in Threads, Pending(t)
  PROVE  /\ at[t] \in Ops /\ KeyOf(t) \in CliqueKeys /\ run_id[KeyOf(t)] >= 0
         /\ \E v \in clique_lock[KeyOf(t)] : RunOf(v) = RunOf(t) /\ at[v] = at[t]
<1>1. at[t] \in Ops /\ stage[t] = "locked"
  BY DEF IInv, TypeOK, Pending
<1>2. PICK v \in GroupOf(t) :
        ~(at[v] > at[t] \/ (at[v] = at[t] /\ stage[v] = "locked"))
  BY DEF Pending, AllJoined
<1>3. /\ v \in Threads /\ RunOf(v) = RunOf(t)
      /\ Participants(DeviceOf(v), at[t]) = Participants(DeviceOf(t), at[t])
      /\ KeyOf(t) \in CliqueKeys
  BY <1>1, KeyFacts DEF IInv
<1>4. Passed(v, at[t])
  BY <1>1, <1>3 DEF IInv, GroupsPass, Passed
<1>5. at[v] = at[t] /\ stage[v] \in Holding
  BY <1>2, <1>4 DEF Passed
<1>6. KeyOf(v) = KeyOf(t)
  BY <1>3, <1>5 DEF KeyOf
<1>7. v \in clique_lock[KeyOf(t)]
  BY <1>3, <1>5, <1>6 DEF IInv, OneGroupHolds
<1>8. run_id[KeyOf(t)] >= 0
  BY <1>3, <1>7 DEF IInv, Named
<1> QED BY <1>1, <1>3, <1>5, <1>7, <1>8

\* Participants of one clique that wait are one group, at one operation.
LEMMA OneCliqueOneGroup ==
  ASSUME IInv, NEW t \in Threads, NEW u \in Threads, Pending(t), Pending(u),
         KeyOf(t) = KeyOf(u)
  PROVE  u \in GroupOf(t) /\ at[u] = at[t]
<1>1. RunOf(u) = RunOf(t) /\ at[u] = at[t]
  BY PendingHolds DEF IInv, OneGroupHolds
<1>2. at[t] \in Ops /\ at[u] \in Ops
  BY PendingHolds
<1>3. DeviceOf(u) \in DevicesOf(KeyOf(t))
  BY <1>2, KeyFacts DEF IInv
<1> QED BY <1>1, <1>2, <1>3, GroupMember DEF IInv

\* No two cliques of the program are given the same id in one run.
DistinctIds ==
  \A r \in Runs : \A o, p \in Ops :
    \A g \in Operations[o].groups, h \in Operations[p].groups :
      UniqueId(r, g, o) = UniqueId(r, h, p) =>
        g = h /\ Operations[o].stream_id = Operations[p].stream_id

\* One run at a time, and a single replica group forms a single group (the
\* computation has one partition).
OneRunOnePartition ==
  /\ \A r, s \in Runs : r = s
  /\ \A o \in Ops : Operations[o].replica_groups = 1 =>
       \A g, h \in Operations[o].groups : g = h

\* Ids tell the runs apart.
LEMMA IdOfRun ==
  ASSUME NEW r, NEW s, NEW g, NEW h, NEW o, NEW p,
         UniqueId(r, g, o) = UniqueId(s, h, p)
  PROVE  /\ r = s
         /\ \/ Operations[o].replica_groups = 1 /\ Operations[p].replica_groups = 1
            \/ g[1] = h[1]
<1>1. \A a, b, c : <<a>> # <<b, c>>
  <2> TAKE a, b, c
  <2>1. Len(<<a>>) = 1 /\ Len(<<b, c>>) = 2
    OBVIOUS
  <2> QED BY <2>1
<1> QED BY <1>1 DEF UniqueId

LEMMA NamedOnceHolds == Spec => []NamedOnce
<1>1. Init => NamedOnce
  BY DEF Init, NamedOnce
<1>2. IInv /\ NamedOnce /\ [Next]_vars => NamedOnce'
  BY NamedOnceStep DEF IInv
<1> QED BY <1>1, <1>2, InvariantHolds, PTL DEF Spec

LEMMA GroupsLeaveHolds == Spec => []GroupsLeave
<1>1. Init => GroupsLeave
  <2>1. \A o \in Ops : o \in Nat /\ o >= 1
    BY OperationsAssumption DEF Ops
  <2> QED BY <2>1 DEF Init, GroupsLeave
<1>2. IInv /\ GroupsLeave /\ [Next]_vars => GroupsLeave'
  BY GroupsLeaveStep DEF IInv
<1> QED BY <1>1, <1>2, InvariantHolds, PTL DEF Spec

\* Concurrent runs: what the Manager counts under one unique id is one group
\* at one operation, provided the ids CclUniqueIdCallback gives the cliques of
\* the program are different.
THEOREM DistinctIdsOneGroup ==
  DistinctIds => (Spec => []WaitingUnderOneIdIsOneGroup)
<1> SUFFICES ASSUME DistinctIds PROVE Spec => []WaitingUnderOneIdIsOneGroup
  OBVIOUS
<1>1. IInv /\ NamedOnce => WaitingUnderOneIdIsOneGroup
  <2> SUFFICES ASSUME IInv, NamedOnce, NEW t \in Threads, NEW u \in Threads,
                      Pending(t), Pending(u),
                      unique_id[KeyOf(t)] = unique_id[KeyOf(u)]
               PROVE  u \in GroupOf(t) /\ at[u] = at[t]
    BY DEF WaitingUnderOneIdIsOneGroup
  <2>1. PICK r \in Runs, o \in Ops : NamedBy(KeyOf(t), r, o)
    BY PendingHolds DEF NamedOnce
  <2>2. PICK s \in Runs, p \in Ops : NamedBy(KeyOf(u), s, p)
    BY PendingHolds DEF NamedOnce
  <2>3. UniqueId(r, KeyOf(t)[1], o) = UniqueId(s, KeyOf(u)[1], p)
    BY <2>1, <2>2 DEF NamedBy
  <2>4. KeyOf(t)[1] = KeyOf(u)[1] /\ KeyOf(t)[2] = KeyOf(u)[2]
    <3>1. r = s
      BY <2>3, IdOfRun
    <3> QED BY <2>1, <2>2, <2>3, <3>1 DEF DistinctIds, NamedBy
  <2>5. KeyOf(t) = KeyOf(u)
    BY <2>4 DEF KeyOf
  <2> QED BY <2>5, OneCliqueOneGroup
<1> QED BY <1>1, InvariantHolds, NamedOnceHolds, PTL

\* One run at a time: what the Manager counts under one unique id is one group
\* at one operation, although cliques with the same first device, or with the
\* same devices on the synchronous and the asynchronous stream, share their id.
THEOREM OneRunOneGroup ==
  OneRunOnePartition => (Spec => []WaitingUnderOneIdIsOneGroup)
<1> SUFFICES ASSUME OneRunOnePartition PROVE Spec => []WaitingUnderOneIdIsOneGroup
  OBVIOUS
<1>0. \A o \in Ops : o \in Nat
  BY OperationsAssumption DEF Ops
<1>1. ASSUME IInv, NamedOnce, NEW t \in Threads, NEW u \in Threads,
             Pending(t), Pending(u), unique_id[KeyOf(t)] = unique_id[KeyOf(u)]
      PROVE  DevicesOf(KeyOf(t)) \cap DevicesOf(KeyOf(u)) # {}
  <2>1. PICK r \in Runs, o \in Ops : NamedBy(KeyOf(t), r, o)
    BY <1>1, PendingHolds DEF NamedOnce
  <2>2. PICK s \in Runs, p \in Ops : NamedBy(KeyOf(u), s, p)
    BY <1>1, PendingHolds DEF NamedOnce
  <2>3. UniqueId(r, KeyOf(t)[1], o) = UniqueId(s, KeyOf(u)[1], p)
    BY <1>1, <2>1, <2>2 DEF NamedBy
  <2>4. /\ DeviceOf(t) \in Devices /\ DeviceOf(t) \in DevicesOf(KeyOf(t))
        /\ DeviceOf(u) \in Devices /\ DeviceOf(u) \in DevicesOf(KeyOf(u))
    BY <1>1, PendingHolds, KeyFacts DEF IInv
  <2>5. CASE Operations[p].replica_groups = 1
    <3>1. Participants(DeviceOf(t), p) = KeyOf(u)[1]
      BY <2>2, <2>4, <2>5, GroupFacts DEF OneRunOnePartition, NamedBy
    <3> QED BY <2>2, <2>4, <3>1, GroupFacts DEF DevicesOf
  <2>6. CASE KeyOf(t)[1][1] = KeyOf(u)[1][1]
    <3>1. ASSUME NEW v \in Threads, at[v] \in Ops
          PROVE  KeyOf(v)[1][1] \in DevicesOf(KeyOf(v))
      <4>1. KeyOf(v)[1] \in Operations[at[v]].groups /\ KeyOf(v)[1] \in Seq(Devices)
        <5>1. Operations \in Seq(OpRecords)
          BY OperationsAssumption DEF OpRecords
        <5>2. Operations[at[v]] \in OpRecords
          BY <3>1, <5>1 DEF Ops
        <5> QED BY <1>1, <3>1, <5>2, KeyFacts, GroupFacts DEF OpRecords, IInv
      <4>2. DeviceOf(v) \in Members(KeyOf(v)[1])
        BY <1>1, <3>1, KeyFacts DEF IInv, DevicesOf
      <4>3. 1 \in DOMAIN KeyOf(v)[1]
        BY <4>1, <4>2 DEF Members
      <4> QED BY <4>3 DEF DevicesOf, Members
    <3> QED BY <1>1, <2>6, <3>1, PendingHolds
  <2> QED BY <2>3, <2>5, <2>6, IdOfRun
<1>2. ASSUME IInv, GroupsLeave, NEW t \in Threads, NEW u \in Threads,
             Pending(t), Pending(u), NEW d \in DevicesOf(KeyOf(t)) \cap DevicesOf(KeyOf(u))
      PROVE  ~(at[t] < at[u])
  <2>1. SUFFICES ASSUME at[t] < at[u] PROVE FALSE
    OBVIOUS
  <2>2. at[t] \in Ops /\ at[u] \in Ops /\ at[t] \in Nat /\ at[u] \in Nat
    BY <1>0, <1>2, PendingHolds
  <2>3. RunOf(t) = RunOf(u) /\ RunOf(t) \in Runs /\ d \in Devices
    BY <1>2, <2>2, KeyFacts DEF OneRunOnePartition, IInv
  <2>4. PICK w \in Threads : RunOf(w) = RunOf(t) /\ DeviceOf(w) = d
    <3>1. <<RunOf(t), d>> \in Threads
      BY <2>3 DEF Threads
    <3> QED BY <3>1 DEF RunOf, DeviceOf
  <2>5. w \in GroupOf(t) /\ w \in GroupOf(u)
    BY <1>2, <2>2, <2>3, <2>4, GroupMember DEF IInv
  <2>6. Passed(w, at[u])
    <3>1. Passed(u, at[u])
      BY <1>2 DEF Pending, Passed
    <3>2. Participants(DeviceOf(w), at[u]) = Participants(DeviceOf(u), at[u])
      BY <1>2, <2>2, <2>5, KeyFacts DEF IInv
    <3> QED BY <1>2, <2>2, <2>3, <2>4, <3>1, <3>2 DEF IInv, GroupsPass
  <2>7. at[w] > at[t]
    <3>1. at[w] \in Nat
      BY <1>2 DEF IInv, TypeOK
    <3> QED BY <2>1, <2>2, <2>6, <3>1 DEF Passed
  <2>8. AllJoined(t)
    <3> SUFFICES ASSUME NEW v \in GroupOf(t)
                 PROVE  at[v] > at[t] \/ (at[v] = at[t] /\ stage[v] = "locked")
      BY DEF AllJoined
    <3>1. /\ v \in Threads /\ RunOf(v) = RunOf(w)
          /\ Participants(DeviceOf(v), at[t]) = Participants(DeviceOf(w), at[t])
      BY <1>2, <2>2, <2>4, <2>5, KeyFacts DEF IInv
    <3> QED BY <1>2, <2>2, <2>7, <3>1 DEF GroupsLeave
  <2> QED BY <1>2, <2>8 DEF Pending
<1>3. IInv /\ NamedOnce /\ GroupsLeave => WaitingUnderOneIdIsOneGroup
  <2> SUFFICES ASSUME IInv, NamedOnce, GroupsLeave, NEW t \in Threads, NEW u \in Threads,
                      Pending(t), Pending(u),
                      unique_id[KeyOf(t)] = unique_id[KeyOf(u)]
               PROVE  u \in GroupOf(t) /\ at[u] = at[t]
    BY DEF WaitingUnderOneIdIsOneGroup
  <2>1. PICK d : d \in DevicesOf(KeyOf(t)) \cap DevicesOf(KeyOf(u))
    BY <1>1
  <2>2. at[t] \in Ops /\ at[u] \in Ops /\ at[t] \in Nat /\ at[u] \in Nat
    BY <1>0, PendingHolds
  <2>3. at[u] = at[t]
    <3>1. ~(at[t] < at[u])
      BY <1>2, <2>1
    <3>2. ~(at[u] < at[t])
      BY <1>2, <2>1
    <3> QED BY <2>2, <3>1, <3>2
  <2>4. Participants(DeviceOf(t), at[t]) = Participants(DeviceOf(u), at[t])
    <3>1. /\ d \in Members(Participants(DeviceOf(t), at[t]))
          /\ d \in Members(Participants(DeviceOf(u), at[t]))
          /\ DeviceOf(t) \in Devices /\ DeviceOf(u) \in Devices
      BY <2>1, <2>2, <2>3, KeyFacts DEF DevicesOf, IInv
    <3> QED BY <2>2, <3>1, GroupFacts
  <2>5. KeyOf(t) = KeyOf(u)
    BY <2>3, <2>4 DEF KeyOf
  <2> QED BY <2>5, OneCliqueOneGroup
<1> QED BY <1>3, InvariantHolds, NamedOnceHolds, GroupsLeaveHolds, PTL
=============================================================================
