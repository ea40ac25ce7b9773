----------------------------- MODULE CclOpsProofs -----------------------------
(***************************************************************************)
(* Proofs about CclOps, for any number of threads and any program: its     *)
(* type invariant, and for a single clique that kernels are submitted for  *)
(* whole groups and that calls return after their launch.                  *)
(***************************************************************************)
EXTENDS CclOps, FiniteSetTheorems, TLAPS

USE DEF Calls

\* What the assumption on Program says of one call of one thread.
LEMMA CallFacts ==
  ASSUME NEW t \in Threads, NEW c \in Calls
  PROVE  /\ Program[c] \in CallRecords
         /\ Comm(t, c) \in Comms
         /\ KeyOf(t, c) \in Keys
         /\ Len(Program) \in Nat /\ Calls = 1 .. Len(Program)
<1>1. Program[c] \in CallRecords
  BY ProgramAssumption
<1>2. Comm(t, c) \in Comms
  BY <1>1 DEF Comm, CallRecords
<1>3. Comm(t, c).id \in Ids
  BY <1>2 DEF Comms
<1>4. KeyOf(t, c) \in Keys
  BY <1>3 DEF KeyOf, Keys, MapOf
<1>5. Len(Program) \in Nat /\ Calls = 1 .. Len(Program)
  BY ProgramAssumption
<1> QED BY <1>1, <1>2, <1>4, <1>5

\* The initial state has the right type.
LEMMA TypeInit == Init => TypeOK
<1> SUFFICES ASSUME Init PROVE TypeOK
  OBVIOUS
<1>1. Len(Program) \in Nat
  BY ProgramAssumption
<1>2. pos \in [Threads -> 1 .. Len(Program) + 1]
  BY <1>1 DEF Init
<1>3. /\ pc \in [Threads -> {"running", "waiting", "notified"}]
      /\ \A t \in Threads : pc[t] # "running" => pos[t] \in Calls
  BY DEF Init
<1>4. /\ collectives \in [Keys -> SUBSET Participants]
      /\ \A k \in Keys : \A p \in collectives[k] : KeyOf(p.thread, p.call) = k
  BY DEF Init
<1>5. launches \in SUBSET (SUBSET Participants) /\ aborted \in BOOLEAN
  BY Zenon DEF Init
<1> QED BY <1>2, <1>3, <1>4, <1>5 DEF TypeOK

\* Every step keeps the types.
LEMMA TypeStep == TypeOK /\ [Next]_vars => TypeOK'
<1> SUFFICES ASSUME TypeOK, [Next]_vars PROVE TypeOK'
  OBVIOUS
<1>0. Len(Program) \in Nat /\ Calls = 1 .. Len(Program)
  BY ProgramAssumption
<1>1. CASE UNCHANGED vars
  BY <1>1 DEF TypeOK, vars
<1>2. ASSUME NEW t \in Threads, Calling(t)
      PROVE  /\ KeyOf(t, pos[t]) \in Keys
             /\ pos[t] \in Calls
             /\ Joined(t) \in SUBSET Participants
             /\ \A p \in Joined(t) : KeyOf(p.thread, p.call) = KeyOf(t, pos[t])
  <2>1. pos[t] \in Calls /\ KeyOf(t, pos[t]) \in Keys
    BY <1>2, CallFacts DEF Calling
  <2>2. collectives[KeyOf(t, pos[t])] \in SUBSET Participants
    BY <2>1 DEF TypeOK
  <2>3. [thread |-> t, call |-> pos[t]] \in Participants
    BY <2>1 DEF Participants
  <2>4. \A p \in collectives[KeyOf(t, pos[t])] :
          KeyOf(p.thread, p.call) = KeyOf(t, pos[t])
    BY <2>1 DEF TypeOK
  <2> QED BY <2>1, <2>2, <2>3, <2>4 DEF Joined
<1>3. ASSUME NEW t \in Threads, Wait(t) PROVE TypeOK'
  BY <1>2, <1>3 DEF Wait, Calling, TypeOK
<1>4. ASSUME NEW t \in Threads, Launch(t) PROVE TypeOK'
  <2>1. Calling(t)
    BY <1>4 DEF Launch
  <2>2. pos' \in [Threads -> 1 .. Len(Program) + 1]
    BY <1>0, <1>2, <1>4, <2>1 DEF Launch, TypeOK
  <2>3. /\ pc' \in [Threads -> {"running", "waiting", "notified"}]
        /\ \A u \in Threads : pc'[u] # "running" => pos'[u] \in Calls
    BY <1>4, <2>1 DEF Launch, NotifyAll, Calling, TypeOK
  <2>4. /\ collectives' \in [Keys -> SUBSET Participants]
        /\ \A k \in Keys : \A p \in collectives'[k] : KeyOf(p.thread, p.call) = k
    BY <1>4 DEF Launch, TypeOK
  <2>5. launches' \in SUBSET (SUBSET Participants) /\ aborted' \in BOOLEAN
    BY <1>2, <1>4, <2>1 DEF Launch, TypeOK
  <2> QED BY <2>2, <2>3, <2>4, <2>5 DEF TypeOK
<1>5. ASSUME NEW t \in Threads, Fatal(t) PROVE TypeOK'
  BY <1>5 DEF Fatal, TypeOK
<1>6. ASSUME NEW t \in Threads, Return(t) PROVE TypeOK'
  <2>1. pos[t] \in Calls
    BY <1>6 DEF Return, TypeOK
  <2> QED BY <1>0, <1>6, <2>1 DEF Return, TypeOK
<1> QED BY <1>1, <1>3, <1>4, <1>5, <1>6 DEF Next, Step, Stop

\* Type correctness of the Manager's maps and of the threads' places, for
\* every program and every number of cliques.
THEOREM TypeCorrect == Spec => []TypeOK
<1> QED BY TypeInit, TypeStep, PTL DEF Spec
-----------------------------------------------------------------------------
\* All threads of a call, as participants: as many as there are threads.
LEMMA GroupSize ==
  ASSUME NEW c
  PROVE  LET G == {[thread |-> u, call |-> c] : u \in Threads} IN
         IsFiniteSet(G) /\ Cardinality(G) = Cardinality(Threads)
<1> DEFINE G == {[thread |-> u, call |-> c] : u \in Threads}
           f == [u \in Threads |-> [thread |-> u, call |-> c]]
<1>1. f \in Bijection(Threads, G)
  <2>1. f \in [Threads -> G]
    OBVIOUS
  <2>2. \A u, v \in Threads : f[u] = f[v] => u = v
    OBVIOUS
  <2>3. \A g \in G : \E u \in Threads : f[u] = g
    OBVIOUS
  <2> QED BY <2>1, <2>2, <2>3 DEF Bijection, Injection, Surjection, IsInjective
<1>2. ExistsBijection(Threads, G)
  BY <1>1 DEF ExistsBijection
<1> QED BY <1>2, FS_Bijection, ThreadsAssumption

\* With one clique in lockstep, a complete group is every thread at the call
\* the launching thread makes.
LEMMA CompleteIsEverybody ==
  ASSUME OneClique, TypeOK, Lockstep,
         NEW t \in Threads, Calling(t), Complete(t)
  PROVE  Joined(t) = {[thread |-> u, call |-> pos[t]] : u \in Threads}
<1> DEFINE G == {[thread |-> u, call |-> pos[t]] : u \in Threads}
<1>1. pos[t] \in Calls /\ KeyOf(t, pos[t]) \in Keys
  BY CallFacts DEF Calling
<1>2. Joined(t) \subseteq G
  <2>1. ASSUME NEW p \in collectives[KeyOf(t, pos[t])] PROVE p \in G
    <3>1. p \in Participants
      BY <1>1, <2>1 DEF TypeOK
    <3>2. pc[p.thread] = "waiting" /\ pos[p.thread] = p.call
      BY <1>1, <2>1 DEF Lockstep, Calling
    <3>3. p.thread \in Threads /\ p = [thread |-> p.thread, call |-> p.call]
      BY <3>1 DEF Participants
    <3>4. Reached(p.thread) = Reached(t)
      BY <3>3 DEF Lockstep
    <3>5. p.call = pos[t]
      BY <3>2, <3>4 DEF Reached, Calling
    <3> QED BY <3>3, <3>5
  <2> QED BY <2>1 DEF Joined
<1>3. IsFiniteSet(G) /\ Cardinality(G) = Cardinality(Threads)
  BY GroupSize
<1>4. Cardinality(Joined(t)) = Cardinality(Threads)
  BY <1>1 DEF Complete, nranks, OneClique
<1> QED BY <1>2, <1>3, <1>4, FS_Subset

\* The threads start in lockstep.
LEMMA LockstepInit == Init => Lockstep
<1> SUFFICES ASSUME Init PROVE Lockstep
  OBVIOUS
<1>1. \A t \in Threads : Reached(t) = 1
  BY DEF Init, Reached
<1>2. \A t \in Threads : pc[t] # "waiting"
  BY DEF Init
<1>3. \A k \in Keys : collectives[k] = {}
  BY DEF Init
<1> QED BY <1>1, <1>2, <1>3 DEF Lockstep

\* Every step of a single clique keeps them in lockstep.
LEMMA LockstepStep ==
  ASSUME OneClique, TypeOK, Lockstep, [Next]_vars
  PROVE  Lockstep'
<1>0. /\ \A u \in Threads : pos[u] \in Nat /\ Reached(u) \in Nat
      /\ \A u \in Threads : pc[u] \in {"running", "waiting", "notified"}
  BY ProgramAssumption DEF TypeOK, Reached
<1>1. CASE UNCHANGED vars
  BY <1>1 DEF Lockstep, vars, Reached, Launched
<1>2. ASSUME NEW t \in Threads, Wait(t) PROVE Lockstep'
  <2>1. /\ ~aborted /\ pc[t] = "running"
        /\ pos[t] \in Calls /\ KeyOf(t, pos[t]) \in Keys
    BY <1>2, CallFacts DEF Wait, Calling
  <2>2. /\ \A u \in Threads : Reached(u)' = Reached(u)
        /\ \A u \in Threads, c \in Nat : Launched(u, c)' = Launched(u, c)
    BY <1>0, <1>2, <2>1 DEF Wait, Reached, Launched, TypeOK
  <2>3. /\ pc' = [pc EXCEPT ![t] = "waiting"] /\ pos' = pos
        /\ collectives' = [collectives EXCEPT ![KeyOf(t, pos[t])] = Joined(t)]
    BY <1>2 DEF Wait
  <2>4. \A k \in Keys : \A p \in collectives'[k] :
          pc'[p.thread] = "waiting" /\ pos'[p.thread] = p.call
    <3> TAKE k \in Keys
    <3> TAKE p \in collectives'[k]
    <3>1. CASE p \in collectives[k]
      <4>1. pc[p.thread] = "waiting" /\ pos[p.thread] = p.call
        BY <2>1, <3>1 DEF Lockstep
      <4>2. p.thread \in Threads
        BY <3>1 DEF TypeOK, Participants
      <4> QED BY <2>3, <4>1, <4>2 DEF TypeOK
    <3>2. CASE p \notin collectives[k]
      <4>1. p = [thread |-> t, call |-> pos[t]]
        BY <2>1, <2>3, <3>2 DEF Joined, TypeOK
      <4> QED BY <2>3, <4>1 DEF TypeOK
    <3> QED BY <3>1, <3>2
  <2>5. \A u \in Threads : pc'[u] = "waiting" =>
          [thread |-> u, call |-> pos'[u]] \in collectives'[KeyOf(u, pos'[u])]
    <3> TAKE u \in Threads
    <3> HAVE pc'[u] = "waiting"
    <3>1. CASE u = t
      BY <2>1, <2>3, <3>1 DEF Joined, TypeOK
    <3>2. CASE u # t
      <4>1. pc[u] = "waiting"
        BY <2>3, <3>2 DEF TypeOK
      <4>2. [thread |-> u, call |-> pos[u]] \in collectives[KeyOf(u, pos[u])]
        BY <2>1, <4>1 DEF Lockstep
      <4>3. KeyOf(u, pos[u]) \in Keys
        BY <4>1, CallFacts DEF TypeOK
      <4> QED BY <2>1, <2>3, <4>2, <4>3 DEF Joined, TypeOK
    <3> QED BY <3>1, <3>2
  <2>6. \A u \in Threads : \A c \in 1 .. Reached(u)' - 1 : Launched(u, c)'
    BY <1>0, <2>2 DEF Lockstep
  <2> QED BY <2>2, <2>4, <2>5, <2>6 DEF Lockstep
<1>3. ASSUME NEW t \in Threads, Launch(t) PROVE Lockstep'
  <2>1. /\ ~aborted /\ pc[t] = "running"
        /\ pos[t] \in Calls /\ KeyOf(t, pos[t]) \in Keys
    BY <1>3, CallFacts DEF Launch, Calling
  <2>2. Joined(t) = {[thread |-> u, call |-> pos[t]] : u \in Threads}
    BY <1>3, CompleteIsEverybody DEF Launch
  <2>3. ASSUME NEW u \in Threads, u # t
        PROVE  pc[u] = "waiting" /\ pos[u] = pos[t]
    <3>1. [thread |-> u, call |-> pos[t]] \in collectives[KeyOf(t, pos[t])]
      BY <2>2, <2>3 DEF Joined
    <3> QED BY <2>1, <3>1 DEF Lockstep
  <2>4. ASSUME NEW u \in Threads
        PROVE  Reached(u)' = pos[t] + 1 /\ pc'[u] # "waiting"
    BY <1>0, <1>3, <2>1, <2>3 DEF Launch, NotifyAll, Reached, TypeOK
  <2>5. \A k \in Keys : collectives'[k] = {}
    <3> SUFFICES ASSUME NEW k \in Keys, k # KeyOf(t, pos[t]),
                        NEW p \in collectives[k]
                 PROVE  FALSE
      BY <1>3 DEF Launch, TypeOK
    <3>1. /\ p.thread \in Threads /\ p.call \in Calls
          /\ KeyOf(p.thread, p.call) = k
      BY DEF TypeOK, Participants
    <3>2. pc[p.thread] = "waiting" /\ pos[p.thread] = p.call
      BY <2>1 DEF Lockstep
    <3>3. p.call = pos[t]
      BY <2>1, <2>3, <3>1, <3>2
    <3>4. KeyOf(p.thread, pos[t]) = KeyOf(t, pos[t])
      BY <2>1, <3>1 DEF KeyOf, OneClique
    <3> QED BY <3>1, <3>3, <3>4
  <2>6. ASSUME NEW u \in Threads, NEW c \in 1 .. Reached(u)' - 1
        PROVE  Launched(u, c)'
    <3>1. launches' = launches \cup {Joined(t)}
      BY <1>3 DEF Launch
    <3>2. CASE c = pos[t]
      BY <2>2, <3>1, <3>2 DEF Launched
    <3>3. CASE c # pos[t]
      <4>1. Reached(u) = pos[t]
        BY <2>1, <2>3 DEF Reached
      <4>2. c \in 1 .. Reached(u) - 1
        BY <1>0, <2>4, <3>3, <4>1
      <4> QED BY <3>1, <4>2 DEF Lockstep, Launched
    <3> QED BY <3>2, <3>3
  <2> QED BY <2>4, <2>5, <2>6 DEF Lockstep
<1>4. ASSUME NEW t \in Threads, Fatal(t) PROVE Lockstep'
  BY <1>4 DEF Fatal, Lockstep, Reached, Launched
<1>5. ASSUME NEW t \in Threads, Return(t) PROVE Lockstep'
  <2>1. /\ ~aborted /\ pc[t] = "notified"
        /\ pc' = [pc EXCEPT ![t] = "running"]
        /\ pos' = [pos EXCEPT ![t] = @ + 1]
        /\ UNCHANGED <<collectives, launches, aborted>>
    BY <1>5 DEF Return
  <2>2. \A u \in Threads : Reached(u)' = Reached(u)
    BY <1>0, <2>1 DEF Reached, TypeOK
  <2>3. \A u \in Threads : \A c \in 1 .. Reached(u)' - 1 : Launched(u, c)'
    BY <1>0, <2>1, <2>2 DEF Lockstep, Launched
  <2>4. \A k \in Keys : \A p \in collectives'[k] :
          pc'[p.thread] = "waiting" /\ pos'[p.thread] = p.call
    <3> TAKE k \in Keys
    <3> TAKE p \in collectives'[k]
    <3>1. /\ p.thread \in Threads
          /\ pc[p.thread] = "waiting" /\ pos[p.thread] = p.call
      BY <2>1 DEF Lockstep, TypeOK, Participants
    <3> QED BY <2>1, <3>1 DEF TypeOK
  <2>5. \A u \in Threads : pc'[u] = "waiting" =>
          [thread |-> u, call |-> pos'[u]] \in collectives'[KeyOf(u, pos'[u])]
    BY <2>1 DEF Lockstep, TypeOK
  <2> QED BY <2>2, <2>3, <2>4, <2>5 DEF Lockstep
<1> QED BY <1>1, <1>2, <1>3, <1>4, <1>5 DEF Next, Step, Stop

\* One clique: in every reachable state the threads are in lockstep.
THEOREM LockstepHolds == OneClique => (Spec => []Lockstep)
<1> SUFFICES ASSUME OneClique PROVE Spec => []Lockstep
  OBVIOUS
<1>1. Init => TypeOK /\ Lockstep
  BY TypeInit, LockstepInit
<1>2. TypeOK /\ Lockstep /\ [Next]_vars => (TypeOK /\ Lockstep)'
  BY TypeStep, LockstepStep
<1> QED BY <1>1, <1>2, PTL DEF Spec

\* One clique: no call returns before the kernel for its buffers has been
\* submitted, although cv.wait is not in a loop.
THEOREM ReturnsAfterLaunchHolds == OneClique => (Spec => []ReturnsAfterLaunch)
<1> SUFFICES ASSUME OneClique PROVE Spec => []ReturnsAfterLaunch
  OBVIOUS
<1>1. TypeOK /\ Lockstep => ReturnsAfterLaunch
  <2> SUFFICES ASSUME TypeOK, Lockstep,
                      NEW t \in Threads, NEW c \in 1 .. pos[t] - 1
               PROVE  Launched(t, c)
    BY DEF ReturnsAfterLaunch
  <2>1. pos[t] \in Nat
    BY ProgramAssumption DEF TypeOK
  <2>2. c \in 1 .. Reached(t) - 1
    BY <2>1 DEF Reached
  <2> QED BY <2>2 DEF Lockstep
<1> QED BY <1>1, TypeCorrect, LockstepHolds, PTL

\* One clique: every kernel is submitted for each thread once, all at the
\* same call, whatever the number of threads and calls.
THEOREM LaunchesAreCliquesHolds == OneClique => (Spec => []LaunchesAreCliques)
<1> SUFFICES ASSUME OneClique PROVE Spec => []LaunchesAreCliques
  OBVIOUS
<1>1. Init => LaunchesAreCliques
  BY DEF Init, LaunchesAreCliques
<1>2. TypeOK /\ Lockstep /\ LaunchesAreCliques /\ [Next]_vars
        => LaunchesAreCliques'
  <2> SUFFICES ASSUME TypeOK, Lockstep, LaunchesAreCliques, [Next]_vars
               PROVE  LaunchesAreCliques'
    OBVIOUS
  <2>1. CASE launches' = launches
    BY <2>1 DEF LaunchesAreCliques, CliqueGroup
  <2>2. ASSUME NEW t \in Threads, Launch(t) PROVE LaunchesAreCliques'
    <3>1. Joined(t) = {[thread |-> u, call |-> pos[t]] : u \in Threads}
      BY <2>2, CompleteIsEverybody DEF Launch
    <3>2. Joined(t) = CliqueGroup(t, pos[t])
      BY <2>2, <3>1 DEF CliqueGroup, OneClique, Launch, Calling
    <3>3. \E p \in Joined(t) : Joined(t) = CliqueGroup(p.thread, p.call)
      <4>1. [thread |-> t, call |-> pos[t]] \in Joined(t)
        BY DEF Joined
      <4> QED BY <3>2, <4>1
    <3>4. launches' = launches \cup {Joined(t)}
      BY <2>2 DEF Launch
    <3> QED BY <3>3, <3>4 DEF LaunchesAreCliques, CliqueGroup
  <2> QED BY <2>1, <2>2 DEF Next, Step, Stop, Wait, Fatal, Return, vars
<1> QED BY <1>1, <1>2, TypeCorrect, LockstepHolds, PTL DEF Spec
=============================================================================
