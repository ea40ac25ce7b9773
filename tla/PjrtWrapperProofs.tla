-------------------------- MODULE PjrtWrapperProofs --------------------------
(***************************************************************************)
(* Proofs about PjrtWrapper, for any devices, threads and workloads: the   *)
(* memory of running operations is alive, device pointers stay valid, an   *)
(* event's status is its future's result, and the cost properties that a   *)
(* caller points to are not written again.                                 *)
(***************************************************************************)
EXTENDS PjrtWrapper, FiniteSetTheorems, WellFoundedInduction, TLAPS

\* The calls a thread can be in.
CallStates ==
  {Idle} \cup [at : {"wrapping"}] \cup [at : {"cost", "await"}, handle : Nat]
    \cup [at : {"executing"}, handle : Nat, memory : SUBSET Nat, wanted : BOOLEAN,
          futures : SUBSET Nat]

TypeOK ==
  /\ work \in Workloads
  /\ client \in ClientObjects \cup {None}
  /\ handles \in [HandleIds -> HandleObjects \cup {None}]
  /\ futures \in [FutureIds -> FutureObjects \cup {None}]
  /\ pc \in [Threads -> CallStates]

\* An operation or the frame of a call is about one piece of memory, and an
\* execution's operations are about that of its frame.
Executing(t) == pc[t].at = "executing"
MemoryOf(f)  == futures[f].uses \cup futures[f].kept
AtMostOne(S) == \A m, n \in S : m = n
OneMemory ==
  /\ \A f \in FutureIds : futures[f] # None => AtMostOne(MemoryOf(f))
  /\ \A t \in Threads : Executing(t) =>
       /\ AtMostOne(pc[t].memory)
       /\ \A f \in pc[t].futures : MemoryOf(f) \subseteq pc[t].memory

\* What a running operation uses is held by a lambda on its own future or by
\* the frame of the call that started it.
HeldForUse ==
  \A f \in FutureIds : futures[f] # None /\ futures[f].state = "running" =>
    \A m \in futures[f].uses :
      \/ m \in futures[f].kept
      \/ \E t \in Threads : Executing(t) /\ f \in pc[t].futures /\ m \in pc[t].memory

\* The table of devices is never replaced, and pointers lead to their device.
TableOf(c) ==
  LET n == Len(c.owned) IN
  /\ c.gen = 0 /\ c.cap = NumDevices /\ n <= NumDevices
  /\ \A i \in 1 .. n : c.owned[i] = i /\ c.cdev[i] = <<0, i>>
  /\ Len(c.devices) = n /\ \A i \in 1 .. n : c.devices[i] = <<0, i>>
  /\ \A i \in DOMAIN c.addressable :
       \E d \in Addressable \cap (1 .. n) : c.addressable[i] = <<0, d>>
  /\ \A d \in Addressable \cap (1 .. n) :
       \E i \in DOMAIN c.addressable : c.addressable[i] = <<0, d>>
Wrapped(c) == c # None /\ Len(c.owned) = NumDevices
DeviceTable ==
  /\ client # None => TableOf(client)
  /\ Ready => Wrapped(client)
  /\ \A t \in Threads : pc[t].at = "wrapping" => client # None
  /\ \A h \in HandleIds : Is(h, {"loaded"}) =>
       /\ Wrapped(client)
       /\ \A d \in DOMAIN handles[h].devices : handles[h].devices[d] = <<0, d>>

\* What a call in progress holds is still there.
InUse ==
  \A t \in Threads :
    /\ pc[t].at = "cost" => pc[t].handle \in HandleIds /\ Is(pc[t].handle, {"executable"})
    /\ pc[t].at = "await" =>
         pc[t].handle \in HandleIds /\ Is(pc[t].handle, {"event"})
    /\ \A u \in Threads : pc[t].at = "await" /\ pc[u].at = "await"
                          /\ pc[t].handle = pc[u].handle => t = u

\* A future has one event, or belongs to one execution in progress.
Owners ==
  /\ \A h \in HandleIds : Is(h, {"event"}) =>
       /\ handles[h].future \in FutureIds /\ futures[handles[h].future] # None
       /\ \A g \in HandleIds : Is(g, {"event"}) /\ handles[g].future = handles[h].future
            => g = h
       /\ \A t \in Threads : Executing(t) => handles[h].future \notin pc[t].futures
  /\ \A t \in Threads : Executing(t) =>
       /\ pc[t].futures \subseteq FutureIds
       /\ \A f \in pc[t].futures : futures[f] # None
       /\ \A u \in Threads : Executing(u) /\ u # t => pc[t].futures \cap pc[u].futures = {}

\* An event has no status and its future was not queried, or was queried once
\* more than the caller asked for again; a result of the first query is the future's.
GoodStatus(o, result) ==
  \/ o.status = None /\ o.awaits = 0 /\ o.again = 0
  \/ /\ o.status \in {"ok", "error"} /\ o.awaits = o.again + 1
     /\ o.again = 0 => o.status = result
Statuses ==
  \A h \in HandleIds : Is(h, {"event"}) =>
    GoodStatus(handles[h], futures[handles[h].future].state)

\* Only cost properties that were written are published.
CostWritten ==
  \A h \in HandleIds : Is(h, {"executable"}) =>
    /\ handles[h].published => handles[h].writes > 0
    /\ handles[h].writes > 0 => handles[h].ran

IInv == /\ TypeOK /\ OneMemory /\ HeldForUse /\ DeviceTable /\ InUse /\ Owners
        /\ Statuses /\ CostWritten
-----------------------------------------------------------------------------
(* Minima, ranks, and the addresses of new objects.                        *)

LEMMA MinExists ==
  ASSUME NEW S \in SUBSET Nat, S # {}
  PROVE  Min(S) \in S
<1>1. OpToRel(<, Nat) = {p \in Nat \X Nat : p[1] < p[2]}
  BY DEF OpToRel
<1>2. PICK x \in S : \A y \in S : ~(<<y, x>> \in OpToRel(<, Nat))
  BY NatLessThanWellFounded, WFMin
<1>3. \A y \in S : ~(<<y, x>> \in {p \in Nat \X Nat : p[1] < p[2]})
  BY <1>1, <1>2, Zenon
<1>4. \A y \in S : ~(y < x) /\ x \in Nat /\ y \in Nat
  BY <1>3
<1>5. \A y \in S : x <= y
  BY <1>4
<1> QED BY <1>5 DEF Min

\* Ranks number the elements of a finite set of naturals.
LEMMA RankFacts ==
  ASSUME NEW S \in SUBSET Nat, IsFiniteSet(S)
  PROVE  /\ \A x \in S : Rank(x, S) \in 1 .. Cardinality(S)
         /\ \A x, y \in S : Rank(x, S) = Rank(y, S) => x = y
         /\ \A i \in 1 .. Cardinality(S) : \E x \in S : Rank(x, S) = i
<1> DEFINE Below(x) == {y \in S : y <= x}
<1>1. Cardinality(S) \in Nat
  BY FS_CardinalityType
<1>2. \A x \in S : /\ IsFiniteSet(Below(x)) /\ Cardinality(Below(x)) \in Nat
                   /\ Cardinality(Below(x)) <= Cardinality(S)
  BY FS_Subset, FS_CardinalityType
<1>3. \A x \in S : Cardinality(Below(x)) # 0
  <2> TAKE x \in S
  <2>1. x \in Below(x)
    OBVIOUS
  <2> QED BY <1>2, <2>1, FS_EmptySet
<1>4. \A x \in S : Rank(x, S) \in 1 .. Cardinality(S)
  BY <1>1, <1>2, <1>3 DEF Rank
<1>5. ASSUME NEW x \in S, NEW y \in S, x < y PROVE Rank(x, S) # Rank(y, S)
  <2>1. Below(x) \in SUBSET Below(y) /\ y \in Below(y) /\ y \notin Below(x)
    <3>1. x \in Nat /\ y \in Nat /\ \A z \in S : z \in Nat
      OBVIOUS
    <3>2. \A z \in S : z <= x => z <= y
      BY <1>5, <3>1
    <3>3. y <= y /\ ~(y <= x)
      BY <1>5, <3>1
    <3> QED BY <3>2, <3>3
  <2>2. Cardinality(Below(x)) # Cardinality(Below(y))
    BY <1>2, <2>1, FS_Subset
  <2> QED BY <2>2 DEF Rank
<1>6. \A x, y \in S : Rank(x, S) = Rank(y, S) => x = y
  BY <1>5
<1>7. \A i \in 1 .. Cardinality(S) : \E x \in S : Rank(x, S) = i
  <2> DEFINE f == [x \in S |-> Rank(x, S)]
             T == 1 .. Cardinality(S)
  <2>1. f \in Injection(S, T)
    BY <1>4, <1>6 DEF Injection, IsInjective
  <2>2. IsFiniteSet(T) /\ Cardinality(T) = Cardinality(S)
    BY <1>1, FS_Interval
  <2>3. f \in Surjection(S, T)
    BY <2>1, <2>2, FS_Injection
  <2> QED BY <2>3 DEF Surjection
<1> QED BY <1>4, <1>6, <1>7

LEMMA IntervalFacts ==
  ASSUME NEW n \in Nat
  PROVE  IsFiniteSet(1 .. n) /\ Cardinality(1 .. n) = n /\ 1 .. n \subseteq Nat
<1>1. /\ IsFiniteSet(1 .. n)
      /\ Cardinality(1 .. n) = IF 1 > n THEN 0 ELSE n - 1 + 1
  BY FS_Interval
<1>2. Cardinality(1 .. n) = n
  <2>1. CASE n = 0
    BY <1>1, <2>1
  <2>2. CASE n # 0
    <3>1. ~(1 > n) /\ n - 1 + 1 = n
      BY <2>2
    <3> QED BY <1>1, <3>1
  <2> QED BY <2>1, <2>2
<1> QED BY <1>1, <1>2

LEMMA IdFacts ==
  ASSUME TypeOK
  PROVE  /\ work.handles \in Nat /\ work.futures \in Nat /\ work.executables \in Nat
         /\ HandleIds \subseteq Nat /\ FutureIds \subseteq Nat
         /\ IsFiniteSet(HandleIds) /\ IsFiniteSet(FutureIds)
         /\ Cardinality(FutureIds) = work.futures
         /\ FreeHandles \in SUBSET Nat /\ IsFiniteSet(FreeHandles)
         /\ FreeFutures \in SUBSET Nat /\ IsFiniteSet(FreeFutures)
<1>1. work.handles \in Nat /\ work.futures \in Nat /\ work.executables \in Nat
  BY PjrtAssumption DEF TypeOK
<1>2. /\ HandleIds \subseteq Nat /\ FutureIds \subseteq Nat
      /\ IsFiniteSet(HandleIds) /\ IsFiniteSet(FutureIds)
      /\ Cardinality(FutureIds) = work.futures
  <2>1. \A n \in Nat : IsFiniteSet(1 .. n) /\ Cardinality(1 .. n) = n /\ 1 .. n \subseteq Nat
    BY IntervalFacts
  <2> QED BY <1>1, <2>1 DEF HandleIds, FutureIds
<1>3. FreeHandles \in SUBSET HandleIds /\ FreeFutures \in SUBSET FutureIds
  BY DEF FreeHandles, FreeFutures
<1> QED BY <1>1, <1>2, <1>3, FS_Subset

LEMMA NextFutureFacts ==
  ASSUME TypeOK, FreeFutures # {}
  PROVE  NextFuture \in FutureIds /\ futures[NextFuture] = None /\ NextFuture \in Nat
<1> QED BY IdFacts, MinExists DEF NextFuture, FreeFutures

\* Objects that exist stay; each new object gets an address of its own.
LEMMA CreateEffect ==
  ASSUME TypeOK, NEW objects, Create(objects)
  PROVE  \E place \in [FreeHandles -> Nat \ {0}] :
           /\ \A g, h \in FreeHandles : place[g] = place[h] => g = h
           /\ handles' = [h \in HandleIds |->
                IF h \in FreeHandles /\ place[h] <= Len(objects)
                THEN objects[place[h]] ELSE handles[h]]
<1> DEFINE place == [h \in FreeHandles |-> Rank(h, FreeHandles)]
<1>1. FreeHandles \in SUBSET Nat /\ IsFiniteSet(FreeHandles)
  BY IdFacts
<1>2. /\ \A h \in FreeHandles : Rank(h, FreeHandles) \in Nat \ {0}
      /\ \A g, h \in FreeHandles : Rank(g, FreeHandles) = Rank(h, FreeHandles) => g = h
  BY <1>1, RankFacts, FS_CardinalityType
<1>3. place \in [FreeHandles -> Nat \ {0}]
  BY <1>2
<1>4. \A g, h \in FreeHandles : place[g] = place[h] => g = h
  BY <1>2
<1>5. \A h \in HandleIds : handles[h] = None <=> h \in FreeHandles
  BY DEF FreeHandles
<1>6. handles' = [h \in HandleIds |->
                    IF h \in FreeHandles /\ place[h] <= Len(objects)
                    THEN objects[place[h]] ELSE handles[h]]
  BY <1>5 DEF Create
<1> WITNESS place \in [FreeHandles -> Nat \ {0}]
<1> QED BY <1>4, <1>6

\* The number given to a newly compiled executable.
LEMMA NewExeFacts ==
  ASSUME TypeOK, CanCompile
  PROVE  NewExe \in Nat
<1> DEFINE S == {i \in HandleIds : Is(i, {"loaded", "executable"})}
           g == [i \in S |-> handles[i].exe]
           N == 1 .. work.executables
<1>1. work.executables \in Nat /\ IsFiniteSet(S)
  <2>1. S \in SUBSET HandleIds
    OBVIOUS
  <2> QED BY <2>1, IdFacts, FS_Subset
<1>2. g \in Surjection(S, Exes)
  BY DEF Surjection, Exes
<1>3. IsFiniteSet(Exes)
  BY <1>1, <1>2, FS_Surjection
<1>4. N \ Exes # {}
  <2> SUFFICES ASSUME N \ Exes = {} PROVE FALSE
    OBVIOUS
  <2>1. N \in SUBSET Exes /\ Cardinality(N) = work.executables
    BY <1>1, IntervalFacts
  <2>2. Cardinality(N) <= Cardinality(Exes) /\ Cardinality(Exes) \in Nat
    BY <1>3, <2>1, FS_Subset, FS_CardinalityType
  <2> QED BY <1>1, <2>1, <2>2 DEF CanCompile
<1>5. N \ Exes \in SUBSET Nat
  BY <1>1
<1>6. Min(N \ Exes) \in N \ Exes
  BY <1>4, <1>5, MinExists
<1> QED BY <1>5, <1>6 DEF NewExe

\* There is always memory that nobody uses: each operation and each frame is
\* about one piece of memory.
LEMMA FreshMemoryFacts ==
  ASSUME TypeOK, OneMemory
  PROVE  FreshMemory \in Nat
<1> DEFINE M == 1 .. (work.futures + Cardinality(Threads) + 1)
           ByFuture(m, f) == f \in FutureIds /\ futures[f] # None /\ m \in MemoryOf(f)
           ByThread(m, t) == t \in Threads /\ Executing(t) /\ m \in pc[t].memory
           A == {m \in M : \E f \in FutureIds : ByFuture(m, f)}
           B == {m \in M : \E t \in Threads : ByThread(m, t)}
           a == [m \in A |-> CHOOSE f \in FutureIds : ByFuture(m, f)]
           b == [m \in B |-> CHOOSE t \in Threads : ByThread(m, t)]
<1>1. /\ work.futures \in Nat /\ IsFiniteSet(FutureIds) /\ IsFiniteSet(Threads)
      /\ Cardinality(FutureIds) = work.futures /\ Cardinality(Threads) \in Nat
  BY IdFacts, PjrtAssumption, FS_CardinalityType
<1>2. IsFiniteSet(A) /\ Cardinality(A) <= work.futures
  <2>1. \A m \in A : a[m] \in FutureIds /\ ByFuture(m, a[m])
    OBVIOUS
  <2>2. a \in [A -> FutureIds]
    BY <2>1
  <2>3. \A m, n \in A : a[m] = a[n] => m = n
    BY <2>1 DEF OneMemory, AtMostOne
  <2>4. a \in Injection(A, FutureIds)
    BY <2>2, <2>3 DEF Injection, IsInjective
  <2> QED BY <1>1, <2>4, FS_Injection
<1>3. IsFiniteSet(B) /\ Cardinality(B) <= Cardinality(Threads)
  <2>1. \A m \in B : b[m] \in Threads /\ ByThread(m, b[m])
    OBVIOUS
  <2>2. b \in [B -> Threads]
    BY <2>1
  <2>3. \A m, n \in B : b[m] = b[n] => m = n
    BY <2>1 DEF OneMemory, AtMostOne
  <2>4. b \in Injection(B, Threads)
    BY <2>2, <2>3 DEF Injection, IsInjective
  <2> QED BY <1>1, <2>4, FS_Injection
<1>4. /\ IsFiniteSet(A \cup B)
      /\ Cardinality(A \cup B) <= work.futures + Cardinality(Threads)
  <2>1. /\ Cardinality(A \cup B) = Cardinality(A) + Cardinality(B) - Cardinality(A \cap B)
        /\ IsFiniteSet(A \cup B)
    BY <1>2, <1>3, FS_Union
  <2>2. Cardinality(A) \in Nat /\ Cardinality(B) \in Nat /\ Cardinality(A \cap B) \in Nat
    <3>1. IsFiniteSet(A \cap B)
      BY <1>2, FS_Intersection
    <3> QED BY <1>2, <1>3, <3>1, FS_CardinalityType
  <2> QED BY <1>1, <1>2, <1>3, <2>1, <2>2
<1>5. Cardinality(M) = work.futures + Cardinality(Threads) + 1 /\ IsFiniteSet(M)
  <2>1. work.futures + Cardinality(Threads) + 1 \in Nat
    BY <1>1
  <2> QED BY <2>1, IntervalFacts
<1>6. PICK m \in M : m \notin A \cup B
  <2>1. Cardinality(M) # Cardinality(A \cup B)
    <3>1. Cardinality(A \cup B) \in Nat
      BY <1>4, FS_CardinalityType
    <3> QED BY <1>1, <1>4, <1>5, <3>1
  <2> QED BY <2>1
<1>7. Unused(m)
  BY <1>6 DEF Unused, HeldByFrame, HeldByLambda, MemoryOf, Executing
<1>8. FreshMemory \in M
  BY <1>7 DEF FreshMemory
<1> QED BY <1>1, <1>8

-----------------------------------------------------------------------------
(* Kinds of objects, and what a call adds to them.                         *)

LEMMA KindFacts ==
  ASSUME NEW o \in HandleObjects
  PROVE  /\ o # None
         /\ o.kind = "event" <=> o \in EventObjects
         /\ o.kind = "executable" <=> o \in ExecutableObjects
         /\ o.kind = "loaded" <=> o \in LoadedObjects
         /\ o.kind = "buffer" <=> o \in BufferObjects
         /\ o.kind \in {"event", "executable", "loaded", "buffer", "serialized"}
<1>1. o # None
  BY NoneAssumption
<1>2. CASE o \in EventObjects
  BY <1>1, <1>2 DEF EventObjects, ExecutableObjects, LoadedObjects, BufferObjects
<1>3. CASE o \in ExecutableObjects
  BY <1>1, <1>3 DEF EventObjects, ExecutableObjects, LoadedObjects, BufferObjects
<1>4. CASE o \in LoadedObjects
  BY <1>1, <1>4 DEF EventObjects, ExecutableObjects, LoadedObjects, BufferObjects
<1>5. CASE o \in BufferObjects
  BY <1>1, <1>5 DEF EventObjects, ExecutableObjects, LoadedObjects, BufferObjects
<1>6. CASE o \in SerializedObjects
  BY <1>1, <1>6 DEF EventObjects, ExecutableObjects, LoadedObjects, BufferObjects,
                    SerializedObjects
<1> QED BY <1>2, <1>3, <1>4, <1>5, <1>6 DEF HandleObjects

LEMMA IsFacts ==
  ASSUME TypeOK, NEW h \in HandleIds
  PROVE  /\ Is(h, {"event"}) <=> handles[h] \in EventObjects
         /\ Is(h, {"executable"}) <=> handles[h] \in ExecutableObjects
         /\ Is(h, {"loaded"}) <=> handles[h] \in LoadedObjects
         /\ Is(h, {"buffer"}) <=> handles[h] \in BufferObjects
         /\ handles[h] # None => handles[h] \in HandleObjects
<1>1. handles[h] \in HandleObjects \/ handles[h] = None
  BY DEF TypeOK
<1>2. None \notin EventObjects \cup ExecutableObjects \cup LoadedObjects \cup BufferObjects
  BY NoneAssumption DEF HandleObjects
<1>3. CASE handles[h] = None
  BY <1>2, <1>3 DEF Is
<1>4. CASE handles[h] \in HandleObjects
  BY <1>4, KindFacts DEF Is
<1> QED BY <1>1, <1>3, <1>4

LEMMA NewObjects ==
  /\ Buffer \in BufferObjects /\ [kind |-> "serialized"] \in SerializedObjects
  /\ \A f \in Nat : Event(f) \in EventObjects
  /\ \A x \in Nat : Executable(x) \in ExecutableObjects
<1> QED BY DEF Buffer, BufferObjects, SerializedObjects, Event, EventObjects, Executable,
               ExecutableObjects

\* A loaded executable whose pointers lead to its devices.
GoodLoaded(o) == /\ o \in LoadedObjects /\ Wrapped(client)
                 /\ \A d \in DOMAIN o.devices : o.devices[d] = <<0, d>>
\* Objects that hold no future, as they are created.
Fresh(o) == \/ o \in BufferObjects \cup SerializedObjects
            \/ \E x \in Nat : o = Executable(x)
            \/ GoodLoaded(o)

\* Objects are added, and an event only for the future f.
Added(f) ==
  /\ handles' \in [HandleIds -> HandleObjects \cup {None}]
  /\ \A h \in HandleIds : handles[h] # None => handles'[h] = handles[h]
  /\ \A h \in HandleIds : handles[h] = None /\ handles'[h] # None =>
       Fresh(handles'[h]) \/ handles'[h] = Event(f)
  /\ \A g, h \in HandleIds : /\ handles[g] = None /\ handles[h] = None
                             /\ handles'[g] = Event(f) /\ handles'[h] = Event(f)
                             => g = h
\* Objects are added, but no event.
AddedNone ==
  /\ handles' \in [HandleIds -> HandleObjects \cup {None}]
  /\ \A h \in HandleIds : handles[h] # None => handles'[h] = handles[h]
  /\ \A h \in HandleIds : handles[h] = None /\ handles'[h] # None => Fresh(handles'[h])

LEMMA FreshFacts ==
  ASSUME NEW o, Fresh(o)
  PROVE  /\ o \in HandleObjects /\ o.kind # "event"
         /\ o.kind = "loaded" => GoodLoaded(o)
         /\ o.kind = "executable" => o.writes = 0 /\ ~o.published
<1>1. CASE o \in BufferObjects \cup SerializedObjects
  BY <1>1 DEF HandleObjects, BufferObjects, SerializedObjects
<1>2. ASSUME NEW x \in Nat, o = Executable(x)
      PROVE  /\ o \in HandleObjects /\ o.kind = "executable"
             /\ o.writes = 0 /\ ~o.published
  <2>1. o \in HandleObjects
    BY <1>2, NewObjects DEF HandleObjects
  <2> QED BY <1>2, <2>1 DEF Executable
<1>3. CASE GoodLoaded(o)
  BY <1>3 DEF HandleObjects, LoadedObjects, GoodLoaded
<1> QED BY <1>1, <1>2, <1>3 DEF Fresh

LEMMA NewNone ==
  ASSUME TypeOK, NEW o, Fresh(o), New(<<o>>)
  PROVE  AddedNone
<1> DEFINE objects == <<o>>
<1>1. Len(objects) = 1 /\ objects[1] = o
  OBVIOUS
<1>2. Create(objects)
  BY DEF New
<1> HIDE DEF objects
<1>3. PICK place \in [FreeHandles -> Nat \ {0}] :
        handles' = [h \in HandleIds |->
                      IF h \in FreeHandles /\ place[h] <= Len(objects)
                      THEN objects[place[h]] ELSE handles[h]]
  BY <1>2, CreateEffect
<1>4. \A h \in HandleIds : handles'[h] = handles[h] \/ (handles[h] = None /\ handles'[h] = o)
  <2> TAKE h \in HandleIds
  <2>1. CASE h \in FreeHandles /\ place[h] <= Len(objects)
    <3>1. place[h] = 1
      BY <1>1, <2>1
    <3> QED BY <1>1, <1>3, <2>1, <3>1 DEF FreeHandles
  <2>2. CASE ~(h \in FreeHandles /\ place[h] <= Len(objects))
    BY <1>3, <2>2
  <2> QED BY <2>1, <2>2
<1>5. o \in HandleObjects /\ handles \in [HandleIds -> HandleObjects \cup {None}]
  BY FreshFacts DEF TypeOK
<1>6. handles' \in [HandleIds -> HandleObjects \cup {None}]
  <2>1. DOMAIN handles' = HandleIds /\ handles' = [h \in HandleIds |-> handles'[h]]
    BY <1>3
  <2>2. \A h \in HandleIds : handles'[h] \in HandleObjects \cup {None}
    BY <1>4, <1>5
  <2> QED BY <2>1, <2>2
<1> QED BY <1>4, <1>6 DEF AddedNone

\* An event, alone or after a buffer.
LEMMA NewEvent ==
  ASSUME TypeOK, NEW f \in Nat, New(<<Event(f)>>) \/ New(<<Buffer, Event(f)>>)
  PROVE  Added(f)
<1>1. PICK objects : /\ Create(objects)
                     /\ objects = <<Event(f)>> \/ objects = <<Buffer, Event(f)>>
  BY DEF New
<1>2. PICK n \in {1, 2} : /\ Len(objects) = n /\ objects[n] = Event(f)
                          /\ n = 2 => objects[1] = Buffer
  BY <1>1
<1>3. PICK place \in [FreeHandles -> Nat \ {0}] :
        /\ \A g, h \in FreeHandles : place[g] = place[h] => g = h
        /\ handles' = [h \in HandleIds |->
                         IF h \in FreeHandles /\ place[h] <= Len(objects)
                         THEN objects[place[h]] ELSE handles[h]]
  BY <1>1, CreateEffect
<1>4. Buffer \in BufferObjects /\ Event(f) \in EventObjects
  BY NewObjects
<1>5. Buffer # Event(f) /\ Buffer # None /\ Event(f) # None
  <2>1. Buffer.kind # Event(f).kind
    BY DEF Buffer, Event
  <2> QED BY <1>4, <2>1, NoneAssumption DEF HandleObjects
<1>6. \A h \in HandleIds :
        \/ handles'[h] = handles[h]
        \/ handles[h] = None /\ handles'[h] = Buffer
        \/ handles[h] = None /\ handles'[h] = Event(f) /\ h \in FreeHandles /\ place[h] = n
  <2> TAKE h \in HandleIds
  <2>1. CASE h \in FreeHandles /\ place[h] <= Len(objects)
    <3>1. place[h] = n \/ (n = 2 /\ place[h] = 1)
      BY <1>2, <2>1
    <3> QED BY <1>2, <1>3, <2>1, <3>1 DEF FreeHandles
  <2>2. CASE ~(h \in FreeHandles /\ place[h] <= Len(objects))
    BY <1>3, <2>2
  <2> QED BY <2>1, <2>2
<1>7. handles' \in [HandleIds -> HandleObjects \cup {None}]
  <2>1. DOMAIN handles' = HandleIds /\ handles' = [h \in HandleIds |-> handles'[h]]
    BY <1>3
  <2>2. \A h \in HandleIds : handles'[h] \in HandleObjects \cup {None}
    BY <1>4, <1>6 DEF TypeOK, HandleObjects
  <2> QED BY <2>1, <2>2
<1>8. \A h \in HandleIds : handles[h] = None /\ handles'[h] # None =>
        Fresh(handles'[h]) \/ handles'[h] = Event(f)
  BY <1>4, <1>6 DEF Fresh
<1>9. \A g, h \in HandleIds : /\ handles[g] = None /\ handles[h] = None
                              /\ handles'[g] = Event(f) /\ handles'[h] = Event(f)
                              => g = h
  BY <1>3, <1>5, <1>6
<1> QED BY <1>6, <1>7, <1>8, <1>9 DEF Added

-----------------------------------------------------------------------------
(* What a step may change without disturbing a part of the invariant.      *)

\* The executions in progress stay as they are.
SameExecutions ==
  \A t \in Threads : /\ Executing(t)' <=> Executing(t)
                     /\ Executing(t) => /\ pc'[t].memory = pc[t].memory
                                        /\ pc'[t].futures = pc[t].futures

\* An operation goes on with its memory, ends, or is new with memory of its own.
FutureStep(f) ==
  \/ futures'[f] = None
  \/ /\ futures[f] # None /\ futures'[f].state = futures[f].state
     /\ futures'[f].uses = futures[f].uses /\ futures'[f].kept = futures[f].kept
  \/ futures'[f].uses = {} /\ futures'[f].kept = {}
  \/ /\ futures[f] = None /\ futures'[f].uses = futures'[f].kept
     /\ AtMostOne(futures'[f].uses)

LEMMA MemoryFrame ==
  ASSUME OneMemory, HeldForUse, Owners, Owners', work' = work, SameExecutions,
         \A f \in FutureIds : FutureStep(f)
  PROVE  OneMemory' /\ HeldForUse'
<1>0. FutureIds' = FutureIds
  BY DEF FutureIds
<1>1. ASSUME NEW f \in FutureIds, futures'[f] # None
      PROVE  \/ /\ futures[f] # None /\ futures'[f].state = futures[f].state
                /\ futures'[f].uses = futures[f].uses /\ futures'[f].kept = futures[f].kept
             \/ futures'[f].uses = {} /\ futures'[f].kept = {}
             \/ /\ futures[f] = None /\ futures'[f].uses = futures'[f].kept
                /\ AtMostOne(futures'[f].uses)
  BY <1>1 DEF FutureStep
<1>2. ASSUME NEW f \in FutureIds, futures'[f] # None PROVE AtMostOne(MemoryOf(f)')
  BY <1>1, <1>2 DEF OneMemory, MemoryOf, AtMostOne
<1>3. ASSUME NEW t \in Threads, Executing(t)'
      PROVE  /\ AtMostOne(pc'[t].memory)
             /\ \A f \in pc'[t].futures : MemoryOf(f)' \subseteq pc'[t].memory
  <2>1. /\ Executing(t) /\ pc'[t].memory = pc[t].memory /\ pc'[t].futures = pc[t].futures
    BY <1>3 DEF SameExecutions
  <2>2. AtMostOne(pc'[t].memory)
    BY <2>1 DEF OneMemory
  <2>3. ASSUME NEW f \in pc'[t].futures PROVE MemoryOf(f)' \subseteq pc'[t].memory
    <3>1. f \in FutureIds /\ futures[f] # None /\ futures'[f] # None
      BY <1>0, <1>3, <2>1 DEF Owners
    <3>2. MemoryOf(f)' \subseteq MemoryOf(f)
      BY <1>1, <3>1 DEF MemoryOf
    <3> QED BY <2>1, <3>2 DEF OneMemory
  <2> QED BY <2>2, <2>3
<1>4. OneMemory'
  BY <1>0, <1>2, <1>3 DEF OneMemory
<1>5. ASSUME NEW f \in FutureIds, futures'[f] # None, futures'[f].state = "running",
             NEW m \in futures'[f].uses
      PROVE  \/ m \in futures'[f].kept
             \/ \E t \in Threads : Executing(t)' /\ f \in pc'[t].futures /\ m \in pc'[t].memory
  BY <1>1, <1>5 DEF HeldForUse, SameExecutions
<1> QED BY <1>0, <1>4, <1>5 DEF HeldForUse

\* The client stays as it is and a loaded executable is old or well made.
LoadedStep(h) ==
  handles'[h] # None /\ handles'[h].kind = "loaded" =>
    \/ GoodLoaded(handles'[h])
    \/ Is(h, {"loaded"}) /\ handles'[h].devices = handles[h].devices

LEMMA DeviceFrame ==
  ASSUME DeviceTable, UNCHANGED <<work, client>>,
         \A t \in Threads : pc'[t].at = "wrapping" <=> pc[t].at = "wrapping",
         \A h \in HandleIds : LoadedStep(h)
  PROVE  DeviceTable'
<1>0. HandleIds' = HandleIds /\ (Ready' <=> Ready) /\ Wrapped(client)' = Wrapped(client)
  BY DEF HandleIds, Ready, Wrapped
<1>1. ASSUME NEW h \in HandleIds, Is(h, {"loaded"})'
      PROVE  Wrapped(client) /\ \A d \in DOMAIN handles'[h].devices : handles'[h].devices[d] = <<0, d>>
  BY <1>1 DEF DeviceTable, LoadedStep, GoodLoaded, Is
<1>2. TableOf(client)' <=> TableOf(client)
  BY DEF TableOf
<1> QED BY <1>0, <1>1, <1>2 DEF DeviceTable

\* New objects without events disturb nothing.
LEMMA AddNoneStep ==
  ASSUME IInv, AddedNone, UNCHANGED <<work, client, futures, pc>>
  PROVE  IInv'
<1> USE DEF IInv
<1>0. HandleIds' = HandleIds /\ FutureIds' = FutureIds
  BY DEF HandleIds, FutureIds
<1>1. TypeOK'
  BY <1>0 DEF TypeOK, AddedNone
<1>2. \A h \in HandleIds :
        \/ handles'[h] = handles[h]
        \/ handles[h] = None /\ Fresh(handles'[h]) /\ handles'[h].kind # "event"
  BY FreshFacts DEF AddedNone
<1>3. \A h \in HandleIds : Is(h, {"event"})' => Is(h, {"event"}) /\ handles'[h] = handles[h]
  BY <1>2 DEF Is
<1>4. Owners'
  BY <1>0, <1>3 DEF Owners, Executing
<1>5. Statuses'
  BY <1>0, <1>3 DEF Statuses
<1>6. OneMemory' /\ HeldForUse'
  BY <1>0 DEF OneMemory, HeldForUse, MemoryOf, Executing
<1>7. InUse'
  BY <1>0 DEF InUse, AddedNone, Is
<1>8. \A h \in HandleIds : Is(h, {"executable"})' =>
        \/ handles'[h] = handles[h]
        \/ handles'[h].writes = 0 /\ ~handles'[h].published
  BY <1>2, FreshFacts DEF Is
<1>9. CostWritten'
  BY <1>0, <1>8 DEF CostWritten, Is
<1>10. \A h \in HandleIds : LoadedStep(h)
  <2> TAKE h \in HandleIds
  <2>1. CASE handles'[h] = handles[h]
    BY <2>1 DEF LoadedStep, Is
  <2>2. CASE Fresh(handles'[h])
    BY <2>2, FreshFacts DEF LoadedStep
  <2> QED BY <1>2, <2>1, <2>2
<1>11. DeviceTable'
  BY <1>10, DeviceFrame
<1> QED BY <1>1, <1>4, <1>5, <1>6, <1>7, <1>9, <1>11

\* An operation stays, in the same state and with the same memory.
Stays(f) == /\ futures'[f] = None <=> futures[f] = None
            /\ futures[f] # None => /\ futures'[f].state = futures[f].state
                                    /\ futures'[f].uses = futures[f].uses
                                    /\ futures'[f].kept = futures[f].kept

LEMMA EventFacts ==
  ASSUME NEW f
  PROVE  /\ Event(f).kind = "event" /\ Event(f).future = f
         /\ Event(f).status = None /\ Event(f).awaits = 0 /\ Event(f).again = 0
<1> QED BY DEF Event

\* A new operation with its event.
LEMMA AddEventStep ==
  ASSUME IInv, NEW f \in FutureIds, futures[f] = None, Added(f),
         UNCHANGED <<work, client, pc>>,
         futures' \in [FutureIds -> FutureObjects \cup {None}], futures'[f] # None,
         futures'[f].uses = futures'[f].kept, AtMostOne(futures'[f].uses),
         \A g \in FutureIds : g # f => Stays(g)
  PROVE  IInv'
<1> USE DEF IInv
<1>0. HandleIds' = HandleIds /\ FutureIds' = FutureIds
  BY DEF HandleIds, FutureIds
<1>1. TypeOK'
  BY <1>0 DEF TypeOK, Added
<1>2. \A h \in HandleIds :
        \/ handles'[h] = handles[h]
        \/ handles[h] = None /\ Fresh(handles'[h]) /\ handles'[h].kind # "event"
        \/ handles[h] = None /\ handles'[h] = Event(f)
  BY FreshFacts DEF Added
<1>3. \A h \in HandleIds : Is(h, {"event"})' =>
        \/ Is(h, {"event"}) /\ handles'[h] = handles[h] /\ handles[h].future # f
        \/ handles[h] = None /\ handles'[h] = Event(f)
  BY <1>2 DEF Is, Owners
<1>4. \A g, h \in HandleIds :
        Is(g, {"event"})' /\ Is(h, {"event"})' /\ handles'[g].future = handles'[h].future
          => g = h
  <2> TAKE g \in HandleIds, h \in HandleIds
  <2> HAVE Is(g, {"event"})' /\ Is(h, {"event"})' /\ handles'[g].future = handles'[h].future
  <2>1. CASE handles[g] = None /\ handles'[g] = Event(f)
    BY <1>3, <2>1, EventFacts DEF Added
  <2>2. CASE Is(g, {"event"}) /\ handles'[g] = handles[g] /\ handles[g].future # f
    BY <1>3, <2>2, EventFacts DEF Owners
  <2> QED BY <1>3, <2>1, <2>2
<1>5. Owners'
  <2>1. ASSUME NEW h \in HandleIds, Is(h, {"event"})'
        PROVE  /\ handles'[h].future \in FutureIds /\ futures'[handles'[h].future] # None
               /\ \A t \in Threads : Executing(t) => handles'[h].future \notin pc[t].futures
    <3>1. CASE Is(h, {"event"}) /\ handles'[h] = handles[h] /\ handles[h].future # f
      BY <3>1 DEF Owners, Stays
    <3>2. CASE handles'[h] = Event(f)
      BY <3>2, EventFacts DEF Owners
    <3> QED BY <1>3, <2>1, <3>1, <3>2
  <2>2. ASSUME NEW t \in Threads, Executing(t), NEW g \in pc[t].futures
        PROVE  futures'[g] # None
    BY <2>2 DEF Owners, Stays
  <2> QED BY <1>0, <1>4, <2>1, <2>2 DEF Owners, Executing
<1>6. Statuses'
  <2> SUFFICES ASSUME NEW h \in HandleIds, Is(h, {"event"})'
               PROVE  GoodStatus(handles'[h], futures'[handles'[h].future].state)
    BY <1>0 DEF Statuses
  <2>1. CASE Is(h, {"event"}) /\ handles'[h] = handles[h] /\ handles[h].future # f
    BY <2>1 DEF Statuses, Stays, Owners
  <2>2. CASE handles'[h] = Event(f)
    BY <2>2, EventFacts DEF GoodStatus
  <2> QED BY <1>3, <2>1, <2>2
<1>7. OneMemory' /\ HeldForUse'
  <2>1. SameExecutions
    BY DEF SameExecutions, Executing
  <2>2. \A g \in FutureIds : FutureStep(g)
    BY DEF FutureStep, Stays
  <2> QED BY <1>5, <2>1, <2>2, MemoryFrame
<1>8. InUse'
  BY <1>0 DEF InUse, Added, Is
<1>9. \A h \in HandleIds : Is(h, {"executable"})' =>
        \/ handles'[h] = handles[h]
        \/ handles'[h].writes = 0 /\ ~handles'[h].published
  BY <1>2, FreshFacts, EventFacts DEF Is
<1>10. CostWritten'
  BY <1>0, <1>9 DEF CostWritten, Is
<1>11. \A h \in HandleIds : LoadedStep(h)
  <2> TAKE h \in HandleIds
  <2>1. CASE handles'[h] = handles[h]
    BY <2>1 DEF LoadedStep, Is
  <2>2. CASE Fresh(handles'[h])
    BY <2>2, FreshFacts DEF LoadedStep
  <2>3. CASE handles'[h] = Event(f)
    BY <2>3, EventFacts DEF LoadedStep
  <2> QED BY <1>2, <2>1, <2>2, <2>3
<1>12. DeviceTable'
  BY <1>11, DeviceFrame
<1> QED BY <1>1, <1>5, <1>6, <1>7, <1>8, <1>10, <1>12

\* A step that changes one object, to one of its own kind, and the calls that
\* threads are in, but no execution.
LEMMA UpdateStep ==
  ASSUME IInv, NEW h \in HandleIds, NEW o \in HandleObjects, handles[h] # None,
         handles' = [handles EXCEPT ![h] = o], o.kind = handles[h].kind,
         UNCHANGED <<work, client, futures>>, InUse', pc' \in [Threads -> CallStates],
         SameExecutions,
         \A t \in Threads : pc'[t].at = "wrapping" <=> pc[t].at = "wrapping",
         o.kind = "loaded" => o.devices = handles[h].devices,
         o.kind = "executable" => (o.published => o.writes > 0) /\ (o.writes > 0 => o.ran),
         o.kind = "event" =>
           o.future = handles[h].future /\ GoodStatus(o, futures[o.future].state)
  PROVE  IInv'
<1> USE DEF IInv
<1>0. HandleIds' = HandleIds /\ FutureIds' = FutureIds
  BY DEF HandleIds, FutureIds
<1>1. handles'[h] = o /\ \A g \in HandleIds : g # h => handles'[g] = handles[g]
  BY DEF TypeOK
<1>2. TypeOK'
  BY <1>0 DEF TypeOK
<1>3. \A g \in HandleIds : \A k : Is(g, k)' <=> Is(g, k)
  BY <1>1, KindFacts DEF Is
<1>4. \A g \in HandleIds : Is(g, {"event"}) => handles'[g].future = handles[g].future
  BY <1>1 DEF Is
<1>5. Owners'
  BY <1>0, <1>3, <1>4 DEF Owners, SameExecutions
<1>6. Statuses'
  BY <1>0, <1>1, <1>3, <1>4 DEF Statuses, Is
<1>7. OneMemory' /\ HeldForUse'
  <2>1. \A g \in FutureIds : FutureStep(g)
    BY DEF FutureStep
  <2> QED BY <1>5, <2>1, MemoryFrame
<1>8. CostWritten'
  BY <1>0, <1>1, <1>3 DEF CostWritten, Is
<1>9. \A g \in HandleIds : LoadedStep(g)
  BY <1>1, <1>3 DEF LoadedStep, Is
<1>10. DeviceTable'
  BY <1>9, DeviceFrame
<1> QED BY <1>2, <1>5, <1>6, <1>7, <1>8, <1>10

-----------------------------------------------------------------------------
(* The calls that create objects.                                          *)

LEMMA ClientFacts ==
  ASSUME TypeOK, DeviceTable, client # None
  PROVE  /\ client \in ClientObjects /\ TableOf(client) /\ Len(client.owned) \in Nat
         /\ DOMAIN client.addressable \subseteq Nat
         /\ \A d \in 1 .. Len(client.owned) : Deref(<<0, d>>) = d
<1>1. client \in ClientObjects /\ TableOf(client)
  BY DEF TypeOK, DeviceTable
<1>2. client.owned \in Seq(CppDevices) /\ client.addressable \in Seq(Pointers)
  BY <1>1 DEF ClientObjects
<1>3. Len(client.owned) \in Nat /\ DOMAIN client.addressable \subseteq Nat
  BY <1>2
<1>4. \A d \in 1 .. Len(client.owned) : Deref(<<0, d>>) = d
  BY <1>1 DEF Deref, TableOf
<1> QED BY <1>1, <1>3, <1>4

\* PopulatePjrtExecutableAddressableDevices finds the pointer of each device.
LEMMA FindDeviceFacts ==
  ASSUME TypeOK, DeviceTable, Wrapped(client), NEW d \in Addressable
  PROVE  FindDeviceWrapper(d) = <<0, d>>
<1> DEFINE at == {i \in DOMAIN client.addressable : Deref(client.addressable[i]) = d}
<1>0. client # None /\ d \in 1 .. Len(client.owned)
  BY PjrtAssumption DEF Wrapped, CppDevices
<1>1. /\ \A i \in DOMAIN client.addressable :
           \E e \in 1 .. Len(client.owned) : client.addressable[i] = <<0, e>>
      /\ \E i \in DOMAIN client.addressable : client.addressable[i] = <<0, d>>
  BY <1>0, ClientFacts DEF TableOf
<1>2. at # {}
  BY <1>0, <1>1, ClientFacts
<1>3. \A i \in at : client.addressable[i] = <<0, d>>
  BY <1>0, <1>1, ClientFacts
<1>4. Min(at) \in at
  BY <1>0, <1>2, ClientFacts, MinExists
<1> QED BY <1>2, <1>3, <1>4 DEF FindDeviceWrapper

LEMMA LoadedFresh ==
  ASSUME TypeOK, DeviceTable, Wrapped(client), CanCompile, NEW devs \in SUBSET Addressable
  PROVE  Fresh([kind |-> "loaded", exe |-> NewExe, deleted |-> FALSE,
                devices |-> [d \in devs |-> FindDeviceWrapper(d)]])
<1> DEFINE ds == [d \in devs |-> FindDeviceWrapper(d)]
           o  == [kind |-> "loaded", exe |-> NewExe, deleted |-> FALSE, devices |-> ds]
<1>1. \A d \in devs : ds[d] = <<0, d>>
  BY FindDeviceFacts
<1>2. \A d \in devs : <<0, d>> \in Pointers
  BY PjrtAssumption DEF Pointers, CppDevices
<1>3. ds \in [devs -> Pointers]
  BY <1>1, <1>2
<1>4. ds \in UNION {[S -> Pointers] : S \in SUBSET Addressable}
  BY <1>3
<1>5. o \in LoadedObjects
  BY <1>4, NewExeFacts DEF LoadedObjects
<1>6. GoodLoaded(o)
  BY <1>1, <1>5 DEF GoodLoaded
<1> QED BY <1>6 DEF Fresh

LEMMA ReadyFacts ==
  ASSUME IInv, NEW t, NEW name, Call(t, name)
  PROVE  Wrapped(client)
<1> QED BY DEF IInv, DeviceTable, Call

LEMMA NewNoneActions ==
  ASSUME IInv, NEW t \in Threads,
         \/ Compile(t) \/ CompileForTopology(t)
         \/ \E h \in HandleIds : \/ DeserializeAndLoad(t, h) \/ Serialize(t, h)
                                 \/ GetExecutable(t, h) \/ CopyToDevice(t, h)
  PROVE  IInv'
<1>1. UNCHANGED <<work, client, futures, pc>>
  BY DEF Compile, CompileForTopology, DeserializeAndLoad, Serialize, GetExecutable,
         CopyToDevice, Same
<1>2. TypeOK /\ DeviceTable
  BY DEF IInv
<1>3. CASE Compile(t) \/ \E h \in HandleIds : DeserializeAndLoad(t, h)
  <2>1. CanCompile /\ Wrapped(client)
    BY <1>3, ReadyFacts DEF Compile, DeserializeAndLoad
  <2>2. PICK devs \in SUBSET Addressable :
          New(<<[kind |-> "loaded", exe |-> NewExe, deleted |-> FALSE,
                 devices |-> [d \in devs |-> FindDeviceWrapper(d)]]>>)
    BY <1>3 DEF Compile, DeserializeAndLoad
  <2> QED BY <1>1, <1>2, <2>1, <2>2, LoadedFresh, NewNone, AddNoneStep
<1>4. CASE CompileForTopology(t)
  <2>1. Fresh(Executable(NewExe)) /\ New(<<Executable(NewExe)>>)
    BY <1>2, <1>4, NewExeFacts DEF CompileForTopology, Fresh
  <2> QED BY <1>1, <1>2, <2>1, NewNone, AddNoneStep
<1>5. ASSUME NEW h \in HandleIds, GetExecutable(t, h) PROVE IInv'
  <2>1. handles[h].exe \in Nat
    BY <1>2, <1>5, IsFacts DEF GetExecutable, LoadedObjects
  <2>2. Fresh(Executable(handles[h].exe)) /\ New(<<Executable(handles[h].exe)>>)
    BY <1>5, <2>1 DEF GetExecutable, Fresh
  <2> QED BY <1>1, <1>2, <2>2, NewNone, AddNoneStep
<1>6. ASSUME NEW h \in HandleIds, Serialize(t, h) PROVE IInv'
  <2>1. Fresh([kind |-> "serialized"]) /\ New(<<[kind |-> "serialized"]>>)
    BY <1>6, NewObjects DEF Serialize, Fresh
  <2> QED BY <1>1, <1>2, <2>1, NewNone, AddNoneStep
<1>7. ASSUME NEW h \in HandleIds, CopyToDevice(t, h) PROVE IInv'
  <2>1. Fresh(Buffer) /\ New(<<Buffer>>)
    BY <1>7, NewObjects DEF CopyToDevice, Fresh
  <2> QED BY <1>1, <1>2, <2>1, NewNone, AddNoneStep
<1> QED BY <1>3, <1>4, <1>5, <1>6, <1>7

LEMMA RunningFacts ==
  ASSUME NEW m \in SUBSET Nat, NEW k \in SUBSET Nat, NEW lists \in SUBSET {"send", "recv"}
  PROVE  /\ Running(m, k, lists) \in FutureObjects /\ Running(m, k, lists) # None
         /\ Running(m, k, lists).uses = m /\ Running(m, k, lists).kept = k
         /\ Running(m, k, lists).state = "running"
<1>1. Running(m, k, lists) \in FutureObjects
  BY DEF Running, FutureObjects
<1> QED BY <1>1, NoneAssumption DEF Running

LEMMA NewEventActions ==
  ASSUME IInv, NEW t \in Threads,
         \/ BufferFromHostBuffer(t)
         \/ \E h \in HandleIds : ToHostBuffer(t, h) \/ ReadyEvent(t, h)
  PROVE  IInv'
<1>1. UNCHANGED <<work, client, pc>> /\ FreeFutures # {} /\ TypeOK /\ OneMemory
  BY DEF BufferFromHostBuffer, ToHostBuffer, ReadyEvent, Same, IInv
<1>2. PICK f \in FutureIds : f = NextFuture /\ f \in Nat /\ futures[f] = None
  BY <1>1, NextFutureFacts
<1>3. New(<<Event(f)>>) \/ New(<<Buffer, Event(f)>>)
  BY <1>2 DEF BufferFromHostBuffer, ToHostBuffer, ReadyEvent
<1>4. Added(f)
  BY <1>1, <1>2, <1>3, NewEvent
<1>5. PICK m \in SUBSET Nat : AtMostOne(m) /\ futures' = [futures EXCEPT ![f] = Running(m, m, {})]
  <2>1. CASE BufferFromHostBuffer(t) \/ \E h \in HandleIds : ReadyEvent(t, h)
    BY <1>2, <2>1 DEF BufferFromHostBuffer, ReadyEvent, AtMostOne
  <2>2. CASE \E h \in HandleIds : ToHostBuffer(t, h)
    <3>1. {FreshMemory} \in SUBSET Nat /\ AtMostOne({FreshMemory})
      BY <1>1, FreshMemoryFacts DEF AtMostOne
    <3> QED BY <1>2, <2>2, <3>1 DEF ToHostBuffer
  <2> QED BY <2>1, <2>2
<1>6. /\ futures' \in [FutureIds -> FutureObjects \cup {None}] /\ futures'[f] # None
      /\ futures'[f].uses = m /\ futures'[f].kept = m
      /\ \A g \in FutureIds : g # f => futures'[g] = futures[g]
  BY <1>1, <1>5, RunningFacts DEF TypeOK
<1>7. \A g \in FutureIds : g # f => Stays(g)
  BY <1>6 DEF Stays
<1> QED BY <1>1, <1>2, <1>4, <1>5, <1>6, <1>7, AddEventStep

LEMMA RecvCallbackStep ==
  ASSUME IInv, NEW e \in FutureIds, RecvCallback(e)
  PROVE  IInv'
<1>1. UNCHANGED <<work, client, pc>> /\ FreeFutures # {} /\ TypeOK
  BY DEF RecvCallback, Same, IInv
<1>2. PICK f \in FutureIds : f = NextFuture /\ f \in Nat /\ futures[f] = None
  BY <1>1, NextFutureFacts
<1>3. Added(f)
  BY <1>1, <1>2, NewEvent DEF RecvCallback
<1>4. futures[e] \in FutureObjects /\ e # f
  BY <1>1, <1>2 DEF RecvCallback, TypeOK
<1>5. futures' = [futures EXCEPT ![e].lists = @ \ {"recv"}, ![f] = Running({}, {}, {})]
  BY <1>2 DEF RecvCallback
<1>6. /\ futures'[f] = Running({}, {}, {})
      /\ futures'[e] = [futures[e] EXCEPT !.lists = @ \ {"recv"}]
      /\ \A g \in FutureIds : g # f /\ g # e => futures'[g] = futures[g]
  BY <1>1, <1>4, <1>5 DEF TypeOK
<1>7. futures'[e] \in FutureObjects /\ Stays(e)
  <2>1. futures'[e] \in FutureObjects
    BY <1>4, <1>6 DEF FutureObjects
  <2>2. futures'[e] # None /\ futures[e] # None
    BY <1>4, <2>1, NoneAssumption
  <2>3. /\ futures'[e].state = futures[e].state /\ futures'[e].uses = futures[e].uses
        /\ futures'[e].kept = futures[e].kept
    BY <1>4, <1>6 DEF FutureObjects
  <2> QED BY <2>1, <2>2, <2>3 DEF Stays
<1>8. futures'[f] \in FutureObjects /\ futures'[f] # None
      /\ futures'[f].uses = {} /\ futures'[f].kept = {}
  BY <1>6, RunningFacts
<1>9. futures' \in [FutureIds -> FutureObjects \cup {None}]
  <2>1. DOMAIN futures' = FutureIds /\ futures' = [g \in DOMAIN futures' |-> futures'[g]]
    BY <1>1, <1>5 DEF TypeOK
  <2>2. \A g \in FutureIds : futures'[g] \in FutureObjects \cup {None}
    BY <1>1, <1>6, <1>7, <1>8 DEF TypeOK
  <2> QED BY <2>1, <2>2
<1>10. \A g \in FutureIds : g # f => Stays(g)
  BY <1>6, <1>7 DEF Stays
<1>11. AtMostOne(futures'[f].uses)
  BY <1>8 DEF AtMostOne
<1> QED BY <1>1, <1>2, <1>3, <1>8, <1>9, <1>10, <1>11, AddEventStep

-----------------------------------------------------------------------------
(* The calls that change an object.                                        *)

LEMMA CallFacts ==
  ASSUME TypeOK, NEW t \in Threads
  PROVE  /\ pc[t].at \in {"idle", "wrapping", "cost", "await", "executing"}
         /\ pc[t].at \in {"cost", "await"} => Used(pc[t].handle) /\ pc[t].handle \in Nat
         /\ Executing(t) => /\ pc[t].memory \in SUBSET Nat /\ pc[t].futures \in SUBSET Nat
                            /\ pc[t].wanted \in BOOLEAN
         /\ Idle.at = "idle" /\ Idle \in CallStates
<1>1. pc[t] \in CallStates
  BY DEF TypeOK
<1>2. CASE pc[t] \in {Idle} \cup [at : {"wrapping"}]
  BY <1>2 DEF Idle, Executing, CallStates
<1>3. CASE pc[t] \in [at : {"cost", "await"}, handle : Nat]
  <2>1. pc[t].at # "idle" /\ "handle" \in DOMAIN pc[t]
    BY <1>3
  <2> QED BY <1>3, <2>1 DEF Used, Executing, Idle, CallStates
<1>4. CASE pc[t] \in [at : {"executing"}, handle : Nat, memory : SUBSET Nat,
                      wanted : BOOLEAN, futures : SUBSET Nat]
  BY <1>4 DEF Executing, Idle, CallStates
<1> QED BY <1>1, <1>2, <1>3, <1>4 DEF CallStates

LEMMA SamePc ==
  ASSUME TypeOK, pc' = pc
  PROVE  /\ pc' \in [Threads -> CallStates] /\ SameExecutions
         /\ \A t \in Threads : pc'[t].at = "wrapping" <=> pc[t].at = "wrapping"
<1> QED BY DEF TypeOK, SameExecutions, Executing

LEMMA DeleteStep ==
  ASSUME IInv, NEW t \in Threads, NEW h \in HandleIds,
         LoadedExecutableDelete(t, h) \/ BufferDelete(t, h)
  PROVE  IInv'
<1> USE DEF IInv
<1>1. /\ UNCHANGED <<work, client, futures, pc>>
      /\ handles' = [handles EXCEPT ![h].deleted = TRUE]
      /\ Is(h, {"loaded"}) \/ Is(h, {"buffer"})
  BY DEF LoadedExecutableDelete, BufferDelete, Same
<1>2. PICK o : o = [handles[h] EXCEPT !.deleted = TRUE]
  OBVIOUS
<1>3. handles' = [handles EXCEPT ![h] = o] /\ handles[h] # None
  BY <1>1, <1>2 DEF Is
<1>4. CASE Is(h, {"loaded"})
  <2>1. handles[h] \in LoadedObjects
    BY <1>4, IsFacts
  <2>2. o \in LoadedObjects /\ o.devices = handles[h].devices
    BY <1>2, <2>1 DEF LoadedObjects
  <2>3. o \in HandleObjects /\ o.kind = "loaded" /\ handles[h].kind = "loaded"
    BY <2>1, <2>2 DEF HandleObjects, LoadedObjects
  <2>4. InUse'
    <3>1. \A g \in HandleIds : ~Is(g, {"loaded"}) => handles'[g] = handles[g]
      BY <1>3, <1>4 DEF TypeOK
    <3> QED BY <1>1, <3>1 DEF InUse, Is, HandleIds
  <2> QED BY <1>1, <1>3, <2>2, <2>3, <2>4, SamePc, UpdateStep
<1>5. CASE Is(h, {"buffer"})
  <2>1. handles[h] \in BufferObjects
    BY <1>5, IsFacts
  <2>2. o \in BufferObjects
    BY <1>2, <2>1 DEF BufferObjects
  <2>3. o \in HandleObjects /\ o.kind = "buffer" /\ handles[h].kind = "buffer"
    BY <2>1, <2>2 DEF HandleObjects, BufferObjects
  <2>4. InUse'
    <3>1. \A g \in HandleIds : ~Is(g, {"buffer"}) => handles'[g] = handles[g]
      BY <1>3, <1>5 DEF TypeOK
    <3> QED BY <1>1, <3>1 DEF InUse, Is, HandleIds
  <2> QED BY <1>1, <1>3, <2>3, <2>4, SamePc, UpdateStep
<1> QED BY <1>1, <1>4, <1>5

\* A thread that waits for nothing leaves or enters a call that is no execution.
LEMMA PcStep ==
  ASSUME TypeOK, NEW t \in Threads, NEW c \in CallStates, pc' = [pc EXCEPT ![t] = c],
         pc[t].at \in {"idle", "cost", "await"}, c.at \in {"idle", "cost", "await"}
  PROVE  /\ pc' \in [Threads -> CallStates] /\ SameExecutions
         /\ \A u \in Threads : pc'[u].at = "wrapping" <=> pc[u].at = "wrapping"
         /\ pc'[t] = c /\ \A u \in Threads : u # t => pc'[u] = pc[u]
<1>1. pc'[t] = c /\ \A u \in Threads : u # t => pc'[u] = pc[u]
  BY DEF TypeOK
<1> QED BY <1>1 DEF TypeOK, SameExecutions, Executing

LEMMA ExecutableUpdate ==
  ASSUME IInv, NEW t \in Threads, NEW h \in HandleIds, NEW o \in ExecutableObjects,
         NEW c \in CallStates, Is(h, {"executable"}),
         handles' = [handles EXCEPT ![h] = o], pc' = [pc EXCEPT ![t] = c],
         UNCHANGED <<work, client, futures>>,
         pc[t].at \in {"idle", "cost"}, c.at = "idle" \/ (c.at = "cost" /\ c.handle = h),
         (o.published => o.writes > 0) /\ (o.writes > 0 => o.ran)
  PROVE  IInv'
<1> USE DEF IInv
<1>1. handles[h] \in ExecutableObjects /\ handles[h] # None
  BY IsFacts DEF Is
<1>2. o \in HandleObjects /\ o.kind = "executable" /\ handles[h].kind = "executable"
  BY <1>1 DEF HandleObjects, ExecutableObjects
<1>3. /\ pc' \in [Threads -> CallStates] /\ SameExecutions
      /\ \A u \in Threads : pc'[u].at = "wrapping" <=> pc[u].at = "wrapping"
      /\ pc'[t] = c /\ \A u \in Threads : u # t => pc'[u] = pc[u]
  BY PcStep
<1>4. InUse'
  <2>1. \A g \in HandleIds : ~Is(g, {"executable"}) => handles'[g] = handles[g]
    BY DEF TypeOK
  <2>2. \A g \in HandleIds : Is(g, {"executable"}) =>
          handles'[g] # None /\ handles'[g].kind = "executable"
    BY <1>2, NoneAssumption DEF TypeOK, Is, HandleObjects
  <2>3. \A g \in HandleIds : Is(g, {"event"}) => Is(g, {"event"})' /\ handles'[g] = handles[g]
    BY <2>1 DEF Is
  <2>4. HandleIds' = HandleIds
    BY DEF HandleIds
  <2>5. ASSUME NEW u \in Threads, pc'[u].at = "cost"
        PROVE  /\ pc'[u].handle \in HandleIds /\ handles'[pc'[u].handle] # None
               /\ handles'[pc'[u].handle].kind = "executable"
    <3>1. pc'[u].handle \in HandleIds /\ Is(pc'[u].handle, {"executable"})
      <4>1. CASE u = t
        BY <1>3, <2>5, <4>1
      <4>2. CASE u # t
        BY <1>3, <2>5, <4>2 DEF InUse
      <4> QED BY <4>1, <4>2
    <3> QED BY <2>2, <3>1
  <2>6. ASSUME NEW u \in Threads, pc'[u].at = "await" PROVE u # t /\ pc'[u] = pc[u]
    BY <1>3, <2>6
  <2> QED BY <2>3, <2>4, <2>5, <2>6 DEF InUse, Is
<1> QED BY <1>1, <1>2, <1>3, <1>4, UpdateStep

LEMMA CostStep ==
  ASSUME IInv, NEW t \in Threads,
         (\E h \in HandleIds : PopulateCostAnalysis(t, h)) \/ ReturnCostAnalysis(t)
  PROVE  IInv'
<1> USE DEF IInv
<1>1. ASSUME NEW h \in HandleIds, PopulateCostAnalysis(t, h) PROVE IInv'
  <2>1. /\ UNCHANGED <<work, client, futures>> /\ Is(h, {"executable"}) /\ pc[t] = Idle
        /\ pc' = [pc EXCEPT ![t] = [at |-> "cost", handle |-> h]]
    BY <1>1 DEF PopulateCostAnalysis, Same, Call
  <2>2. PICK found \in {0, 1} : handles' = [handles EXCEPT ![h] = Populated(handles[h], found)]
    BY <1>1 DEF PopulateCostAnalysis
  <2>3. PICK o : o = Populated(handles[h], found)
    OBVIOUS
  <2>4. handles[h] \in ExecutableObjects
    BY <2>1, IsFacts
  <2>5. /\ handles[h].published => handles[h].writes > 0
        /\ handles[h].writes > 0 => handles[h].ran
    BY <2>1 DEF CostWritten
  <2>6. o \in ExecutableObjects /\ (o.published => o.writes > 0) /\ (o.writes > 0 => o.ran)
    <3>1. CASE handles[h].ran
      BY <2>3, <2>4, <2>5, <3>1 DEF Populated
    <3>2. CASE ~handles[h].ran
      <4>1. o = [handles[h] EXCEPT !.ran = TRUE, !.writes = @ + found]
        BY <2>3, <3>2 DEF Populated
      <4>2. handles[h].writes + found \in Nat /\ handles[h].writes \in Nat
        BY <2>4 DEF ExecutableObjects
      <4>3. ~handles[h].published
        BY <2>5, <3>2
      <4> QED BY <2>4, <4>1, <4>2, <4>3 DEF ExecutableObjects
    <3> QED BY <3>1, <3>2
  <2>7. PICK c : c = [at |-> "cost", handle |-> h]
    OBVIOUS
  <2>8. c \in CallStates /\ c.at = "cost" /\ c.handle = h /\ pc[t].at = "idle"
    BY <2>1, <2>7, IdFacts, CallFacts DEF CallStates
  <2> QED BY <2>1, <2>2, <2>3, <2>6, <2>7, <2>8, ExecutableUpdate
<1>2. CASE ReturnCostAnalysis(t)
  <2>1. /\ UNCHANGED <<work, client, futures>> /\ pc[t].at = "cost"
        /\ pc' = [pc EXCEPT ![t] = Idle]
    BY <1>2 DEF ReturnCostAnalysis, Same
  <2>2. PICK h \in HandleIds : h = pc[t].handle /\ Is(h, {"executable"})
    BY <2>1 DEF InUse
  <2>3. PICK o : o = [handles[h] EXCEPT !.published = handles[h].writes > 0]
    OBVIOUS
  <2>4. handles' = [handles EXCEPT ![h] = o]
    BY <1>2, <2>2, <2>3 DEF ReturnCostAnalysis
  <2>5. handles[h] \in ExecutableObjects
    BY <2>2, IsFacts
  <2>6. handles[h].writes > 0 => handles[h].ran
    BY <2>2 DEF CostWritten
  <2>7. /\ o \in ExecutableObjects /\ o.writes = handles[h].writes /\ o.ran = handles[h].ran
        /\ o.published => handles[h].writes > 0
    <3>1. CASE handles[h].writes > 0
      <4>1. o = [handles[h] EXCEPT !.published = TRUE]
        BY <2>3, <3>1, Zenon
      <4> QED BY <2>5, <3>1, <4>1 DEF ExecutableObjects
    <3>2. CASE ~(handles[h].writes > 0)
      <4>1. (handles[h].writes > 0) = FALSE
        BY <3>2
      <4>2. o = [handles[h] EXCEPT !.published = FALSE]
        BY <2>3, <4>1, Zenon
      <4> QED BY <2>5, <4>2 DEF ExecutableObjects
    <3> QED BY <3>1, <3>2
  <2>8. Idle \in CallStates /\ Idle.at = "idle"
    BY CallFacts
  <2> QED BY <2>1, <2>2, <2>4, <2>6, <2>7, <2>8, ExecutableUpdate
<1> QED BY <1>1, <1>2

\* An event that nobody waits for any more gets a status.
LEMMA EventUpdate ==
  ASSUME IInv, NEW h \in HandleIds, NEW o \in EventObjects, Is(h, {"event"}),
         handles' = [handles EXCEPT ![h] = o], UNCHANGED <<work, client, futures>>,
         pc' \in [Threads -> CallStates], SameExecutions,
         \A u \in Threads : pc'[u].at = "wrapping" <=> pc[u].at = "wrapping",
         \A u \in Threads : pc'[u] = pc[u] \/ pc'[u] = Idle,
         \A u \in Threads : pc'[u].at = "await" => pc'[u].handle # h,
         o.future = handles[h].future,
         GoodStatus(o, futures[o.future].state)
  PROVE  IInv'
<1> USE DEF IInv
<1>1. handles[h] \in EventObjects /\ handles[h] # None
  BY IsFacts DEF Is
<1>2. o \in HandleObjects /\ o.kind = "event" /\ handles[h].kind = "event"
  BY <1>1 DEF HandleObjects, EventObjects
<1>3. InUse'
  <2>1. \A g \in HandleIds : g # h => handles'[g] = handles[g]
    BY DEF TypeOK
  <2>2. \A g \in HandleIds : Is(g, {"executable"}) => g # h
    BY <1>2 DEF Is
  <2>3. HandleIds' = HandleIds
    BY DEF HandleIds
  <2>4. ASSUME NEW u \in Threads, pc'[u].at \in {"cost", "await"} PROVE pc'[u] = pc[u]
    BY <2>4 DEF Idle
  <2>5. ASSUME NEW u \in Threads, pc'[u].at = "cost"
        PROVE  /\ pc'[u].handle \in HandleIds /\ handles'[pc'[u].handle] # None
               /\ handles'[pc'[u].handle].kind = "executable"
    <3>1. pc'[u].handle \in HandleIds /\ Is(pc'[u].handle, {"executable"})
      BY <2>4, <2>5 DEF InUse
    <3> QED BY <2>1, <2>2, <3>1 DEF Is
  <2>6. ASSUME NEW u \in Threads, pc'[u].at = "await"
        PROVE  /\ pc'[u].handle \in HandleIds /\ handles'[pc'[u].handle] # None
               /\ handles'[pc'[u].handle].kind = "event"
    <3>1. pc'[u].handle \in HandleIds /\ Is(pc'[u].handle, {"event"})
      BY <2>4, <2>6 DEF InUse
    <3> QED BY <2>1, <2>6, <3>1 DEF Is
  <2> QED BY <2>3, <2>4, <2>5, <2>6 DEF InUse, Is
<1> QED BY <1>1, <1>2, <1>3, UpdateStep

\* status.emplace(future.Await()), which the caller asked for again unless it is
\* the first query.
LEMMA AwaitedFacts ==
  ASSUME IInv, NEW h \in HandleIds, Is(h, {"event"}), NEW result \in Queried(handles[h]),
         FutureReady(handles[h].future), NEW o,
         o = Awaited(handles[h], result, Repeated(handles[h]))
  PROVE  /\ o \in EventObjects /\ o.future = handles[h].future
         /\ GoodStatus(o, futures[o.future].state)
<1>1. handles[h] \in EventObjects /\ GoodStatus(handles[h], futures[handles[h].future].state)
  BY IsFacts DEF IInv, Statuses
<1>2. result \in {"ok", "error"}
  BY DEF Queried, FutureReady, Over
<1>3. PICK n \in Nat : n = Repeated(handles[h])
  BY DEF Repeated
<1>4. PICK a \in Nat, b \in Nat : a = handles[h].awaits + 1 /\ b = handles[h].again + n
  BY <1>1 DEF EventObjects
<1>5. o = [handles[h] EXCEPT !.status = result, !.awaits = a, !.again = b]
  BY <1>3, <1>4 DEF Awaited
<1>6. /\ o \in EventObjects /\ o.future = handles[h].future /\ o.status = result
      /\ o.awaits = a /\ o.again = b
  BY <1>1, <1>2, <1>5 DEF EventObjects
<1>7. GoodStatus(o, futures[o.future].state)
  <2>1. CASE handles[h].awaits = 0
    <3>1. handles[h].again = 0 /\ n = 0
      BY <1>1, <1>3, <2>1 DEF GoodStatus, Repeated, EventObjects
    <3> QED BY <1>2, <1>4, <1>6, <2>1, <3>1 DEF GoodStatus, Queried
  <2>2. CASE handles[h].awaits # 0
    <3>1. handles[h].awaits = handles[h].again + 1 /\ n = 1
      BY <1>1, <1>3, <2>2 DEF GoodStatus, Repeated, EventObjects
    <3>2. o.awaits = o.again + 1 /\ o.again # 0
      BY <1>1, <1>4, <1>6, <3>1 DEF EventObjects
    <3> QED BY <1>2, <1>6, <3>2 DEF GoodStatus
  <2> QED BY <2>1, <2>2
<1> QED BY <1>6, <1>7

LEMMA StatusActions ==
  ASSUME IInv, NEW t \in Threads, (\E h \in HandleIds : Error(t, h)) \/ AwaitReturns(t)
  PROVE  IInv'
<1> USE DEF IInv
<1>1. ASSUME NEW h \in HandleIds, Error(t, h) PROVE IInv'
  <2>1. /\ UNCHANGED <<work, client, futures, pc>> /\ Is(h, {"event"}) /\ ~Used(h)
        /\ FutureReady(handles[h].future)
    BY <1>1 DEF Error, Same
  <2>2. PICK result \in Queried(handles[h]) :
          handles' = [handles EXCEPT ![h] = IF HasStatus(handles[h]) THEN handles[h]
                                            ELSE Awaited(handles[h], result, 0)]
    BY <1>1 DEF Error
  <2>3. PICK o : o = IF HasStatus(handles[h]) THEN handles[h] ELSE Awaited(handles[h], result, 0)
    OBVIOUS
  <2>4. \A u \in Threads : pc'[u].at = "await" => pc'[u].handle # h
    BY <2>1, CallFacts
  <2>5. /\ handles[h] \in EventObjects
        /\ GoodStatus(handles[h], futures[handles[h].future].state)
    BY <2>1, IsFacts DEF Statuses
  <2>6. /\ o \in EventObjects /\ o.future = handles[h].future
        /\ GoodStatus(o, futures[o.future].state)
    <3>1. CASE HasStatus(handles[h])
      BY <2>3, <2>5, <3>1
    <3>2. CASE ~HasStatus(handles[h])
      <4>1. Repeated(handles[h]) = 0
        BY <2>5, <3>2, NoneAssumption DEF HasStatus, GoodStatus, Repeated
      <4> QED BY <2>1, <2>3, <3>2, <4>1, AwaitedFacts
    <3> QED BY <3>1, <3>2
  <2> QED BY <2>1, <2>2, <2>3, <2>4, <2>6, SamePc, EventUpdate
<1>2. CASE AwaitReturns(t)
  <2>1. /\ UNCHANGED <<work, client, futures>> /\ pc[t].at = "await"
        /\ pc' = [pc EXCEPT ![t] = Idle]
    BY <1>2 DEF AwaitReturns, Same
  <2>2. PICK h \in HandleIds : h = pc[t].handle /\ Is(h, {"event"})
    BY <2>1 DEF InUse
  <2>3. PICK result \in Queried(handles[h]) :
          handles' = [handles EXCEPT ![h] = Awaited(handles[h], result, Repeated(handles[h]))]
    BY <1>2, <2>2 DEF AwaitReturns
  <2>4. PICK o : o = Awaited(handles[h], result, Repeated(handles[h]))
    OBVIOUS
  <2>5. handles' = [handles EXCEPT ![h] = o] /\ FutureReady(handles[h].future)
    BY <1>2, <2>2, <2>3, <2>4 DEF AwaitReturns
  <2>6. /\ o \in EventObjects /\ o.future = handles[h].future
        /\ GoodStatus(o, futures[o.future].state)
    BY <2>2, <2>4, <2>5, AwaitedFacts
  <2>7. Idle \in CallStates /\ Idle.at = "idle"
    BY CallFacts
  <2>8. /\ pc' \in [Threads -> CallStates] /\ SameExecutions
        /\ \A u \in Threads : pc'[u].at = "wrapping" <=> pc[u].at = "wrapping"
        /\ pc'[t] = Idle /\ \A u \in Threads : u # t => pc'[u] = pc[u]
    BY <2>1, <2>7, PcStep
  <2>9. \A u \in Threads : pc'[u].at = "await" => pc'[u].handle # h
    BY <2>1, <2>2, <2>7, <2>8 DEF InUse
  <2>10. \A u \in Threads : pc'[u] = pc[u] \/ pc'[u] = Idle
    BY <2>8
  <2> QED BY <2>1, <2>2, <2>5, <2>6, <2>8, <2>9, <2>10, EventUpdate
<1> QED BY <1>1, <1>2

\* PJRT_Event_Await blocks.
LEMMA AwaitStep ==
  ASSUME IInv, NEW t \in Threads, NEW h \in HandleIds, Await(t, h)
  PROVE  IInv'
<1> USE DEF IInv
<1>1. /\ UNCHANGED <<work, client, handles, futures>> /\ pc[t] = Idle
      /\ Is(h, {"event"}) /\ ~Used(h)
      /\ pc' = [pc EXCEPT ![t] = [at |-> "await", handle |-> h]]
  BY DEF Await, Same, Call
<1>2. PICK c : c = [at |-> "await", handle |-> h]
  OBVIOUS
<1>3. c \in CallStates /\ c.at = "await" /\ c.handle = h /\ pc[t].at = "idle"
  BY <1>1, <1>2, IdFacts, CallFacts DEF CallStates
<1>4. /\ pc' \in [Threads -> CallStates] /\ SameExecutions
      /\ \A u \in Threads : pc'[u].at = "wrapping" <=> pc[u].at = "wrapping"
      /\ pc'[t] = c /\ \A u \in Threads : u # t => pc'[u] = pc[u]
  BY <1>1, <1>2, <1>3, PcStep
<1>5. \A u \in Threads : pc[u].at = "await" => pc[u].handle # h
  BY <1>1, CallFacts
<1>6. InUse'
  <2>1. HandleIds' = HandleIds
    BY <1>1 DEF HandleIds
  <2>2. \A u \in Threads : u # t => pc'[u] = pc[u]
    BY <1>4
  <2>3. pc'[t].at = "await" /\ pc'[t].handle = h
    BY <1>3, <1>4
  <2>4. \A u \in Threads :
          /\ pc'[u].at = "cost" => pc'[u].handle \in HandleIds /\ Is(pc'[u].handle, {"executable"})
          /\ pc'[u].at = "await" =>
               pc'[u].handle \in HandleIds /\ Is(pc'[u].handle, {"event"})
    BY <1>1, <2>2, <2>3 DEF InUse
  <2>5. \A u, v \in Threads : pc'[u].at = "await" /\ pc'[v].at = "await"
                              /\ pc'[u].handle = pc'[v].handle => u = v
    BY <1>5, <2>2, <2>3 DEF InUse
  <2> QED BY <1>1, <2>1, <2>4, <2>5 DEF InUse, Is
<1>7. TypeOK'
  BY <1>1, <1>4 DEF TypeOK, HandleIds, FutureIds
<1>8. Owners' /\ Statuses' /\ CostWritten'
  <2>1. HandleIds' = HandleIds /\ FutureIds' = FutureIds
    BY <1>1 DEF HandleIds, FutureIds
  <2>2. Owners'
    BY <1>1, <1>4, <2>1 DEF Owners, SameExecutions, Is
  <2> QED BY <1>1, <2>1, <2>2 DEF Statuses, CostWritten, Is
<1>9. OneMemory' /\ HeldForUse'
  <2>1. \A g \in FutureIds : FutureStep(g)
    BY <1>1 DEF FutureStep
  <2> QED BY <1>1, <1>4, <1>8, <2>1, MemoryFrame
<1>10. DeviceTable'
  <2>1. \A g \in HandleIds : LoadedStep(g)
    BY <1>1 DEF LoadedStep, Is
  <2> QED BY <1>1, <1>4, <2>1, DeviceFrame
<1> QED BY <1>6, <1>7, <1>8, <1>9, <1>10

-----------------------------------------------------------------------------
(* The operations on the devices.                                          *)

\* A running operation ends, and its future goes unless somebody refers to it.
Ends(f) == /\ futures[f] # None /\ futures[f].state = "running"
           /\ \/ futures'[f] # None /\ futures'[f].uses = {} /\ futures'[f].kept = {}
              \/ ~Referenced(f) /\ futures'[f] = None

LEMMA FuturesStep ==
  ASSUME IInv, UNCHANGED <<work, client, handles, pc>>,
         futures' \in [FutureIds -> FutureObjects \cup {None}],
         \A f \in FutureIds : Stays(f) \/ Ends(f)
  PROVE  IInv'
<1> USE DEF IInv
<1>0. HandleIds' = HandleIds /\ FutureIds' = FutureIds
  BY DEF HandleIds, FutureIds
<1>1. TypeOK'
  BY <1>0 DEF TypeOK
<1>2. InUse' /\ CostWritten'
  BY <1>0 DEF InUse, CostWritten, Is
<1>3. Owners'
  <2>1. ASSUME NEW f \in FutureIds, futures[f] # None, Referenced(f) PROVE futures'[f] # None
    BY <2>1 DEF Stays, Ends
  <2>2. \A h \in HandleIds : Is(h, {"event"}) => Referenced(handles[h].future)
    BY DEF Referenced
  <2>3. \A t \in Threads : Executing(t) => \A f \in pc[t].futures : Referenced(f)
    BY DEF Referenced, Executing
  <2>4. \A h \in HandleIds : Is(h, {"event"}) => futures'[handles[h].future] # None
    BY <2>1, <2>2 DEF Owners
  <2>5. \A t \in Threads : Executing(t) => \A f \in pc[t].futures : futures'[f] # None
    BY <2>1, <2>3 DEF Owners
  <2> QED BY <1>0, <2>4, <2>5 DEF Owners, Is, Executing
<1>4. Statuses'
  <2> SUFFICES ASSUME NEW h \in HandleIds, Is(h, {"event"})
               PROVE  GoodStatus(handles[h], futures'[handles[h].future].state)
    BY <1>0 DEF Statuses, Is
  <2>1. handles[h].future \in FutureIds /\ futures[handles[h].future] # None
    BY DEF Owners
  <2>2. GoodStatus(handles[h], futures[handles[h].future].state)
    BY DEF Statuses
  <2>3. CASE Stays(handles[h].future)
    BY <2>1, <2>2, <2>3 DEF Stays
  <2>4. CASE Ends(handles[h].future)
    BY <2>2, <2>4 DEF Ends, GoodStatus
  <2> QED BY <2>1, <2>3, <2>4
<1>5. OneMemory' /\ HeldForUse'
  <2>1. SameExecutions
    BY DEF SameExecutions, Executing
  <2>2. \A f \in FutureIds : FutureStep(f)
    BY DEF FutureStep, Stays, Ends
  <2> QED BY <1>3, <2>1, <2>2, MemoryFrame
<1>6. DeviceTable'
  <2>1. \A g \in HandleIds : LoadedStep(g)
    BY DEF LoadedStep, Is
  <2> QED BY <2>1, DeviceFrame
<1> QED BY <1>1, <1>2, <1>3, <1>4, <1>5, <1>6

\* An operation is replaced by another object.
LEMMA FutureUpdate ==
  ASSUME IInv, UNCHANGED <<work, client, handles, pc>>, NEW f \in FutureIds,
         futures[f] # None, NEW o, futures' = [futures EXCEPT ![f] = o],
         \/ /\ o \in FutureObjects /\ o.state = futures[f].state
            /\ o.uses = futures[f].uses /\ o.kept = futures[f].kept
         \/ /\ o \in FutureObjects /\ o.uses = {} /\ o.kept = {}
            /\ futures[f].state = "running"
         \/ o = None /\ ~Referenced(f) /\ futures[f].state = "running"
  PROVE  IInv'
<1>1. futures'[f] = o /\ \A g \in FutureIds : g # f => futures'[g] = futures[g]
  BY DEF IInv, TypeOK
<1>2. futures' \in [FutureIds -> FutureObjects \cup {None}]
  BY DEF IInv, TypeOK
<1>3. o \in FutureObjects => o # None
  BY NoneAssumption
<1>4. \A g \in FutureIds : Stays(g) \/ Ends(g)
  BY <1>1, <1>3 DEF Stays, Ends
<1> QED BY <1>2, <1>4, FuturesStep

LEMMA FutureActions ==
  ASSUME IInv,
         \/ \E f \in FutureIds : SendCallback(f) \/ Complete(f)
         \/ \E t \in Threads, h \in HandleIds : OnReady(t, h)
  PROVE  IInv'
<1>1. ASSUME NEW f \in FutureIds, SendCallback(f) PROVE IInv'
  <2>1. UNCHANGED <<work, client, handles, pc>> /\ futures[f] # None
    BY <1>1 DEF SendCallback, Same
  <2>2. futures[f] \in FutureObjects
    BY <2>1 DEF IInv, TypeOK
  <2>3. PICK failed \in BOOLEAN :
          futures' = [futures EXCEPT ![f].lists = @ \ {"send"}, ![f].failed = failed]
    BY <1>1 DEF SendCallback
  <2>4. PICK o : o = [futures[f] EXCEPT !.lists = @ \ {"send"}, !.failed = failed]
    OBVIOUS
  <2>5. futures' = [futures EXCEPT ![f] = o]
    BY <2>3, <2>4 DEF IInv, TypeOK
  <2>6. /\ o \in FutureObjects /\ o.state = futures[f].state
        /\ o.uses = futures[f].uses /\ o.kept = futures[f].kept
    BY <2>2, <2>4 DEF FutureObjects
  <2> QED BY <2>1, <2>5, <2>6, FutureUpdate
<1>2. ASSUME NEW f \in FutureIds, Complete(f) PROVE IInv'
  <2>1. /\ UNCHANGED <<work, client, handles, pc>> /\ futures[f] # None
        /\ futures[f].state = "running"
    BY <1>2 DEF Complete, Same
  <2>2. futures[f] \in FutureObjects
    BY <2>1 DEF IInv, TypeOK
  <2>3. PICK result \in {"ok", "error"} :
          futures' = [futures EXCEPT ![f] = IF Referenced(f) THEN Completed(futures[f], result)
                                            ELSE None]
    BY <1>2 DEF Complete
  <2>4. PICK o : o = IF Referenced(f) THEN Completed(futures[f], result) ELSE None
    OBVIOUS
  <2>5. futures' = [futures EXCEPT ![f] = o]
    BY <2>3, <2>4
  <2>6. CASE Referenced(f)
    <3>1. o \in FutureObjects /\ o.uses = {} /\ o.kept = {}
      BY <2>2, <2>4, <2>6 DEF Completed, FutureObjects
    <3> QED BY <2>1, <2>5, <3>1, FutureUpdate
  <2>7. CASE ~Referenced(f)
    BY <2>1, <2>4, <2>5, <2>7, FutureUpdate
  <2> QED BY <2>6, <2>7
<1>3. ASSUME NEW t \in Threads, NEW h \in HandleIds, OnReady(t, h) PROVE IInv'
  <2>1. UNCHANGED <<work, client, handles, pc>> /\ Is(h, {"event"})
    BY <1>3 DEF OnReady, Same
  <2>2. PICK f \in FutureIds : f = handles[h].future /\ futures[f] # None
    BY <2>1 DEF IInv, Owners
  <2>3. futures[f] \in FutureObjects
    BY <2>2 DEF IInv, TypeOK
  <2>4. PICK user \in {"called", "registered"} : futures' = [futures EXCEPT ![f].user = user]
    BY <1>3, <2>2 DEF OnReady
  <2>5. PICK o : o = [futures[f] EXCEPT !.user = user]
    OBVIOUS
  <2>6. futures' = [futures EXCEPT ![f] = o]
    BY <2>4, <2>5
  <2>7. /\ o \in FutureObjects /\ o.state = futures[f].state
        /\ o.uses = futures[f].uses /\ o.kept = futures[f].kept
    BY <2>3, <2>5 DEF FutureObjects
  <2> QED BY <2>1, <2>2, <2>6, <2>7, FutureUpdate
<1> QED BY <1>1, <1>2, <1>3

\* The Destroy calls.
LEMMA DestroyStep ==
  ASSUME IInv, NEW t \in Threads, NEW h \in HandleIds, Destroy(t, h)
  PROVE  IInv'
<1> USE DEF IInv
<1>0. HandleIds' = HandleIds /\ FutureIds' = FutureIds
  BY DEF Destroy, Same, HandleIds, FutureIds
<1>1. /\ UNCHANGED <<work, client, pc>> /\ ~Used(h)
      /\ handles' = [handles EXCEPT ![h] = None]
  BY DEF Destroy, Same
<1>2. \A f \in FutureIds :
        \/ futures'[f] = futures[f]
        \/ Is(h, {"event"}) /\ handles[h].future = f /\ futures'[f] = None
  BY DEF Destroy
<1>3. futures' \in [FutureIds -> FutureObjects \cup {None}]
  BY DEF Destroy, TypeOK
<1>4. handles'[h] = None /\ \A g \in HandleIds : g # h => handles'[g] = handles[g]
  BY <1>1 DEF TypeOK
<1>5. TypeOK'
  BY <1>0, <1>1, <1>3 DEF TypeOK
<1>6. ASSUME NEW g \in HandleIds, NEW k, Is(g, k)'
      PROVE  g # h /\ Is(g, k) /\ handles'[g] = handles[g]
  BY <1>4, <1>6 DEF Is
<1>7. ASSUME NEW g \in HandleIds, Is(g, {"event"})'
      PROVE  /\ Is(g, {"event"}) /\ handles'[g] = handles[g]
             /\ futures'[handles[g].future] = futures[handles[g].future]
  <2>1. g # h /\ Is(g, {"event"}) /\ handles'[g] = handles[g]
    BY <1>6, <1>7
  <2> QED BY <1>2, <2>1 DEF Owners
<1>8. Owners'
  <2>1. \A u \in Threads : Executing(u) => \A f \in pc[u].futures : futures'[f] # None
    BY <1>2 DEF Owners
  <2> QED BY <1>0, <1>1, <1>7, <2>1 DEF Owners, Executing
<1>9. Statuses'
  BY <1>0, <1>7 DEF Statuses
<1>10. CostWritten'
  BY <1>0, <1>6 DEF CostWritten
<1>11. OneMemory' /\ HeldForUse'
  <2>1. SameExecutions
    BY <1>1 DEF SameExecutions, Executing
  <2>2. \A f \in FutureIds : FutureStep(f)
    BY <1>2 DEF FutureStep
  <2> QED BY <1>1, <1>8, <2>1, <2>2, MemoryFrame
<1>12. InUse'
  <2>1. \A u \in Threads : pc[u].at \in {"cost", "await"} => pc[u].handle # h
    BY <1>1, CallFacts
  <2> QED BY <1>0, <1>1, <1>4, <2>1 DEF InUse, Is
<1>13. DeviceTable'
  <2>1. \A g \in HandleIds : LoadedStep(g)
    BY <1>4 DEF LoadedStep, Is
  <2> QED BY <1>1, <2>1, DeviceFrame
<1> QED BY <1>5, <1>8, <1>9, <1>10, <1>11, <1>12, <1>13

-----------------------------------------------------------------------------
(* The client and its table of devices.                                    *)

LEMMA ClientFrame ==
  ASSUME IInv, UNCHANGED <<work, handles, futures>>, client' \in ClientObjects \cup {None},
         pc' \in [Threads -> CallStates], DeviceTable',
         \A u \in Threads : \/ pc'[u] = pc[u]
                            \/ ~Executing(u) /\ pc'[u].at \in {"idle", "wrapping"}
  PROVE  IInv'
<1> USE DEF IInv
<1>0. HandleIds' = HandleIds /\ FutureIds' = FutureIds
  BY DEF HandleIds, FutureIds
<1>1. SameExecutions
  BY DEF SameExecutions, Executing
<1>2. TypeOK'
  BY <1>0 DEF TypeOK
<1>3. InUse'
  BY <1>0 DEF InUse, Is
<1>4. Owners'
  BY <1>0, <1>1 DEF Owners, SameExecutions, Is
<1>5. Statuses' /\ CostWritten'
  BY <1>0 DEF Statuses, CostWritten, Is
<1>6. OneMemory' /\ HeldForUse'
  <2>1. \A g \in FutureIds : FutureStep(g)
    BY DEF FutureStep
  <2> QED BY <1>1, <1>4, <2>1, MemoryFrame
<1> QED BY <1>2, <1>3, <1>4, <1>5, <1>6

LEMMA ClientCreateStep ==
  ASSUME IInv, NEW t \in Threads, ClientCreate(t)
  PROVE  IInv'
<1>1. /\ UNCHANGED <<work, handles, futures>> /\ client = None
      /\ pc' = [pc EXCEPT ![t] = [at |-> "wrapping"]]
      /\ \A u \in Threads : pc[u] = Idle
  BY DEF ClientCreate
<1>2. PICK a \in {"bfc", "null"} :
        client' = [gen |-> 0, cap |-> NumDevices, owned |-> <<>>, devices |-> <<>>,
                   addressable |-> <<>>, cdev |-> [d \in CppDevices |-> None],
                   allocator |-> a]
  <2>1. PICK a \in {"bfc", "null"} : a = IF allocator = "unset" THEN "bfc" ELSE "null"
    OBVIOUS
  <2> QED BY <2>1 DEF ClientCreate, Reserve
<1>3. NumDevices \in Nat
  BY PjrtAssumption
<1>4. client' \in ClientObjects /\ client' # None
  <2>1. client' \in ClientObjects
    <3>1. /\ <<>> \in Seq(CppDevices) /\ <<>> \in Seq(Pointers)
          /\ [d \in CppDevices |-> None] \in [CppDevices -> Pointers \cup {None}]
      OBVIOUS
    <3> QED BY <1>2, <1>3, <3>1 DEF ClientObjects
  <2> QED BY <2>1, NoneAssumption
<1>5. TableOf(client)'
  <2>1. /\ client'.gen = 0 /\ client'.cap = NumDevices /\ client'.owned = <<>>
        /\ client'.devices = <<>> /\ client'.addressable = <<>>
    BY <1>2
  <2> QED BY <1>3, <2>1 DEF TableOf
<1>6. /\ pc'[t] = [at |-> "wrapping"] /\ \A u \in Threads : u # t => pc'[u] = pc[u]
      /\ pc' \in [Threads -> CallStates]
  BY <1>1 DEF IInv, TypeOK, CallStates
<1>7. pc'[t].at = "wrapping"
  BY <1>6
<1>8. \A h \in HandleIds : ~Is(h, {"loaded"})
  BY <1>1 DEF IInv, DeviceTable, Wrapped
<1>9. DeviceTable'
  BY <1>1, <1>4, <1>5, <1>7, <1>8 DEF DeviceTable, Ready, HandleIds, Is
<1>10. \A u \in Threads : \/ pc'[u] = pc[u]
                          \/ ~Executing(u) /\ pc'[u].at \in {"idle", "wrapping"}
  BY <1>1, <1>6, <1>7 DEF Executing, Idle
<1> QED BY <1>1, <1>4, <1>6, <1>9, <1>10, ClientFrame

\* The loop never adds beyond the capacity that was reserved.
LEMMA WrapDeviceTable ==
  ASSUME IInv, NEW t \in Threads, WrapDevice(t)
  PROVE  client' \in ClientObjects /\ TableOf(client)'
<1> DEFINE d == Len(client.owned) + 1
           c == [client EXCEPT !.owned = Append(@, d)]
           p == <<0, d>>
<1>1. /\ client # None /\ Len(client.owned) < NumDevices
      /\ client \in ClientObjects /\ TableOf(client) /\ Len(client.owned) \in Nat
  BY ClientFacts DEF IInv, DeviceTable, WrapDevice
<1>2. /\ client.gen = 0 /\ client.cap = NumDevices /\ NumDevices \in Nat
      /\ client.owned \in Seq(CppDevices) /\ client.devices \in Seq(Pointers)
      /\ client.addressable \in Seq(Pointers)
      /\ client.cdev \in [CppDevices -> Pointers \cup {None}]
  BY <1>1, PjrtAssumption DEF ClientObjects, TableOf
<1>3. d \in CppDevices /\ p \in Pointers /\ d \in Nat
  BY <1>1, <1>2 DEF CppDevices, Pointers
<1>4. PushBack(client, d) = c /\ Back(c) = p
  <2>1. PushBack(client, d) = c
    BY <1>1, <1>2 DEF PushBack
  <2>2. c.gen = 0 /\ c.owned = Append(client.owned, d)
    BY <1>1, <1>2 DEF ClientObjects
  <2>3. Len(Append(client.owned, d)) = d
    BY <1>2, <1>3
  <2> QED BY <2>1, <2>2, <2>3 DEF Back
<1>5. PICK a : a = IF d \in Addressable THEN Append(client.addressable, p)
                   ELSE client.addressable
  OBVIOUS
<1>6. PICK x : x = [client EXCEPT !.owned = Append(client.owned, d),
                      !.devices = Append(client.devices, p), !.addressable = a,
                      !.cdev = [client.cdev EXCEPT ![d] = p]]
  OBVIOUS
<1>7. client' = x
  <2>1. client' = [c EXCEPT !.devices = Append(@, p),
                            !.addressable = IF d \in Addressable THEN Append(@, p) ELSE @,
                            !.cdev[d] = p]
    BY <1>4 DEF WrapDevice
  <2> QED BY <1>1, <1>5, <1>6, <2>1 DEF ClientObjects
<1>8. /\ x \in ClientObjects /\ x.gen = 0 /\ x.cap = NumDevices
      /\ x.owned = Append(client.owned, d) /\ x.devices = Append(client.devices, p)
      /\ x.addressable = a /\ x.cdev = [client.cdev EXCEPT ![d] = p]
  <2>1. /\ Append(client.owned, d) \in Seq(CppDevices)
        /\ Append(client.devices, p) \in Seq(Pointers) /\ a \in Seq(Pointers)
        /\ [client.cdev EXCEPT ![d] = p] \in [CppDevices -> Pointers \cup {None}]
    BY <1>2, <1>3, <1>5
  <2> QED BY <1>1, <1>2, <1>6, <2>1 DEF ClientObjects
<1>9. TableOf(x)
  <2> DEFINE n == Len(client.owned)
  <2>0. n \in Nat /\ Len(x.owned) = n + 1 /\ d = n + 1
    BY <1>1, <1>2, <1>3, <1>8
  <2>1. n + 1 <= NumDevices
    BY <1>1, <1>2
  <2>2. \A i \in 1 .. n + 1 : x.owned[i] = i /\ x.cdev[i] = <<0, i>>
    <3> TAKE i \in 1 .. n + 1
    <3>1. CASE i = n + 1
      BY <1>2, <1>3, <1>8, <2>0, <3>1
    <3>2. CASE i # n + 1
      <4>1. i \in 1 .. n /\ client.owned[i] = i /\ client.cdev[i] = <<0, i>>
        BY <1>1, <2>0, <3>2 DEF TableOf
      <4>2. i \in CppDevices
        BY <2>0, <2>1, <4>1, <1>2 DEF CppDevices
      <4> QED BY <1>2, <1>8, <2>0, <4>1, <4>2, <3>2
    <3> QED BY <3>1, <3>2
  <2>3. Len(x.devices) = n + 1 /\ \A i \in 1 .. n + 1 : x.devices[i] = <<0, i>>
    <3>1. Len(client.devices) = n /\ \A i \in 1 .. n : client.devices[i] = <<0, i>>
      BY <1>1 DEF TableOf
    <3>2. Len(x.devices) = n + 1
      BY <1>2, <1>3, <1>8, <2>0, <3>1
    <3>3. ASSUME NEW i \in 1 .. n + 1 PROVE x.devices[i] = <<0, i>>
      <4>1. CASE i = n + 1
        BY <1>2, <1>8, <2>0, <3>1, <4>1
      <4>2. CASE i # n + 1
        BY <1>2, <1>8, <2>0, <3>1, <4>2
      <4> QED BY <4>1, <4>2
    <3> QED BY <3>2, <3>3
  <2>4. /\ \A i \in DOMAIN client.addressable :
             \E e \in Addressable \cap (1 .. n) : client.addressable[i] = <<0, e>>
        /\ \A e \in Addressable \cap (1 .. n) :
             \E i \in DOMAIN client.addressable : client.addressable[i] = <<0, e>>
    BY <1>1 DEF TableOf
  <2>5. Addressable \cap (1 .. n + 1) =
          (Addressable \cap (1 .. n)) \cup (IF d \in Addressable THEN {d} ELSE {})
    BY <2>0
  <2>6. CASE d \in Addressable
    <3>1. x.addressable = Append(client.addressable, p)
      BY <1>5, <1>8, <2>6
    <3> DEFINE k == Len(client.addressable)
    <3>2. /\ k \in Nat /\ DOMAIN client.addressable = 1 .. k
          /\ DOMAIN x.addressable = 1 .. k + 1
          /\ x.addressable[k + 1] = p
          /\ \A i \in 1 .. k : x.addressable[i] = client.addressable[i]
      BY <1>2, <1>3, <3>1
    <3>3. \A i \in DOMAIN x.addressable : i = k + 1 \/ i \in DOMAIN client.addressable
      BY <3>2
    <3>4. \A i \in DOMAIN x.addressable :
            \E e \in Addressable \cap (1 .. n + 1) : x.addressable[i] = <<0, e>>
      <4> TAKE i \in DOMAIN x.addressable
      <4>1. CASE i = k + 1
        <5>1. d \in Addressable \cap (1 .. n + 1)
          BY <2>5, <2>6
        <5> QED BY <3>2, <4>1, <5>1
      <4>2. CASE i \in DOMAIN client.addressable
        <5>1. PICK e \in Addressable \cap (1 .. n) : client.addressable[i] = <<0, e>>
          BY <2>4, <4>2
        <5>2. e \in Addressable \cap (1 .. n + 1) /\ x.addressable[i] = <<0, e>>
          BY <2>5, <3>2, <4>2, <5>1
        <5> QED BY <5>2
      <4> QED BY <3>3, <4>1, <4>2
    <3>5. \A e \in Addressable \cap (1 .. n + 1) :
            \E i \in DOMAIN x.addressable : x.addressable[i] = <<0, e>>
      <4> TAKE e \in Addressable \cap (1 .. n + 1)
      <4>1. CASE e = d
        <5>1. k + 1 \in DOMAIN x.addressable
          BY <3>2
        <5> QED BY <4>1, <5>1, <3>2
      <4>2. CASE e # d
        <5>1. PICK i \in DOMAIN client.addressable : client.addressable[i] = <<0, e>>
          BY <2>4, <2>5, <4>2
        <5>2. i \in DOMAIN x.addressable
          BY <3>2, <5>1
        <5> QED BY <3>2, <5>1, <5>2
      <4> QED BY <4>1, <4>2
    <3> QED BY <1>8, <2>0, <2>1, <2>2, <2>3, <3>4, <3>5 DEF TableOf
  <2>7. CASE d \notin Addressable
    <3>1. x.addressable = client.addressable /\ Addressable \cap (1 .. n + 1) = Addressable \cap (1 .. n)
      BY <1>5, <1>8, <2>5, <2>7
    <3> QED BY <1>8, <2>0, <2>1, <2>2, <2>3, <2>4, <3>1 DEF TableOf
  <2> QED BY <2>6, <2>7
<1> QED BY <1>7, <1>8, <1>9

LEMMA ClientActions ==
  ASSUME IInv, NEW t \in Threads, WrapDevice(t) \/ ClientCreated(t) \/ ClientDestroy(t)
  PROVE  IInv'
<1> USE DEF IInv
<1>0. UNCHANGED <<work, handles, futures>> /\ HandleIds' = HandleIds
  BY DEF WrapDevice, ClientCreated, ClientDestroy, HandleIds
<1>1. CASE WrapDevice(t)
  <2>1. client' \in ClientObjects /\ TableOf(client)'
    BY <1>1, WrapDeviceTable
  <2>2. pc' = pc /\ pc[t].at = "wrapping" /\ Len(client.owned) < NumDevices
    BY <1>1 DEF WrapDevice
  <2>3. ~Wrapped(client)
    BY <2>2, ClientFacts, PjrtAssumption DEF Wrapped
  <2>4. client' # None
    BY <2>1, NoneAssumption
  <2>5. DeviceTable'
    BY <1>0, <2>1, <2>2, <2>3, <2>4 DEF DeviceTable, Ready, Is
  <2> QED BY <1>0, <2>1, <2>2, <2>5, ClientFrame DEF TypeOK
<1>2. CASE ClientCreated(t)
  <2>1. /\ client' = client /\ pc[t].at = "wrapping" /\ pc' = [pc EXCEPT ![t] = Idle]
        /\ Len(client.owned) = NumDevices
    BY <1>2 DEF ClientCreated
  <2>2. Idle \in CallStates /\ Idle.at = "idle"
    BY CallFacts
  <2>3. /\ pc' \in [Threads -> CallStates] /\ pc'[t] = Idle
        /\ \A u \in Threads : u # t => pc'[u] = pc[u]
    BY <2>1, <2>2 DEF TypeOK
  <2>4. Wrapped(client) /\ client # None
    BY <2>1 DEF DeviceTable, Wrapped
  <2>5. DeviceTable'
    <3>1. TableOf(client)' /\ Wrapped(client)'
      BY <2>1, <2>4 DEF DeviceTable, TableOf, Wrapped
    <3> QED BY <1>0, <2>1, <2>4, <3>1 DEF DeviceTable, Is
  <2>6. client' \in ClientObjects \cup {None}
    BY <2>1 DEF TypeOK
  <2>7. \A u \in Threads : \/ pc'[u] = pc[u]
                           \/ ~Executing(u) /\ pc'[u].at \in {"idle", "wrapping"}
    BY <2>1, <2>2, <2>3 DEF Executing
  <2> QED BY <1>0, <2>3, <2>5, <2>6, <2>7, ClientFrame
<1>3. CASE ClientDestroy(t)
  <2>1. /\ client' = None /\ pc' = pc /\ \A u \in Threads : pc[u] = Idle
        /\ \A h \in HandleIds : handles[h] = None
    BY <1>3 DEF ClientDestroy
  <2>2. Idle.at = "idle"
    BY CallFacts
  <2>3. DeviceTable'
    BY <1>0, <2>1, <2>2 DEF DeviceTable, Ready, Is
  <2> QED BY <1>0, <2>1, <2>3, ClientFrame DEF TypeOK
<1> QED BY <1>1, <1>2, <1>3

-----------------------------------------------------------------------------
(* Executions.                                                             *)

LEMMA ExecuteStep ==
  ASSUME IInv, NEW t \in Threads, NEW h \in HandleIds,
         NEW lists \in SUBSET {"send", "recv"}, NEW wanted \in BOOLEAN,
         Execute(t, h, lists, wanted)
  PROVE  IInv'
<1> USE DEF IInv
<1>0. HandleIds' = HandleIds /\ FutureIds' = FutureIds
  BY DEF Execute, Same, HandleIds, FutureIds
<1>1. UNCHANGED <<work, client, handles>> /\ pc[t] = Idle
  BY DEF Execute, Same, Call
<1>2. PICK mem \in SUBSET Nat, ids \in SUBSET FreeFutures :
        /\ AtMostOne(mem)
        /\ futures' = [f \in FutureIds |-> IF f \in ids THEN Running(mem, {}, lists)
                                           ELSE futures[f]]
        /\ pc' = [pc EXCEPT ![t] = [at |-> "executing", handle |-> h, memory |-> mem,
                                    wanted |-> wanted, futures |-> ids]]
  <2> DEFINE mem == IF lists = {} THEN {} ELSE {FreshMemory}
             ids == {f \in FreeFutures : Rank(f, FreeFutures) <= Cardinality(DevicesOf(h))}
  <2>1. mem \in SUBSET Nat /\ AtMostOne(mem)
    BY FreshMemoryFacts DEF AtMostOne
  <2>2. ids \in SUBSET FreeFutures
    OBVIOUS
  <2> QED BY <2>1, <2>2 DEF Execute
<1>3. PICK c : c = [at |-> "executing", handle |-> h, memory |-> mem, wanted |-> wanted,
                    futures |-> ids]
  OBVIOUS
<1>4. /\ c \in CallStates /\ c.at = "executing" /\ c.memory = mem /\ c.futures = ids
      /\ pc[t].at = "idle"
  <2>1. h \in Nat /\ ids \in SUBSET Nat
    BY <1>2, IdFacts
  <2> QED BY <1>1, <1>3, <2>1 DEF CallStates, Idle
<1>5. /\ pc' \in [Threads -> CallStates] /\ pc'[t] = c
      /\ \A u \in Threads : u # t => pc'[u] = pc[u]
  BY <1>2, <1>3, <1>4 DEF TypeOK
<1>6. \A f \in ids : /\ f \in FutureIds /\ futures[f] = None
                     /\ futures'[f] \in FutureObjects /\ futures'[f] # None
                     /\ futures'[f].uses = mem /\ futures'[f].kept = {}
  BY <1>2, RunningFacts DEF FreeFutures
<1>7. \A f \in FutureIds : f \notin ids => futures'[f] = futures[f]
  BY <1>2
<1>8. futures' \in [FutureIds -> FutureObjects \cup {None}]
  <2>1. \A f \in FutureIds : futures'[f] \in FutureObjects \cup {None}
    BY <1>6, <1>7 DEF TypeOK
  <2> QED BY <1>2, <2>1
<1>9. \A f \in FutureIds : futures[f] # None => f \notin ids /\ futures'[f] = futures[f]
  BY <1>6, <1>7
<1>10. /\ ~Executing(t) /\ Executing(t)'
       /\ \A u \in Threads : u # t => /\ Executing(u)' <=> Executing(u)
                                      /\ pc'[u] = pc[u]
  BY <1>4, <1>5 DEF Executing
<1>11. TypeOK'
  BY <1>0, <1>1, <1>5, <1>8 DEF TypeOK
<1>12. Owners'
  <2>1. ASSUME NEW g \in HandleIds, Is(g, {"event"})
        PROVE  /\ futures'[handles[g].future] # None
               /\ \A u \in Threads : Executing(u)' => handles[g].future \notin pc'[u].futures
    <3>1. /\ handles[g].future \in FutureIds /\ futures[handles[g].future] # None
          /\ \A u \in Threads : Executing(u) => handles[g].future \notin pc[u].futures
      BY <2>1 DEF Owners
    <3> QED BY <1>4, <1>5, <1>9, <1>10, <3>1
  <2>2. ASSUME NEW u \in Threads, Executing(u)'
        PROVE  /\ pc'[u].futures \subseteq FutureIds
               /\ \A f \in pc'[u].futures : futures'[f] # None
    <3>1. CASE u = t
      BY <1>4, <1>5, <1>6, <3>1
    <3>2. CASE u # t
      BY <1>9, <1>10, <2>2, <3>2 DEF Owners
    <3> QED BY <3>1, <3>2
  <2>3. ASSUME NEW u \in Threads, Executing(u), u # t PROVE pc[u].futures \cap ids = {}
    BY <1>6, <2>3 DEF Owners
  <2>4. ASSUME NEW u \in Threads, NEW v \in Threads, Executing(u)', Executing(v)', u # v
        PROVE  pc'[u].futures \cap pc'[v].futures = {}
    <3>1. CASE u = t
      BY <1>4, <1>5, <1>10, <2>3, <2>4, <3>1
    <3>2. CASE v = t
      BY <1>4, <1>5, <1>10, <2>3, <2>4, <3>2
    <3>3. CASE u # t /\ v # t
      BY <1>10, <2>4, <3>3 DEF Owners
    <3> QED BY <3>1, <3>2, <3>3
  <2> QED BY <1>0, <1>1, <2>1, <2>2, <2>4 DEF Owners, Is
<1>13. Statuses' /\ CostWritten'
  BY <1>0, <1>1, <1>9 DEF Statuses, CostWritten, Owners, Is
<1>14. OneMemory'
  <2>1. ASSUME NEW f \in FutureIds, futures'[f] # None PROVE AtMostOne(MemoryOf(f)')
    <3>1. CASE f \in ids
      BY <1>2, <1>6, <3>1 DEF MemoryOf
    <3>2. CASE f \notin ids
      BY <1>7, <2>1, <3>2 DEF MemoryOf, OneMemory
    <3> QED BY <3>1, <3>2
  <2>2. ASSUME NEW u \in Threads, Executing(u)'
        PROVE  /\ AtMostOne(pc'[u].memory)
               /\ \A f \in pc'[u].futures : MemoryOf(f)' \subseteq pc'[u].memory
    <3>1. CASE u = t
      BY <1>2, <1>4, <1>5, <1>6, <3>1 DEF MemoryOf
    <3>2. CASE u # t
      <4>1. Executing(u) /\ pc'[u] = pc[u]
        BY <1>10, <2>2, <3>2
      <4>2. \A f \in pc[u].futures : futures'[f] = futures[f]
        BY <1>9, <4>1 DEF Owners
      <4> QED BY <4>1, <4>2 DEF OneMemory, MemoryOf
    <3> QED BY <3>1, <3>2
  <2> QED BY <1>0, <2>1, <2>2 DEF OneMemory
<1>15. HeldForUse'
  <2> SUFFICES ASSUME NEW f \in FutureIds, futures'[f] # None, futures'[f].state = "running",
                      NEW m \in futures'[f].uses
               PROVE  \/ m \in futures'[f].kept
                      \/ \E u \in Threads : /\ Executing(u)' /\ f \in pc'[u].futures
                                            /\ m \in pc'[u].memory
    BY <1>0 DEF HeldForUse
  <2>1. CASE f \in ids
    BY <1>4, <1>5, <1>6, <1>10, <2>1
  <2>2. CASE f \notin ids
    BY <1>7, <1>10, <2>2 DEF HeldForUse
  <2> QED BY <2>1, <2>2
<1>16. InUse'
  BY <1>0, <1>1, <1>4, <1>5 DEF InUse, Is
<1>17. DeviceTable'
  <2>1. \A g \in HandleIds : LoadedStep(g)
    BY <1>1 DEF LoadedStep, Is
  <2>2. \A u \in Threads : pc'[u].at = "wrapping" <=> pc[u].at = "wrapping"
    BY <1>4, <1>5
  <2> QED BY <1>1, <2>1, <2>2, DeviceFrame
<1> QED BY <1>11, <1>12, <1>13, <1>14, <1>15, <1>16, <1>17

LEMMA SequenceLengths ==
  ASSUME NEW S, NEW T, NEW a \in Seq(S), NEW b \in Seq(T)
  PROVE  Len(a \o b) = Len(a) + Len(b)
<1> QED OBVIOUS

\* The rest of Execute makes one event for each operation, when they are
\* wanted, and buffers.
LEMMA ReturnedObjects ==
  ASSUME IInv, NEW t \in Threads, ExecuteReturns(t)
  PROVE  /\ handles' \in [HandleIds -> HandleObjects \cup {None}]
         /\ \A h \in HandleIds :
              \/ handles'[h] = handles[h]
              \/ handles[h] = None /\ handles'[h] = Buffer
              \/ /\ handles[h] = None /\ pc[t].wanted
                 /\ \E f \in pc[t].futures : handles'[h] = Event(f)
         /\ \A g, h \in HandleIds, f \in pc[t].futures :
              /\ handles[g] = None /\ handles[h] = None
              /\ handles'[g] = Event(f) /\ handles'[h] = Event(f)
              => g = h
<1> DEFINE F == pc[t].futures
           n == Cardinality(F)
           fs == [i \in 1 .. n |-> CHOOSE f \in F : Rank(f, F) = i]
           E == IF pc[t].wanted THEN [i \in DOMAIN fs |-> Event(fs[i])] ELSE <<>>
           B == [i \in 1 .. Len(fs) * work.outputs |-> Buffer]
           objects == E \o B
<1>0. TypeOK /\ Executing(t)
  BY DEF IInv, ExecuteReturns, Executing
<1>1. F \in SUBSET Nat /\ IsFiniteSet(F) /\ n \in Nat
  <2>1. F \subseteq FutureIds
    BY <1>0 DEF IInv, Owners
  <2> QED BY <1>0, <2>1, IdFacts, FS_Subset, FS_CardinalityType
<1>2. \A i \in 1 .. n : fs[i] \in F /\ Rank(fs[i], F) = i
  BY <1>1, RankFacts
<1>3. Create(objects)
  BY DEF ExecuteReturns
<1>4. PICK r \in Nat : r = Len(fs) * work.outputs
  <2>1. Len(fs) = n /\ work.outputs \in Nat
    BY <1>0, <1>1, PjrtAssumption DEF TypeOK
  <2>2. n * work.outputs \in Nat
    BY <1>1, <2>1
  <2> QED BY <2>1, <2>2
<1>5. PICK k \in 0 .. n : /\ k # 0 => pc[t].wanted
                          /\ Len(E) = k /\ E \in Seq(EventObjects)
                          /\ \A i \in 1 .. k : E[i] = Event(fs[i])
  <2>1. CASE pc[t].wanted
    <3>1. E = [i \in 1 .. n |-> Event(fs[i])]
      BY <2>1
    <3>2. \A i \in 1 .. n : Event(fs[i]) \in EventObjects
      BY <1>1, <1>2, NewObjects
    <3> HIDE DEF E, fs
    <3>3. Len(E) = n /\ E \in Seq(EventObjects) /\ \A i \in 1 .. n : E[i] = Event(fs[i])
      BY <1>1, <3>1, <3>2
    <3> QED BY <1>1, <2>1, <3>3
  <2>2. CASE ~pc[t].wanted
    <3>1. E = <<>>
      BY <2>2
    <3> HIDE DEF E, fs
    <3> QED BY <1>1, <3>1
  <2> QED BY <2>1, <2>2
<1>6. B = [i \in 1 .. r |-> Buffer]
  BY <1>4
<1> HIDE DEF E, B, fs
<1>7. Len(B) = r /\ B \in Seq({Buffer}) /\ \A i \in 1 .. r : B[i] = Buffer
  BY <1>6
<1>8. /\ Len(objects) = k + r
      /\ \A i \in 1 .. k + r : \/ i \in 1 .. k /\ objects[i] = Event(fs[i])
                               \/ objects[i] = Buffer
  <2>1. Len(objects) = k + r
    <3>1. Len(objects) = Len(E) + Len(B)
      BY <1>5, <1>7, SequenceLengths
    <3> QED BY <1>5, <1>7, <3>1
  <2>2. ASSUME NEW i \in 1 .. k + r, i <= k PROVE i \in 1 .. k /\ objects[i] = Event(fs[i])
    <3>1. i \in 1 .. k
      BY <1>5, <2>2
    <3>2. objects[i] = E[i]
      BY <1>5, <1>7, <3>1
    <3> QED BY <1>5, <3>1, <3>2
  <2>3. ASSUME NEW i \in 1 .. k + r, ~(i <= k) PROVE objects[i] = Buffer
    <3>1. i - k \in 1 .. r
      BY <1>4, <1>5, <2>3
    <3>2. objects[i] = B[i - k]
      BY <1>4, <1>5, <1>7, <2>3
    <3> QED BY <1>7, <3>1, <3>2
  <2> QED BY <2>1, <2>2, <2>3
<1>9. PICK place \in [FreeHandles -> Nat \ {0}] :
        /\ \A g, h \in FreeHandles : place[g] = place[h] => g = h
        /\ handles' = [h \in HandleIds |->
             IF h \in FreeHandles /\ place[h] <= Len(objects)
             THEN objects[place[h]] ELSE handles[h]]
  BY <1>0, <1>3, CreateEffect
<1> HIDE DEF objects
<1>10. ASSUME NEW h \in HandleIds
       PROVE  \/ handles'[h] = handles[h]
              \/ handles[h] = None /\ handles'[h] = Buffer
              \/ /\ handles[h] = None /\ h \in FreeHandles /\ place[h] \in 1 .. k
                 /\ handles'[h] = Event(fs[place[h]])
  <2>1. CASE h \in FreeHandles /\ place[h] <= Len(objects)
    <3>1. place[h] \in 1 .. k + r
      BY <1>4, <1>5, <1>8, <1>9, <2>1
    <3>2. handles[h] = None /\ handles'[h] = objects[place[h]]
      BY <1>9, <2>1 DEF FreeHandles
    <3> QED BY <1>8, <2>1, <3>1, <3>2
  <2>2. CASE ~(h \in FreeHandles /\ place[h] <= Len(objects))
    BY <1>9, <2>2
  <2> QED BY <2>1, <2>2
<1>11. \A i \in 1 .. k : /\ fs[i] \in F /\ Rank(fs[i], F) = i /\ pc[t].wanted
                         /\ Event(fs[i]) \in EventObjects
  <2> TAKE i \in 1 .. k
  <2>1. i \in 1 .. n /\ k # 0
    BY <1>1, <1>5
  <2> QED BY <1>1, <1>2, <1>5, <2>1, NewObjects
<1>12. ASSUME NEW h \in HandleIds
       PROVE  \/ handles'[h] = handles[h]
              \/ handles[h] = None /\ handles'[h] = Buffer
              \/ /\ handles[h] = None /\ pc[t].wanted
                 /\ \E f \in pc[t].futures : handles'[h] = Event(f)
  BY <1>10, <1>11
<1>13. Buffer \in HandleObjects /\ \A f \in F : Event(f) \in HandleObjects /\ Event(f) # Buffer
  <2>1. Buffer \in HandleObjects /\ \A f \in F : Event(f) \in HandleObjects
    BY <1>1, NewObjects DEF HandleObjects
  <2>2. \A f : Event(f).kind # Buffer.kind
    BY DEF Event, Buffer
  <2> QED BY <2>1, <2>2
<1>14. handles' \in [HandleIds -> HandleObjects \cup {None}]
  <2>1. handles' = [h \in HandleIds |-> handles'[h]]
    BY <1>9
  <2>2. \A h \in HandleIds : handles'[h] \in HandleObjects \cup {None}
    BY <1>0, <1>12, <1>13 DEF TypeOK
  <2> QED BY <2>1, <2>2
<1>15. ASSUME NEW h \in HandleIds, NEW f \in F, handles[h] = None, handles'[h] = Event(f)
       PROVE  h \in FreeHandles /\ place[h] \in 1 .. k /\ Rank(f, F) = place[h]
  <2>1. Event(f) # None
    BY <1>13, NoneAssumption
  <2>2. /\ h \in FreeHandles /\ place[h] \in 1 .. k
        /\ Event(f) = Event(fs[place[h]])
    BY <1>10, <1>13, <1>15, <2>1
  <2>3. f = fs[place[h]]
    BY <2>2, EventFacts
  <2> QED BY <1>11, <2>2, <2>3
<1>16. ASSUME NEW g \in HandleIds, NEW h \in HandleIds, NEW f \in F,
              handles[g] = None, handles[h] = None,
              handles'[g] = Event(f), handles'[h] = Event(f)
       PROVE  g = h
  BY <1>9, <1>15, <1>16
<1> QED BY <1>12, <1>14, <1>16

\* A future stays, and the lambda on it holds the frame's memory while it runs.
LEMMA KeptFacts ==
  ASSUME IInv, NEW t \in Threads, ExecuteReturns(t), NEW f \in pc[t].futures
  PROVE  /\ f \in FutureIds /\ futures[f] # None
         /\ \/ ~pc[t].wanted /\ futures'[f] = None
            \/ /\ futures'[f] \in FutureObjects /\ futures'[f] # None
               /\ futures'[f].state = futures[f].state
               /\ futures'[f].uses = futures[f].uses
               /\ futures'[f].kept = IF futures[f].state = "running"
                                     THEN futures[f].kept \cup pc[t].memory
                                     ELSE futures[f].kept
<1> DEFINE k == Registered(futures[f], pc[t].memory)
<1>1. Executing(t) /\ f \in FutureIds /\ futures[f] # None
  BY DEF IInv, Owners, ExecuteReturns, Executing
<1>2. futures[f] \in FutureObjects /\ pc[t].memory \in SUBSET Nat
  BY <1>1, CallFacts DEF IInv, TypeOK
<1>3. KeepAlive(pc[t].futures, pc[t].memory)[f] = k
  BY <1>1 DEF KeepAlive
<1>4. futures'[f] = k \/ (~pc[t].wanted /\ futures'[f] = None)
  BY <1>1, <1>3 DEF ExecuteReturns
<1>5. /\ k \in FutureObjects /\ k.state = futures[f].state /\ k.uses = futures[f].uses
      /\ k.kept = IF futures[f].state = "running" THEN futures[f].kept \cup pc[t].memory
                  ELSE futures[f].kept
  <2>1. CASE futures[f].state = "running"
    <3>1. PICK m \in SUBSET Nat : m = futures[f].kept \cup pc[t].memory
      BY <1>2 DEF FutureObjects
    <3>2. k = [futures[f] EXCEPT !.kept = m]
      BY <2>1, <3>1 DEF Registered
    <3>3. /\ k \in FutureObjects /\ k.state = futures[f].state
          /\ k.uses = futures[f].uses /\ k.kept = m
      BY <1>2, <3>2 DEF FutureObjects
    <3> QED BY <2>1, <3>1, <3>3
  <2>2. CASE futures[f].state # "running"
    BY <1>2, <2>2 DEF Registered
  <2> QED BY <2>1, <2>2
<1> HIDE DEF k
<1>6. k # None
  BY <1>5, NoneAssumption
<1> QED BY <1>1, <1>4, <1>5, <1>6

LEMMA ExecuteReturnsStep ==
  ASSUME IInv, NEW t \in Threads, ExecuteReturns(t)
  PROVE  IInv'
<1> DEFINE F == pc[t].futures
           M == pc[t].memory
<1> USE DEF IInv
<1>0. HandleIds' = HandleIds /\ FutureIds' = FutureIds
  BY DEF ExecuteReturns, Same, HandleIds, FutureIds
<1>1. /\ UNCHANGED <<work, client>> /\ Executing(t) /\ pc' = [pc EXCEPT ![t] = Idle]
  BY DEF ExecuteReturns, Same, Executing
<1>2. Idle \in CallStates /\ Idle.at = "idle"
  BY CallFacts
<1>3. /\ pc' \in [Threads -> CallStates] /\ pc'[t] = Idle
      /\ \A u \in Threads : u # t => pc'[u] = pc[u]
  BY <1>1, <1>2 DEF TypeOK
<1>4. \A u \in Threads : Executing(u)' =>
        /\ u # t /\ Executing(u) /\ pc'[u] = pc[u] /\ pc[u].futures \cap F = {}
  BY <1>1, <1>2, <1>3 DEF Executing, Owners
<1>5. \A f \in FutureIds : f \notin F => futures'[f] = futures[f]
  BY DEF ExecuteReturns, KeepAlive
<1>6. \A f \in F :
        /\ f \in FutureIds /\ futures[f] # None
        /\ \/ ~pc[t].wanted /\ futures'[f] = None
           \/ /\ futures'[f] \in FutureObjects /\ futures'[f] # None
              /\ futures'[f].state = futures[f].state
              /\ futures'[f].uses = futures[f].uses
              /\ futures'[f].kept = IF futures[f].state = "running"
                                    THEN futures[f].kept \cup M ELSE futures[f].kept
  BY KeptFacts
<1>7. futures' \in [FutureIds -> FutureObjects \cup {None}]
  <2>1. futures' = [f \in FutureIds |-> futures'[f]]
    BY DEF ExecuteReturns
  <2>2. \A f \in FutureIds : futures'[f] \in FutureObjects \cup {None}
    BY <1>5, <1>6 DEF TypeOK
  <2> QED BY <2>1, <2>2
<1>8. /\ handles' \in [HandleIds -> HandleObjects \cup {None}]
      /\ \A h \in HandleIds :
           \/ handles'[h] = handles[h]
           \/ handles[h] = None /\ handles'[h] = Buffer
           \/ /\ handles[h] = None /\ pc[t].wanted
              /\ \E f \in F : handles'[h] = Event(f)
      /\ \A g, h \in HandleIds, f \in F :
           /\ handles[g] = None /\ handles[h] = None
           /\ handles'[g] = Event(f) /\ handles'[h] = Event(f)
           => g = h
  BY ReturnedObjects
<1>9. Buffer.kind = "buffer"
  BY DEF Buffer
<1>10. TypeOK'
  BY <1>0, <1>1, <1>3, <1>7, <1>8 DEF TypeOK
<1>11. ASSUME NEW h \in HandleIds, Is(h, {"event"})'
       PROVE  \/ /\ Is(h, {"event"}) /\ handles'[h] = handles[h]
                 /\ handles[h].future \in FutureIds /\ handles[h].future \notin F
                 /\ futures'[handles[h].future] = futures[handles[h].future]
              \/ /\ handles[h] = None
                 /\ \E f \in F : handles'[h] = Event(f) /\ futures'[f] # None
  <2>1. CASE handles'[h] = handles[h]
    <3>1. Is(h, {"event"})
      BY <1>11, <2>1 DEF Is
    <3>2. handles[h].future \in FutureIds /\ handles[h].future \notin F
      BY <1>1, <3>1 DEF Owners
    <3> QED BY <1>5, <2>1, <3>1, <3>2
  <2>2. CASE handles'[h] = Buffer
    BY <1>9, <1>11, <2>2 DEF Is
  <2>3. CASE /\ handles[h] = None /\ pc[t].wanted
             /\ \E f \in F : handles'[h] = Event(f)
    BY <1>6, <2>3
  <2> QED BY <1>8, <2>1, <2>2, <2>3
<1>12. Owners'
  <2>1. ASSUME NEW h \in HandleIds, Is(h, {"event"})'
        PROVE  /\ handles'[h].future \in FutureIds /\ futures'[handles'[h].future] # None
               /\ \A u \in Threads : Executing(u)' => handles'[h].future \notin pc'[u].futures
    <3>1. CASE /\ Is(h, {"event"}) /\ handles'[h] = handles[h]
               /\ futures'[handles[h].future] = futures[handles[h].future]
      BY <1>4, <3>1 DEF Owners
    <3>2. CASE \E f \in F : handles'[h] = Event(f) /\ futures'[f] # None
      <4>1. PICK f \in F : handles'[h] = Event(f) /\ futures'[f] # None
        BY <3>2
      <4>2. handles'[h].future = f /\ f \in FutureIds
        BY <1>6, <4>1, EventFacts
      <4>3. \A u \in Threads : Executing(u)' => f \notin pc'[u].futures
        BY <1>4
      <4> QED BY <4>1, <4>2, <4>3
    <3> QED BY <1>11, <2>1, <3>1, <3>2
  <2>2. ASSUME NEW g \in HandleIds, NEW h \in HandleIds, Is(g, {"event"})',
               Is(h, {"event"})', handles'[g].future = handles'[h].future
        PROVE  g = h
    <3>1. CASE Is(g, {"event"}) /\ handles'[g] = handles[g] /\ handles[g].future \notin F
      <4>1. handles'[h].future \notin F
        BY <2>2, <3>1
      <4>2. Is(h, {"event"}) /\ handles'[h] = handles[h]
        BY <1>11, <2>2, <4>1, EventFacts
      <4> QED BY <2>2, <3>1, <4>2 DEF Owners
    <3>2. CASE handles[g] = None /\ \E f \in F : handles'[g] = Event(f)
      <4>1. PICK f \in F : handles'[g] = Event(f)
        BY <3>2
      <4>2. handles'[h].future = f
        BY <2>2, <4>1, EventFacts
      <4>3. handles[h] = None /\ handles'[h] = Event(f)
        BY <1>11, <2>2, <4>2, EventFacts
      <4> QED BY <1>8, <3>2, <4>1, <4>3
    <3> QED BY <1>11, <2>2, <3>1, <3>2
  <2>3. ASSUME NEW u \in Threads, Executing(u)'
        PROVE  /\ pc'[u].futures \subseteq FutureIds
               /\ \A f \in pc'[u].futures : futures'[f] # None
               /\ \A v \in Threads : Executing(v)' /\ v # u
                                     => pc'[u].futures \cap pc'[v].futures = {}
    BY <1>4, <1>5, <2>3 DEF Owners
  <2> QED BY <1>0, <2>1, <2>2, <2>3 DEF Owners
<1>13. Statuses'
  <2> SUFFICES ASSUME NEW h \in HandleIds, Is(h, {"event"})'
               PROVE  GoodStatus(handles'[h], futures'[handles'[h].future].state)
    BY <1>0 DEF Statuses
  <2> QED BY <1>11, EventFacts DEF Statuses, GoodStatus
<1>14. CostWritten'
  <2>1. \A h \in HandleIds : Is(h, {"executable"})' =>
          Is(h, {"executable"}) /\ handles'[h] = handles[h]
    BY <1>8, <1>9, EventFacts DEF Is
  <2> QED BY <1>0, <2>1 DEF CostWritten
<1>15. ASSUME NEW f \in F, futures'[f] # None PROVE MemoryOf(f)' \subseteq M
  <2>1. MemoryOf(f) \subseteq M
    BY <1>1 DEF OneMemory
  <2> QED BY <1>6, <1>15, <2>1 DEF MemoryOf
<1>16. OneMemory'
  <2>1. ASSUME NEW f \in FutureIds, futures'[f] # None PROVE AtMostOne(MemoryOf(f)')
    <3>1. CASE f \in F
      BY <1>1, <1>15, <2>1, <3>1 DEF OneMemory, AtMostOne
    <3>2. CASE f \notin F
      BY <1>5, <2>1, <3>2 DEF OneMemory, MemoryOf
    <3> QED BY <3>1, <3>2
  <2>2. ASSUME NEW u \in Threads, Executing(u)'
        PROVE  /\ AtMostOne(pc'[u].memory)
               /\ \A f \in pc'[u].futures : MemoryOf(f)' \subseteq pc'[u].memory
    <3>1. Executing(u) /\ pc'[u] = pc[u] /\ pc[u].futures \cap F = {}
      BY <1>4, <2>2
    <3>2. \A f \in pc[u].futures : futures'[f] = futures[f]
      BY <1>5, <3>1 DEF Owners
    <3> QED BY <3>1, <3>2 DEF OneMemory, MemoryOf
  <2> QED BY <1>0, <2>1, <2>2 DEF OneMemory
<1>17. HeldForUse'
  <2> SUFFICES ASSUME NEW f \in FutureIds, futures'[f] # None, futures'[f].state = "running",
                      NEW m \in futures'[f].uses
               PROVE  \/ m \in futures'[f].kept
                      \/ \E u \in Threads : /\ Executing(u)' /\ f \in pc'[u].futures
                                            /\ m \in pc'[u].memory
    BY <1>0 DEF HeldForUse
  <2>1. CASE f \in F
    <3>1. m \in M
      BY <1>15, <2>1 DEF MemoryOf
    <3> QED BY <1>6, <2>1, <3>1
  <2>2. CASE f \notin F
    <3>1. \A u \in Threads : Executing(u) /\ f \in pc[u].futures => u # t
      BY <2>2
    <3>2. \A u \in Threads : u # t => pc'[u] = pc[u] /\ (Executing(u)' <=> Executing(u))
      BY <1>3 DEF Executing
    <3> QED BY <1>5, <2>2, <3>1, <3>2 DEF HeldForUse
  <2> QED BY <2>1, <2>2
<1>18. InUse'
  BY <1>0, <1>2, <1>3, <1>8 DEF InUse, Is
<1>19. DeviceTable'
  <2>1. \A g \in HandleIds : LoadedStep(g)
    BY <1>8, <1>9, EventFacts DEF LoadedStep, Is
  <2>2. \A u \in Threads : pc'[u].at = "wrapping" <=> pc[u].at = "wrapping"
    BY <1>1, <1>2, <1>3 DEF Executing
  <2> QED BY <1>1, <2>1, <2>2, DeviceFrame
<1> QED BY <1>10, <1>12, <1>13, <1>14, <1>16, <1>17, <1>18, <1>19

-----------------------------------------------------------------------------
(* The invariant, and what it shows.                                       *)

LEMMA InitHolds == Init => IInv
<1> SUFFICES ASSUME Init PROVE IInv
  OBVIOUS
<1>1. /\ client = None /\ \A h \in HandleIds : handles[h] = None
      /\ \A f \in FutureIds : futures[f] = None
      /\ \A t \in Threads : pc[t] = Idle /\ pc[t].at = "idle"
  BY DEF Init, Idle
<1>2. TypeOK
  BY DEF Init, TypeOK, CallStates
<1>3. OneMemory /\ HeldForUse
  BY <1>1 DEF OneMemory, HeldForUse, Executing
<1>4. DeviceTable
  BY <1>1 DEF DeviceTable, Ready, Is
<1>5. InUse /\ Owners /\ Statuses /\ CostWritten
  BY <1>1 DEF InUse, Owners, Statuses, CostWritten, Executing, Is
<1> QED BY <1>2, <1>3, <1>4, <1>5 DEF IInv

LEMMA UnchangedStep ==
  ASSUME IInv, UNCHANGED vars
  PROVE  IInv'
<1> USE DEF IInv
<1>1. UNCHANGED <<work, client, handles, futures, pc>>
  BY DEF vars
<1>2. \A h \in HandleIds : LoadedStep(h)
  BY <1>1 DEF LoadedStep, Is
<1>3. DeviceTable'
  BY <1>1, <1>2, DeviceFrame
<1>4. client' \in ClientObjects \cup {None} /\ pc' \in [Threads -> CallStates]
  BY <1>1 DEF TypeOK
<1> QED BY <1>1, <1>3, <1>4, ClientFrame

\* Every reachable state keeps what the calls and lambdas hold, the table of
\* devices, the owners of futures, and the statuses and costs of objects.
THEOREM InvariantHolds == Spec => []IInv
<1>1. Init => IInv
  BY InitHolds
<1>2. IInv /\ [Next]_vars => IInv'
  <2> SUFFICES ASSUME IInv, [Next]_vars PROVE IInv'
    OBVIOUS
  <2>1. ASSUME NEW t \in Threads, Caller(t) PROVE IInv'
    <3>1. CASE ClientCreate(t) \/ ClientDestroy(t)
      BY <3>1, ClientCreateStep, ClientActions
    <3>2. CASE Compile(t) \/ CompileForTopology(t) \/ BufferFromHostBuffer(t)
      BY <3>2, NewNoneActions, NewEventActions
    <3>3. ASSUME NEW h \in HandleIds,
                 \/ Destroy(t, h) \/ GetExecutable(t, h) \/ LoadedExecutableDelete(t, h)
                 \/ PopulateCostAnalysis(t, h) \/ Serialize(t, h) \/ DeserializeAndLoad(t, h)
                 \/ ToHostBuffer(t, h) \/ ReadyEvent(t, h) \/ CopyToDevice(t, h)
                 \/ BufferDelete(t, h) \/ OnReady(t, h) \/ Await(t, h) \/ Error(t, h)
          PROVE  IInv'
      <4>1. CASE Destroy(t, h) \/ LoadedExecutableDelete(t, h) \/ BufferDelete(t, h)
        BY <4>1, DestroyStep, DeleteStep
      <4>2. CASE \/ GetExecutable(t, h) \/ Serialize(t, h) \/ DeserializeAndLoad(t, h)
                 \/ CopyToDevice(t, h)
        BY <4>2, NewNoneActions
      <4>3. CASE ToHostBuffer(t, h) \/ ReadyEvent(t, h)
        BY <4>3, NewEventActions
      <4>4. CASE PopulateCostAnalysis(t, h)
        BY <4>4, CostStep
      <4>5. CASE OnReady(t, h)
        BY <4>5, FutureActions
      <4>6. CASE Await(t, h) \/ Error(t, h)
        BY <4>6, AwaitStep, StatusActions
      <4> QED BY <3>3, <4>1, <4>2, <4>3, <4>4, <4>5, <4>6
    <3>4. ASSUME NEW h \in HandleIds, NEW lists \in SUBSET {"send", "recv"},
                 NEW wanted \in BOOLEAN, Execute(t, h, lists, wanted)
          PROVE  IInv'
      BY <3>4, ExecuteStep
    <3> QED BY <2>1, <3>1, <3>2, <3>3, <3>4 DEF Caller
  <2>2. ASSUME NEW t \in Threads, Wrapper(t) PROVE IInv'
    BY <2>2, ClientActions, CostStep, ExecuteReturnsStep, StatusActions DEF Wrapper
  <2>3. ASSUME NEW f \in FutureIds, SendCallback(f) \/ RecvCallback(f) \/ Complete(f)
        PROVE  IInv'
    BY <2>3, FutureActions, RecvCallbackStep
  <2>4. CASE UNCHANGED vars
    BY <2>4, UnchangedStep
  <2> QED BY <2>1, <2>2, <2>3, <2>4 DEF Next
<1> QED BY <1>1, <1>2, PTL DEF Spec

\* The callback lists of an execution and the literal of a transfer are alive
\* while an operation on some device uses them.
THEOREM MemoryOutlivesDevicesHolds == Spec => []MemoryOutlivesDevices
<1>1. IInv => MemoryOutlivesDevices
  BY DEF IInv, HeldForUse, MemoryOutlivesDevices, HeldByFrame, HeldByLambda, Executing
<1> QED BY <1>1, InvariantHolds, PTL

\* Every PJRT_Device pointer stored or handed out leads to its own device.
THEOREM DevicePointersStayValidHolds == Spec => []DevicePointersStayValid
<1>1. IInv => DevicePointersStayValid
  <2> SUFFICES ASSUME IInv, client # None
               PROVE  /\ \A i \in DOMAIN client.devices : Deref(client.devices[i]) = i
                      /\ \A d \in 1 .. Len(client.owned) : Deref(GetCDevice(d)) = d
                      /\ {Deref(client.addressable[i]) : i \in DOMAIN client.addressable}
                           = Addressable \cap (1 .. Len(client.owned))
                      /\ \A h \in HandleIds : Is(h, {"loaded"}) =>
                           \A d \in DOMAIN handles[h].devices : Deref(handles[h].devices[d]) = d
    BY DEF DevicePointersStayValid
  <2>1. /\ client \in ClientObjects /\ TableOf(client) /\ Len(client.owned) \in Nat
        /\ \A d \in 1 .. Len(client.owned) : Deref(<<0, d>>) = d
    BY ClientFacts DEF IInv
  <2>2. \A i \in DOMAIN client.devices : Deref(client.devices[i]) = i
    <3>1. DOMAIN client.devices = 1 .. Len(client.owned)
      BY <2>1 DEF TableOf, ClientObjects
    <3> QED BY <2>1, <3>1 DEF TableOf
  <2>3. \A d \in 1 .. Len(client.owned) : Deref(GetCDevice(d)) = d
    BY <2>1 DEF TableOf, GetCDevice
  <2>4. {Deref(client.addressable[i]) : i \in DOMAIN client.addressable}
          = Addressable \cap (1 .. Len(client.owned))
    <3>1. /\ \A i \in DOMAIN client.addressable :
               \E d \in Addressable \cap (1 .. Len(client.owned)) : client.addressable[i] = <<0, d>>
          /\ \A d \in Addressable \cap (1 .. Len(client.owned)) :
               \E i \in DOMAIN client.addressable : client.addressable[i] = <<0, d>>
      BY <2>1 DEF TableOf
    <3>2. \A i \in DOMAIN client.addressable :
            Deref(client.addressable[i]) \in Addressable \cap (1 .. Len(client.owned))
      BY <2>1, <3>1
    <3>3. \A d \in Addressable \cap (1 .. Len(client.owned)) :
            \E i \in DOMAIN client.addressable : Deref(client.addressable[i]) = d
      BY <2>1, <3>1
    <3> QED BY <3>2, <3>3
  <2>5. ASSUME NEW h \in HandleIds, Is(h, {"loaded"}), NEW d \in DOMAIN handles[h].devices
        PROVE  Deref(handles[h].devices[d]) = d
    <3>1. Wrapped(client) /\ handles[h].devices[d] = <<0, d>>
      BY <2>5 DEF IInv, DeviceTable
    <3>2. handles[h] \in LoadedObjects
      BY <2>5, IsFacts DEF IInv
    <3>3. d \in Addressable
      BY <2>5, <3>2 DEF LoadedObjects
    <3>4. d \in 1 .. Len(client.owned)
      BY <3>1, <3>3, PjrtAssumption DEF Wrapped, CppDevices
    <3> QED BY <2>1, <3>1, <3>4
  <2> QED BY <2>2, <2>3, <2>4, <2>5
<1> QED BY <1>1, InvariantHolds, PTL

\* Await and Error query an event's future once between them, unless the caller
\* awaits an event that was queried; until then its status is its future's result.
THEOREM StatusIsTheFuturesHolds == Spec => []StatusIsTheFutures
<1>1. IInv => StatusIsTheFutures
  <2> SUFFICES ASSUME IInv, NEW h \in HandleIds, Is(h, {"event"})
               PROVE  /\ handles[h].awaits <= 1 + handles[h].again
                      /\ handles[h].status # None /\ handles[h].again = 0
                           => handles[h].status = futures[handles[h].future].state
    BY DEF StatusIsTheFutures
  <2>1. handles[h] \in EventObjects /\ GoodStatus(handles[h], futures[handles[h].future].state)
    BY IsFacts DEF IInv, Statuses
  <2>2. handles[h].awaits \in Nat /\ handles[h].again \in Nat
    BY <2>1 DEF EventObjects
  <2> QED BY <2>1, <2>2 DEF GoodStatus
<1> QED BY <1>1, InvariantHolds, PTL

\* What CostAnalysisStays says of a step.
CostKept(h) ==
  Is(h, {"executable"}) /\ handles[h].published /\ handles'[h] # None
    => handles'[h].kind = "executable" /\ handles'[h].writes = handles[h].writes

\* Only the two cost calls change an executable, and they do not write again.
LEMMA CostKeptStep ==
  ASSUME IInv, Next, NEW h \in HandleIds
  PROVE  CostKept(h)
<1>1. ASSUME NEW objects, Create(objects) PROVE CostKept(h)
  BY <1>1 DEF Create, CostKept, Is
<1>2. CASE handles' = handles
  BY <1>2 DEF CostKept, Is
<1>3. ASSUME NEW g \in HandleIds, ~Is(g, {"executable"}), NEW o,
             handles' = [handles EXCEPT ![g] = o]
      PROVE  CostKept(h)
  BY <1>3 DEF CostKept, Is, IInv, TypeOK
<1>4. ASSUME NEW g \in HandleIds, Is(g, {"executable"}), NEW o,
             handles' = [handles EXCEPT ![g] = o],
             \/ o = None
             \/ /\ o.kind = "executable"
                /\ handles[g].published => o.writes = handles[g].writes
      PROVE  CostKept(h)
  BY <1>4 DEF CostKept, Is, IInv, TypeOK
<1>5. ASSUME NEW t \in Threads, NEW g \in HandleIds, PopulateCostAnalysis(t, g)
      PROVE  CostKept(h)
  <2>1. Is(g, {"executable"})
    BY <1>5 DEF PopulateCostAnalysis
  <2>2. PICK found \in {0, 1} : handles' = [handles EXCEPT ![g] = Populated(handles[g], found)]
    BY <1>5 DEF PopulateCostAnalysis
  <2>3. PICK o : o = Populated(handles[g], found)
    OBVIOUS
  <2>4. handles[g] \in ExecutableObjects
    BY <2>1, IsFacts DEF IInv
  <2>5. handles[g].published => handles[g].ran
    BY <2>1 DEF IInv, CostWritten
  <2>6. o.kind = "executable" /\ (handles[g].published => o.writes = handles[g].writes)
    <3>1. CASE handles[g].ran
      BY <2>3, <2>4, <3>1 DEF Populated, ExecutableObjects
    <3>2. CASE ~handles[g].ran
      <4>1. o = [handles[g] EXCEPT !.ran = TRUE, !.writes = @ + found]
        BY <2>3, <3>2 DEF Populated
      <4> QED BY <2>4, <2>5, <3>2, <4>1 DEF ExecutableObjects
    <3> QED BY <3>1, <3>2
  <2> QED BY <1>4, <2>1, <2>2, <2>3, <2>6
<1>6. ASSUME NEW t \in Threads, ReturnCostAnalysis(t) PROVE CostKept(h)
  <2>1. PICK g \in HandleIds : g = pc[t].handle /\ Is(g, {"executable"})
    BY <1>6 DEF ReturnCostAnalysis, IInv, InUse
  <2>2. PICK o : o = [handles[g] EXCEPT !.published = handles[g].writes > 0]
    OBVIOUS
  <2>3. handles' = [handles EXCEPT ![g] = o]
    BY <1>6, <2>1, <2>2 DEF ReturnCostAnalysis
  <2>4. handles[g] \in ExecutableObjects
    BY <2>1, IsFacts DEF IInv
  <2>5. o.kind = "executable" /\ o.writes = handles[g].writes
    BY <2>2, <2>4 DEF ExecutableObjects
  <2> QED BY <1>4, <2>1, <2>3, <2>5
<1>7. ASSUME NEW t \in Threads, NEW g \in HandleIds,
             \/ Destroy(t, g) \/ LoadedExecutableDelete(t, g) \/ BufferDelete(t, g)
             \/ Error(t, g)
      PROVE  CostKept(h)
  <2>1. CASE Destroy(t, g)
    BY <1>3, <1>4, <2>1 DEF Destroy
  <2>2. CASE LoadedExecutableDelete(t, g) \/ BufferDelete(t, g)
    <3>1. PICK o : o = [handles[g] EXCEPT !.deleted = TRUE]
      OBVIOUS
    <3>2. handles' = [handles EXCEPT ![g] = o] /\ ~Is(g, {"executable"})
      BY <2>2, <3>1 DEF LoadedExecutableDelete, BufferDelete, Is
    <3> QED BY <1>3, <3>2
  <2>3. CASE Error(t, g)
    <3>1. PICK result \in Queried(handles[g]) :
            handles' = [handles EXCEPT ![g] = IF HasStatus(handles[g]) THEN handles[g]
                                              ELSE Awaited(handles[g], result, 0)]
      BY <2>3 DEF Error
    <3>2. PICK o : o = IF HasStatus(handles[g]) THEN handles[g]
                       ELSE Awaited(handles[g], result, 0)
      OBVIOUS
    <3>3. handles' = [handles EXCEPT ![g] = o] /\ ~Is(g, {"executable"})
      BY <2>3, <3>1, <3>2 DEF Error, Is
    <3> QED BY <1>3, <3>3
  <2> QED BY <1>7, <2>1, <2>2, <2>3
<1>8. ASSUME NEW t \in Threads, AwaitReturns(t) PROVE CostKept(h)
  <2>1. PICK g \in HandleIds : g = pc[t].handle /\ Is(g, {"event"})
    BY <1>8 DEF AwaitReturns, IInv, InUse
  <2>2. PICK result \in Queried(handles[g]) :
          handles' = [handles EXCEPT ![g] = Awaited(handles[g], result, Repeated(handles[g]))]
    BY <1>8, <2>1 DEF AwaitReturns
  <2>3. ~Is(g, {"executable"})
    BY <2>1 DEF Is
  <2> QED BY <1>3, <2>2, <2>3
<1>9. ASSUME NEW t \in Threads, NEW g \in HandleIds,
             \/ GetExecutable(t, g) \/ Serialize(t, g) \/ DeserializeAndLoad(t, g)
             \/ ToHostBuffer(t, g) \/ ReadyEvent(t, g) \/ CopyToDevice(t, g)
      PROVE  CostKept(h)
  BY <1>1, <1>9 DEF GetExecutable, Serialize, DeserializeAndLoad, ToHostBuffer, ReadyEvent,
                    CopyToDevice, New
<1>10. ASSUME NEW t \in Threads,
              \/ Compile(t) \/ CompileForTopology(t) \/ BufferFromHostBuffer(t)
              \/ ExecuteReturns(t)
       PROVE  CostKept(h)
  BY <1>1, <1>10 DEF Compile, CompileForTopology, BufferFromHostBuffer, ExecuteReturns, New
<1>11. ASSUME NEW t \in Threads,
              \/ ClientCreate(t) \/ ClientDestroy(t) \/ WrapDevice(t) \/ ClientCreated(t)
              \/ \E g \in HandleIds : OnReady(t, g) \/ Await(t, g)
              \/ \E g \in HandleIds, lists \in SUBSET {"send", "recv"}, wanted \in BOOLEAN :
                   Execute(t, g, lists, wanted)
       PROVE  CostKept(h)
  BY <1>2, <1>11 DEF ClientCreate, ClientDestroy, WrapDevice, ClientCreated, OnReady, Await,
                     Execute
<1>12. ASSUME NEW f \in FutureIds, SendCallback(f) \/ RecvCallback(f) \/ Complete(f)
       PROVE  CostKept(h)
  BY <1>1, <1>2, <1>12 DEF SendCallback, RecvCallback, Complete, New
<1>13. ASSUME NEW t \in Threads, Caller(t) PROVE CostKept(h)
  BY <1>5, <1>7, <1>9, <1>10, <1>11, <1>13 DEF Caller
<1>14. ASSUME NEW t \in Threads, Wrapper(t) PROVE CostKept(h)
  BY <1>6, <1>8, <1>10, <1>11, <1>14 DEF Wrapper
<1> QED BY <1>12, <1>13, <1>14 DEF Next

\* GetCostAnalysis never writes again what it has given pointers to.
THEOREM CostAnalysisStaysHolds == Spec => CostAnalysisStays
<1>1. IInv /\ [Next]_vars =>
        [\A h \in HandleIds :
           Is(h, {"executable"}) /\ handles[h].published /\ handles'[h] # None
             => handles'[h].kind = "executable" /\ handles'[h].writes = handles[h].writes]_vars
  BY CostKeptStep DEF CostKept
<1> QED BY <1>1, InvariantHolds, PTL DEF Spec, CostAnalysisStays

=============================================================================
