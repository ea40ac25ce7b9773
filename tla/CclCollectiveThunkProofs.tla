----------------------- MODULE CclCollectiveThunkProofs -----------------------
(***************************************************************************)
(* Proofs about CclCollectiveThunk, for any number of threads, any program *)
(* of one clique, any schedule and every setting: a done event means that  *)
(* the collective has run, the first run blocks, and the collectives       *)
(* implement Collective.                                                   *)
(*                                                                         *)
(* The argument is about what is known at the end of a queue.  A fact is   *)
(* the execution of an input or of a kernel.  A command may need facts: an *)
(* output those of its collective, a kernel its inputs, a signal what its  *)
(* event stands for; and it may give some: a wait gives what its events    *)
(* stand for.  The invariant is that whatever a command needs has happened *)
(* or is given by a command ahead of it in its queue, and that the hosts   *)
(* submit a command only where what it needs is known.                     *)
(***************************************************************************)
EXTENDS CclCollectiveThunk, CclOpsProofs, SequenceTheorems

USE DEF Calls

EndOf(o) == o + Program[o].max_call

\* The first call of an operation, and where the calls of an operation lie.
LEMMA OpFacts ==
  ASSUME NEW o \in Operations
  PROVE  /\ o \in Calls /\ o \in Nat \ {0} /\ OpOf(o) = o
         /\ Program[o].max_call \in Nat \ {0} /\ EndOf(o) \in Nat
         /\ o \in CallsOf(o) /\ CallsOf(o) = o .. EndOf(o) - 1
         /\ CallsOf(o) \subseteq Calls
<1>1. PICK c \in Calls : o = OpOf(c)
  BY DEF Operations
<1>2. o \in Calls /\ c \in CallsOf(o)
  BY <1>1, OperationsAssumption
<1>3. o \in Nat \ {0} /\ Program[o].max_call \in Nat
  <2>1. Program[o] \in CallRecords /\ Calls = 1 .. Len(Program) /\ Len(Program) \in Nat
    BY <1>2, ProgramAssumption
  <2> QED BY <1>2, <2>1 DEF CallRecords
<1>4. Program[o].max_call # 0
  BY <1>2, <1>3 DEF CallsOf
<1>5. o \in CallsOf(o) /\ CallsOf(o) = o .. EndOf(o) - 1
  BY <1>3, <1>4 DEF CallsOf, EndOf
<1>6. OpOf(o) = o /\ CallsOf(o) \subseteq Calls
  BY <1>5, OperationsAssumption
<1> QED BY <1>2, <1>3, <1>4, <1>5, <1>6 DEF EndOf

\* The calls of two operations do not mix.
LEMMA OpsApart ==
  ASSUME NEW o \in Operations, NEW x \in Operations, o < x
  PROVE  EndOf(o) <= x
<1>1. OpOf(x) = x /\ x \in Nat /\ o \in Nat /\ EndOf(o) \in Nat
  BY OpFacts
<1>2. CallsOf(o) = o .. EndOf(o) - 1
  BY OpFacts
<1>3. x \notin CallsOf(o)
  BY <1>1, OperationsAssumption
<1> QED BY <1>1, <1>2, <1>3

\* The operation of a call, and its first and last call.
LEMMA CallOps ==
  ASSUME NEW c \in Calls
  PROVE  /\ OpOf(c) \in Operations /\ c \in CallsOf(OpOf(c)) /\ c \in Nat
         /\ Program[c].current_call = 0 <=> c = OpOf(c)
         /\ Program[c].current_call = Program[c].max_call - 1 <=> c = EndOf(OpOf(c)) - 1
         /\ Program[c].comm = Program[OpOf(c)].comm
<1>1. OpOf(c) \in Operations /\ c \in CallsOf(OpOf(c))
  BY OperationsAssumption DEF Operations
<1>2. /\ Program[c].max_call = Program[OpOf(c)].max_call
      /\ Program[c].comm = Program[OpOf(c)].comm
  BY <1>1, OperationsAssumption
<1>3. Program[c].current_call \in Nat /\ Program[c].max_call \in Nat /\ c \in Nat
  <2>1. Program[c] \in CallRecords /\ Calls = 1 .. Len(Program) /\ Len(Program) \in Nat
    BY ProgramAssumption
  <2> QED BY <2>1 DEF CallRecords
<1>4. OpOf(c) = c - Program[c].current_call
  BY DEF OpOf
<1>5. EndOf(OpOf(c)) = OpOf(c) + Program[c].max_call
  BY <1>2 DEF EndOf
<1> QED BY <1>1, <1>2, <1>3, <1>4, <1>5

\* The thunks of the schedule.
IsThunk(i, k, o) == i \in DOMAIN Schedule /\ Schedule[i].thunk = k /\ Schedule[i].op = o

LEMMA ScheduleFacts ==
  /\ Len(Schedule) \in Nat /\ DOMAIN Schedule = 1 .. Len(Schedule)
  /\ \A i \in DOMAIN Schedule : /\ Schedule[i] \in [thunk : ThunkKinds, op : Operations]
                                /\ Schedule[i].thunk \in ThunkKinds
                                /\ Schedule[i].op \in Operations
                                /\ IsThunk(i, Schedule[i].thunk, Schedule[i].op)
                                /\ i \in Nat \ {0}
<1>1. Schedule \in Seq([thunk : ThunkKinds, op : Operations])
  BY ScheduleAssumption
<1>2. Len(Schedule) \in Nat /\ DOMAIN Schedule = 1 .. Len(Schedule)
  BY <1>1
<1>3. ASSUME NEW i \in DOMAIN Schedule PROVE Schedule[i] \in [thunk : ThunkKinds, op : Operations]
  <2>1. i \in 1 .. Len(Schedule)
    BY <1>2
  <2> QED BY <1>1, <2>1, ElementOfSeq, Zenon
<1> QED BY <1>2, <1>3 DEF IsThunk

\* A thunk is in the schedule once; the thunks of an operation are in order.
LEMMA ThunkOrder ==
  ASSUME NEW o \in Operations
  PROVE  /\ \A k \in ThunkKinds : \A i, j : IsThunk(i, k, o) /\ IsThunk(j, k, o) => i = j
         /\ \E i, s, d, u \in DOMAIN Schedule :
              /\ IsThunk(i, "input", o) /\ IsThunk(s, "start", o)
              /\ IsThunk(d, "done", o) /\ IsThunk(u, "output", o)
              /\ i < s /\ s < d /\ d < u
<1>1. ASSUME NEW k \in ThunkKinds, NEW i, NEW j, IsThunk(i, k, o), IsThunk(j, k, o)
      PROVE  i = j
  <2>1. /\ Schedule[i] \in [thunk : ThunkKinds, op : Operations]
        /\ Schedule[j] \in [thunk : ThunkKinds, op : Operations]
    BY <1>1, ScheduleFacts DEF IsThunk
  <2>2. Schedule[i] = Schedule[j]
    BY <1>1, <2>1 DEF IsThunk
  <2> QED BY <1>1, <2>2, ScheduleAssumption DEF IsThunk
<1>2. PICK p \in [ThunkKinds -> DOMAIN Schedule] :
        /\ \A k \in ThunkKinds : Schedule[p[k]] = [thunk |-> k, op |-> o]
        /\ p["input"] < p["start"] /\ p["start"] < p["done"] /\ p["done"] < p["output"]
  BY ScheduleAssumption
<1>3. ASSUME NEW k \in ThunkKinds PROVE IsThunk(p[k], k, o)
  <2>1. Schedule[p[k]] = [thunk |-> k, op |-> o] /\ p[k] \in DOMAIN Schedule
    BY <1>2, ScheduleFacts
  <2> QED BY <2>1 DEF IsThunk
<1> QED BY <1>1, <1>2, <1>3 DEF ThunkKinds

\* A set of numbers that is not empty has a least one, and Min is it.
LEMMA LeastIn ==
  ASSUME NEW S \in SUBSET Nat, S # {}
  PROVE  \E m \in S : \A j \in S : m <= j
<1>1. PICK m \in S : \A j \in S : ~(<<j, m>> \in OpToRel(<, Nat))
  BY NatLessThanWellFounded, WFMin
<1>2. OpToRel(<, Nat) = {p \in Nat \X Nat : p[1] < p[2]}
  BY DEF OpToRel
<1>3. \A j \in S : ~(<<j, m>> \in {p \in Nat \X Nat : p[1] < p[2]})
  BY <1>1, <1>2, Zenon
<1>4. ASSUME NEW j \in S PROVE m <= j
  <2>1. j \in Nat /\ m \in Nat /\ <<j, m>> \in Nat \X Nat
    OBVIOUS
  <2>2. ~(j < m)
    BY <1>3, <2>1
  <2> QED BY <2>1, <2>2
<1> QED BY <1>4

LEMMA MinIs ==
  ASSUME NEW S \in SUBSET Nat, S # {}
  PROVE  Min(S) \in S /\ \A j \in S : Min(S) <= j
<1>1. \E m \in S : \A j \in S : m <= j
  BY LeastIn
<1> QED BY <1>1 DEF Min

\* The next thunk: the first emitted one after i, or the end.
LEMMA FollowingIs ==
  ASSUME NEW i \in 0 .. Len(Schedule)
  PROVE  /\ Following(i) \in i + 1 .. Len(Schedule) + 1
         /\ Following(i) \in DOMAIN Schedule => Following(i) \in Emitted
         /\ \A j \in Emitted : j < Following(i) => j <= i
<1>1. PICK S : S = {j \in Emitted : j > i} \cup {Len(Schedule) + 1}
  OBVIOUS
<1>2. S \in SUBSET Nat /\ S # {}
  BY <1>1, ScheduleFacts DEF Emitted
<1>3. PICK n : n = Min(S) /\ n \in S /\ \A j \in S : n <= j
  BY <1>2, MinIs
<1>4. Following(i) = n
  BY <1>1, <1>3 DEF Following
<1>5. Emitted \subseteq 1 .. Len(Schedule) /\ Len(Schedule) \in Nat
  BY ScheduleFacts DEF Emitted
<1>6. n \in i + 1 .. Len(Schedule) + 1
  BY <1>1, <1>2, <1>3, <1>5
<1>7. n \in DOMAIN Schedule => n \in Emitted
  BY <1>1, <1>3, <1>5, ScheduleFacts
<1>8. \A j \in Emitted : j < n => j <= i
  BY <1>1, <1>2, <1>3, <1>5
<1> QED BY <1>4, <1>6, <1>7, <1>8

-----------------------------------------------------------------------------
(* What is known in a queue.                                               *)

\* The facts: the input of thread t for operation o, the kernel of call c.
Group(c)      == {[thread |-> u, call |-> c] : u \in Threads}
InputOf(t, o) == <<"input", <<t, o>>>>
KernelOf(c)   == <<"kernel", Group(c)>>
KernelsOf(o)  == {KernelOf(c) : c \in CallsOf(o)}
Happened      == ({"input"} \X inputsRun) \cup ({"kernel"} \X kernelsRun)

LEMMA HappenedIs ==
  /\ \A t, o : InputOf(t, o) \in Happened <=> <<t, o>> \in inputsRun
  /\ \A c : KernelOf(c) \in Happened <=> Group(c) \in kernelsRun
  BY DEF InputOf, KernelOf, Happened

\* What the completion of an event stands for.
StandsFor(e) ==
  CASE e[1] = "inputs"   -> {InputOf(e[2], e[3])}
    [] e[1] = "ready"    -> {InputOf(e[2], OpOf(e[3]))}
    [] e[1] = "finished" -> KernelsOf(OpOf(e[3]))
    [] e[1] = "done"     -> KernelsOf(e[3])

\* What has to have happened when a command executes, and what has happened
\* once it has.
Needs(c) ==
  CASE c.cmd = "work" /\ c.thunk = "output" -> KernelsOf(c.op)
    [] c.cmd = "kernel" -> {InputOf(p.thread, OpOf(p.call)) : p \in c.group}
    [] c.cmd = "signal" -> StandsFor(c.event)
    [] OTHER -> {}
Gives(c) ==
  CASE c.cmd = "work" /\ c.thunk = "input" -> {InputOf(c.thread, c.op)}
    [] c.cmd = "kernel" -> {<<"kernel", c.group>>}
    [] c.cmd = "wait" -> UNION {StandsFor(e) : e \in c.events}
    [] OTHER -> {}

Events   == {"inputs", "ready", "finished", "done"} \X Threads \X Nat
Commands ==
  [cmd : {"work"}, thunk : {"input", "output"}, thread : Threads, op : Operations]
    \cup [cmd : {"kernel"}, group : {Group(c) : c \in Calls}]
    \cup [cmd : {"signal"}, event : Events]
    \cup [cmd : {"wait"}, events : SUBSET Events]
Submissions == [queue : Queues, command : Commands]

LEMMA CommandFacts ==
  /\ \A t \in Threads, o \in Operations :
       /\ Work("input", t, o) \in Commands /\ Work("output", t, o) \in Commands
       /\ Needs(Work("input", t, o)) = {} /\ Gives(Work("input", t, o)) = {InputOf(t, o)}
       /\ Needs(Work("output", t, o)) = KernelsOf(o)
  /\ \A c \in Calls :
       /\ Kernel(Group(c)) \in Commands
       /\ Needs(Kernel(Group(c))) = {InputOf(t, OpOf(c)) : t \in Threads}
       /\ Gives(Kernel(Group(c))) = {KernelOf(c)}
  /\ \A e \in Events : Signal(e) \in Commands /\ Needs(Signal(e)) = StandsFor(e)
  /\ \A es \in SUBSET Events : /\ WaitFor(es) \in Commands /\ Needs(WaitFor(es)) = {}
                               /\ Gives(WaitFor(es)) = UNION {StandsFor(e) : e \in es}
<1>1. ASSUME NEW t \in Threads, NEW o \in Operations
      PROVE  /\ Work("input", t, o) \in Commands /\ Work("output", t, o) \in Commands
             /\ Needs(Work("input", t, o)) = {} /\ Gives(Work("input", t, o)) = {InputOf(t, o)}
             /\ Needs(Work("output", t, o)) = KernelsOf(o)
  BY DEF Work, Commands, Needs, Gives
<1>2. ASSUME NEW c \in Calls
      PROVE  /\ Kernel(Group(c)) \in Commands
             /\ Needs(Kernel(Group(c))) = {InputOf(t, OpOf(c)) : t \in Threads}
             /\ Gives(Kernel(Group(c))) = {KernelOf(c)}
  <2>1. Kernel(Group(c)) \in Commands
    BY DEF Kernel, Commands
  <2>2. Needs(Kernel(Group(c))) = {InputOf(p.thread, OpOf(p.call)) : p \in Group(c)}
    BY DEF Kernel, Needs
  <2>3. {InputOf(p.thread, OpOf(p.call)) : p \in Group(c)} = {InputOf(t, OpOf(c)) : t \in Threads}
    <3>1. \A p \in Group(c) : p.thread \in Threads /\ p.call = c
      BY DEF Group
    <3>2. ASSUME NEW t \in Threads PROVE \E p \in Group(c) : p.thread = t /\ p.call = c
      <4>1. [thread |-> t, call |-> c] \in Group(c)
        BY DEF Group
      <4> QED BY <4>1
    <3>3. ASSUME NEW p \in Group(c)
          PROVE  InputOf(p.thread, OpOf(p.call)) \in {InputOf(t, OpOf(c)) : t \in Threads}
      BY <3>1, Zenon
    <3>4. ASSUME NEW t \in Threads
          PROVE  InputOf(t, OpOf(c)) \in {InputOf(p.thread, OpOf(p.call)) : p \in Group(c)}
      BY <3>2, Zenon
    <3> QED BY <3>3, <3>4, Zenon
  <2>4. Gives(Kernel(Group(c))) = {KernelOf(c)}
    BY DEF Kernel, Gives, KernelOf
  <2> QED BY <2>1, <2>2, <2>3, <2>4
<1>3. ASSUME NEW e \in Events PROVE Signal(e) \in Commands /\ Needs(Signal(e)) = StandsFor(e)
  BY DEF Signal, Commands, Needs
<1>4. ASSUME NEW es \in SUBSET Events
      PROVE  /\ WaitFor(es) \in Commands /\ Needs(WaitFor(es)) = {}
             /\ Gives(WaitFor(es)) = UNION {StandsFor(e) : e \in es}
  BY DEF WaitFor, Commands, Needs, Gives
<1> QED BY <1>1, <1>2, <1>3, <1>4

LEMMA EventFacts ==
  ASSUME NEW t \in Threads, NEW n \in Nat
  PROVE  /\ <<"inputs", t, n>> \in Events /\ StandsFor(<<"inputs", t, n>>) = {InputOf(t, n)}
         /\ <<"ready", t, n>> \in Events /\ StandsFor(<<"ready", t, n>>) = {InputOf(t, OpOf(n))}
         /\ <<"finished", t, n>> \in Events /\ StandsFor(<<"finished", t, n>>) = KernelsOf(OpOf(n))
         /\ <<"done", t, n>> \in Events /\ StandsFor(<<"done", t, n>>) = KernelsOf(n)
  BY DEF Events, StandsFor

\* A fact is known at the end of queue q: it has happened, or a command in q
\* gives it.
Known(queues, q, f) ==
  f \in Happened \/ \E j \in DOMAIN queues[q] : f \in Gives(queues[q][j])

\* What a command needs has happened or is given by a command ahead of it.
Sound(queues) ==
  \A q \in Queues : \A k \in DOMAIN queues[q] : \A f \in Needs(queues[q][k]) :
    f \in Happened \/ \E j \in 1 .. k - 1 : f \in Gives(queues[q][j])

Grows(before, after) ==
  \A q \in Queues : \A f : Known(before, q, f) => Known(after, q, f)

\* A command may be submitted where what it needs is known.
LEMMA SubmittedOne ==
  ASSUME NEW queues \in [Queues -> Seq(Commands)], Sound(queues),
         NEW sub \in Submissions,
         \A f \in Needs(sub.command) : Known(queues, sub.queue, f)
  PROVE  /\ Submitted(queues, sub) \in [Queues -> Seq(Commands)]
         /\ Sound(Submitted(queues, sub))
         /\ Grows(queues, Submitted(queues, sub))
         /\ \A f \in Gives(sub.command) : Known(Submitted(queues, sub), sub.queue, f)
<1>1. PICK q, c, new : /\ q = sub.queue /\ c = sub.command /\ q \in Queues /\ c \in Commands
                       /\ new = Submitted(queues, sub)
  BY DEF Submissions
<1>2. new = [queues EXCEPT ![q] = Append(queues[q], c)]
  BY <1>1 DEF Submitted
<1>3. PICK s, n : /\ s = queues[q] /\ s \in Seq(Commands) /\ n = Len(s) /\ n \in Nat
                  /\ DOMAIN s = 1 .. n
  BY <1>1
<1>4. /\ new \in [Queues -> Seq(Commands)]
      /\ new[q] = Append(s, c) /\ \A r \in Queues : r # q => new[r] = queues[r]
  BY <1>1, <1>2, <1>3
<1>5. /\ DOMAIN new[q] = 1 .. n + 1 /\ new[q][n + 1] = c
      /\ \A j \in 1 .. n : new[q][j] = s[j]
  BY <1>1, <1>3, <1>4
<1>6. Grows(queues, new)
  <2> SUFFICES ASSUME NEW r \in Queues, NEW f, Known(queues, r, f) PROVE Known(new, r, f)
    BY DEF Grows
  <2>1. CASE r = q
    BY <1>3, <1>5, <2>1 DEF Known
  <2>2. CASE r # q
    BY <1>4, <2>2 DEF Known
  <2> QED BY <2>1, <2>2
<1>7. \A f \in Gives(c) : Known(new, q, f)
  BY <1>3, <1>5 DEF Known
<1>8. Sound(new)
  <2> SUFFICES ASSUME NEW r \in Queues, NEW k \in DOMAIN new[r], NEW f \in Needs(new[r][k])
               PROVE  f \in Happened \/ \E j \in 1 .. k - 1 : f \in Gives(new[r][j])
    BY DEF Sound
  <2>1. CASE r # q
    BY <1>4, <2>1 DEF Sound
  <2>2. CASE r = q /\ k = n + 1
    <3>1. f \in Needs(c)
      BY <1>5, <2>2
    <3>2. Known(queues, q, f)
      BY <1>1, <3>1
    <3>3. f \in Happened \/ \E j \in 1 .. n : f \in Gives(s[j])
      BY <1>3, <3>2 DEF Known
    <3> QED BY <1>3, <1>5, <2>2, <3>3
  <2>3. CASE r = q /\ k # n + 1
    <3>1. k \in 1 .. n /\ f \in Needs(s[k])
      BY <1>3, <1>5, <2>3
    <3>2. f \in Happened \/ \E j \in 1 .. k - 1 : f \in Gives(s[j])
      BY <1>1, <1>3, <3>1 DEF Sound
    <3>3. \A j \in 1 .. k - 1 : new[r][j] = s[j]
      BY <1>3, <1>5, <2>3, <3>1
    <3> QED BY <3>2, <3>3
  <2> QED BY <2>1, <2>2, <2>3
<1> QED BY <1>1, <1>4, <1>6, <1>7, <1>8

\* The function FoldLeft chooses: the queues after the submissions at the
\* places s.
IsFold(g, n, queues, subs) ==
  g = [s \in SUBSET (1 .. n) |->
         IF s = {} THEN queues ELSE Submitted(g[s \ {Max(s)}], subs[Max(s)])]

LEMMA MaxIs ==
  ASSUME NEW S \in SUBSET Nat, NEW k \in S, \A y \in S : y <= k
  PROVE  Max(S) = k
<1>1. k \in S /\ \A y \in S : k >= y
  OBVIOUS
<1>2. Max(S) \in S /\ \A y \in S : Max(S) >= y
  BY <1>1 DEF Max
<1>3. PICK m : m = Max(S)
  OBVIOUS
<1>4. m \in Nat /\ k \in Nat /\ m >= k /\ k >= m
  BY <1>1, <1>2, <1>3
<1> QED BY <1>3, <1>4

LEMMA FoldExists ==
  ASSUME NEW queues, NEW subs, NEW n \in Nat
  PROVE  \E g : IsFold(g, n, queues, subs)
<1> DEFINE Bad == {k \in Nat : ~\E g : IsFold(g, k, queues, subs)}
<1> SUFFICES ASSUME Bad # {} PROVE FALSE
  OBVIOUS
<1>1. PICK k \in Bad : \A i \in Bad : k <= i
  BY LeastIn
<1>2. CASE k = 0
  <2>1. SUBSET (1 .. 0) = {{}}
    OBVIOUS
  <2>2. IsFold([s \in SUBSET (1 .. 0) |-> queues], 0, queues, subs)
    BY <2>1 DEF IsFold
  <2> QED BY <1>2, <2>2
<1>3. CASE k # 0
  <2>1. k - 1 \in Nat /\ ~(k <= k - 1) /\ k \in Nat
    BY <1>3
  <2>2. PICK g : IsFold(g, k - 1, queues, subs)
    BY <1>1, <2>1
  <2> DEFINE With(s) == IF k \in s THEN Submitted(g[s \ {k}], subs[k]) ELSE g[s]
             h == [s \in SUBSET (1 .. k) |-> With(s)]
  <2>3. ASSUME NEW s \in SUBSET (1 .. k)
        PROVE  With(s) = IF s = {} THEN queues ELSE Submitted(h[s \ {Max(s)}], subs[Max(s)])
    <3>1. CASE k \in s
      <4>1. Max(s) = k
        <5>1. s \in SUBSET Nat /\ \A y \in s : y <= k
          BY <2>1
        <5> QED BY <3>1, <5>1, MaxIs
      <4>2. s \ {k} \in SUBSET (1 .. k) /\ k \notin s \ {k}
        OBVIOUS
      <4>3. h[s \ {k}] = g[s \ {k}]
        BY <4>2
      <4> HIDE DEF h
      <4> QED BY <3>1, <4>1, <4>3
    <3>2. CASE k \notin s
      <4>1. s \in SUBSET (1 .. k - 1)
        BY <2>1, <3>2
      <4>2. s \ {Max(s)} \in SUBSET (1 .. k) /\ k \notin s \ {Max(s)}
        BY <3>2
      <4>3. h[s \ {Max(s)}] = g[s \ {Max(s)}]
        BY <4>2
      <4> HIDE DEF h
      <4>4. g[s] = IF s = {} THEN queues ELSE Submitted(g[s \ {Max(s)}], subs[Max(s)])
        BY <2>2, <4>1 DEF IsFold
      <4> QED BY <3>2, <4>3, <4>4
    <3> QED BY <3>1, <3>2
  <2> HIDE DEF With
  <2>4. h = [s \in SUBSET (1 .. k) |->
               IF s = {} THEN queues ELSE Submitted(h[s \ {Max(s)}], subs[Max(s)])]
    BY <2>3
  <2>5. IsFold(h, k, queues, subs)
    BY <2>4 DEF IsFold
  <2> QED BY <2>5
<1> QED BY <1>2, <1>3

\* A submission may rely on what the ones before it give to its queue.
Supported(queues, subs) ==
  \A n \in DOMAIN subs : \A f \in Needs(subs[n].command) :
    \/ Known(queues, subs[n].queue, f)
    \/ \E m \in 1 .. n - 1 : subs[m].queue = subs[n].queue /\ f \in Gives(subs[m].command)

\* What a sequence of submissions leaves.
Extends(before, after, subs) ==
  /\ after \in [Queues -> Seq(Commands)] /\ Sound(after) /\ Grows(before, after)
  /\ \A n \in DOMAIN subs : \A f \in Gives(subs[n].command) : Known(after, subs[n].queue, f)

LEMMA SubmitSound ==
  ASSUME NEW queues \in [Queues -> Seq(Commands)], Sound(queues),
         NEW subs \in Seq(Submissions), Supported(queues, subs)
  PROVE  Extends(queues, Submit(queues, subs), subs)
<1>0. ASSUME NEW k \in 1 .. Len(subs) PROVE subs[k] \in Submissions
  BY ElementOfSeq, Zenon
<1> DEFINE n == Len(subs)
           g == CHOOSE g : IsFold(g, n, queues, subs)
           Upto(k) == /\ g[1 .. k] \in [Queues -> Seq(Commands)] /\ Sound(g[1 .. k])
                      /\ Grows(queues, g[1 .. k])
                      /\ \A m \in 1 .. k : \A f \in Gives(subs[m].command) :
                           Known(g[1 .. k], subs[m].queue, f)
<1>1. n \in Nat /\ DOMAIN subs = 1 .. n
  OBVIOUS
<1>2. IsFold(g, n, queues, subs)
  BY <1>1, FoldExists
<1>3. Submit(queues, subs) = g[1 .. n]
  BY <1>1 DEF Submit, FoldLeft, MapThenFoldSet, IsFold
<1> HIDE DEF g, n, Upto
<1>4. \A k \in 0 .. n : Upto(k)
  <2> SUFFICES ASSUME \E k \in 0 .. n : ~Upto(k) PROVE FALSE
    OBVIOUS
  <2> DEFINE Bad == {k \in 0 .. n : ~Upto(k)}
  <2>1. Bad \in SUBSET Nat /\ Bad # {}
    BY <1>1
  <2>2. PICK k \in Bad : \A i \in Bad : k <= i
    BY <2>1, LeastIn
  <2>3. CASE k = 0
    <3>1. 1 .. 0 = {} /\ {} \in SUBSET (1 .. n)
      OBVIOUS
    <3>2. g[1 .. 0] = queues
      BY <1>2, <3>1 DEF IsFold
    <3>3. Grows(queues, queues)
      BY DEF Grows
    <3>4. Upto(0)
      BY <3>1, <3>2, <3>3 DEF Upto
    <3> QED BY <2>2, <2>3, <3>4
  <2>4. CASE k # 0
    <3>1. k \in 1 .. n /\ k \in Nat /\ k - 1 \in 0 .. n /\ k - 1 \notin Bad
      BY <1>1, <2>2, <2>4
    <3>2. Upto(k - 1)
      BY <3>1
    <3>3. PICK before, after : before = g[1 .. k - 1] /\ after = g[1 .. k]
      OBVIOUS
    <3>4. after = Submitted(before, subs[k])
      <4>1. 1 .. k \in SUBSET Nat /\ k \in 1 .. k /\ \A y \in 1 .. k : y <= k
        BY <3>1
      <4>2. Max(1 .. k) = k
        BY <4>1, MaxIs
      <4>3. (1 .. k) \ {k} = 1 .. k - 1
        BY <3>1
      <4>4. \A y \in 1 .. k : y \in 1 .. n
        <5>1. k \in Nat /\ n \in Nat /\ k <= n
          BY <1>1, <3>1
        <5> HIDE DEF Bad
        <5> QED BY <5>1
      <4>5. 1 .. k # {} /\ 1 .. k \in SUBSET (1 .. n)
        BY <4>1, <4>4, Zenon
      <4> QED BY <1>2, <3>3, <4>2, <4>3, <4>4, <4>5 DEF IsFold
    <3>5. subs[k] \in Submissions
      BY <1>0, <3>1 DEF n
    <3>6. /\ before \in [Queues -> Seq(Commands)] /\ Sound(before) /\ Grows(queues, before)
          /\ \A m \in 1 .. k - 1 : \A f \in Gives(subs[m].command) :
               Known(before, subs[m].queue, f)
      BY <3>2, <3>3 DEF Upto
    <3>7. ASSUME NEW f \in Needs(subs[k].command) PROVE Known(before, subs[k].queue, f)
      <4>1. subs[k].queue \in Queues
        BY <3>5 DEF Submissions
      <4>2. \/ Known(queues, subs[k].queue, f)
            \/ \E m \in 1 .. k - 1 : subs[m].queue = subs[k].queue /\ f \in Gives(subs[m].command)
        BY <1>1, <3>1 DEF Supported
      <4> QED BY <3>6, <4>1, <4>2 DEF Grows
    <3>8. /\ after \in [Queues -> Seq(Commands)] /\ Sound(after) /\ Grows(before, after)
          /\ \A f \in Gives(subs[k].command) : Known(after, subs[k].queue, f)
      BY <3>4, <3>5, <3>6, <3>7, SubmittedOne
    <3>9. Grows(queues, after)
      BY <3>6, <3>8 DEF Grows
    <3>10. ASSUME NEW m \in 1 .. k, NEW f \in Gives(subs[m].command)
           PROVE  Known(after, subs[m].queue, f)
      <4>1. CASE m = k
        BY <3>8, <4>1
      <4>2. CASE m # k
        <5>1. m \in 1 .. k - 1 /\ m \in 1 .. n
          BY <1>1, <3>1, <4>2
        <5>2. subs[m].queue \in Queues
          BY <1>0, <5>1 DEF Submissions, n
        <5> QED BY <3>6, <3>8, <5>1, <5>2 DEF Grows
      <4> QED BY <4>1, <4>2
    <3>11. Upto(k)
      BY <3>3, <3>8, <3>9, <3>10 DEF Upto
    <3> QED BY <2>2, <3>11
  <2> QED BY <2>3, <2>4
<1>5. Upto(n)
  BY <1>1, <1>4
<1> QED BY <1>1, <1>3, <1>5 DEF Extends, Upto
-----------------------------------------------------------------------------
(* The inductive invariant.                                                *)

Stages == {"begin", "lock", "calls", "record", "first", "block"}

\* The shape of the state.
ThunkTypeOK ==
  /\ config \in Configs
  /\ at \in [Threads -> 1 .. Len(Schedule) + 1]
  /\ stage \in [Threads -> Stages]
  /\ first_call_to_execute \in [Operations -> BOOLEAN]
  /\ done_events \in [Operations -> SUBSET Threads]
  /\ queue \in [Queues -> Seq(Commands)]
  /\ events \in SUBSET Events
  /\ inputsRun \in SUBSET (Threads \X Operations)
  /\ kernelsRun \in SUBSET {Group(c) : c \in Calls}
  /\ outputsRun \in SUBSET (Threads \X Operations)

\* Only emitted thunks are executed, only start thunks have stages, and only
\* the calls are made inside the Manager.
StagesFit ==
  \A t \in Threads :
    /\ at[t] \in DOMAIN Schedule => at[t] \in Emitted
    /\ stage[t] # "begin" => at[t] \in DOMAIN Schedule /\ Schedule[at[t]].thunk = "start"
    /\ stage[t] = "record" => IsAsync(Op(t))
    /\ pc[t] # "running" => stage[t] = "calls"

\* Where thread t is with respect to the start thunk at s.
Ahead(t, s)   == s > at[t] \/ (s = at[t] /\ stage[t] \in {"begin", "lock"})
InCalls(t, s) == s = at[t] /\ stage[t] = "calls"
Called(t, s)  == s < at[t] \/ (s = at[t] /\ stage[t] \in {"record", "first", "block"})
Entered(t, s) == s < at[t] \/ (s = at[t] /\ stage[t] \notin {"begin", "lock"})
Recorded(t, s) == s < at[t] \/ (s = at[t] /\ stage[t] \in {"first", "block"})

\* The Manager's position agrees with the schedule's.
PositionsFit ==
  \A t \in Threads, o \in Operations : \A s \in DOMAIN Schedule : IsThunk(s, "start", o) =>
    /\ Ahead(t, s) => pos[t] <= o
    /\ InCalls(t, s) => pos[t] \in CallsOf(o)
    /\ Called(t, s) => pos[t] >= EndOf(o)

\* A done event is stored from the end of its start thunk to its done thunk.
DoneStored ==
  \A t \in Threads, o \in Operations : \A s, d \in DOMAIN Schedule :
    IsThunk(s, "start", o) /\ IsThunk(d, "done", o) =>
      (t \in done_events[o] <=> IsAsync(o) /\ Recorded(t, s) /\ at[t] <= d)

\* What a completed event stands for has happened.
EventsHold == \A e \in events : StandsFor(e) \subseteq Happened

\* The inputs are known on the compute stream once they are submitted, and
\* on the stream of the operation once its calls begin.
InputsKnown ==
  \A t \in Threads, o \in Operations : \A i \in DOMAIN Schedule :
    /\ IsThunk(i, "input", o) /\ i < at[t] => Known(queue, MainStream(t), InputOf(t, o))
    /\ IsThunk(i, "start", o) /\ Entered(t, i) => Known(queue, StreamOf(t, o), InputOf(t, o))

\* The thread of rank 0: the least rank of the clique.
IsRoot(r, o) == \A u \in Threads : Program[o].comm[r].rank <= Program[o].comm[u].rank

\* On rank 0's stream: everybody's inputs once the first call was launched,
\* and each kernel once its call was.
RootKnows ==
  \A r, t \in Threads, o \in Operations : IsRoot(r, o) =>
    /\ o < Reached(t) => \A u \in Threads : Known(queue, StreamOf(r, o), InputOf(u, o))
    /\ \A c \in CallsOf(o) : c < Reached(t) => Known(queue, StreamOf(r, o), KernelOf(c))

\* On every stream: all kernels of an operation once its last call was launched.
AllKnow ==
  \A t, u \in Threads, o \in Operations : EndOf(o) <= Reached(t) =>
    \A c \in CallsOf(o) : Known(queue, StreamOf(u, o), KernelOf(c))

\* On the compute stream: the kernels of an asynchronous operation once it
\* was awaited.
AwaitedKnown ==
  \A t \in Threads, o \in Operations : \A d \in DOMAIN Schedule :
    IsAsync(o) /\ IsThunk(d, "done", o) /\ d < at[t] =>
      \A c \in CallsOf(o) : Known(queue, MainStream(t), KernelOf(c))

\* In the first run, first_call_to_execute_ is cleared, and a start thunk
\* passed, only after the kernels ran.
FirstRunBlocks ==
  config.first_run =>
    \A o \in Operations :
      \/ KernelsOf(o) \subseteq Happened
      \/ /\ first_call_to_execute[o]
         /\ \A t \in Threads : \A s \in DOMAIN Schedule : IsThunk(s, "start", o) => at[t] <= s

Control == /\ TypeOK /\ Lockstep /\ ThunkTypeOK /\ failed = {}
           /\ StagesFit /\ PositionsFit /\ DoneStored
Knowledge == /\ Sound(queue) /\ EventsHold /\ InputsKnown /\ RootKnows
             /\ AllKnow /\ AwaitedKnown /\ FirstRunBlocks
ThunkInvariant == Control /\ Knowledge

LEMMA StreamFacts ==
  ASSUME NEW t \in Threads, NEW o
  PROVE  /\ MainStream(t) \in Queues /\ CommsStream(t) \in Queues /\ StreamOf(t, o) \in Queues
         /\ IsAsync(o) => StreamOf(t, o) = CommsStream(t)
         /\ ~IsAsync(o) => StreamOf(t, o) = MainStream(t)
         /\ ~config.multiple_streams => CommsStream(t) = MainStream(t) /\ StreamOf(t, o) = MainStream(t)
  BY DEF MainStream, CommsStream, StreamOf, Queues

\* The streams and the emitted thunks are the same after a step.
LEMMA SameStreams ==
  ASSUME UNCHANGED config
  PROVE  /\ \A t, o : /\ StreamOf(t, o)' = StreamOf(t, o) /\ CommsStream(t)' = CommsStream(t)
                      /\ MainStream(t)' = MainStream(t) /\ IsAsync(o)' <=> IsAsync(o)
         /\ Emitted' = Emitted
  BY DEF StreamOf, CommsStream, MainStream, IsAsync, Emitted

LEMMA NextThunkMoves ==
  ASSUME ThunkTypeOK, NEW t \in Threads, at[t] \in DOMAIN Schedule, NextThunk(t)
  PROVE  /\ at' \in [Threads -> 1 .. Len(Schedule) + 1] /\ stage' \in [Threads -> Stages]
         /\ at'[t] > at[t] /\ stage'[t] = "begin"
         /\ at'[t] \in DOMAIN Schedule => at'[t] \in Emitted
         /\ \A i \in Emitted : i < at'[t] => i <= at[t]
         /\ \A u \in Threads : u # t => at'[u] = at[u] /\ stage'[u] = stage[u]
<1>1. PICK a, n : a = at[t] /\ n = Following(a)
  OBVIOUS
<1>2. a \in 0 .. Len(Schedule) /\ Len(Schedule) \in Nat /\ a \in Nat
  BY <1>1, ScheduleFacts
<1>3. /\ n \in a + 1 .. Len(Schedule) + 1
      /\ n \in DOMAIN Schedule => n \in Emitted
      /\ \A j \in Emitted : j < n => j <= a
  BY <1>1, <1>2, FollowingIs
<1>4. /\ at \in [Threads -> 1 .. Len(Schedule) + 1] /\ stage \in [Threads -> Stages]
      /\ at' = [at EXCEPT ![t] = n] /\ stage' = [stage EXCEPT ![t] = "begin"]
  BY <1>1 DEF NextThunk, ThunkTypeOK
<1>5. n \in 1 .. Len(Schedule) + 1 /\ n > a
  BY <1>2, <1>3
<1>6. at'[t] = n /\ \A u \in Threads : u # t => at'[u] = at[u] /\ stage'[u] = stage[u]
  BY <1>4
<1>7. stage' \in [Threads -> Stages] /\ stage'[t] = "begin"
  BY <1>4 DEF Stages
<1>8. at' \in [Threads -> 1 .. Len(Schedule) + 1]
  BY <1>4, <1>5
<1> QED BY <1>1, <1>3, <1>5, <1>6, <1>7, <1>8

LEMMA GotoMoves ==
  ASSUME ThunkTypeOK, NEW t \in Threads, NEW x \in Stages, Goto(t, x)
  PROVE  /\ at' = at /\ stage' \in [Threads -> Stages] /\ stage'[t] = x
         /\ \A u \in Threads : u # t => stage'[u] = stage[u]
  BY DEF Goto, ThunkTypeOK

\* The numbers in the state.
LEMMA Numbers ==
  ASSUME TypeOK, ThunkTypeOK, NEW t \in Threads
  PROVE  /\ at[t] \in Nat \ {0} /\ at[t] \in 1 .. Len(Schedule) + 1 /\ stage[t] \in Stages
         /\ pos[t] \in Nat /\ Reached(t) \in Nat /\ pos[t] <= Reached(t)
<1>1. Len(Schedule) \in Nat /\ Len(Program) \in Nat
  BY ScheduleFacts, ProgramAssumption
<1>2. at[t] \in 1 .. Len(Schedule) + 1 /\ stage[t] \in Stages
  BY DEF ThunkTypeOK
<1>3. pos[t] \in Nat
  BY <1>1 DEF TypeOK
<1> QED BY <1>1, <1>2, <1>3 DEF Reached

\* The thunks of kind "start", "input" and "output" are always emitted.
LEMMA EmittedKinds ==
  ASSUME NEW k \in ThunkKinds, NEW o \in Operations, NEW i \in DOMAIN Schedule, IsThunk(i, k, o),
         k # "done" \/ IsAsync(o)
  PROVE  i \in Emitted
  BY DEF IsThunk, Emitted

\* A thread whose thunk is over goes on to the next one.
LEMMA NextThunkControl ==
  ASSUME Control, NEW t \in Threads, at[t] \in DOMAIN Schedule, NextThunk(t),
         stage[t] \in {"begin", "first", "block"},
         Schedule[at[t]].thunk = "start" => stage[t] # "begin",
         UNCHANGED <<vars, config>>,
         done_events' = IF Schedule[at[t]].thunk = "done"
                          THEN [done_events EXCEPT ![Op(t)] = @ \ {t}] ELSE done_events
  PROVE  StagesFit' /\ PositionsFit' /\ DoneStored'
<1>0. TypeOK /\ ThunkTypeOK /\ StagesFit /\ PositionsFit /\ DoneStored
  BY DEF Control
<1>1. /\ at' \in [Threads -> 1 .. Len(Schedule) + 1] /\ stage' \in [Threads -> Stages]
      /\ at'[t] > at[t] /\ stage'[t] = "begin"
      /\ at'[t] \in DOMAIN Schedule => at'[t] \in Emitted
      /\ \A i \in Emitted : i < at'[t] => i <= at[t]
      /\ \A u \in Threads : u # t => at'[u] = at[u] /\ stage'[u] = stage[u]
  BY <1>0, NextThunkMoves
<1>2. /\ \A u \in Threads : at[u] \in Nat /\ at'[u] \in Nat /\ pos[u] \in Nat
      /\ DOMAIN Schedule = 1 .. Len(Schedule) /\ Len(Schedule) \in Nat
  BY <1>0, <1>1, Numbers, ScheduleFacts
<1>3. pos' = pos /\ pc' = pc /\ config' = config
  BY DEF vars
<1>4. pc[t] = "running"
  BY <1>0 DEF StagesFit
<1>5. StagesFit'
  <2> SUFFICES ASSUME NEW u \in Threads
               PROVE  /\ at'[u] \in DOMAIN Schedule => at'[u] \in Emitted'
                      /\ stage'[u] # "begin" => /\ at'[u] \in DOMAIN Schedule
                                                /\ Schedule[at'[u]].thunk = "start"
                      /\ stage'[u] = "record" => IsAsync(Op(u))'
                      /\ pc'[u] # "running" => stage'[u] = "calls"
    BY DEF StagesFit
  <2>1. Emitted' = Emitted
    BY <1>3, SameStreams
  <2>2. CASE u = t
    BY <1>1, <1>3, <1>4, <2>1, <2>2
  <2>3. CASE u # t
    BY <1>0, <1>1, <1>3, <2>1, <2>3 DEF StagesFit, IsAsync, Op
  <2> QED BY <2>2, <2>3
<1>6. ASSUME NEW o \in Operations, NEW s \in DOMAIN Schedule, IsThunk(s, "start", o)
      PROVE  /\ Ahead(t, s)' => Ahead(t, s)
             /\ ~InCalls(t, s)'
             /\ Called(t, s)' <=> Called(t, s)
             /\ Recorded(t, s)' <=> Recorded(t, s)
  <2>1. s \in Emitted /\ s \in Nat
    BY <1>2, <1>6, EmittedKinds DEF ThunkKinds
  <2>2. s = at[t] => stage[t] \in {"first", "block"}
    BY <1>6 DEF IsThunk
  <2> QED BY <1>1, <1>2, <2>1, <2>2 DEF Ahead, InCalls, Called, Recorded
<1>7. PositionsFit'
  <2> SUFFICES ASSUME NEW u \in Threads, NEW o \in Operations, NEW s \in DOMAIN Schedule,
                      IsThunk(s, "start", o)
               PROVE  /\ Ahead(u, s)' => pos'[u] <= o
                      /\ InCalls(u, s)' => pos'[u] \in CallsOf(o)
                      /\ Called(u, s)' => pos'[u] >= EndOf(o)
    BY DEF PositionsFit
  <2>1. CASE u = t
    BY <1>0, <1>3, <1>6, <2>1 DEF PositionsFit
  <2>2. CASE u # t
    BY <1>0, <1>1, <1>3, <2>2 DEF PositionsFit, Ahead, InCalls, Called
  <2> QED BY <2>1, <2>2
<1>8. DoneStored'
  <2> SUFFICES ASSUME NEW u \in Threads, NEW o \in Operations, NEW s \in DOMAIN Schedule,
                      NEW d \in DOMAIN Schedule, IsThunk(s, "start", o), IsThunk(d, "done", o)
               PROVE  u \in done_events'[o] <=> IsAsync(o)' /\ Recorded(u, s)' /\ at'[u] <= d
    BY DEF DoneStored
  <2>0. /\ done_events \in [Operations -> SUBSET Threads] /\ (IsAsync(o)' <=> IsAsync(o))
        /\ Op(t) \in Operations
    BY <1>0, <1>3, SameStreams, ScheduleFacts DEF ThunkTypeOK, Op
  <2>1. u \in done_events[o] <=> IsAsync(o) /\ Recorded(u, s) /\ at[u] <= d
    BY <1>0 DEF DoneStored
  <2>2. CASE u # t
    <3>1. u \in done_events'[o] <=> u \in done_events[o]
      BY <2>0, <2>2
    <3>2. Recorded(u, s)' <=> Recorded(u, s)
      BY <1>1, <2>2 DEF Recorded
    <3> QED BY <1>1, <2>0, <2>1, <2>2, <3>1, <3>2
  <2>3. CASE u = t /\ d = at[t]
    <3>1. Schedule[at[t]].thunk = "done" /\ Op(t) = o
      BY <2>3 DEF IsThunk, Op
    <3>2. t \notin done_events'[o]
      BY <2>0, <3>1
    <3> QED BY <1>1, <1>2, <2>3, <3>2
  <2>4. CASE u = t /\ d # at[t]
    <3>1. t \in done_events'[o] <=> t \in done_events[o]
      <4>1. Schedule[at[t]].thunk = "done" => Op(t) # o
        <5>1. Schedule[at[t]].thunk = "done" /\ Op(t) = o => IsThunk(at[t], "done", o)
          BY DEF IsThunk, Op
        <5> QED BY <2>4, <5>1, ThunkOrder DEF ThunkKinds
      <4> QED BY <2>0, <4>1
    <3>2. ASSUME IsAsync(o) PROVE at'[t] <= d <=> at[t] <= d
      <4>1. d \in Emitted /\ d \in Nat /\ at'[t] \in Nat /\ at[t] \in Nat
        BY <1>2, <3>2, EmittedKinds DEF ThunkKinds
      <4>2. at'[t] > at[t] /\ (d < at'[t] => d <= at[t]) /\ d # at[t]
        BY <1>1, <2>4, <4>1
      <4> QED BY <4>1, <4>2
    <3> QED BY <1>6, <2>0, <2>1, <2>4, <3>1, <3>2
  <2> QED BY <2>2, <2>3, <2>4
<1> QED BY <1>5, <1>7, <1>8

LEMMA StartOf ==
  ASSUME NEW o \in Operations
  PROVE  \E s \in DOMAIN Schedule : IsThunk(s, "start", o)
  BY ThunkOrder

LEMMA StartOrder ==
  ASSUME NEW o \in Operations, NEW x \in Operations, NEW i \in DOMAIN Schedule,
         NEW j \in DOMAIN Schedule, IsThunk(i, "start", o), IsThunk(j, "start", x), i < j
  PROVE  o < x
  BY ScheduleAssumption DEF IsThunk

\* A thread that enters a start thunk is about to make its first call.
LEMMA PosIsOp ==
  ASSUME Control, NEW t \in Threads, at[t] \in DOMAIN Schedule,
         Schedule[at[t]].thunk = "start", stage[t] \in {"begin", "lock"}
  PROVE  pos[t] = Op(t)
<1>0. TypeOK /\ ThunkTypeOK /\ PositionsFit
  BY DEF Control
<1>1. PICK o \in Operations : o = Op(t) /\ IsThunk(at[t], "start", o)
  BY ScheduleFacts DEF Op
<1>2. pos[t] <= o
  BY <1>0, <1>1 DEF PositionsFit, Ahead
<1>3. pos[t] \in Calls
  <2>1. Calls = 1 .. Len(Program) /\ Len(Program) \in Nat /\ o \in Calls
    BY <1>1, OpFacts, ProgramAssumption
  <2>2. pos[t] \in 1 .. Len(Program) + 1
    BY <1>0 DEF TypeOK
  <2> QED BY <1>2, <2>1, <2>2
<1>4. PICK x \in Operations : pos[t] \in CallsOf(x)
  BY <1>3, CallOps
<1>5. x \in Nat /\ o \in Nat /\ EndOf(x) \in Nat /\ x <= pos[t] /\ pos[t] < EndOf(x) /\ pos[t] \in Nat
  <2>1. CallsOf(x) = x .. EndOf(x) - 1 /\ x \in Nat /\ o \in Nat /\ EndOf(x) \in Nat
    BY OpFacts
  <2> QED BY <1>4, <2>1
<1>6. ASSUME x # o PROVE FALSE
  <2>1. PICK s \in DOMAIN Schedule : IsThunk(s, "start", x)
    BY StartOf
  <2>2. s # at[t] /\ s \in Nat /\ at[t] \in Nat
    BY <1>0, <1>1, <1>6, <2>1, ScheduleFacts, Numbers DEF IsThunk
  <2>3. CASE s < at[t]
    <3>1. pos[t] >= EndOf(x)
      BY <1>0, <2>1, <2>3 DEF PositionsFit, Called
    <3> QED BY <1>5, <3>1
  <2>4. CASE at[t] < s
    <3>1. o < x
      BY <1>1, <2>1, <2>4, StartOrder
    <3> QED BY <1>2, <1>5, <3>1
  <2> QED BY <2>2, <2>3, <2>4
<1> QED BY <1>1, <1>2, <1>5, <1>6

\* A thread that makes calls makes those of its start thunk.
LEMMA CallsFit ==
  ASSUME Control, NEW t \in Threads, stage[t] = "calls"
  PROVE  /\ at[t] \in DOMAIN Schedule /\ IsThunk(at[t], "start", Op(t))
         /\ Op(t) \in Operations /\ pos[t] \in Calls /\ pos[t] \in CallsOf(Op(t))
         /\ OpOf(pos[t]) = Op(t) /\ Op(t) <= pos[t] /\ pos[t] < EndOf(Op(t))
<1>1. at[t] \in DOMAIN Schedule /\ Schedule[at[t]].thunk = "start"
  BY DEF Control, StagesFit
<1>2. PICK o \in Operations : o = Op(t) /\ IsThunk(at[t], "start", o)
  BY <1>1, ScheduleFacts DEF Op
<1>3. pos[t] \in CallsOf(o)
  BY <1>1, <1>2 DEF Control, PositionsFit, InCalls
<1>4. CallsOf(o) = o .. EndOf(o) - 1 /\ o \in Nat /\ EndOf(o) \in Nat
  BY OpFacts
<1>5. pos[t] \in Calls /\ OpOf(pos[t]) = o
  BY <1>3, OperationsAssumption
<1> QED BY <1>1, <1>2, <1>3, <1>4, <1>5

\* A start thunk goes on to its next stage.
LEMMA GotoControl ==
  ASSUME Control, NEW t \in Threads, at[t] \in DOMAIN Schedule, Schedule[at[t]].thunk = "start",
         NEW x \in Stages, Goto(t, x),
         \/ stage[t] = "begin" /\ x = "lock"
         \/ stage[t] = "lock" /\ x = "calls"
         \/ stage[t] = "record" /\ x = "first"
         \/ stage[t] = "first" /\ x = "block",
         UNCHANGED <<vars, config>>,
         done_events' = IF x = "first" THEN [done_events EXCEPT ![Op(t)] = @ \cup {t}]
                                       ELSE done_events
  PROVE  StagesFit' /\ PositionsFit' /\ DoneStored'
<1>0. TypeOK /\ ThunkTypeOK /\ StagesFit /\ PositionsFit /\ DoneStored
  BY DEF Control
<1>1. /\ at' = at /\ stage' \in [Threads -> Stages] /\ stage'[t] = x
      /\ \A u \in Threads : u # t => stage'[u] = stage[u]
  BY <1>0, GotoMoves
<1>2. /\ \A u \in Threads : at[u] \in Nat /\ pos[u] \in Nat
      /\ DOMAIN Schedule = 1 .. Len(Schedule) /\ Len(Schedule) \in Nat
  BY <1>0, Numbers, ScheduleFacts
<1>3. pos' = pos /\ pc' = pc /\ config' = config
  BY DEF vars
<1>4. pc[t] = "running" /\ at[t] \in Emitted
  BY <1>0 DEF StagesFit
<1>5. StagesFit'
  <2> SUFFICES ASSUME NEW u \in Threads
               PROVE  /\ at'[u] \in DOMAIN Schedule => at'[u] \in Emitted'
                      /\ stage'[u] # "begin" => /\ at'[u] \in DOMAIN Schedule
                                                /\ Schedule[at'[u]].thunk = "start"
                      /\ stage'[u] = "record" => IsAsync(Op(u))'
                      /\ pc'[u] # "running" => stage'[u] = "calls"
    BY DEF StagesFit
  <2>1. Emitted' = Emitted
    BY <1>3, SameStreams
  <2>2. CASE u = t
    BY <1>1, <1>3, <1>4, <2>1, <2>2
  <2>3. CASE u # t
    BY <1>0, <1>1, <1>3, <2>1, <2>3 DEF StagesFit, IsAsync, Op
  <2> QED BY <2>2, <2>3
<1>6. PICK o \in Operations : o = Op(t) /\ IsThunk(at[t], "start", o)
  BY ScheduleFacts DEF Op
<1>7. PositionsFit'
  <2> SUFFICES ASSUME NEW u \in Threads, NEW y \in Operations, NEW s \in DOMAIN Schedule,
                      IsThunk(s, "start", y)
               PROVE  /\ Ahead(u, s)' => pos'[u] <= y
                      /\ InCalls(u, s)' => pos'[u] \in CallsOf(y)
                      /\ Called(u, s)' => pos'[u] >= EndOf(y)
    BY DEF PositionsFit
  <2>1. CASE u # t
    BY <1>0, <1>1, <1>3, <2>1 DEF PositionsFit, Ahead, InCalls, Called
  <2>2. CASE u = t /\ x = "calls"
    <3>1. /\ Ahead(t, s)' => Ahead(t, s)
          /\ Called(t, s)' => Called(t, s)
      BY <1>1, <1>2, <2>2 DEF Ahead, Called
    <3>2. InCalls(t, s)' => s = at[t] /\ y = o
      BY <1>1, <1>6 DEF InCalls, IsThunk
    <3>3. pos[t] = o /\ o \in CallsOf(o)
      BY <1>6, <2>2, PosIsOp, OpFacts
    <3> QED BY <1>0, <1>3, <2>2, <3>1, <3>2, <3>3 DEF PositionsFit
  <2>3. CASE u = t /\ x # "calls"
    <3>1. /\ Ahead(t, s)' => Ahead(t, s)
          /\ Called(t, s)' => Called(t, s)
          /\ ~InCalls(t, s)'
      BY <1>1, <1>2, <2>3 DEF Ahead, Called, InCalls
    <3> QED BY <1>0, <1>3, <2>3, <3>1 DEF PositionsFit
  <2> QED BY <2>1, <2>2, <2>3
<1>8. DoneStored'
  <2> SUFFICES ASSUME NEW u \in Threads, NEW y \in Operations, NEW s \in DOMAIN Schedule,
                      NEW d \in DOMAIN Schedule, IsThunk(s, "start", y), IsThunk(d, "done", y)
               PROVE  u \in done_events'[y] <=> IsAsync(y)' /\ Recorded(u, s)' /\ at'[u] <= d
    BY DEF DoneStored
  <2>0. /\ done_events \in [Operations -> SUBSET Threads] /\ (IsAsync(y)' <=> IsAsync(y))
    BY <1>0, <1>3, SameStreams DEF ThunkTypeOK
  <2>1. u \in done_events[y] <=> IsAsync(y) /\ Recorded(u, s) /\ at[u] <= d
    BY <1>0 DEF DoneStored
  <2>2. CASE u = t /\ x = "first" /\ y = o
    <3>1. s = at[t]
      BY <1>6, <2>2, ThunkOrder DEF ThunkKinds
    <3>2. s < d
      <4>1. PICK s1, d1 \in DOMAIN Schedule : IsThunk(s1, "start", y) /\ IsThunk(d1, "done", y) /\ s1 < d1
        BY ThunkOrder
      <4>2. s = s1 /\ d = d1
        BY <4>1, ThunkOrder DEF ThunkKinds
      <4> QED BY <4>1, <4>2
    <3>3. IsAsync(o) /\ t \in done_events'[o]
      BY <1>0, <1>6, <2>0, <2>2 DEF StagesFit
    <3>4. Recorded(t, s)' /\ at'[t] <= d
      BY <1>1, <1>2, <2>2, <3>1, <3>2 DEF Recorded
    <3> QED BY <2>0, <2>2, <3>3, <3>4
  <2>3. CASE ~(u = t /\ x = "first" /\ y = o)
    <3>1. u \in done_events'[y] <=> u \in done_events[y]
      BY <1>6, <2>0, <2>3
    <3>2. Recorded(u, s)' <=> Recorded(u, s)
      <4>1. CASE u # t
        BY <1>1, <4>1 DEF Recorded
      <4>2. CASE u = t /\ s # at[t]
        BY <1>1, <4>2 DEF Recorded
      <4>3. CASE u = t /\ s = at[t]
        <5>1. y = o
          BY <1>6, <4>3 DEF IsThunk
        <5> QED BY <1>1, <2>3, <4>3, <5>1 DEF Recorded
      <4> QED BY <4>1, <4>2, <4>3
    <3> QED BY <1>1, <2>0, <2>1, <3>1, <3>2
  <2> QED BY <2>2, <2>3
<1> QED BY <1>5, <1>7, <1>8

\* A thread returns from a call.
LEMMA CallControl ==
  ASSUME Control, NEW t \in Threads, stage[t] = "calls",
         pos' = [pos EXCEPT ![t] = @ + 1], SetCallStage(t),
         pc'[t] = "running", \A u \in Threads : pc'[u] # "running" => pc[u] # "running",
         UNCHANGED <<config, done_events>>
  PROVE  StagesFit' /\ PositionsFit' /\ DoneStored' /\ stage' \in [Threads -> Stages]
<1>0. TypeOK /\ ThunkTypeOK /\ StagesFit /\ PositionsFit /\ DoneStored
  BY DEF Control
<1>1. PICK o, c, x : o = Op(t) /\ c = pos[t] /\ x = AfterCall(t, pos[t])
  OBVIOUS
<1>2. /\ at[t] \in DOMAIN Schedule /\ IsThunk(at[t], "start", o)
      /\ o \in Operations /\ c \in Calls /\ c \in CallsOf(o)
      /\ OpOf(c) = o /\ o <= c /\ c < EndOf(o) /\ o \in Nat /\ EndOf(o) \in Nat /\ c \in Nat
  BY <1>1, CallsFit, OpFacts, CallOps
<1>3. /\ x \in Stages
      /\ c = EndOf(o) - 1 => x = IF IsAsync(o) THEN "record" ELSE "first"
      /\ c # EndOf(o) - 1 => x = "calls"
  BY <1>1, <1>2, CallOps DEF AfterCall, Stages
<1>4. /\ at' = at /\ stage' \in [Threads -> Stages] /\ stage'[t] = x
      /\ \A u \in Threads : u # t => stage'[u] = stage[u]
  BY <1>0, <1>1, <1>3, GotoMoves DEF SetCallStage
<1>5. /\ \A u \in Threads : at[u] \in Nat /\ pos[u] \in Nat
      /\ DOMAIN Schedule = 1 .. Len(Schedule) /\ Len(Schedule) \in Nat
  BY <1>0, Numbers, ScheduleFacts
<1>6. pos'[t] = c + 1 /\ \A u \in Threads : u # t => pos'[u] = pos[u]
  BY <1>0, <1>1 DEF TypeOK
<1>7. StagesFit'
  <2> SUFFICES ASSUME NEW u \in Threads
               PROVE  /\ at'[u] \in DOMAIN Schedule => at'[u] \in Emitted'
                      /\ stage'[u] # "begin" => /\ at'[u] \in DOMAIN Schedule
                                                /\ Schedule[at'[u]].thunk = "start"
                      /\ stage'[u] = "record" => IsAsync(Op(u))'
                      /\ pc'[u] # "running" => stage'[u] = "calls"
    BY DEF StagesFit
  <2>1. Emitted' = Emitted
    BY SameStreams
  <2>2. CASE u = t
    <3>1. stage'[t] = "record" => IsAsync(o)
      BY <1>3, <1>4
    <3>2. IsAsync(Op(t))' <=> IsAsync(o)
      BY <1>1, <1>4 DEF IsAsync, Op
    <3> QED BY <1>0, <1>2, <1>4, <2>1, <2>2, <3>1, <3>2 DEF StagesFit, IsThunk
  <2>3. CASE u # t
    BY <1>0, <1>4, <2>1, <2>3 DEF StagesFit, IsAsync, Op
  <2> QED BY <2>2, <2>3
<1>8. PositionsFit'
  <2> SUFFICES ASSUME NEW u \in Threads, NEW y \in Operations, NEW s \in DOMAIN Schedule,
                      IsThunk(s, "start", y)
               PROVE  /\ Ahead(u, s)' => pos'[u] <= y
                      /\ InCalls(u, s)' => pos'[u] \in CallsOf(y)
                      /\ Called(u, s)' => pos'[u] >= EndOf(y)
    BY DEF PositionsFit
  <2>1. CASE u # t
    BY <1>0, <1>4, <1>6, <2>1 DEF PositionsFit, Ahead, InCalls, Called
  <2>2. CASE u = t /\ s = at[t]
    <3>1. y = o
      BY <1>2, <2>2 DEF IsThunk
    <3>2. CallsOf(o) = o .. EndOf(o) - 1
      BY <1>2, OpFacts
    <3>3. ~Ahead(t, s)'
      BY <1>3, <1>4, <1>5, <2>2 DEF Ahead
    <3>4. InCalls(t, s)' => c # EndOf(o) - 1
      BY <1>3, <1>4 DEF InCalls
    <3>5. Called(t, s)' => c = EndOf(o) - 1
      BY <1>3, <1>4, <1>5, <2>2 DEF Called
    <3> QED BY <1>2, <1>6, <2>2, <3>1, <3>2, <3>3, <3>4, <3>5
  <2>3. CASE u = t /\ s < at[t]
    <3>1. pos[t] >= EndOf(y) /\ EndOf(y) \in Nat
      BY <1>0, <2>3, OpFacts DEF PositionsFit, Called
    <3>2. ~Ahead(t, s)' /\ ~InCalls(t, s)'
      BY <1>4, <1>5, <2>3 DEF Ahead, InCalls
    <3> QED BY <1>1, <1>2, <1>6, <2>3, <3>1, <3>2
  <2>4. CASE u = t /\ s > at[t]
    <3>1. o < y /\ EndOf(o) <= y /\ y \in Nat
      BY <1>2, <1>5, <2>4, StartOrder, OpsApart, OpFacts
    <3>2. ~Called(t, s)' /\ ~InCalls(t, s)'
      BY <1>4, <1>5, <2>4 DEF Called, InCalls
    <3> QED BY <1>2, <1>6, <2>4, <3>1, <3>2
  <2> QED BY <1>5, <2>1, <2>2, <2>3, <2>4
<1>9. DoneStored'
  <2> SUFFICES ASSUME NEW u \in Threads, NEW y \in Operations, NEW s \in DOMAIN Schedule,
                      NEW d \in DOMAIN Schedule, IsThunk(s, "start", y), IsThunk(d, "done", y)
               PROVE  u \in done_events'[y] <=> IsAsync(y)' /\ Recorded(u, s)' /\ at'[u] <= d
    BY DEF DoneStored
  <2>0. IsAsync(y)' <=> IsAsync(y)
    BY SameStreams
  <2>1. u \in done_events[y] <=> IsAsync(y) /\ Recorded(u, s) /\ at[u] <= d
    BY <1>0 DEF DoneStored
  <2>2. IsAsync(y) => (Recorded(u, s)' <=> Recorded(u, s))
    <3>1. CASE u # t \/ s # at[t]
      BY <1>4, <3>1 DEF Recorded
    <3>2. CASE u = t /\ s = at[t]
      <4>1. y = o
        BY <1>2, <3>2 DEF IsThunk
      <4>2. IsAsync(y) => x \in {"record", "calls"}
        BY <1>3, <4>1
      <4> QED BY <1>4, <3>2, <4>2 DEF Recorded
    <3> QED BY <3>1, <3>2
  <2> QED BY <1>4, <2>0, <2>1, <2>2
<1> QED BY <1>4, <1>7, <1>8, <1>9

\* The queues have grown: what was known is known, and still in order.
Grew ==
  /\ queue' \in [Queues -> Seq(Commands)] /\ Sound(queue)'
  /\ \A q \in Queues : \A f : Known(queue, q, f) => Known(queue, q, f)'

\* The state after submissions that extend the queues.
LEMMA FromExtends ==
  ASSUME NEW subs, Extends(queue, queue', subs), UNCHANGED runVars
  PROVE  /\ Grew
         /\ \A n \in DOMAIN subs : \A q \in Queues : q = subs[n].queue =>
              \A f \in Gives(subs[n].command) : Known(queue, q, f)'
<1>1. Happened' = Happened
  BY DEF Happened, runVars
<1>2. \A q \in Queues : \A f : Known(queue', q, f) <=> Known(queue, q, f)'
  BY <1>1 DEF Known
<1>3. Sound(queue') <=> Sound(queue)'
  BY <1>1 DEF Sound
<1> QED BY <1>2, <1>3 DEF Extends, Grew, Grows

LEMMA KnownStays ==
  ASSUME Grew, UNCHANGED config, NEW t \in Threads, NEW o, NEW f
  PROVE  /\ Known(queue, StreamOf(t, o), f) => Known(queue, StreamOf(t, o), f)'
         /\ Known(queue, MainStream(t), f) => Known(queue, MainStream(t), f)'
<1>1. PICK q \in Queues, m \in Queues : q = StreamOf(t, o) /\ m = MainStream(t)
  BY StreamFacts
<1>2. StreamOf(t, o)' = q /\ MainStream(t)' = m
  BY <1>1, SameStreams
<1>3. (Known(queue, q, f) => Known(queue, q, f)') /\ (Known(queue, m, f) => Known(queue, m, f)')
  BY DEF Grew
<1> QED BY <1>1, <1>2, <1>3

\* No call is launched: what follows from the launches stays known.
LEMMA LaunchedStays ==
  ASSUME Grew, UNCHANGED config, RootKnows, AllKnow,
         \A t \in Threads : Reached(t)' = Reached(t)
  PROVE  RootKnows' /\ AllKnow'
<1>1. RootKnows'
  <2> SUFFICES ASSUME NEW r \in Threads, NEW t \in Threads, NEW o \in Operations, IsRoot(r, o)
               PROVE  /\ o < Reached(t)' =>
                           \A u \in Threads : Known(queue, StreamOf(r, o), InputOf(u, o))'
                      /\ \A c \in CallsOf(o) : c < Reached(t)' =>
                           Known(queue, StreamOf(r, o), KernelOf(c))'
    BY DEF RootKnows
  <2> QED BY KnownStays DEF RootKnows
<1>2. AllKnow'
  <2> SUFFICES ASSUME NEW t \in Threads, NEW u \in Threads, NEW o \in Operations,
                      EndOf(o) <= Reached(t)', NEW c \in CallsOf(o)
               PROVE  Known(queue, StreamOf(u, o), KernelOf(c))'
    BY DEF AllKnow
  <2> QED BY KnownStays DEF AllKnow
<1> QED BY <1>1, <1>2

\* A thread goes on to the next thunk: what its thunk submitted is known.
LEMMA NextThunkKnows ==
  ASSUME Control, Grew, UNCHANGED config, InputsKnown, AwaitedKnown,
         NEW t \in Threads, at[t] \in DOMAIN Schedule, NextThunk(t),
         NEW o \in Operations, o = Op(t),
         Schedule[at[t]].thunk = "start" => stage[t] \in {"first", "block"},
         Schedule[at[t]].thunk = "input" => Known(queue, MainStream(t), InputOf(t, o))',
         Schedule[at[t]].thunk = "done" =>
           \A c \in CallsOf(o) : Known(queue, MainStream(t), KernelOf(c))'
  PROVE  InputsKnown' /\ AwaitedKnown'
<1>0. TypeOK /\ ThunkTypeOK
  BY DEF Control
<1>1. /\ at'[t] > at[t] /\ stage'[t] = "begin"
      /\ \A i \in Emitted : i < at'[t] => i <= at[t]
      /\ \A u \in Threads : u # t => at'[u] = at[u] /\ stage'[u] = stage[u]
      /\ at' \in [Threads -> 1 .. Len(Schedule) + 1]
  BY <1>0, NextThunkMoves
<1>2. /\ \A u \in Threads : at[u] \in Nat /\ at'[u] \in Nat
      /\ DOMAIN Schedule = 1 .. Len(Schedule) /\ Len(Schedule) \in Nat
  BY <1>0, <1>1, Numbers, ScheduleFacts
<1>3. ASSUME NEW k \in ThunkKinds, NEW y \in Operations, NEW i \in DOMAIN Schedule,
             IsThunk(i, k, y), k # "done" \/ IsAsync(y), i < at'[t]
      PROVE  i < at[t] \/ (i = at[t] /\ Schedule[at[t]].thunk = k /\ y = o)
  <2>1. i \in Emitted /\ i \in Nat
    BY <1>2, <1>3, EmittedKinds
  <2>2. i < at[t] \/ i = at[t]
    BY <1>1, <1>2, <1>3, <2>1
  <2> QED BY <1>3, <2>2 DEF IsThunk, Op
<1>4. InputsKnown'
  <2> SUFFICES ASSUME NEW u \in Threads, NEW y \in Operations, NEW i \in DOMAIN Schedule
               PROVE  /\ IsThunk(i, "input", y) /\ i < at'[u] =>
                           Known(queue, MainStream(u), InputOf(u, y))'
                      /\ IsThunk(i, "start", y) /\ Entered(u, i)' =>
                           Known(queue, StreamOf(u, y), InputOf(u, y))'
    BY DEF InputsKnown
  <2>1. ASSUME IsThunk(i, "input", y), i < at'[u] PROVE Known(queue, MainStream(u), InputOf(u, y))'
    <3>1. CASE i < at[u]
      BY <2>1, <3>1, KnownStays DEF InputsKnown
    <3>2. CASE ~(i < at[u])
      <4>1. u = t
        BY <1>1, <2>1, <3>2
      <4>2. i = at[t] /\ Schedule[at[t]].thunk = "input" /\ y = o
        BY <1>3, <2>1, <3>2, <4>1 DEF ThunkKinds
      <4> QED BY <4>1, <4>2
    <3> QED BY <3>1, <3>2
  <2>2. ASSUME IsThunk(i, "start", y), Entered(u, i)' PROVE Known(queue, StreamOf(u, y), InputOf(u, y))'
    <3>1. Entered(u, i)
      <4>1. CASE u = t
        <5>1. i < at'[t]
          BY <1>1, <2>2, <4>1 DEF Entered
        <5>2. i < at[t] \/ (i = at[t] /\ stage[t] \in {"first", "block"})
          BY <1>3, <2>2, <5>1 DEF ThunkKinds
        <5> QED BY <4>1, <5>2 DEF Entered
      <4>2. CASE u # t
        BY <1>1, <2>2, <4>2 DEF Entered
      <4> QED BY <4>1, <4>2
    <3> QED BY <2>2, <3>1, KnownStays DEF InputsKnown
  <2> QED BY <2>1, <2>2
<1>5. AwaitedKnown'
  <2> SUFFICES ASSUME NEW u \in Threads, NEW y \in Operations, NEW d \in DOMAIN Schedule,
                      IsAsync(y)', IsThunk(d, "done", y), d < at'[u], NEW c \in CallsOf(y)
               PROVE  Known(queue, MainStream(u), KernelOf(c))'
    BY DEF AwaitedKnown
  <2>1. IsAsync(y)
    BY SameStreams
  <2>2. CASE d < at[u]
    BY <2>1, <2>2, KnownStays DEF AwaitedKnown
  <2>3. CASE ~(d < at[u])
    <3>1. u = t
      BY <1>1, <2>3
    <3>2. d = at[t] /\ Schedule[at[t]].thunk = "done" /\ y = o
      BY <1>3, <2>1, <2>3, <3>1 DEF ThunkKinds
    <3> QED BY <3>1, <3>2
  <2> QED BY <2>2, <2>3
<1> QED BY <1>4, <1>5

\* No thread goes on to the next thunk: it may enter the calls of its own.
LEMMA SameThunkKnows ==
  ASSUME Grew, UNCHANGED <<config, at>>, InputsKnown, AwaitedKnown,
         \A u \in Threads, o \in Operations : \A s \in DOMAIN Schedule :
           IsThunk(s, "start", o) /\ Entered(u, s)' =>
             Entered(u, s) \/ Known(queue, StreamOf(u, o), InputOf(u, o))'
  PROVE  InputsKnown' /\ AwaitedKnown'
<1>1. InputsKnown'
  <2> SUFFICES ASSUME NEW u \in Threads, NEW y \in Operations, NEW i \in DOMAIN Schedule
               PROVE  /\ IsThunk(i, "input", y) /\ i < at'[u] =>
                           Known(queue, MainStream(u), InputOf(u, y))'
                      /\ IsThunk(i, "start", y) /\ Entered(u, i)' =>
                           Known(queue, StreamOf(u, y), InputOf(u, y))'
    BY DEF InputsKnown
  <2> QED BY KnownStays DEF InputsKnown
<1>2. AwaitedKnown'
  <2> SUFFICES ASSUME NEW u \in Threads, NEW y \in Operations, NEW d \in DOMAIN Schedule,
                      IsAsync(y)', IsThunk(d, "done", y), d < at'[u], NEW c \in CallsOf(y)
               PROVE  Known(queue, MainStream(u), KernelOf(c))'
    BY DEF AwaitedKnown
  <2>1. IsAsync(y)
    BY SameStreams
  <2> QED BY <2>1, KnownStays DEF AwaitedKnown
<1> QED BY <1>1, <1>2

\* The first run: nobody passes a start thunk, or its kernels ran.
LEMMA FirstRunStays ==
  ASSUME FirstRunBlocks, UNCHANGED config, Happened \subseteq Happened',
         \A o \in Operations :
           \/ /\ first_call_to_execute'[o] = first_call_to_execute[o]
              /\ \A t \in Threads : \A s \in DOMAIN Schedule :
                   IsThunk(s, "start", o) /\ at[t] <= s => at'[t] <= s
           \/ config.first_run => KernelsOf(o) \subseteq Happened
  PROVE  FirstRunBlocks'
<1> SUFFICES ASSUME config.first_run, NEW o \in Operations
             PROVE  \/ KernelsOf(o) \subseteq Happened'
                    \/ /\ first_call_to_execute'[o]
                       /\ \A t \in Threads : \A s \in DOMAIN Schedule :
                            IsThunk(s, "start", o) => at'[t] <= s
  BY DEF FirstRunBlocks
<1>1. \/ KernelsOf(o) \subseteq Happened
      \/ /\ first_call_to_execute[o]
         /\ \A t \in Threads : \A s \in DOMAIN Schedule : IsThunk(s, "start", o) => at[t] <= s
  BY DEF FirstRunBlocks
<1>2. CASE KernelsOf(o) \subseteq Happened
  BY <1>2
<1>3. CASE ~(KernelsOf(o) \subseteq Happened)
  <2>1. /\ first_call_to_execute'[o] = first_call_to_execute[o]
        /\ \A t \in Threads : \A s \in DOMAIN Schedule :
             IsThunk(s, "start", o) /\ at[t] <= s => at'[t] <= s
    BY <1>3
  <2> QED BY <1>1, <1>3, <2>1
<1> QED BY <1>2, <1>3

-----------------------------------------------------------------------------
(* Submissions of a host step.                                             *)

LEMMA OnFacts ==
  ASSUME NEW q \in Queues, NEW c \in Commands
  PROVE  On(q, c) \in Submissions /\ On(q, c).queue = q /\ On(q, c).command = c
  BY DEF On, Submissions

LEMMA NoSubmission ==
  ASSUME ThunkTypeOK, Sound(queue), UNCHANGED <<queue, runVars>>
  PROVE  Grew
<1>1. Happened' = Happened
  BY DEF Happened, runVars
<1>2. \A q \in Queues : \A f : Known(queue, q, f) => Known(queue, q, f)'
  BY <1>1 DEF Known
<1>3. Sound(queue)'
  BY <1>1 DEF Sound
<1> QED BY <1>2, <1>3 DEF Grew, ThunkTypeOK

LEMMA EmptySubmission ==
  ASSUME ThunkTypeOK, Sound(queue), queue' = Submit(queue, <<>>), UNCHANGED runVars
  PROVE  Grew
<1>1. <<>> \in Seq(Submissions) /\ Supported(queue, <<>>) /\ queue \in [Queues -> Seq(Commands)]
  BY DEF Supported, ThunkTypeOK
<1>2. Extends(queue, queue', <<>>)
  BY <1>1, SubmitSound
<1> QED BY <1>2, FromExtends

LEMMA OneSubmission ==
  ASSUME ThunkTypeOK, Sound(queue), NEW q \in Queues, NEW c \in Commands,
         \A f \in Needs(c) : Known(queue, q, f),
         queue' = Submit(queue, <<On(q, c)>>), UNCHANGED runVars
  PROVE  Grew /\ \A f \in Gives(c) : Known(queue, q, f)'
<1>1. PICK sub \in Submissions : sub = On(q, c) /\ sub.queue = q /\ sub.command = c
  BY OnFacts
<1>2. PICK subs : subs = <<sub>>
  OBVIOUS
<1>3. subs \in Seq(Submissions)
  <2>1. PICK S : S = Submissions
    OBVIOUS
  <2>2. <<sub>> \in Seq(S)
    BY <2>1
  <2> QED BY <1>2, <2>1, <2>2
<1>4. DOMAIN subs = {1} /\ subs[1] = sub
  BY <1>2
<1>5. Supported(queue, subs)
  BY <1>1, <1>4 DEF Supported
<1>6. queue \in [Queues -> Seq(Commands)]
  BY DEF ThunkTypeOK
<1>7. Extends(queue, queue', subs)
  BY <1>1, <1>2, <1>3, <1>5, <1>6, SubmitSound, Zenon
<1>8. /\ Grew
      /\ \A n \in DOMAIN subs : \A r \in Queues : r = subs[n].queue =>
           \A f \in Gives(subs[n].command) : Known(queue, r, f)'
  BY <1>7, FromExtends
<1> QED BY <1>1, <1>4, <1>8

LEMMA TwoInOrder ==
  ASSUME NEW a, NEW b
  PROVE  <<a>> \o <<b>> = <<a, b>>
<1>1. PICK S : S = {a, b}
  OBVIOUS
<1>2. <<a>> \in Seq(S) /\ <<b>> \in Seq(S) /\ <<a, b>> \in Seq(S)
  BY <1>1
<1>3. Len(<<a>> \o <<b>>) = 2 /\ Len(<<a, b>>) = 2 /\ <<a>> \o <<b>> \in Seq(S)
  BY <1>2
<1>4. (<<a>> \o <<b>>)[1] = a /\ (<<a>> \o <<b>>)[2] = b
  BY <1>2
<1>5. \A i \in 1 .. 2 : (<<a>> \o <<b>>)[i] = <<a, b>>[i]
  BY <1>4
<1> QED BY <1>2, <1>3, <1>5, SeqEqual

LEMMA TwoSubmissions ==
  ASSUME ThunkTypeOK, Sound(queue), NEW q \in Queues, NEW c \in Commands,
         NEW r \in Queues, NEW d \in Commands,
         \A f \in Needs(c) : Known(queue, q, f), \A f \in Needs(d) : Known(queue, r, f),
         queue' = Submit(queue, <<On(q, c), On(r, d)>>), UNCHANGED runVars
  PROVE  Grew /\ \A f \in Gives(d) : Known(queue, r, f)'
<1>1. PICK sub \in Submissions : sub = On(q, c) /\ sub.queue = q /\ sub.command = c
  BY OnFacts
<1>2. PICK tub \in Submissions : tub = On(r, d) /\ tub.queue = r /\ tub.command = d
  BY OnFacts
<1>3. PICK subs : subs = <<sub, tub>>
  OBVIOUS
<1>4. DOMAIN subs = {1, 2} /\ subs[1] = sub /\ subs[2] = tub
  BY <1>3
<1>5. subs \in Seq(Submissions)
  <2>1. PICK S : S = Submissions
    OBVIOUS
  <2>2. <<sub, tub>> \in Seq(S)
    BY <2>1
  <2> QED BY <1>3, <2>1, <2>2
<1>6. Supported(queue, subs)
  BY <1>1, <1>2, <1>4 DEF Supported
<1>7. queue \in [Queues -> Seq(Commands)]
  BY DEF ThunkTypeOK
<1>8. Extends(queue, queue', subs)
  BY <1>1, <1>2, <1>3, <1>5, <1>6, <1>7, SubmitSound, Zenon
<1>9. /\ Grew
      /\ \A n \in DOMAIN subs : \A p \in Queues : p = subs[n].queue =>
           \A f \in Gives(subs[n].command) : Known(queue, p, f)'
  BY <1>8, FromExtends
<1> QED BY <1>2, <1>4, <1>9

-----------------------------------------------------------------------------
(* Every step preserves the invariant.                                     *)

\* A host step: the pieces put together.
LEMMA HostStepHolds ==
  ASSUME OneClique, ThunkInvariant, [Next]_vars, UNCHANGED <<config, runVars>>, failed' = {},
         at' \in [Threads -> 1 .. Len(Schedule) + 1], stage' \in [Threads -> Stages],
         first_call_to_execute' \in [Operations -> BOOLEAN],
         done_events' \in [Operations -> SUBSET Threads],
         StagesFit' /\ PositionsFit' /\ DoneStored', Grew, InputsKnown' /\ AwaitedKnown',
         RootKnows' /\ AllKnow', FirstRunBlocks'
  PROVE  ThunkInvariant'
<1>1. TypeOK' /\ Lockstep'
  BY TypeStep, LockstepStep DEF ThunkInvariant, Control
<1>2. ThunkTypeOK'
  BY DEF ThunkInvariant, Control, ThunkTypeOK, runVars, Grew
<1>3. EventsHold'
  <2>1. Happened' = Happened
    BY DEF Happened, runVars
  <2> QED BY <2>1 DEF ThunkInvariant, Knowledge, EventsHold, runVars
<1> QED BY <1>1, <1>2, <1>3 DEF ThunkInvariant, Control, Knowledge, Grew

LEMMA ReachedStays ==
  ASSUME TypeOK, NEW t \in Threads, UNCHANGED vars \/ Wait(t) \/ Return(t)
  PROVE  \A u \in Threads : Reached(u)' = Reached(u)
<1>1. CASE UNCHANGED vars
  BY <1>1 DEF vars, Reached
<1>2. CASE Wait(t)
  BY <1>2 DEF Wait, Calling, Reached, TypeOK
<1>3. CASE Return(t)
  BY <1>3 DEF Return, Reached, TypeOK
<1> QED BY <1>1, <1>2, <1>3

\* The thunks of an operation before the one a thread is at.
LEMMA InputBefore ==
  ASSUME NEW o \in Operations, NEW s, IsThunk(s, "start", o)
  PROVE  \E i \in DOMAIN Schedule : IsThunk(i, "input", o) /\ i < s
<1>1. PICK i, s1 \in DOMAIN Schedule : IsThunk(i, "input", o) /\ IsThunk(s1, "start", o) /\ i < s1
  BY ThunkOrder
<1>2. s1 = s
  BY <1>1, ThunkOrder DEF ThunkKinds
<1> QED BY <1>1, <1>2

LEMMA StartBefore ==
  ASSUME Control, NEW t \in Threads, NEW o \in Operations, NEW k \in {"done", "output"},
         IsThunk(at[t], k, o)
  PROVE  EndOf(o) <= Reached(t) /\ (k = "output" => \E d \in DOMAIN Schedule :
                                                       IsThunk(d, "done", o) /\ d < at[t])
<1>0. TypeOK /\ ThunkTypeOK /\ PositionsFit
  BY DEF Control
<1>1. PICK s, d, u \in DOMAIN Schedule :
        IsThunk(s, "start", o) /\ IsThunk(d, "done", o) /\ IsThunk(u, "output", o) /\ s < d /\ d < u
  BY ThunkOrder
<1>2. (k = "done" => at[t] = d) /\ (k = "output" => at[t] = u)
  BY <1>1, ThunkOrder DEF ThunkKinds
<1>3. s < at[t]
  BY <1>1, <1>2, ScheduleFacts
<1>4. pos[t] >= EndOf(o)
  BY <1>0, <1>1, <1>3 DEF PositionsFit, Called
<1>5. EndOf(o) \in Nat /\ pos[t] \in Nat /\ Reached(t) \in Nat /\ pos[t] <= Reached(t)
  BY <1>0, OpFacts, Numbers
<1> QED BY <1>1, <1>2, <1>4, <1>5

\* What the invariant says of a thread at a thunk.
LEMMA AtFacts ==
  ASSUME ThunkInvariant, NEW t \in Threads, NEW kinds, NEW s, At(t, kinds, s)
  PROVE  /\ TypeOK /\ ThunkTypeOK /\ Control /\ Sound(queue) /\ InputsKnown /\ AwaitedKnown
         /\ RootKnows /\ AllKnow /\ FirstRunBlocks /\ failed = {}
         /\ at[t] \in DOMAIN Schedule /\ Schedule[at[t]].thunk \in kinds /\ stage[t] = s
         /\ Op(t) \in Operations /\ IsThunk(at[t], Schedule[at[t]].thunk, Op(t))
         /\ MainStream(t) \in Queues /\ CommsStream(t) \in Queues
<1>1. at[t] \in DOMAIN Schedule /\ Schedule[at[t]].thunk \in kinds /\ stage[t] = s
  BY DEF At
<1>2. Op(t) \in Operations /\ IsThunk(at[t], Schedule[at[t]].thunk, Op(t))
  BY <1>1, ScheduleFacts DEF Op
<1> QED BY <1>1, <1>2, StreamFacts DEF ThunkInvariant, Control, Knowledge

\* No start thunk is passed.
LEMMA NothingStarted ==
  ASSUME ThunkInvariant, UNCHANGED <<config, runVars, first_call_to_execute>>,
         UNCHANGED at \/ \E t \in Threads : /\ NextThunk(t) /\ at[t] \in DOMAIN Schedule
                                           /\ Schedule[at[t]].thunk # "start"
  PROVE  FirstRunBlocks'
<1>0. ThunkTypeOK /\ FirstRunBlocks /\ TypeOK
  BY DEF ThunkInvariant, Control, Knowledge
<1>1. Happened' = Happened
  BY DEF Happened, runVars
<1>2. ASSUME NEW o \in Operations, NEW u \in Threads, NEW s \in DOMAIN Schedule,
             IsThunk(s, "start", o), at[u] <= s
      PROVE  at'[u] <= s
  <2>1. CASE UNCHANGED at
    BY <1>2, <2>1
  <2>2. ASSUME NEW t \in Threads, NextThunk(t), at[t] \in DOMAIN Schedule,
               Schedule[at[t]].thunk # "start"
        PROVE  at'[u] <= s
    <3>1. /\ \A i \in Emitted : i < at'[t] => i <= at[t]
          /\ \A v \in Threads : v # t => at'[v] = at[v]
          /\ at' \in [Threads -> 1 .. Len(Schedule) + 1]
      BY <1>0, <2>2, NextThunkMoves
    <3>2. s \in Emitted /\ s \in Nat /\ at[u] \in Nat /\ at'[u] \in Nat
      BY <1>0, <1>2, <3>1, EmittedKinds, ScheduleFacts, Numbers DEF ThunkKinds
    <3>3. u = t => s # at[t]
      BY <1>2, <2>2 DEF IsThunk
    <3> QED BY <1>2, <3>1, <3>2, <3>3
  <2> QED BY <2>1, <2>2
<1> QED BY <1>0, <1>1, <1>2, FirstRunStays

LEMMA EnqueueWorkHolds ==
  ASSUME OneClique, ThunkInvariant, NEW t \in Threads, EnqueueWork(t)
  PROVE  ThunkInvariant'
<1>0. At(t, {"input", "output"}, "begin") /\ NextThunk(t)
  BY DEF EnqueueWork
<1>1. /\ TypeOK /\ ThunkTypeOK /\ Control /\ Sound(queue) /\ InputsKnown /\ AwaitedKnown
      /\ RootKnows /\ AllKnow /\ failed = {} /\ at[t] \in DOMAIN Schedule /\ stage[t] = "begin"
  BY <1>0, AtFacts
<1>2. PICK o \in Operations, k \in {"input", "output"}, q \in Queues :
        o = Op(t) /\ k = Schedule[at[t]].thunk /\ IsThunk(at[t], k, o) /\ q = MainStream(t)
  BY <1>0, AtFacts
<1>3. /\ UNCHANGED <<vars, config, first_call_to_execute, done_events, failed, runVars>>
      /\ queue' = Submit(queue, <<On(q, Work(k, t, o))>>)
  BY <1>2 DEF EnqueueWork
<1>4. Work(k, t, o) \in Commands
  BY CommandFacts
<1>5. ASSUME NEW f \in Needs(Work(k, t, o)) PROVE Known(queue, q, f)
  <2>1. k = "output" /\ f \in KernelsOf(o)
    BY CommandFacts
  <2>2. PICK c \in CallsOf(o) : f = KernelOf(c)
    BY <2>1 DEF KernelsOf
  <2>3. EndOf(o) <= Reached(t) /\ \E d \in DOMAIN Schedule : IsThunk(d, "done", o) /\ d < at[t]
    BY <1>1, <1>2, <2>1, StartBefore
  <2>4. CASE IsAsync(o)
    BY <1>1, <1>2, <2>2, <2>3, <2>4 DEF AwaitedKnown
  <2>5. CASE ~IsAsync(o)
    <3>1. StreamOf(t, o) = q
      BY <1>2, <2>5, StreamFacts
    <3> QED BY <1>1, <2>2, <2>3, <3>1 DEF AllKnow
  <2> QED BY <2>4, <2>5
<1>6. Grew /\ \A f \in Gives(Work(k, t, o)) : Known(queue, q, f)'
  BY <1>1, <1>3, <1>4, <1>5, OneSubmission
<1>7. k = "input" => Known(queue, MainStream(t), InputOf(t, o))'
  <2>1. MainStream(t)' = q
    BY <1>2, <1>3, SameStreams
  <2>2. k = "input" => InputOf(t, o) \in Gives(Work(k, t, o))
    BY CommandFacts
  <2> QED BY <1>6, <2>1, <2>2
<1>8. InputsKnown' /\ AwaitedKnown'
  BY <1>0, <1>1, <1>2, <1>3, <1>6, <1>7, NextThunkKnows
<1>9. StagesFit' /\ PositionsFit' /\ DoneStored'
  BY <1>0, <1>1, <1>2, <1>3, NextThunkControl
<1>10. at' \in [Threads -> 1 .. Len(Schedule) + 1] /\ stage' \in [Threads -> Stages]
  BY <1>0, <1>1, NextThunkMoves
<1>11. RootKnows' /\ AllKnow'
  BY <1>1, <1>3, <1>6, ReachedStays, LaunchedStays
<1>12. FirstRunBlocks'
  BY <1>0, <1>1, <1>2, <1>3, NothingStarted
<1>13. first_call_to_execute' \in [Operations -> BOOLEAN] /\ done_events' \in [Operations -> SUBSET Threads]
  BY <1>1, <1>3 DEF ThunkTypeOK
<1> QED BY <1>1, <1>3, <1>6, <1>8, <1>9, <1>10, <1>11, <1>12, <1>13, HostStepHolds

LEMMA ArriveHolds ==
  ASSUME OneClique, ThunkInvariant, NEW t \in Threads, Arrive(t)
  PROVE  ThunkInvariant'
<1>0. At(t, {"start"}, "begin") /\ Goto(t, "lock") /\ "lock" \in Stages
  BY DEF Arrive, Stages
<1>1. /\ TypeOK /\ ThunkTypeOK /\ Control /\ Sound(queue) /\ InputsKnown /\ AwaitedKnown
      /\ RootKnows /\ AllKnow /\ failed = {} /\ at[t] \in DOMAIN Schedule /\ stage[t] = "begin"
      /\ Schedule[at[t]].thunk = "start"
  BY <1>0, AtFacts
<1>2. UNCHANGED <<vars, config, first_call_to_execute, done_events, failed, queue, runVars>>
  BY DEF Arrive
<1>3. Grew
  BY <1>1, <1>2, NoSubmission
<1>4. /\ at' = at /\ stage' \in [Threads -> Stages] /\ stage'[t] = "lock"
      /\ \A u \in Threads : u # t => stage'[u] = stage[u]
  BY <1>0, <1>1, GotoMoves
<1>5. InputsKnown' /\ AwaitedKnown'
  <2>1. \A u \in Threads, s \in DOMAIN Schedule : Entered(u, s)' => Entered(u, s)
    BY <1>4 DEF Entered
  <2> QED BY <1>1, <1>2, <1>3, <1>4, <2>1, SameThunkKnows
<1>6. StagesFit' /\ PositionsFit' /\ DoneStored'
  BY <1>0, <1>1, <1>2, GotoControl
<1>7. RootKnows' /\ AllKnow'
  BY <1>1, <1>2, <1>3, ReachedStays, LaunchedStays
<1>8. FirstRunBlocks'
  BY <1>2, <1>4, NothingStarted
<1>9. /\ first_call_to_execute' \in [Operations -> BOOLEAN] /\ done_events' \in [Operations -> SUBSET Threads]
      /\ at' \in [Threads -> 1 .. Len(Schedule) + 1]
  BY <1>1, <1>2, <1>4 DEF ThunkTypeOK
<1> QED BY <1>1, <1>2, <1>3, <1>4, <1>5, <1>6, <1>7, <1>8, <1>9, HostStepHolds

LEMMA LockedHolds ==
  ASSUME OneClique, ThunkInvariant, NEW t \in Threads, Locked(t)
  PROVE  ThunkInvariant'
<1>0. At(t, {"start"}, "lock") /\ Goto(t, "calls") /\ "calls" \in Stages
  BY DEF Locked, Stages
<1>1. /\ TypeOK /\ ThunkTypeOK /\ Control /\ Sound(queue) /\ InputsKnown /\ AwaitedKnown
      /\ RootKnows /\ AllKnow /\ failed = {} /\ at[t] \in DOMAIN Schedule /\ stage[t] = "lock"
      /\ Schedule[at[t]].thunk = "start"
  BY <1>0, AtFacts
<1>2. UNCHANGED <<vars, config, first_call_to_execute, done_events, failed, runVars>>
  BY DEF Locked
<1>3. PICK o \in Operations, m \in Queues, q \in Queues, e \in Events :
        /\ o = Op(t) /\ IsThunk(at[t], "start", o) /\ m = MainStream(t) /\ q = StreamOf(t, o)
        /\ e = <<"inputs", t, o>> /\ StandsFor(e) = {InputOf(t, o)}
  <2>1. PICK o \in Operations : o = Op(t) /\ IsThunk(at[t], "start", o)
    BY <1>0, <1>1, AtFacts
  <2>2. o \in Nat
    BY OpFacts
  <2>3. <<"inputs", t, o>> \in Events /\ StandsFor(<<"inputs", t, o>>) = {InputOf(t, o)}
    BY <2>2, EventFacts
  <2> QED BY <2>1, <2>3, StreamFacts
<1>4. Known(queue, m, InputOf(t, o))
  <2>1. PICK i \in DOMAIN Schedule : IsThunk(i, "input", o) /\ i < at[t]
    BY <1>3, InputBefore
  <2> QED BY <1>1, <1>3, <2>1 DEF InputsKnown
<1>5. Grew /\ Known(queue, q, InputOf(t, o))'
  <2>1. CASE q = m /\ (UNCHANGED queue \/ queue' = Submit(queue, <<>>))
    <3>1. Grew
      BY <1>1, <1>2, <2>1, NoSubmission, EmptySubmission
    <3> QED BY <1>4, <2>1, <3>1 DEF Grew
  <2>2. CASE queue' = Submit(queue, <<On(m, Signal(e)), On(q, WaitFor({e}))>>)
    <3>1. Signal(e) \in Commands /\ Needs(Signal(e)) = {InputOf(t, o)}
      BY <1>3, CommandFacts
    <3>2. PICK es \in SUBSET Events : es = {e}
      OBVIOUS
    <3>3. /\ WaitFor(es) \in Commands /\ Needs(WaitFor(es)) = {}
          /\ Gives(WaitFor(es)) = UNION {StandsFor(x) : x \in es}
      BY CommandFacts
    <3>4. InputOf(t, o) \in Gives(WaitFor(es))
      BY <1>3, <3>2, <3>3
    <3>5. queue' = Submit(queue, <<On(m, Signal(e)), On(q, WaitFor(es))>>)
      BY <2>2, <3>2
    <3>6. Grew /\ \A f \in Gives(WaitFor(es)) : Known(queue, q, f)'
      BY <1>1, <1>2, <1>4, <3>1, <3>3, <3>5, TwoSubmissions
    <3> QED BY <3>4, <3>6
  <2>3. \/ q = m /\ (UNCHANGED queue \/ queue' = Submit(queue, <<>>))
        \/ queue' = Submit(queue, <<On(m, Signal(e)), On(q, WaitFor({e}))>>)
    <3>1. CASE ~IsAsync(o)
      <4>1. q = m
        BY <1>3, <3>1, StreamFacts
      <4> QED BY <1>3, <3>1, <4>1 DEF Locked
    <3>2. CASE IsAsync(o)
      <4>1. q = CommsStream(t)
        BY <1>3, <3>2, StreamFacts
      <4>2. queue' = Submit(queue, EventRecord(m, e) \o EventWait(q, e))
        BY <1>3, <3>2, <4>1 DEF Locked
      <4>3. CASE config.multiple_streams
        <5>1. PICK a, b : a = On(m, Signal(e)) /\ b = On(q, WaitFor({e}))
          OBVIOUS
        <5>2. EventRecord(m, e) = <<a>> /\ EventWait(q, e) = <<b>>
          BY <4>3, <5>1 DEF EventRecord, EventWait
        <5>3. <<a>> \o <<b>> = <<a, b>>
          BY TwoInOrder
        <5> QED BY <4>2, <5>1, <5>2, <5>3
      <4>4. CASE ~config.multiple_streams
        <5>1. EventRecord(m, e) = <<>> /\ EventWait(q, e) = <<>>
          BY <4>4 DEF EventRecord, EventWait
        <5>2. <<>> \o <<>> = <<>>
          OBVIOUS
        <5>3. q = m
          BY <1>3, <4>4, StreamFacts
        <5> QED BY <4>2, <5>1, <5>2, <5>3
      <4> QED BY <4>3, <4>4
    <3> QED BY <3>1, <3>2
  <2> QED BY <2>1, <2>2, <2>3
<1>6. /\ at' = at /\ stage' \in [Threads -> Stages] /\ stage'[t] = "calls"
      /\ \A u \in Threads : u # t => stage'[u] = stage[u]
  BY <1>0, <1>1, GotoMoves
<1>7. InputsKnown' /\ AwaitedKnown'
  <2>1. ASSUME NEW u \in Threads, NEW y \in Operations, NEW s \in DOMAIN Schedule,
               IsThunk(s, "start", y), Entered(u, s)'
        PROVE  Entered(u, s) \/ Known(queue, StreamOf(u, y), InputOf(u, y))'
    <3>1. CASE u # t \/ s # at[t]
      BY <1>6, <2>1, <3>1 DEF Entered
    <3>2. CASE u = t /\ s = at[t]
      <4>1. y = o
        BY <1>3, <2>1, <3>2 DEF IsThunk
      <4>2. StreamOf(t, o)' = q
        BY <1>2, <1>3, SameStreams
      <4> QED BY <1>5, <3>2, <4>1, <4>2
    <3> QED BY <3>1, <3>2
  <2> QED BY <1>1, <1>2, <1>5, <1>6, <2>1, SameThunkKnows
<1>8. StagesFit' /\ PositionsFit' /\ DoneStored'
  BY <1>0, <1>1, <1>2, GotoControl
<1>9. RootKnows' /\ AllKnow'
  BY <1>1, <1>2, <1>5, ReachedStays, LaunchedStays
<1>10. FirstRunBlocks'
  BY <1>2, <1>6, NothingStarted
<1>11. /\ first_call_to_execute' \in [Operations -> BOOLEAN] /\ done_events' \in [Operations -> SUBSET Threads]
       /\ at' \in [Threads -> 1 .. Len(Schedule) + 1]
  BY <1>1, <1>2, <1>6 DEF ThunkTypeOK
<1> QED BY <1>1, <1>2, <1>5, <1>6, <1>7, <1>8, <1>9, <1>10, <1>11, HostStepHolds

\* Past its calls, a thread knows the kernels of its operation.
LEMMA CalledKnows ==
  ASSUME ThunkInvariant, NEW t \in Threads, NEW o \in Operations, IsThunk(at[t], "start", o),
         stage[t] \in {"record", "first", "block"}, NEW f \in KernelsOf(o)
  PROVE  Known(queue, StreamOf(t, o), f)
<1>0. TypeOK /\ ThunkTypeOK /\ PositionsFit /\ AllKnow
  BY DEF ThunkInvariant, Control, Knowledge
<1>1. pos[t] >= EndOf(o)
  BY <1>0 DEF PositionsFit, Called, IsThunk
<1>2. EndOf(o) <= Reached(t)
  <2>1. EndOf(o) \in Nat /\ pos[t] \in Nat /\ Reached(t) \in Nat /\ pos[t] <= Reached(t)
    BY <1>0, OpFacts, Numbers
  <2> QED BY <1>1, <2>1
<1>3. PICK c \in CallsOf(o) : f = KernelOf(c)
  BY DEF KernelsOf
<1> QED BY <1>0, <1>2, <1>3 DEF AllKnow

LEMMA RecordDoneHolds ==
  ASSUME OneClique, ThunkInvariant, NEW t \in Threads, RecordDone(t)
  PROVE  ThunkInvariant'
<1>0. At(t, {"start"}, "record") /\ Goto(t, "first") /\ "first" \in Stages
  BY DEF RecordDone, Stages
<1>1. /\ TypeOK /\ ThunkTypeOK /\ Control /\ Sound(queue) /\ InputsKnown /\ AwaitedKnown
      /\ RootKnows /\ AllKnow /\ failed = {} /\ at[t] \in DOMAIN Schedule /\ stage[t] = "record"
      /\ Schedule[at[t]].thunk = "start"
  BY <1>0, AtFacts
<1>2. UNCHANGED <<vars, config, first_call_to_execute, runVars>>
  BY DEF RecordDone
<1>3. PICK o \in Operations, q \in Queues, e \in Events :
        /\ o = Op(t) /\ IsThunk(at[t], "start", o) /\ IsAsync(o)
        /\ q = CommsStream(t) /\ q = StreamOf(t, o)
        /\ e = <<"done", t, o>> /\ StandsFor(e) = KernelsOf(o)
  <2>1. PICK o \in Operations : o = Op(t) /\ IsThunk(at[t], "start", o)
    BY <1>0, <1>1, AtFacts
  <2>2. IsAsync(o) /\ o \in Nat
    BY <1>1, <2>1, OpFacts DEF Control, StagesFit
  <2>3. <<"done", t, o>> \in Events /\ StandsFor(<<"done", t, o>>) = KernelsOf(o)
    BY <2>2, EventFacts
  <2> QED BY <2>1, <2>2, <2>3, StreamFacts
<1>4. t \notin done_events[o]
  <2>1. PICK d \in DOMAIN Schedule : IsThunk(d, "done", o)
    BY ThunkOrder
  <2>2. ~Recorded(t, at[t])
    BY <1>1, Numbers DEF Recorded
  <2> QED BY <1>1, <1>3, <2>1, <2>2 DEF Control, DoneStored
<1>5. /\ failed' = {} /\ done_events' = [done_events EXCEPT ![o] = @ \cup {t}]
      /\ queue' = Submit(queue, EventRecord(q, e))
  BY <1>1, <1>3, <1>4 DEF RecordDone
<1>6. Grew
  <2>1. CASE config.multiple_streams
    <3>1. queue' = Submit(queue, <<On(q, Signal(e))>>)
      BY <1>5, <2>1 DEF EventRecord
    <3>2. Signal(e) \in Commands /\ Needs(Signal(e)) = KernelsOf(o)
      BY <1>3, CommandFacts
    <3>3. \A f \in Needs(Signal(e)) : Known(queue, q, f)
      BY <1>1, <1>3, <3>2, CalledKnows
    <3> QED BY <1>1, <1>2, <3>1, <3>2, <3>3, OneSubmission
  <2>2. CASE ~config.multiple_streams
    <3>1. queue' = Submit(queue, <<>>)
      BY <1>5, <2>2 DEF EventRecord
    <3> QED BY <1>1, <1>2, <3>1, EmptySubmission
  <2> QED BY <2>1, <2>2
<1>7. /\ at' = at /\ stage' \in [Threads -> Stages] /\ stage'[t] = "first"
      /\ \A u \in Threads : u # t => stage'[u] = stage[u]
  BY <1>0, <1>1, GotoMoves
<1>8. InputsKnown' /\ AwaitedKnown'
  <2>1. \A u \in Threads, s \in DOMAIN Schedule : Entered(u, s)' => Entered(u, s)
    BY <1>1, <1>7 DEF Entered
  <2> QED BY <1>1, <1>2, <1>6, <1>7, <2>1, SameThunkKnows
<1>9. StagesFit' /\ PositionsFit' /\ DoneStored'
  BY <1>0, <1>1, <1>2, <1>3, <1>5, GotoControl
<1>10. RootKnows' /\ AllKnow'
  BY <1>1, <1>2, <1>6, ReachedStays, LaunchedStays
<1>11. FirstRunBlocks'
  BY <1>2, <1>7, NothingStarted
<1>12. /\ first_call_to_execute' \in [Operations -> BOOLEAN] /\ done_events' \in [Operations -> SUBSET Threads]
       /\ at' \in [Threads -> 1 .. Len(Schedule) + 1]
  BY <1>1, <1>2, <1>5, <1>7 DEF ThunkTypeOK
<1> QED BY <1>1, <1>2, <1>5, <1>6, <1>7, <1>8, <1>9, <1>10, <1>11, <1>12, HostStepHolds

\* A start thunk is passed in the first run only when its kernels ran.
LEMMA StartPassed ==
  ASSUME OneClique, ThunkInvariant, NEW t \in Threads, NextThunk(t),
         NEW s \in {"first", "block"}, At(t, {"start"}, s),
         config.first_run => KernelsOf(Op(t)) \subseteq Happened,
         \A o \in Operations : o # Op(t) => first_call_to_execute'[o] = first_call_to_execute[o],
         first_call_to_execute' \in [Operations -> BOOLEAN],
         UNCHANGED <<vars, config, done_events, failed, queue, runVars>>
  PROVE  ThunkInvariant'
<1>1. /\ TypeOK /\ ThunkTypeOK /\ Control /\ Sound(queue) /\ InputsKnown /\ AwaitedKnown
      /\ RootKnows /\ AllKnow /\ FirstRunBlocks /\ failed = {}
      /\ at[t] \in DOMAIN Schedule /\ stage[t] = s /\ Schedule[at[t]].thunk = "start"
  BY AtFacts
<1>2. PICK o \in Operations : o = Op(t) /\ IsThunk(at[t], "start", o)
  BY <1>1, AtFacts
<1>3. Grew
  BY <1>1, NoSubmission
<1>4. InputsKnown' /\ AwaitedKnown'
  BY <1>1, <1>2, <1>3, NextThunkKnows
<1>5. StagesFit' /\ PositionsFit' /\ DoneStored'
  BY <1>1, NextThunkControl
<1>6. /\ at' \in [Threads -> 1 .. Len(Schedule) + 1] /\ stage' \in [Threads -> Stages]
      /\ \A i \in Emitted : i < at'[t] => i <= at[t]
      /\ \A u \in Threads : u # t => at'[u] = at[u]
  BY <1>1, NextThunkMoves
<1>7. RootKnows' /\ AllKnow'
  BY <1>1, <1>3, ReachedStays, LaunchedStays
<1>8. FirstRunBlocks'
  <2>1. Happened' = Happened
    BY DEF Happened, runVars
  <2>2. ASSUME NEW y \in Operations, y # o, NEW u \in Threads, NEW i \in DOMAIN Schedule,
               IsThunk(i, "start", y), at[u] <= i
        PROVE  at'[u] <= i
    <3>1. i \in Emitted /\ i \in Nat /\ at[u] \in Nat /\ at'[u] \in Nat
      BY <1>1, <1>6, <2>2, EmittedKinds, ScheduleFacts, Numbers DEF ThunkKinds
    <3>2. u = t => i # at[t]
      BY <1>2, <2>2 DEF IsThunk
    <3> QED BY <1>6, <2>2, <3>1, <3>2
  <2> QED BY <1>1, <1>2, <2>1, <2>2, FirstRunStays
<1>9. done_events' \in [Operations -> SUBSET Threads]
  BY <1>1 DEF ThunkTypeOK
<1> QED BY <1>1, <1>3, <1>4, <1>5, <1>6, <1>7, <1>8, <1>9, HostStepHolds

LEMMA ReadFirstHolds ==
  ASSUME OneClique, ThunkInvariant, NEW t \in Threads, ReadFirst(t)
  PROVE  ThunkInvariant'
<1>0. At(t, {"start"}, "first") /\ "first" \in Stages /\ "block" \in Stages
  BY DEF ReadFirst, Stages
<1>1. /\ TypeOK /\ ThunkTypeOK /\ Control /\ Sound(queue) /\ InputsKnown /\ AwaitedKnown
      /\ RootKnows /\ AllKnow /\ FirstRunBlocks /\ failed = {} /\ at[t] \in DOMAIN Schedule
      /\ stage[t] = "first" /\ Schedule[at[t]].thunk = "start" /\ Op(t) \in Operations
  BY <1>0, AtFacts
<1>2. UNCHANGED <<vars, config, first_call_to_execute, done_events, failed, queue, runVars>>
  BY DEF ReadFirst
<1>3. first_call_to_execute' \in [Operations -> BOOLEAN] /\ done_events' \in [Operations -> SUBSET Threads]
  BY <1>1, <1>2 DEF ThunkTypeOK
<1>4. CASE first_call_to_execute[Op(t)]
  <2>1. Goto(t, "block")
    BY <1>4 DEF ReadFirst
  <2>2. Grew
    BY <1>1, <1>2, NoSubmission
  <2>3. /\ at' = at /\ stage' \in [Threads -> Stages] /\ stage'[t] = "block"
        /\ \A u \in Threads : u # t => stage'[u] = stage[u]
    BY <1>0, <1>1, <2>1, GotoMoves
  <2>4. InputsKnown' /\ AwaitedKnown'
    <3>1. \A u \in Threads, s \in DOMAIN Schedule : Entered(u, s)' => Entered(u, s)
      BY <1>1, <2>3 DEF Entered
    <3> QED BY <1>1, <1>2, <2>2, <2>3, <3>1, SameThunkKnows
  <2>5. StagesFit' /\ PositionsFit' /\ DoneStored'
    BY <1>0, <1>1, <1>2, <2>1, GotoControl
  <2>6. RootKnows' /\ AllKnow'
    BY <1>1, <1>2, <2>2, ReachedStays, LaunchedStays
  <2>7. FirstRunBlocks'
    BY <1>2, <2>3, NothingStarted
  <2>8. at' \in [Threads -> 1 .. Len(Schedule) + 1]
    BY <1>1, <2>3 DEF ThunkTypeOK
  <2> QED BY <1>1, <1>2, <1>3, <2>2, <2>3, <2>4, <2>5, <2>6, <2>7, <2>8, HostStepHolds
<1>5. CASE ~first_call_to_execute[Op(t)]
  <2>1. NextThunk(t)
    BY <1>5 DEF ReadFirst
  <2>2. config.first_run => KernelsOf(Op(t)) \subseteq Happened
    BY <1>1, <1>5 DEF FirstRunBlocks
  <2> QED BY <1>0, <1>2, <1>3, <2>1, <2>2, StartPassed
<1> QED BY <1>4, <1>5

LEMMA BlockHostUntilDoneHolds ==
  ASSUME OneClique, ThunkInvariant, NEW t \in Threads, BlockHostUntilDone(t)
  PROVE  ThunkInvariant'
<1>0. At(t, {"start"}, "block") /\ NextThunk(t)
  BY DEF BlockHostUntilDone
<1>1. /\ ThunkTypeOK /\ at[t] \in DOMAIN Schedule /\ stage[t] = "block"
      /\ Schedule[at[t]].thunk = "start"
  BY <1>0, AtFacts
<1>2. PICK o \in Operations : o = Op(t) /\ IsThunk(at[t], "start", o)
  BY <1>0, <1>1, AtFacts
<1>3. /\ UNCHANGED <<vars, config, done_events, failed, queue, runVars>>
      /\ first_call_to_execute' = [first_call_to_execute EXCEPT ![o] = FALSE]
      /\ queue[StreamOf(t, o)] = <<>>
  BY <1>2 DEF BlockHostUntilDone, Drained
<1>4. KernelsOf(o) \subseteq Happened
  <2> SUFFICES ASSUME NEW f \in KernelsOf(o) PROVE f \in Happened
    OBVIOUS
  <2>1. Known(queue, StreamOf(t, o), f)
    BY <1>1, <1>2, CalledKnows
  <2>2. DOMAIN queue[StreamOf(t, o)] = {}
    BY <1>3
  <2> QED BY <2>1, <2>2 DEF Known
<1>5. /\ first_call_to_execute' \in [Operations -> BOOLEAN]
      /\ \A y \in Operations : y # o => first_call_to_execute'[y] = first_call_to_execute[y]
  BY <1>1, <1>3 DEF ThunkTypeOK
<1> QED BY <1>0, <1>2, <1>3, <1>4, <1>5, StartPassed

LEMMA AwaitHolds ==
  ASSUME OneClique, ThunkInvariant, NEW t \in Threads, Await(t)
  PROVE  ThunkInvariant'
<1>0. At(t, {"done"}, "begin")
  BY DEF Await
<1>1. /\ TypeOK /\ ThunkTypeOK /\ Control /\ Sound(queue) /\ InputsKnown /\ AwaitedKnown
      /\ RootKnows /\ AllKnow /\ failed = {} /\ at[t] \in DOMAIN Schedule /\ stage[t] = "begin"
      /\ Schedule[at[t]].thunk = "done"
  BY <1>0, AtFacts
<1>2. PICK o \in Operations, q \in Queues, e \in Events :
        /\ o = Op(t) /\ IsThunk(at[t], "done", o) /\ IsAsync(o) /\ q = MainStream(t)
        /\ e = <<"done", t, o>> /\ StandsFor(e) = KernelsOf(o)
  <2>1. PICK o \in Operations : o = Op(t) /\ IsThunk(at[t], "done", o)
    BY <1>0, <1>1, AtFacts
  <2>2. at[t] \in Emitted
    BY <1>1 DEF Control, StagesFit
  <2>3. IsAsync(o) /\ o \in Nat
    BY <1>1, <2>1, <2>2, OpFacts DEF Emitted, Op
  <2>4. <<"done", t, o>> \in Events /\ StandsFor(<<"done", t, o>>) = KernelsOf(o)
    BY <2>3, EventFacts
  <2> QED BY <2>1, <2>3, <2>4, StreamFacts
<1>3. EndOf(o) <= Reached(t)
  BY <1>1, <1>2, StartBefore
<1>4. t \in done_events[o]
  <2>1. PICK s, d \in DOMAIN Schedule : IsThunk(s, "start", o) /\ IsThunk(d, "done", o) /\ s < d
    BY ThunkOrder
  <2>2. d = at[t] /\ at[t] \in Nat
    BY <1>1, <1>2, <2>1, ThunkOrder, Numbers DEF ThunkKinds
  <2>3. Recorded(t, s) /\ at[t] <= d
    BY <2>1, <2>2 DEF Recorded
  <2> QED BY <1>1, <1>2, <2>1, <2>3 DEF Control, DoneStored
<1>5. /\ UNCHANGED <<vars, config, first_call_to_execute, runVars, failed>> /\ NextThunk(t)
      /\ done_events' = [done_events EXCEPT ![o] = @ \ {t}]
      /\ queue' = Submit(queue, EventWait(q, e))
  BY <1>2, <1>4 DEF Await
<1>6. Grew /\ \A f \in KernelsOf(o) : Known(queue, q, f)'
  <2>1. CASE config.multiple_streams
    <3>1. PICK es \in SUBSET Events : es = {e}
      OBVIOUS
    <3>2. queue' = Submit(queue, <<On(q, WaitFor(es))>>)
      BY <1>5, <2>1, <3>1 DEF EventWait
    <3>3. /\ WaitFor(es) \in Commands /\ Needs(WaitFor(es)) = {}
          /\ Gives(WaitFor(es)) = UNION {StandsFor(x) : x \in es}
      BY CommandFacts
    <3>4. \A f \in KernelsOf(o) : f \in Gives(WaitFor(es))
      BY <1>2, <3>1, <3>3
    <3>5. Grew /\ \A f \in Gives(WaitFor(es)) : Known(queue, q, f)'
      BY <1>1, <1>5, <3>2, <3>3, OneSubmission
    <3> QED BY <3>4, <3>5
  <2>2. CASE ~config.multiple_streams
    <3>1. queue' = Submit(queue, <<>>)
      BY <1>5, <2>2 DEF EventWait
    <3>2. Grew
      BY <1>1, <1>5, <3>1, EmptySubmission
    <3>3. q = StreamOf(t, o)
      BY <1>2, <2>2, StreamFacts
    <3>4. ASSUME NEW f \in KernelsOf(o) PROVE Known(queue, q, f)
      <4>1. PICK c \in CallsOf(o) : f = KernelOf(c)
        BY DEF KernelsOf
      <4> QED BY <1>1, <1>3, <3>3, <4>1 DEF AllKnow
    <3> QED BY <3>2, <3>4 DEF Grew
  <2> QED BY <2>1, <2>2
<1>7. InputsKnown' /\ AwaitedKnown'
  <2>1. MainStream(t)' = q
    BY <1>2, <1>5, SameStreams
  <2>2. \A c \in CallsOf(o) : KernelOf(c) \in KernelsOf(o)
    BY DEF KernelsOf
  <2>3. \A c \in CallsOf(o) : Known(queue, MainStream(t), KernelOf(c))'
    BY <1>6, <2>1, <2>2
  <2> QED BY <1>1, <1>2, <1>5, <1>6, <2>3, NextThunkKnows
<1>8. StagesFit' /\ PositionsFit' /\ DoneStored'
  BY <1>1, <1>2, <1>5, NextThunkControl
<1>9. at' \in [Threads -> 1 .. Len(Schedule) + 1] /\ stage' \in [Threads -> Stages]
  BY <1>1, <1>5, NextThunkMoves
<1>10. RootKnows' /\ AllKnow'
  BY <1>1, <1>5, <1>6, ReachedStays, LaunchedStays
<1>11. FirstRunBlocks'
  BY <1>1, <1>5, NothingStarted
<1>12. first_call_to_execute' \in [Operations -> BOOLEAN] /\ done_events' \in [Operations -> SUBSET Threads]
  BY <1>1, <1>5 DEF ThunkTypeOK
<1> QED BY <1>1, <1>5, <1>6, <1>7, <1>8, <1>9, <1>10, <1>11, <1>12, HostStepHolds

\* Only the Manager's state changes, or the call of a notified thread returns.
LEMMA CallWaitHolds ==
  ASSUME OneClique, ThunkInvariant, NEW t \in Threads, CallWait(t)
  PROVE  ThunkInvariant'
<1>0. At(t, {"start"}, "calls") /\ Wait(t) /\ UNCHANGED <<hostVars, queue, runVars>>
  BY DEF CallWait
<1>1. /\ TypeOK /\ ThunkTypeOK /\ Control /\ Sound(queue) /\ InputsKnown /\ AwaitedKnown
      /\ RootKnows /\ AllKnow /\ failed = {} /\ stage[t] = "calls"
  BY <1>0, AtFacts
<1>2. UNCHANGED <<config, at, stage, first_call_to_execute, done_events, failed>>
  BY <1>0 DEF hostVars
<1>3. pos' = pos /\ \A u \in Threads : u # t => pc'[u] = pc[u]
  BY <1>0, <1>1 DEF Wait, TypeOK
<1>4. [Next]_vars
  BY <1>0 DEF Next, Step
<1>5. Grew
  BY <1>0, <1>1, NoSubmission
<1>6. InputsKnown' /\ AwaitedKnown'
  <2>1. \A u \in Threads, s \in DOMAIN Schedule : Entered(u, s)' => Entered(u, s)
    BY <1>2 DEF Entered
  <2> QED BY <1>1, <1>2, <1>5, <2>1, SameThunkKnows
<1>7. StagesFit'
  <2>1. Emitted' = Emitted
    BY <1>2, SameStreams
  <2> QED BY <1>1, <1>2, <1>3, <2>1 DEF Control, StagesFit, IsAsync, Op
<1>8. PositionsFit' /\ DoneStored'
  <2>1. PositionsFit'
    BY <1>1, <1>2, <1>3 DEF Control, PositionsFit, Ahead, InCalls, Called
  <2>2. DoneStored'
    BY <1>1, <1>2, <1>3 DEF Control, DoneStored, Recorded, IsAsync
  <2> QED BY <2>1, <2>2
<1>9. RootKnows' /\ AllKnow'
  BY <1>0, <1>1, <1>2, <1>5, ReachedStays, LaunchedStays
<1>10. FirstRunBlocks'
  BY <1>0, <1>2, NothingStarted
<1>11. /\ first_call_to_execute' \in [Operations -> BOOLEAN] /\ done_events' \in [Operations -> SUBSET Threads]
       /\ at' \in [Threads -> 1 .. Len(Schedule) + 1] /\ stage' \in [Threads -> Stages]
  BY <1>1, <1>2 DEF ThunkTypeOK
<1> QED BY <1>0, <1>1, <1>2, <1>4, <1>5, <1>6, <1>7, <1>8, <1>9, <1>10, <1>11, HostStepHolds

\* The stages after a call.
LEMMA SetCallStageMoves ==
  ASSUME ThunkTypeOK, NEW t \in Threads, stage[t] = "calls", SetCallStage(t)
  PROVE  at' = at /\ \A u \in Threads, s \in DOMAIN Schedule : Entered(u, s)' => Entered(u, s)
<1>1. PICK x : x = AfterCall(t, pos[t])
  OBVIOUS
<1>2. x \in Stages /\ Goto(t, x)
  BY <1>1 DEF AfterCall, Stages, SetCallStage
<1>3. at' = at /\ stage'[t] = x /\ \A u \in Threads : u # t => stage'[u] = stage[u]
  BY <1>2, GotoMoves
<1> QED BY <1>3 DEF Entered

LEMMA CallReturnHolds ==
  ASSUME OneClique, ThunkInvariant, NEW t \in Threads, CallReturn(t)
  PROVE  ThunkInvariant'
<1>0. /\ At(t, {"start"}, "calls") /\ Return(t) /\ SetCallStage(t)
      /\ UNCHANGED <<config, first_call_to_execute, done_events, failed, queue, runVars>>
  BY DEF CallReturn
<1>1. /\ TypeOK /\ ThunkTypeOK /\ Control /\ Sound(queue) /\ InputsKnown /\ AwaitedKnown
      /\ RootKnows /\ AllKnow /\ failed = {} /\ stage[t] = "calls"
  BY <1>0, AtFacts
<1>2. /\ pos' = [pos EXCEPT ![t] = @ + 1] /\ pc'[t] = "running"
      /\ \A u \in Threads : pc'[u] # "running" => pc[u] # "running"
  BY <1>0, <1>1 DEF Return, TypeOK
<1>3. [Next]_vars
  BY <1>0 DEF Next, Step
<1>4. Grew
  BY <1>0, <1>1, NoSubmission
<1>5. at' = at /\ \A u \in Threads, s \in DOMAIN Schedule : Entered(u, s)' => Entered(u, s)
  BY <1>0, <1>1, SetCallStageMoves
<1>6. InputsKnown' /\ AwaitedKnown'
  BY <1>0, <1>1, <1>4, <1>5, SameThunkKnows
<1>7. StagesFit' /\ PositionsFit' /\ DoneStored' /\ stage' \in [Threads -> Stages]
  BY <1>0, <1>1, <1>2, CallControl
<1>8. RootKnows' /\ AllKnow'
  BY <1>0, <1>1, <1>4, ReachedStays, LaunchedStays
<1>9. FirstRunBlocks'
  BY <1>0, <1>5, NothingStarted
<1>10. /\ first_call_to_execute' \in [Operations -> BOOLEAN] /\ done_events' \in [Operations -> SUBSET Threads]
       /\ at' \in [Threads -> 1 .. Len(Schedule) + 1]
  BY <1>0, <1>1, <1>5 DEF ThunkTypeOK
<1> QED BY <1>0, <1>1, <1>3, <1>4, <1>6, <1>7, <1>8, <1>9, <1>10, HostStepHolds

-----------------------------------------------------------------------------
(* A launch.                                                               *)

\* A sorted group: all threads at call c, the least rank first.
IsOrder(p, n, c) ==
  /\ n \in Nat \ {0} /\ n = Len(p) /\ DOMAIN p = 1 .. n /\ Range(p) = Group(c)
  /\ \A i \in 1 .. n : p[i].thread \in Threads /\ p[i].call = c
  /\ \A u \in Threads : \E i \in 1 .. n : p[i].thread = u

LEMMA FunctionIsSeq ==
  ASSUME NEW S, NEW n \in Nat, NEW f \in [1 .. n -> S]
  PROVE  f \in Seq(S) /\ Len(f) = n /\ DOMAIN f = 1 .. n
  OBVIOUS

LEMMA SortedOrder ==
  ASSUME NEW c \in Calls, NEW t \in Threads, NEW p \in SortedByRank(Group(c))
  PROVE  \E n : IsOrder(p, n, c)
<1>1. IsFiniteSet(Group(c)) /\ [thread |-> t, call |-> c] \in Group(c)
  BY GroupSize DEF Group
<1>2. PICK n \in Nat : n = Cardinality(Group(c))
  BY <1>1, FS_CardinalityType
<1>3. p \in [1 .. n -> Group(c)] /\ \A i, j \in 1 .. n : i # j => p[i] # p[j]
  BY <1>2 DEF SortedByRank
<1>4. n = Len(p) /\ DOMAIN p = 1 .. n
  BY <1>3, FunctionIsSeq
<1>5. Cardinality(1 .. n) = n
  <2>1. 1 \in Int /\ n \in Int
    OBVIOUS
  <2>2. Cardinality(1 .. n) = IF 1 > n THEN 0 ELSE n - 1 + 1
    BY <2>1, FS_Interval
  <2> QED BY <2>2
<1>6. p \in Surjection(1 .. n, Group(c))
  <2>1. p \in Injection(1 .. n, Group(c))
    BY <1>3 DEF Injection, IsInjective
  <2> QED BY <1>1, <1>2, <1>5, <2>1, FS_Injection
<1>7. \A x \in Group(c) : \E i \in 1 .. n : p[i] = x
  BY <1>6 DEF Surjection
<1>8. Range(p) = Group(c)
  BY <1>3, <1>4, <1>7 DEF Range
<1>9. n # 0
  BY <1>1, <1>7
<1>10. \A x \in Group(c) : x.thread \in Threads /\ x.call = c
  BY DEF Group
<1>11. ASSUME NEW u \in Threads PROVE \E i \in 1 .. n : p[i].thread = u
  <2>1. [thread |-> u, call |-> c] \in Group(c)
    BY DEF Group
  <2>2. PICK i \in 1 .. n : p[i] = [thread |-> u, call |-> c]
    BY <1>7, <2>1
  <2> QED BY <2>2
<1> QED BY <1>3, <1>4, <1>8, <1>9, <1>10, <1>11 DEF IsOrder

\* The first of a sorted group is the thread of the least rank.
LEMMA FirstIsRoot ==
  ASSUME OneClique, NEW c \in Calls, NEW p \in SortedByRank(Group(c)), NEW n, IsOrder(p, n, c)
  PROVE  /\ IsRoot(p[1].thread, OpOf(c))
         /\ \A r \in Threads : IsRoot(r, OpOf(c)) => r = p[1].thread
<1>1. PICK o \in Operations, r \in Threads : o = OpOf(c) /\ r = p[1].thread
  BY CallOps DEF IsOrder
<1>2. Program[c].comm = Program[o].comm /\ o \in Calls
  BY <1>1, CallOps, OpFacts
<1>3. \A u \in Threads : Program[o].comm[u].rank \in Nat
  BY <1>2, CallFacts DEF Comm, Comms
<1>4. ASSUME NEW u \in Threads PROVE Program[o].comm[r].rank <= Program[o].comm[u].rank
  <2>1. PICK i \in 1 .. n : p[i].thread = u
    BY DEF IsOrder
  <2>2. CASE i = 1
    BY <1>1, <1>3, <2>1, <2>2
  <2>3. CASE i # 1
    <3>1. 1 \in DOMAIN p /\ i \in DOMAIN p /\ 1 < i
      BY <2>3 DEF IsOrder
    <3>2. Rank(p[1]) <= Rank(p[i])
      BY <3>1 DEF SortedByRank
    <3>3. Rank(p[1]) = Program[o].comm[r].rank /\ Rank(p[i]) = Program[o].comm[u].rank
      BY <1>1, <1>2, <2>1, <3>1 DEF Rank, IsOrder
    <3> QED BY <3>2, <3>3
  <2> QED BY <2>2, <2>3
<1>5. ASSUME NEW x \in Threads, IsRoot(x, o) PROVE x = r
  <2>1. Program[o].comm[x].rank = Program[o].comm[r].rank
    BY <1>3, <1>4, <1>5 DEF IsRoot
  <2>2. Clique(r, o) = Threads
    BY <1>2 DEF OneClique, Comm, Clique
  <2> QED BY <2>1, <2>2, OperationsAssumption
<1> QED BY <1>1, <1>4, <1>5 DEF IsRoot

\* stream_wait_streamlist: what is known on each stream becomes known on
\* rank 0's.
LEMMA ReadySound ==
  ASSUME ThunkTypeOK, NEW queues \in [Queues -> Seq(Commands)], Sound(queues),
         NEW c \in Calls, NEW p, NEW n, IsOrder(p, n, c),
         \A i \in 1 .. n : Known(queues, PartStream(p[i]), InputOf(p[i].thread, OpOf(c)))
  PROVE  /\ stream_wait_streamlist(queues, p) \in [Queues -> Seq(Commands)]
         /\ Sound(stream_wait_streamlist(queues, p))
         /\ Grows(queues, stream_wait_streamlist(queues, p))
         /\ \A i \in 1 .. n : Known(stream_wait_streamlist(queues, p), PartStream(p[1]),
                                    InputOf(p[i].thread, OpOf(c)))
<1> DEFINE ready(i) == <<"ready", p[i].thread, p[i].call>>
           first == [i \in 1 .. Len(p) - 1 |-> On(PartStream(p[i + 1]), Signal(ready(i + 1)))]
           waits == {ready(i) : i \in 2 .. Len(p)}
           second == <<On(PartStream(p[1]), WaitFor(waits))>>
<1>1. n \in Nat \ {0} /\ Len(p) = n /\ n - 1 \in Nat /\ c \in Nat
  BY CallOps DEF IsOrder
<1>2. ASSUME NEW i \in 1 .. n
      PROVE  /\ PartStream(p[i]) \in Queues /\ ready(i) \in Events
             /\ StandsFor(ready(i)) = {InputOf(p[i].thread, OpOf(c))}
  <2>1. p[i].thread \in Threads /\ p[i].call = c
    BY DEF IsOrder
  <2>2. PartStream(p[i]) \in Queues
    BY <2>1, StreamFacts DEF PartStream
  <2>3. ready(i) \in Events /\ StandsFor(ready(i)) = {InputOf(p[i].thread, OpOf(c))}
    BY <1>1, <2>1, EventFacts
  <2> QED BY <2>2, <2>3
<1>3. ASSUME NEW i \in 1 .. n - 1
      PROVE  /\ i + 1 \in 1 .. n /\ first[i] = On(PartStream(p[i + 1]), Signal(ready(i + 1)))
             /\ first[i] \in Submissions /\ first[i].queue = PartStream(p[i + 1])
             /\ Needs(first[i].command) = {InputOf(p[i + 1].thread, OpOf(c))}
  <2>1. i + 1 \in 1 .. n
    BY <1>1
  <2>2. first[i] = On(PartStream(p[i + 1]), Signal(ready(i + 1)))
    BY <1>1
  <2>3. PICK q \in Queues, e \in Events : /\ q = PartStream(p[i + 1]) /\ e = ready(i + 1)
                                          /\ StandsFor(e) = {InputOf(p[i + 1].thread, OpOf(c))}
    BY <1>2, <2>1
  <2>4. PICK d \in Commands : d = Signal(e) /\ Needs(d) = {InputOf(p[i + 1].thread, OpOf(c))}
    BY <2>3, CommandFacts
  <2>5. On(q, d) \in Submissions /\ On(q, d).queue = q /\ On(q, d).command = d
    BY OnFacts
  <2> QED BY <2>1, <2>2, <2>3, <2>4, <2>5
<1> HIDE DEF ready
<1>4. first \in Seq(Submissions) /\ DOMAIN first = 1 .. n - 1
  <2>1. PICK S : S = Submissions
    OBVIOUS
  <2>2. first \in [1 .. n - 1 -> S]
    BY <1>1, <1>3, <2>1
  <2> HIDE DEF first
  <2> QED BY <1>1, <2>1, <2>2, FunctionIsSeq, Zenon
<1> HIDE DEF first
<1>5. Supported(queues, first)
  <2> SUFFICES ASSUME NEW k \in DOMAIN first, NEW f \in Needs(first[k].command)
               PROVE  Known(queues, first[k].queue, f)
    BY DEF Supported
  <2>1. /\ k \in 1 .. n - 1 /\ k + 1 \in 1 .. n /\ first[k].queue = PartStream(p[k + 1])
        /\ f = InputOf(p[k + 1].thread, OpOf(c))
    BY <1>3, <1>4
  <2> QED BY <2>1
<1>6. PICK mid : mid = Submit(queues, first) /\ Extends(queues, mid, first)
  BY <1>4, <1>5, SubmitSound
<1>7. waits \in SUBSET Events
  <2>1. \A i \in 2 .. Len(p) : ready(i) \in Events
    BY <1>1, <1>2
  <2> QED BY <2>1
<1>8. PICK es \in SUBSET Events, q \in Queues : es = waits /\ q = PartStream(p[1])
  <2>1. 1 \in 1 .. n
    BY <1>1
  <2> QED BY <1>2, <1>7, <2>1
<1>9. PICK d \in Commands : /\ d = WaitFor(es) /\ Needs(d) = {}
                            /\ Gives(d) = UNION {StandsFor(e) : e \in es}
  BY CommandFacts
<1>10. PICK sub \in Submissions : sub = On(q, d) /\ sub.queue = q /\ sub.command = d
  BY OnFacts
<1>11. second = <<sub>>
  BY <1>8, <1>9, <1>10
<1> HIDE DEF second
<1>12. second \in Seq(Submissions) /\ DOMAIN second = {1} /\ second[1] = sub
  <2>1. PICK S : S = Submissions
    OBVIOUS
  <2>2. <<sub>> \in Seq(S) /\ DOMAIN <<sub>> = {1} /\ <<sub>>[1] = sub
    BY <2>1
  <2> QED BY <1>11, <2>1, <2>2
<1>13. mid \in [Queues -> Seq(Commands)] /\ Sound(mid) /\ Grows(queues, mid)
  BY <1>6 DEF Extends
<1>14. Supported(mid, second)
  BY <1>9, <1>10, <1>12 DEF Supported
<1>15. PICK last : last = Submit(mid, second) /\ Extends(mid, last, second)
  BY <1>12, <1>13, <1>14, SubmitSound
<1>16. stream_wait_streamlist(queues, p) = last
  BY <1>6, <1>15 DEF stream_wait_streamlist, first, second, waits, ready
<1>17. last \in [Queues -> Seq(Commands)] /\ Sound(last) /\ Grows(mid, last)
  BY <1>15 DEF Extends
<1>18. Grows(queues, last)
  BY <1>13, <1>17 DEF Grows
<1>19. ASSUME NEW i \in 1 .. n PROVE Known(last, q, InputOf(p[i].thread, OpOf(c)))
  <2>1. CASE i = 1
    BY <1>8, <1>18, <2>1 DEF Grows
  <2>2. CASE i # 1
    <3>1. ready(i) \in es
      BY <1>1, <1>8, <2>2
    <3>2. InputOf(p[i].thread, OpOf(c)) \in Gives(d)
      BY <1>2, <1>9, <3>1
    <3> QED BY <1>10, <1>12, <1>15, <3>2 DEF Extends
  <2> QED BY <2>1, <2>2
<1> QED BY <1>8, <1>16, <1>17, <1>18, <1>19

\* streamlist_wait_stream: what is known on rank 0's stream becomes known on
\* all the others.
LEMMA FinishedSound ==
  ASSUME ThunkTypeOK, NEW queues \in [Queues -> Seq(Commands)], Sound(queues),
         NEW c \in Calls, NEW p, NEW n, IsOrder(p, n, c),
         \A f \in KernelsOf(OpOf(c)) : Known(queues, PartStream(p[1]), f)
  PROVE  /\ streamlist_wait_stream(queues, p) \in [Queues -> Seq(Commands)]
         /\ Sound(streamlist_wait_stream(queues, p))
         /\ Grows(queues, streamlist_wait_stream(queues, p))
         /\ \A i \in 1 .. n : \A f \in KernelsOf(OpOf(c)) :
              Known(streamlist_wait_stream(queues, p), PartStream(p[i]), f)
<1> DEFINE finished == <<"finished", p[1].thread, p[1].call>>
           first == <<On(PartStream(p[1]), Signal(finished))>>
           second == [i \in 1 .. Len(p) - 1 |-> On(PartStream(p[i + 1]), WaitFor({finished}))]
<1>1. n \in Nat \ {0} /\ Len(p) = n /\ n - 1 \in Nat /\ c \in Nat /\ 1 \in 1 .. n
  BY CallOps DEF IsOrder
<1>2. ASSUME NEW i \in 1 .. n PROVE PartStream(p[i]) \in Queues
  <2>1. p[i].thread \in Threads
    BY DEF IsOrder
  <2> QED BY <2>1, StreamFacts DEF PartStream
<1>3. PICK q \in Queues, e \in Events : /\ q = PartStream(p[1]) /\ e = finished
                                        /\ StandsFor(e) = KernelsOf(OpOf(c))
  <2>1. p[1].thread \in Threads /\ p[1].call = c
    BY <1>1 DEF IsOrder
  <2>2. finished \in Events /\ StandsFor(finished) = KernelsOf(OpOf(c))
    BY <1>1, <2>1, EventFacts
  <2> QED BY <1>1, <1>2, <2>2
<1> HIDE DEF finished
<1>4. PICK d \in Commands : d = Signal(e) /\ Needs(d) = KernelsOf(OpOf(c))
  BY <1>3, CommandFacts
<1>5. PICK sub \in Submissions : sub = On(q, d) /\ sub.queue = q /\ sub.command = d
  BY OnFacts
<1>6. first = <<sub>>
  BY <1>3, <1>4, <1>5
<1> HIDE DEF first
<1>7. first \in Seq(Submissions) /\ DOMAIN first = {1} /\ first[1] = sub
  <2>1. PICK S : S = Submissions
    OBVIOUS
  <2>2. <<sub>> \in Seq(S) /\ DOMAIN <<sub>> = {1} /\ <<sub>>[1] = sub
    BY <2>1
  <2> QED BY <1>6, <2>1, <2>2
<1>8. Supported(queues, first)
  BY <1>3, <1>4, <1>5, <1>7 DEF Supported
<1>9. PICK mid : mid = Submit(queues, first) /\ Extends(queues, mid, first)
  BY <1>7, <1>8, SubmitSound
<1>10. mid \in [Queues -> Seq(Commands)] /\ Sound(mid) /\ Grows(queues, mid)
  BY <1>9 DEF Extends
<1>11. PICK w \in Commands : w = WaitFor({finished}) /\ Needs(w) = {} /\ Gives(w) = KernelsOf(OpOf(c))
  <2>1. PICK es \in SUBSET Events : es = {e}
    OBVIOUS
  <2>2. /\ WaitFor(es) \in Commands /\ Needs(WaitFor(es)) = {}
        /\ Gives(WaitFor(es)) = UNION {StandsFor(x) : x \in es}
    BY CommandFacts
  <2>3. UNION {StandsFor(x) : x \in es} = KernelsOf(OpOf(c))
    BY <1>3, <2>1
  <2> QED BY <1>3, <2>1, <2>2, <2>3
<1>12. ASSUME NEW i \in 1 .. n - 1
       PROVE  /\ i + 1 \in 1 .. n /\ second[i] \in Submissions
              /\ second[i].queue = PartStream(p[i + 1]) /\ second[i].command = w
  <2>1. i + 1 \in 1 .. n
    BY <1>1
  <2>2. second[i] = On(PartStream(p[i + 1]), w)
    BY <1>1, <1>11
  <2>3. PICK r \in Queues : r = PartStream(p[i + 1])
    BY <1>2, <2>1
  <2>4. On(r, w) \in Submissions /\ On(r, w).queue = r /\ On(r, w).command = w
    BY OnFacts
  <2> QED BY <2>1, <2>2, <2>3, <2>4
<1>13. second \in Seq(Submissions) /\ DOMAIN second = 1 .. n - 1
  <2>1. PICK S : S = Submissions
    OBVIOUS
  <2>2. second \in [1 .. n - 1 -> S]
    BY <1>1, <1>12, <2>1
  <2> HIDE DEF second
  <2> QED BY <1>1, <2>1, <2>2, FunctionIsSeq, Zenon
<1> HIDE DEF second
<1>14. Supported(mid, second)
  BY <1>11, <1>12, <1>13 DEF Supported
<1>15. PICK last : last = Submit(mid, second) /\ Extends(mid, last, second)
  BY <1>10, <1>13, <1>14, SubmitSound
<1>16. streamlist_wait_stream(queues, p) = last
  BY <1>9, <1>15 DEF streamlist_wait_stream, first, second, finished
<1>17. last \in [Queues -> Seq(Commands)] /\ Sound(last) /\ Grows(mid, last)
  BY <1>15 DEF Extends
<1>18. Grows(queues, last)
  BY <1>10, <1>17 DEF Grows
<1>19. ASSUME NEW i \in 1 .. n, NEW f \in KernelsOf(OpOf(c)) PROVE Known(last, PartStream(p[i]), f)
  <2>1. CASE i = 1
    BY <1>3, <1>18, <2>1 DEF Grows
  <2>2. CASE i # 1
    <3>1. PICK j \in 1 .. n - 1 : j + 1 = i
      <4>1. i - 1 \in 1 .. n - 1 /\ (i - 1) + 1 = i
        BY <1>1, <2>2
      <4> QED BY <4>1
    <3>2. second[j].queue = PartStream(p[i]) /\ second[j].command = w
      BY <1>12, <3>1
    <3> QED BY <1>11, <1>13, <1>15, <3>2 DEF Extends
  <2> QED BY <2>1, <2>2
<1> QED BY <1>16, <1>17, <1>18, <1>19

\* The kernel, on rank 0's stream.
LEMMA KernelSound ==
  ASSUME ThunkTypeOK, NEW queues \in [Queues -> Seq(Commands)], Sound(queues),
         NEW c \in Calls, NEW q \in Queues,
         \A u \in Threads : Known(queues, q, InputOf(u, OpOf(c)))
  PROVE  /\ Submit(queues, <<On(q, Kernel(Group(c)))>>) \in [Queues -> Seq(Commands)]
         /\ Sound(Submit(queues, <<On(q, Kernel(Group(c)))>>))
         /\ Grows(queues, Submit(queues, <<On(q, Kernel(Group(c)))>>))
         /\ Known(Submit(queues, <<On(q, Kernel(Group(c)))>>), q, KernelOf(c))
<1>1. PICK d \in Commands : /\ d = Kernel(Group(c)) /\ Gives(d) = {KernelOf(c)}
                            /\ Needs(d) = {InputOf(u, OpOf(c)) : u \in Threads}
  BY CommandFacts
<1>2. PICK sub \in Submissions : sub = On(q, d) /\ sub.queue = q /\ sub.command = d
  BY OnFacts
<1>3. PICK subs : subs = <<sub>>
  OBVIOUS
<1>4. subs \in Seq(Submissions) /\ DOMAIN subs = {1} /\ subs[1] = sub
  <2>1. PICK S : S = Submissions
    OBVIOUS
  <2>2. <<sub>> \in Seq(S) /\ DOMAIN <<sub>> = {1} /\ <<sub>>[1] = sub
    BY <2>1
  <2> QED BY <1>3, <2>1, <2>2
<1>5. Supported(queues, subs)
  <2>1. \A f \in Needs(d) : Known(queues, q, f)
    BY <1>1
  <2> QED BY <1>2, <1>4, <2>1 DEF Supported
<1>6. Extends(queues, Submit(queues, subs), subs)
  BY <1>4, <1>5, SubmitSound
<1>7. subs = <<On(q, Kernel(Group(c)))>>
  BY <1>1, <1>2, <1>3
<1>8. \A f \in Gives(d) : Known(Submit(queues, subs), q, f)
  BY <1>2, <1>4, <1>6 DEF Extends
<1> QED BY <1>1, <1>6, <1>7, <1>8 DEF Extends

\* When a group is complete, all threads are in the calls of one operation.
LEMMA EverybodyCalls ==
  ASSUME OneClique, ThunkInvariant, NEW t \in Threads, stage[t] = "calls", Calling(t), Complete(t),
         NEW u \in Threads
  PROVE  /\ stage[u] = "calls" /\ pos[u] = pos[t] /\ Reached(u) = pos[t]
         /\ IsThunk(at[u], "start", OpOf(pos[t])) /\ at[u] \in DOMAIN Schedule
<1>0. TypeOK /\ Lockstep /\ Control /\ StagesFit
  BY DEF ThunkInvariant, Control
<1>1. stage[u] = "calls" /\ pos[u] = pos[t]
  <2>1. CASE u = t
    BY <2>1
  <2>2. CASE u # t
    <3>1. Joined(t) = {[thread |-> v, call |-> pos[t]] : v \in Threads}
      BY <1>0, CompleteIsEverybody
    <3>2. PICK x : x = [thread |-> u, call |-> pos[t]] /\ x \in Joined(t)
      BY <3>1
    <3>3. x \in collectives[KeyOf(t, pos[t])]
      BY <2>2, <3>2 DEF Joined
    <3>4. KeyOf(t, pos[t]) \in Keys
      BY CallFacts DEF Calling
    <3>5. pc[x.thread] = "waiting" /\ pos[x.thread] = x.call
      BY <1>0, <3>3, <3>4 DEF Lockstep, Calling
    <3>6. pc[u] = "waiting" /\ pos[u] = pos[t]
      BY <3>2, <3>5
    <3> QED BY <1>0, <3>6 DEF StagesFit
  <2> QED BY <2>1, <2>2
<1>2. Reached(u) = pos[t]
  <2>1. Reached(u) = Reached(t)
    BY <1>0 DEF Lockstep
  <2> QED BY <2>1 DEF Reached, Calling
<1>3. IsThunk(at[u], "start", Op(u)) /\ OpOf(pos[u]) = Op(u) /\ at[u] \in DOMAIN Schedule
  BY <1>0, <1>1, CallsFit
<1> QED BY <1>1, <1>2, <1>3

\* What a launch leaves in the queues.
LEMMA LaunchQueues ==
  ASSUME OneClique, ThunkInvariant, NEW t \in Threads, stage[t] = "calls", Calling(t), Complete(t),
         NEW c \in Calls, c = pos[t], NEW o \in Operations, o = OpOf(c),
         NEW p \in SortedByRank(Joined(t)), queue' = LaunchSubmissions(p, Program[c]),
         UNCHANGED <<config, runVars>>
  PROVE  /\ Grew
         /\ \A r \in Threads : IsRoot(r, o) =>
              /\ \A u \in Threads : Known(queue, StreamOf(r, o), InputOf(u, o))'
              /\ Known(queue, StreamOf(r, o), KernelOf(c))'
         /\ c = EndOf(o) - 1 =>
              \A u \in Threads : \A f \in KernelsOf(o) : Known(queue, StreamOf(u, o), f)'
<1>0. /\ TypeOK /\ Lockstep /\ ThunkTypeOK /\ Control /\ Sound(queue) /\ InputsKnown /\ RootKnows
      /\ queue \in [Queues -> Seq(Commands)]
  BY DEF ThunkInvariant, Control, Knowledge, ThunkTypeOK
<1>1. /\ \A u \in Threads : /\ stage[u] = "calls" /\ Reached(u) = c /\ at[u] \in DOMAIN Schedule
                            /\ IsThunk(at[u], "start", o)
      /\ c \in Nat /\ o \in Nat /\ EndOf(o) \in Nat /\ CallsOf(o) = o .. EndOf(o) - 1
      /\ c \in CallsOf(o)
  BY EverybodyCalls, CallOps, OpFacts
<1>2. Joined(t) = Group(c)
  BY <1>0, CompleteIsEverybody DEF Group
<1>3. p \in SortedByRank(Group(c))
  BY <1>2
<1>4. PICK n : IsOrder(p, n, c)
  BY <1>3, SortedOrder
<1>5. n \in Nat \ {0} /\ 1 \in 1 .. n
  BY <1>4 DEF IsOrder
<1>6. \A i \in 1 .. n : p[i].thread \in Threads /\ PartStream(p[i]) = StreamOf(p[i].thread, o)
  BY <1>4 DEF IsOrder, PartStream
<1>7. PICK root \in Threads, q \in Queues :
        /\ root = p[1].thread /\ q = PartStream(p[1]) /\ q = StreamOf(root, o)
        /\ IsRoot(root, o) /\ \A r \in Threads : IsRoot(r, o) => r = root
  <2>1. IsRoot(p[1].thread, o) /\ \A r \in Threads : IsRoot(r, o) => r = p[1].thread
    BY <1>3, <1>4, FirstIsRoot
  <2> QED BY <1>5, <1>6, <2>1, StreamFacts
<1>8. PICK ready : ready = IF Program[c].current_call = 0 THEN stream_wait_streamlist(queue, p) ELSE queue
  OBVIOUS
<1>9. /\ ready \in [Queues -> Seq(Commands)] /\ Sound(ready) /\ Grows(queue, ready)
      /\ \A u \in Threads : Known(ready, q, InputOf(u, o))
  <2>1. CASE c = o
    <3>1. ready = stream_wait_streamlist(queue, p)
      BY <1>8, <2>1, CallOps
    <3>2. \A i \in 1 .. n : Known(queue, PartStream(p[i]), InputOf(p[i].thread, OpOf(c)))
      <4>1. \A u \in Threads : Known(queue, StreamOf(u, o), InputOf(u, o))
        BY <1>0, <1>1 DEF InputsKnown, Entered
      <4> QED BY <1>6, <4>1
    <3>3. /\ ready \in [Queues -> Seq(Commands)] /\ Sound(ready) /\ Grows(queue, ready)
          /\ \A i \in 1 .. n : Known(ready, PartStream(p[1]), InputOf(p[i].thread, OpOf(c)))
      BY <1>0, <1>4, <3>1, <3>2, ReadySound
    <3>4. \A u \in Threads : \E i \in 1 .. n : p[i].thread = u
      BY <1>4 DEF IsOrder
    <3> QED BY <1>7, <3>3, <3>4
  <2>2. CASE c # o
    <3>1. ready = queue
      BY <1>8, <2>2, CallOps
    <3>2. o < Reached(t)
      BY <1>1, <2>2
    <3>3. \A u \in Threads : Known(queue, q, InputOf(u, o))
      BY <1>0, <1>7, <3>2 DEF RootKnows
    <3> QED BY <1>0, <3>1, <3>3 DEF Grows
  <2> QED BY <2>1, <2>2
<1>10. PICK run : run = Submit(ready, <<On(q, Kernel(Group(c)))>>)
  OBVIOUS
<1>11. /\ run \in [Queues -> Seq(Commands)] /\ Sound(run) /\ Grows(ready, run)
       /\ Known(run, q, KernelOf(c))
  BY <1>0, <1>9, <1>10, KernelSound
<1>12. Grows(queue, run) /\ \A u \in Threads : Known(run, q, InputOf(u, o))
  BY <1>9, <1>11 DEF Grows
<1>13. PICK last : last = IF Program[c].current_call = Program[c].max_call - 1
                            THEN streamlist_wait_stream(run, p) ELSE run
  OBVIOUS
<1>14. queue' = last
  <2>1. Range(p) = Group(c)
    BY <1>4 DEF IsOrder
  <2> QED BY <1>7, <1>8, <1>10, <1>13, <2>1 DEF LaunchSubmissions
<1>15. /\ last \in [Queues -> Seq(Commands)] /\ Sound(last) /\ Grows(run, last)
       /\ c = EndOf(o) - 1 => \A u \in Threads : \A f \in KernelsOf(o) : Known(last, StreamOf(u, o), f)
  <2>1. CASE c = EndOf(o) - 1
    <3>1. last = streamlist_wait_stream(run, p)
      BY <1>13, <2>1, CallOps
    <3>2. ASSUME NEW f \in KernelsOf(o) PROVE Known(run, PartStream(p[1]), f)
      <4>1. PICK d \in CallsOf(o) : f = KernelOf(d)
        BY DEF KernelsOf
      <4>2. CASE d = c
        BY <1>7, <1>11, <4>1, <4>2
      <4>3. CASE d # c
        <5>1. d < Reached(t)
          BY <1>1, <2>1, <4>3
        <5>2. Known(queue, q, f)
          BY <1>0, <1>7, <4>1, <5>1 DEF RootKnows
        <5> QED BY <1>7, <1>12, <5>2 DEF Grows
      <4> QED BY <4>2, <4>3
    <3>3. /\ last \in [Queues -> Seq(Commands)] /\ Sound(last) /\ Grows(run, last)
          /\ \A i \in 1 .. n : \A f \in KernelsOf(OpOf(c)) : Known(last, PartStream(p[i]), f)
      BY <1>0, <1>4, <1>11, <3>1, <3>2, FinishedSound
    <3>4. \A u \in Threads : \E i \in 1 .. n : p[i].thread = u
      BY <1>4 DEF IsOrder
    <3> QED BY <1>6, <3>3, <3>4
  <2>2. CASE c # EndOf(o) - 1
    <3>1. last = run
      BY <1>13, <2>2, CallOps
    <3> QED BY <1>11, <2>2, <3>1 DEF Grows
  <2> QED BY <2>1, <2>2
<1>16. Happened' = Happened
  BY DEF Happened, runVars
<1>17. ASSUME NEW x \in Queues, NEW f PROVE Known(last, x, f) <=> Known(queue, x, f)'
  BY <1>14, <1>16 DEF Known
<1>18. Grew
  <2>1. Sound(queue)'
    BY <1>14, <1>15, <1>16 DEF Sound
  <2>2. \A x \in Queues : \A f : Known(queue, x, f) => Known(last, x, f)
    BY <1>12, <1>15 DEF Grows
  <2> QED BY <1>14, <1>15, <1>17, <2>1, <2>2 DEF Grew
<1>19. ASSUME NEW r \in Threads, IsRoot(r, o)
       PROVE  /\ \A u \in Threads : Known(queue, StreamOf(r, o), InputOf(u, o))'
              /\ Known(queue, StreamOf(r, o), KernelOf(c))'
  <2>1. r = root /\ StreamOf(r, o)' = q
    BY <1>7, <1>19, SameStreams
  <2>2. Known(last, q, KernelOf(c)) /\ \A u \in Threads : Known(last, q, InputOf(u, o))
    BY <1>11, <1>12, <1>15 DEF Grows
  <2> QED BY <1>17, <2>1, <2>2
<1>20. ASSUME c = EndOf(o) - 1, NEW u \in Threads, NEW f \in KernelsOf(o)
       PROVE  Known(queue, StreamOf(u, o), f)'
  <2>1. PICK x \in Queues : x = StreamOf(u, o) /\ StreamOf(u, o)' = x
    BY StreamFacts, SameStreams
  <2>2. Known(last, x, f)
    BY <1>15, <1>20, <2>1
  <2> QED BY <1>17, <2>1, <2>2
<1> QED BY <1>18, <1>19, <1>20

LEMMA CallLaunchHolds ==
  ASSUME OneClique, ThunkInvariant, NEW t \in Threads, CallLaunch(t)
  PROVE  ThunkInvariant'
<1>0. /\ At(t, {"start"}, "calls") /\ Launch(t) /\ Calling(t) /\ Complete(t) /\ SetCallStage(t)
      /\ UNCHANGED <<config, first_call_to_execute, done_events, failed, runVars>>
  BY DEF CallLaunch, Launch
<1>1. /\ TypeOK /\ Lockstep /\ ThunkTypeOK /\ Control /\ Sound(queue) /\ InputsKnown /\ AwaitedKnown
      /\ RootKnows /\ AllKnow /\ failed = {} /\ stage[t] = "calls"
  BY <1>0, AtFacts DEF Control
<1>2. /\ pos' = [pos EXCEPT ![t] = @ + 1] /\ pc'[t] = "running"
      /\ \A u \in Threads : pc'[u] # "running" => pc[u] # "running"
  BY <1>0, <1>1 DEF Launch, Calling, NotifyAll, TypeOK
<1>3. [Next]_vars
  BY <1>0 DEF Next, Step
<1>4. PICK c \in Calls, o \in Operations : c = pos[t] /\ o = OpOf(c)
  BY <1>0, CallOps DEF Calling
<1>5. /\ Grew
      /\ \A r \in Threads : IsRoot(r, o) =>
           /\ \A u \in Threads : Known(queue, StreamOf(r, o), InputOf(u, o))'
           /\ Known(queue, StreamOf(r, o), KernelOf(c))'
      /\ c = EndOf(o) - 1 =>
           \A u \in Threads : \A f \in KernelsOf(o) : Known(queue, StreamOf(u, o), f)'
  <2>1. PICK p \in SortedByRank(Joined(t)) : queue' = LaunchSubmissions(p, Program[c])
    BY <1>4 DEF CallLaunch
  <2> QED BY <1>0, <1>1, <1>4, <2>1, LaunchQueues
<1>6. at' = at /\ \A u \in Threads, s \in DOMAIN Schedule : Entered(u, s)' => Entered(u, s)
  BY <1>0, <1>1, SetCallStageMoves
<1>7. InputsKnown' /\ AwaitedKnown'
  BY <1>0, <1>1, <1>5, <1>6, SameThunkKnows
<1>8. StagesFit' /\ PositionsFit' /\ DoneStored' /\ stage' \in [Threads -> Stages]
  BY <1>0, <1>1, <1>2, CallControl
<1>9. ASSUME NEW u \in Threads PROVE Reached(u) = c /\ Reached(u)' = c + 1
  <2>1. Lockstep' /\ TypeOK'
    BY <1>1, <1>3, LockstepStep, TypeStep
  <2>2. Reached(u)' = Reached(t)'
    BY <2>1 DEF Lockstep
  <2>3. Reached(t)' = c + 1
    BY <1>1, <1>2, <1>4 DEF Reached, TypeOK
  <2>4. Reached(u) = Reached(t) /\ Reached(t) = c
    BY <1>0, <1>1, <1>4 DEF Lockstep, Reached, Calling
  <2> QED BY <2>2, <2>3, <2>4
<1>10. c \in Nat /\ o \in Nat
  BY CallOps, OpFacts
<1>11. RootKnows'
  <2> SUFFICES ASSUME NEW r \in Threads, NEW v \in Threads, NEW y \in Operations, IsRoot(r, y)
               PROVE  /\ y < Reached(v)' =>
                           \A u \in Threads : Known(queue, StreamOf(r, y), InputOf(u, y))'
                      /\ \A d \in CallsOf(y) : d < Reached(v)' =>
                           Known(queue, StreamOf(r, y), KernelOf(d))'
    BY DEF RootKnows
  <2>1. ASSUME y < Reached(v)', NEW u \in Threads
        PROVE  Known(queue, StreamOf(r, y), InputOf(u, y))'
    <3>1. y \in Nat /\ OpOf(y) = y /\ y < c + 1
      BY <1>9, <2>1, OpFacts
    <3>2. CASE y = c
      <4>1. y = o
        BY <1>4, <3>1, <3>2
      <4> QED BY <1>5, <4>1
    <3>3. CASE y < c
      BY <1>0, <1>1, <1>5, <1>9, <3>3, KnownStays DEF RootKnows
    <3> QED BY <1>10, <3>1, <3>2, <3>3
  <2>2. ASSUME NEW d \in CallsOf(y), d < Reached(v)'
        PROVE  Known(queue, StreamOf(r, y), KernelOf(d))'
    <3>1. d \in Nat /\ d < c + 1 /\ d \in Calls /\ OpOf(d) = y
      BY <1>9, <2>2, OpFacts, OperationsAssumption, CallOps
    <3>2. CASE d = c
      <4>1. y = o
        BY <1>4, <3>1, <3>2
      <4> QED BY <1>5, <3>2, <4>1
    <3>3. CASE d < c
      BY <1>0, <1>1, <1>5, <1>9, <3>3, KnownStays DEF RootKnows
    <3> QED BY <1>10, <3>1, <3>2, <3>3
  <2> QED BY <2>1, <2>2
<1>12. AllKnow'
  <2> SUFFICES ASSUME NEW v \in Threads, NEW u \in Threads, NEW y \in Operations,
                      EndOf(y) <= Reached(v)', NEW d \in CallsOf(y)
               PROVE  Known(queue, StreamOf(u, y), KernelOf(d))'
    BY DEF AllKnow
  <2>1. /\ EndOf(y) \in Nat /\ EndOf(y) <= c + 1 /\ CallsOf(y) = y .. EndOf(y) - 1
        /\ y \in Nat /\ y \in CallsOf(y)
    BY <1>9, OpFacts
  <2>2. CASE EndOf(y) <= c
    BY <1>0, <1>1, <1>5, <1>9, <2>2, KnownStays DEF AllKnow
  <2>3. CASE EndOf(y) = c + 1
    <3>1. c \in CallsOf(y)
      BY <1>10, <2>1, <2>3
    <3>2. y = o /\ c = EndOf(o) - 1
      BY <1>4, <1>10, <2>3, <3>1, OperationsAssumption
    <3>3. KernelOf(d) \in KernelsOf(o)
      BY <3>2 DEF KernelsOf
    <3> QED BY <1>5, <3>2, <3>3
  <2> QED BY <1>10, <2>1, <2>2, <2>3
<1>13. FirstRunBlocks'
  BY <1>0, <1>6, NothingStarted
<1>14. /\ first_call_to_execute' \in [Operations -> BOOLEAN] /\ done_events' \in [Operations -> SUBSET Threads]
       /\ at' \in [Threads -> 1 .. Len(Schedule) + 1]
  BY <1>0, <1>1, <1>6 DEF ThunkTypeOK
<1> QED BY <1>0, <1>1, <1>3, <1>5, <1>7, <1>8, <1>11, <1>12, <1>13, <1>14, HostStepHolds

-----------------------------------------------------------------------------
(* The devices.                                                            *)

LEMMA CommandKinds ==
  ASSUME NEW c \in Commands
  PROVE  /\ c.cmd \in {"work", "kernel", "signal", "wait"}
         /\ c.cmd = "work" => c.thunk \in {"input", "output"} /\ c.thread \in Threads /\ c.op \in Operations
         /\ c.cmd = "kernel" => c.group \in {Group(x) : x \in Calls}
         /\ c.cmd = "signal" => c.event \in Events
         /\ c.cmd = "wait" => c.events \in SUBSET Events
<1>1. CASE c \in [cmd : {"work"}, thunk : {"input", "output"}, thread : Threads, op : Operations]
  BY <1>1
<1>2. CASE c \in [cmd : {"kernel"}, group : {Group(x) : x \in Calls}]
  BY <1>2
<1>3. CASE c \in [cmd : {"signal"}, event : Events]
  BY <1>3
<1>4. CASE c \in [cmd : {"wait"}, events : SUBSET Events]
  BY <1>4
<1> QED BY <1>1, <1>2, <1>3, <1>4 DEF Commands

\* The head of a queue: what it needs has happened, what it gives will have.
LEMMA HeadFacts ==
  ASSUME ThunkInvariant, NEW q \in Queues, Execute(q)
  PROVE  /\ Head(queue[q]) \in Commands /\ Needs(Head(queue[q])) \subseteq Happened
         /\ Happened \subseteq Happened' /\ Gives(Head(queue[q])) \subseteq Happened'
<1>0. Sound(queue) /\ EventsHold /\ queue \in [Queues -> Seq(Commands)]
  BY DEF ThunkInvariant, Control, Knowledge, ThunkTypeOK
<1>1. PICK s, c : s = queue[q] /\ c = Head(s)
  OBVIOUS
<1>2. s \in Seq(Commands) /\ s # <<>>
  BY <1>0, <1>1 DEF Execute
<1>3. c = s[1] /\ 1 \in DOMAIN s /\ c \in Commands
  <2>1. PICK S : S = Commands
    OBVIOUS
  <2>2. s \in Seq(S)
    BY <1>2, <2>1
  <2>3. Head(s) = s[1] /\ 1 \in DOMAIN s /\ Head(s) \in S
    BY <1>2, <2>2
  <2> QED BY <1>1, <2>1, <2>3
<1>4. Needs(c) \subseteq Happened
  <2>1. \A f \in Needs(s[1]) : f \in Happened \/ \E j \in 1 .. 1 - 1 : f \in Gives(s[j])
    BY <1>0, <1>1, <1>3 DEF Sound
  <2> QED BY <1>3, <2>1
<1>5. /\ c.cmd = "wait" => c.events \subseteq events
      /\ events' = IF c.cmd = "signal" THEN events \cup {c.event} ELSE events
      /\ inputsRun' = IF c.cmd = "work" /\ c.thunk = "input"
                        THEN inputsRun \cup {<<c.thread, c.op>>} ELSE inputsRun
      /\ kernelsRun' = IF c.cmd = "kernel" THEN kernelsRun \cup {c.group} ELSE kernelsRun
  BY <1>1 DEF Execute
<1>6. Happened \subseteq Happened'
  BY <1>5 DEF Happened
<1>7. ASSUME NEW f \in Gives(c) PROVE f \in Happened'
  <2>1. CASE c.cmd = "work"
    <3>1. c.thunk = "input" /\ f = InputOf(c.thread, c.op)
      BY <2>1 DEF Gives
    <3> QED BY <1>5, <2>1, <3>1 DEF Happened, InputOf
  <2>2. CASE c.cmd = "kernel"
    <3>1. f = <<"kernel", c.group>>
      BY <2>2 DEF Gives
    <3> QED BY <1>5, <2>2, <3>1 DEF Happened
  <2>3. CASE c.cmd = "wait"
    <3>1. f \in UNION {StandsFor(e) : e \in c.events}
      BY <2>3 DEF Gives
    <3>2. PICK e \in c.events : f \in StandsFor(e)
      BY <3>1
    <3> QED BY <1>0, <1>5, <1>6, <2>3, <3>2 DEF EventsHold
  <2>4. CASE c.cmd = "signal"
    BY <2>4 DEF Gives
  <2> QED BY <1>3, <2>1, <2>2, <2>3, <2>4, CommandKinds
<1> QED BY <1>1, <1>3, <1>4, <1>6, <1>7

LEMMA ExecuteGrew ==
  ASSUME ThunkInvariant, NEW q \in Queues, Execute(q)
  PROVE  Grew
<1>0. Sound(queue) /\ queue \in [Queues -> Seq(Commands)]
  BY DEF ThunkInvariant, Control, Knowledge, ThunkTypeOK
<1>1. PICK s, c, r : s = queue[q] /\ c = Head(s) /\ r = Tail(s)
  OBVIOUS
<1>2. /\ Happened \subseteq Happened' /\ Gives(c) \subseteq Happened'
  BY <1>1, HeadFacts
<1>3. PICK n \in Nat \ {0} : /\ n = Len(s) /\ DOMAIN s = 1 .. n /\ c = s[1] /\ r \in Seq(Commands)
                             /\ DOMAIN r = 1 .. n - 1 /\ \A j \in 1 .. n - 1 : r[j] = s[j + 1]
  <2>1. PICK S : S = Commands
    OBVIOUS
  <2>2. s \in Seq(S) /\ s # <<>>
    BY <1>0, <1>1, <2>1 DEF Execute
  <2>3. Len(s) \in Nat \ {0} /\ DOMAIN s = 1 .. Len(s) /\ Head(s) = s[1]
    BY <2>2
  <2>4. Tail(s) \in Seq(S) /\ Len(Tail(s)) = Len(s) - 1 /\ \A j \in 1 .. Len(Tail(s)) : Tail(s)[j] = s[j + 1]
    BY <2>2, HeadTailProperties
  <2>5. DOMAIN Tail(s) = 1 .. Len(Tail(s))
    BY <2>4
  <2> QED BY <1>1, <2>1, <2>3, <2>4, <2>5
<1>4. /\ queue' \in [Queues -> Seq(Commands)] /\ queue'[q] = r
      /\ \A x \in Queues : x # q => queue'[x] = queue[x]
  <2>1. queue' = [queue EXCEPT ![q] = r]
    BY <1>1 DEF Execute
  <2> QED BY <1>0, <1>3, <2>1
<1>5. ASSUME NEW x \in Queues, NEW f, Known(queue, x, f) PROVE Known(queue, x, f)'
  <2>1. CASE f \in Happened
    BY <1>2, <2>1 DEF Known
  <2>2. CASE f \notin Happened /\ x # q
    BY <1>4, <1>5, <2>2 DEF Known
  <2>3. CASE f \notin Happened /\ x = q
    <3>1. PICK j \in 1 .. n : f \in Gives(s[j])
      BY <1>1, <1>3, <1>5, <2>3 DEF Known
    <3>2. CASE j = 1
      BY <1>2, <1>3, <3>1, <3>2 DEF Known
    <3>3. CASE j # 1
      <4>1. j - 1 \in 1 .. n - 1 /\ (j - 1) + 1 = j
        BY <3>3
      <4>2. r[j - 1] = s[j] /\ j - 1 \in DOMAIN queue'[q]
        BY <1>3, <1>4, <4>1
      <4>3. f \in Gives(queue'[q][j - 1])
        BY <1>4, <3>1, <4>2
      <4> QED BY <2>3, <4>2, <4>3 DEF Known
    <3> QED BY <3>2, <3>3
  <2> QED BY <2>1, <2>2, <2>3
<1>6. Sound(queue)'
  <2> SUFFICES ASSUME NEW x \in Queues, NEW k \in DOMAIN queue'[x], NEW f \in Needs(queue'[x][k])
               PROVE  f \in Happened' \/ \E j \in 1 .. k - 1 : f \in Gives(queue'[x][j])
    BY DEF Sound
  <2>1. CASE x # q
    <3>1. f \in Happened \/ \E j \in 1 .. k - 1 : f \in Gives(queue[x][j])
      BY <1>0, <1>4, <2>1 DEF Sound
    <3> QED BY <1>2, <1>4, <2>1, <3>1
  <2>2. CASE x = q
    <3>1. k \in 1 .. n - 1 /\ k + 1 \in 1 .. n /\ f \in Needs(s[k + 1]) /\ (k + 1) - 1 = k
      BY <1>3, <1>4, <2>2
    <3>2. f \in Happened \/ \E j \in 1 .. k : f \in Gives(s[j])
      <4>1. PICK m \in DOMAIN queue[q] : m = k + 1 /\ m - 1 = k
        BY <1>1, <1>3, <3>1
      <4>2. f \in Happened \/ \E j \in 1 .. m - 1 : f \in Gives(queue[q][j])
        BY <1>0, <1>1, <3>1, <4>1 DEF Sound
      <4> QED BY <1>1, <4>1, <4>2
    <3>3. ASSUME NEW j \in 1 .. k, f \in Gives(s[j])
          PROVE  f \in Happened' \/ \E i \in 1 .. k - 1 : f \in Gives(r[i])
      <4>1. CASE j = 1
        BY <1>2, <1>3, <3>3, <4>1
      <4>2. CASE j # 1
        <5>1. j - 1 \in 1 .. k - 1 /\ j - 1 \in 1 .. n - 1 /\ (j - 1) + 1 = j
          BY <3>1, <4>2
        <5>2. r[j - 1] = s[j]
          BY <1>3, <5>1
        <5> QED BY <3>3, <5>1, <5>2
      <4> QED BY <4>1, <4>2
    <3> QED BY <1>2, <1>4, <2>2, <3>2, <3>3
  <2> QED BY <2>1, <2>2
<1> QED BY <1>4, <1>5, <1>6 DEF Grew

LEMMA ExecuteHolds ==
  ASSUME ThunkInvariant, NEW q \in Queues, Execute(q)
  PROVE  ThunkInvariant'
<1>0. /\ TypeOK /\ Lockstep /\ ThunkTypeOK /\ Control /\ Knowledge
  BY DEF ThunkInvariant, Control
<1>1. UNCHANGED <<vars, config, at, stage, first_call_to_execute, done_events, failed>>
  BY DEF Execute, hostVars
<1>2. Grew
  BY ExecuteGrew
<1>3. PICK c \in Commands : /\ c = Head(queue[q]) /\ Needs(c) \subseteq Happened
                            /\ Happened \subseteq Happened'
  BY HeadFacts
<1>4. /\ events' = IF c.cmd = "signal" THEN events \cup {c.event} ELSE events
      /\ inputsRun' = IF c.cmd = "work" /\ c.thunk = "input"
                        THEN inputsRun \cup {<<c.thread, c.op>>} ELSE inputsRun
      /\ outputsRun' = IF c.cmd = "work" /\ c.thunk = "output"
                         THEN outputsRun \cup {<<c.thread, c.op>>} ELSE outputsRun
      /\ kernelsRun' = IF c.cmd = "kernel" THEN kernelsRun \cup {c.group} ELSE kernelsRun
  BY <1>3 DEF Execute
<1>5. /\ events' \in SUBSET Events /\ inputsRun' \in SUBSET (Threads \X Operations)
      /\ kernelsRun' \in SUBSET {Group(x) : x \in Calls}
      /\ outputsRun' \in SUBSET (Threads \X Operations)
  <2>1. /\ c.cmd = "work" => c.thread \in Threads /\ c.op \in Operations
        /\ c.cmd = "kernel" => c.group \in {Group(x) : x \in Calls}
        /\ c.cmd = "signal" => c.event \in Events
    BY CommandKinds
  <2>2. events' \in SUBSET Events
    BY <1>0, <1>4, <2>1 DEF ThunkTypeOK
  <2>3. inputsRun' \in SUBSET (Threads \X Operations)
    BY <1>0, <1>4, <2>1 DEF ThunkTypeOK
  <2>4. kernelsRun' \in SUBSET {Group(x) : x \in Calls}
    BY <1>0, <1>4, <2>1 DEF ThunkTypeOK
  <2>5. outputsRun' \in SUBSET (Threads \X Operations)
    BY <1>0, <1>4, <2>1 DEF ThunkTypeOK
  <2> QED BY <2>2, <2>3, <2>4, <2>5
<1>6. TypeOK' /\ Lockstep'
  BY <1>0, <1>1 DEF TypeOK, Lockstep, vars, Reached, Launched
<1>7. ThunkTypeOK'
  BY <1>0, <1>1, <1>2, <1>5 DEF ThunkTypeOK, Grew
<1>8. StagesFit' /\ PositionsFit' /\ DoneStored'
  <2>1. Emitted' = Emitted /\ pos' = pos /\ pc' = pc
    BY <1>1, SameStreams DEF vars
  <2>2. StagesFit'
    BY <1>0, <1>1, <2>1 DEF Control, StagesFit, IsAsync, Op
  <2>3. PositionsFit'
    BY <1>0, <1>1, <2>1 DEF Control, PositionsFit, Ahead, InCalls, Called
  <2>4. DoneStored'
    BY <1>0, <1>1 DEF Control, DoneStored, Recorded, IsAsync
  <2> QED BY <2>2, <2>3, <2>4
<1>9. EventsHold'
  <2>1. c.cmd = "signal" => Needs(c) = StandsFor(c.event)
    BY DEF Needs
  <2>2. \A e \in events' : e \in events \/ (c.cmd = "signal" /\ e = c.event)
    BY <1>4
  <2>3. \A e \in events' : StandsFor(e) \subseteq Happened'
    BY <1>0, <1>3, <2>1, <2>2 DEF Knowledge, EventsHold
  <2> QED BY <2>3 DEF EventsHold
<1>10. InputsKnown' /\ AwaitedKnown'
  <2>1. \A u \in Threads, s \in DOMAIN Schedule : Entered(u, s)' => Entered(u, s)
    BY <1>1 DEF Entered
  <2> QED BY <1>0, <1>1, <1>2, <2>1, SameThunkKnows DEF Knowledge
<1>11. RootKnows' /\ AllKnow'
  <2>1. \A u \in Threads : Reached(u)' = Reached(u)
    BY <1>1 DEF vars, Reached
  <2> QED BY <1>0, <1>1, <1>2, <2>1, LaunchedStays DEF Knowledge
<1>12. FirstRunBlocks'
  BY <1>0, <1>1, <1>3, FirstRunStays DEF Knowledge
<1>13. Sound(queue)' /\ failed' = {}
  BY <1>0, <1>1, <1>2 DEF Grew, Control
<1> QED BY <1>6, <1>7, <1>8, <1>9, <1>10, <1>11, <1>12, <1>13 DEF ThunkInvariant, Control, Knowledge

-----------------------------------------------------------------------------
(* The theorems.                                                           *)

LEMMA ThunkInvariantInit ==
  ASSUME ThunkInit
  PROVE  ThunkInvariant
<1>0. Init /\ TypeOK /\ Lockstep
  BY TypeInit, LockstepInit DEF ThunkInit
<1>1. PICK a : /\ a = Following(0) /\ a \in 1 .. Len(Schedule) + 1 /\ a \in Nat
               /\ a \in DOMAIN Schedule => a \in Emitted
               /\ \A j \in Emitted : ~(j < a)
  <2>1. Len(Schedule) \in Nat /\ DOMAIN Schedule = 1 .. Len(Schedule)
    BY ScheduleFacts
  <2>2. 0 \in 0 .. Len(Schedule)
    BY <2>1
  <2>3. PICK a : a = Following(0)
    OBVIOUS
  <2>4. /\ a \in 0 + 1 .. Len(Schedule) + 1
        /\ a \in DOMAIN Schedule => a \in Emitted
        /\ \A j \in Emitted : j < a => j <= 0
    BY <2>2, <2>3, FollowingIs
  <2>5. a \in 1 .. Len(Schedule) + 1 /\ a \in Nat
    BY <2>1, <2>4
  <2>6. ASSUME NEW j \in Emitted, j < a PROVE FALSE
    <3>1. j \in 1 .. Len(Schedule)
      BY <2>1 DEF Emitted
    <3>2. j <= 0
      BY <2>4, <2>6
    <3> QED BY <2>1, <3>1, <3>2
  <2> QED BY <2>3, <2>4, <2>5, <2>6
<1>2. /\ \A t \in Threads : at[t] = a /\ stage[t] = "begin" /\ pos[t] = 1 /\ pc[t] = "running"
      /\ \A t \in Threads : Reached(t) = 1
  BY <1>0, <1>1 DEF ThunkInit, Init, Reached
<1>3. ThunkTypeOK /\ failed = {}
  <2>1. /\ at \in [Threads -> 1 .. Len(Schedule) + 1] /\ stage \in [Threads -> Stages]
    BY <1>1 DEF ThunkInit, Stages
  <2>2. config \in Configs /\ config.first_run \in BOOLEAN
    BY ScheduleAssumption DEF ThunkInit
  <2>3. /\ first_call_to_execute \in [Operations -> BOOLEAN]
        /\ done_events \in [Operations -> SUBSET Threads]
    BY <2>2 DEF ThunkInit
  <2>4. queue \in [Queues -> Seq(Commands)]
    <3>1. PICK S : S = Commands
      OBVIOUS
    <3>2. <<>> \in Seq(S)
      OBVIOUS
    <3>3. queue = [q \in Queues |-> <<>>]
      BY DEF ThunkInit
    <3>4. queue \in [Queues -> Seq(S)]
      BY <3>2, <3>3
    <3> QED BY <3>1, <3>4
  <2> QED BY <2>1, <2>2, <2>3, <2>4 DEF ThunkInit, ThunkTypeOK
<1>4. StagesFit
  BY <1>1, <1>2 DEF StagesFit
<1>5. ASSUME NEW k \in ThunkKinds, NEW o \in Operations, NEW i \in DOMAIN Schedule,
             IsThunk(i, k, o), k # "done" \/ IsAsync(o)
      PROVE  ~(i < a)
  BY <1>1, <1>5, EmittedKinds
<1>6. ASSUME NEW t \in Threads, NEW o \in Operations, NEW s \in DOMAIN Schedule, IsThunk(s, "start", o)
      PROVE  /\ ~InCalls(t, s) /\ ~Called(t, s) /\ ~Entered(t, s) /\ ~Recorded(t, s)
             /\ at[t] <= s
  <2>1. ~(s < a) /\ s \in Nat
    BY <1>5, <1>6, ScheduleFacts DEF ThunkKinds
  <2> QED BY <1>1, <1>2, <2>1 DEF InCalls, Called, Entered, Recorded
<1>7. PositionsFit
  <2>1. \A o \in Operations : o \in Nat \ {0}
    BY OpFacts
  <2> QED BY <1>2, <1>6, <2>1 DEF PositionsFit
<1>8. DoneStored
  <2>1. \A o \in Operations : done_events[o] = {}
    BY DEF ThunkInit
  <2> QED BY <1>6, <2>1 DEF DoneStored
<1>9. Sound(queue) /\ EventsHold
  <2>1. \A q \in Queues : queue[q] = <<>>
    BY DEF ThunkInit
  <2> QED BY <2>1 DEF Sound, EventsHold, ThunkInit
<1>10. InputsKnown
  <2>1. \A t \in Threads, o \in Operations, i \in DOMAIN Schedule :
          IsThunk(i, "input", o) => ~(i < at[t])
    BY <1>2, <1>5 DEF ThunkKinds
  <2> QED BY <1>6, <2>1 DEF InputsKnown
<1>11. RootKnows /\ AllKnow
  <2>1. ASSUME NEW o \in Operations
        PROVE  ~(o < 1) /\ ~(EndOf(o) <= 1) /\ \A c \in CallsOf(o) : ~(c < 1)
    <3>1. /\ o \in Nat \ {0} /\ EndOf(o) \in Nat /\ CallsOf(o) = o .. EndOf(o) - 1
          /\ o \in CallsOf(o)
      BY OpFacts
    <3> QED BY <3>1
  <2>2. RootKnows
    BY <1>2, <2>1 DEF RootKnows
  <2>3. AllKnow
    BY <1>2, <2>1 DEF AllKnow
  <2> QED BY <2>2, <2>3
<1>12. AwaitedKnown
  <2>1. \A t \in Threads, o \in Operations, d \in DOMAIN Schedule :
          IsThunk(d, "done", o) /\ IsAsync(o) => ~(d < at[t])
    BY <1>2, <1>5 DEF ThunkKinds
  <2> QED BY <2>1 DEF AwaitedKnown
<1>13. FirstRunBlocks
  <2>1. config.first_run => \A o \in Operations : first_call_to_execute[o]
    BY DEF ThunkInit
  <2> QED BY <1>6, <2>1 DEF FirstRunBlocks
<1> QED BY <1>0, <1>3, <1>4, <1>7, <1>8, <1>9, <1>10, <1>11, <1>12, <1>13
        DEF ThunkInvariant, Control, Knowledge

LEMMA ThunkStutterHolds ==
  ASSUME OneClique, ThunkInvariant, UNCHANGED thunkVars
  PROVE  ThunkInvariant'
<1>0. /\ TypeOK /\ ThunkTypeOK /\ Control /\ Knowledge /\ Sound(queue) /\ failed = {}
  BY DEF ThunkInvariant, Control, Knowledge
<1>1. UNCHANGED <<vars, config, at, stage, first_call_to_execute, done_events, failed, queue, runVars>>
  BY DEF thunkVars, hostVars
<1>2. Grew
  BY <1>0, <1>1, NoSubmission
<1>3. StagesFit' /\ PositionsFit' /\ DoneStored'
  <2>1. Emitted' = Emitted /\ pos' = pos /\ pc' = pc
    BY <1>1, SameStreams DEF vars
  <2>2. StagesFit'
    BY <1>0, <1>1, <2>1 DEF Control, StagesFit, IsAsync, Op
  <2>3. PositionsFit'
    BY <1>0, <1>1, <2>1 DEF Control, PositionsFit, Ahead, InCalls, Called
  <2>4. DoneStored'
    BY <1>0, <1>1 DEF Control, DoneStored, Recorded, IsAsync
  <2> QED BY <2>2, <2>3, <2>4
<1>4. InputsKnown' /\ AwaitedKnown'
  <2>1. \A u \in Threads, s \in DOMAIN Schedule : Entered(u, s)' => Entered(u, s)
    BY <1>1 DEF Entered
  <2> QED BY <1>0, <1>1, <1>2, <2>1, SameThunkKnows DEF Knowledge
<1>5. RootKnows' /\ AllKnow'
  <2>1. \A u \in Threads : Reached(u)' = Reached(u)
    BY <1>1 DEF vars, Reached
  <2> QED BY <1>0, <1>1, <1>2, <2>1, LaunchedStays DEF Knowledge
<1>6. FirstRunBlocks'
  BY <1>1, NothingStarted
<1>7. /\ first_call_to_execute' \in [Operations -> BOOLEAN] /\ done_events' \in [Operations -> SUBSET Threads]
      /\ at' \in [Threads -> 1 .. Len(Schedule) + 1] /\ stage' \in [Threads -> Stages]
  BY <1>0, <1>1 DEF ThunkTypeOK
<1> QED BY <1>0, <1>1, <1>2, <1>3, <1>4, <1>5, <1>6, <1>7, HostStepHolds

LEMMA ThunkInvariantStep ==
  ASSUME OneClique, ThunkInvariant, [ThunkNext]_thunkVars
  PROVE  ThunkInvariant'
<1>1. ASSUME NEW t \in Threads, HostStep(t) PROVE ThunkInvariant'
  BY <1>1, EnqueueWorkHolds, ArriveHolds, LockedHolds, CallWaitHolds, CallLaunchHolds, CallReturnHolds,
     RecordDoneHolds, ReadFirstHolds, BlockHostUntilDoneHolds, AwaitHolds DEF HostStep
<1>2. ASSUME NEW q \in Queues, Execute(q) PROVE ThunkInvariant'
  BY <1>2, ExecuteHolds
<1>3. CASE UNCHANGED thunkVars
  BY <1>3, ThunkStutterHolds
<1> QED BY <1>1, <1>2, <1>3 DEF ThunkNext, ThunkStop

\* The invariant the others rest on: with one clique, whatever the schedule
\* and the setting, what a command in a device queue needs has happened or is
\* given by a command ahead of it, and no thunk fails its TF_RET_CHECK.
THEOREM ThunkInvariantHolds == OneClique => (ThunkSpec => []ThunkInvariant)
<1> SUFFICES ASSUME OneClique PROVE ThunkSpec => []ThunkInvariant
  OBVIOUS
<1>1. ThunkInit => ThunkInvariant
  BY ThunkInvariantInit
<1>2. ThunkInvariant /\ [ThunkNext]_thunkVars => ThunkInvariant'
  BY ThunkInvariantStep
<1> QED BY <1>1, <1>2, PTL DEF ThunkSpec

\* All kernels of an operation have run.
LEMMA KernelsDoneIs ==
  ASSUME ThunkTypeOK, NEW t \in Threads, NEW o \in Operations
  PROVE  KernelsDone(t, o) <=> KernelsOf(o) \subseteq Happened
<1>1. ASSUME KernelsDone(t, o), NEW f \in KernelsOf(o) PROVE f \in Happened
  <2>1. PICK c \in CallsOf(o) : f = KernelOf(c)
    BY DEF KernelsOf
  <2>2. PICK g \in kernelsRun : [thread |-> t, call |-> c] \in g
    BY <1>1, <2>1 DEF KernelsDone
  <2>3. PICK d \in Calls : g = Group(d)
    BY <2>2 DEF ThunkTypeOK
  <2>4. d = c
    BY <2>2, <2>3 DEF Group
  <2> QED BY <2>1, <2>2, <2>3, <2>4, HappenedIs
<1>2. ASSUME KernelsOf(o) \subseteq Happened PROVE KernelsDone(t, o)
  <2> SUFFICES ASSUME NEW c \in CallsOf(o)
               PROVE  \E g \in kernelsRun : [thread |-> t, call |-> c] \in g
    BY DEF KernelsDone
  <2>1. KernelOf(c) \in Happened
    BY <1>2 DEF KernelsOf
  <2>2. Group(c) \in kernelsRun
    BY <2>1, HappenedIs
  <2>3. [thread |-> t, call |-> c] \in Group(c)
    BY DEF Group
  <2> QED BY <2>2, <2>3
<1> QED BY <1>1, <1>2

\* The done event of an asynchronous start completes only after the kernels
\* of its collective, and no thunk returns an error.
THEOREM DoneEventMeansDoneHolds == OneClique => (ThunkSpec => []DoneEventMeansDone)
<1> SUFFICES ASSUME OneClique PROVE ThunkSpec => []DoneEventMeansDone
  OBVIOUS
<1>1. ThunkInvariant => DoneEventMeansDone
  <2> SUFFICES ASSUME ThunkInvariant PROVE DoneEventMeansDone
    OBVIOUS
  <2>1. ThunkTypeOK /\ EventsHold /\ failed = {}
    BY DEF ThunkInvariant, Control, Knowledge
  <2>2. ASSUME NEW t \in Threads, NEW o \in Operations, <<"done", t, o>> \in events
        PROVE  KernelsDone(t, o)
    <3>1. StandsFor(<<"done", t, o>>) = KernelsOf(o)
      BY OpFacts, EventFacts
    <3>2. KernelsOf(o) \subseteq Happened
      BY <2>1, <2>2, <3>1 DEF EventsHold
    <3> QED BY <2>1, <3>2, KernelsDoneIs
  <2> QED BY <2>1, <2>2 DEF DoneEventMeansDone
<1> QED BY <1>1, ThunkInvariantHolds, PTL

\* In the first run no thread is past a start thunk before its kernels ran.
THEOREM FirstCallBlocksHolds == OneClique => (ThunkSpec => []FirstCallBlocks)
<1> SUFFICES ASSUME OneClique PROVE ThunkSpec => []FirstCallBlocks
  OBVIOUS
<1>1. ThunkInvariant => FirstCallBlocks
  <2> SUFFICES ASSUME ThunkInvariant, config.first_run, NEW t \in Threads, NEW i \in 1 .. at[t] - 1,
                      Schedule[i].thunk = "start"
               PROVE  KernelsDone(t, Schedule[i].op)
    BY DEF FirstCallBlocks
  <2>1. TypeOK /\ ThunkTypeOK /\ FirstRunBlocks
    BY DEF ThunkInvariant, Control, Knowledge
  <2>2. i \in DOMAIN Schedule /\ i \in Nat /\ at[t] \in Nat /\ ~(at[t] <= i)
    BY <2>1, Numbers, ScheduleFacts
  <2>3. PICK o \in Operations : o = Schedule[i].op /\ IsThunk(i, "start", o)
    BY <2>2, ScheduleFacts
  <2>4. KernelsOf(o) \subseteq Happened
    BY <2>1, <2>2, <2>3 DEF FirstRunBlocks
  <2> QED BY <2>1, <2>3, <2>4, KernelsDoneIs
<1> QED BY <1>1, ThunkInvariantHolds, PTL

-----------------------------------------------------------------------------
(* The collectives implement Collective.                                   *)

Performed == {<<Clique(x[1], x[2]), x[2]>> :
                x \in {y \in Threads \X Operations :
                        \A u \in Clique(y[1], y[2]) : KernelsDone(u, y[2])}}

LEMMA OneCliqueIs ==
  ASSUME OneClique, NEW t \in Threads, NEW o \in Operations
  PROVE  Clique(t, o) = Threads
  BY OpFacts DEF OneClique, Comm, Clique

LEMMA PerformedIs ==
  ASSUME OneClique, ThunkTypeOK, NEW z
  PROVE  z \in Performed <=>
           \E t \in Threads, o \in Operations : z = <<Threads, o>> /\ KernelsOf(o) \subseteq Happened
<1>1. ASSUME NEW t \in Threads, NEW o \in Operations
      PROVE  (\A u \in Clique(t, o) : KernelsDone(u, o)) <=> KernelsOf(o) \subseteq Happened
  BY OneCliqueIs, KernelsDoneIs
<1>2. ASSUME z \in Performed
      PROVE  \E t \in Threads, o \in Operations : z = <<Threads, o>> /\ KernelsOf(o) \subseteq Happened
  <2>1. PICK x \in Threads \X Operations : /\ z = <<Clique(x[1], x[2]), x[2]>>
                                           /\ \A u \in Clique(x[1], x[2]) : KernelsDone(u, x[2])
    BY <1>2 DEF Performed
  <2>2. PICK t \in Threads, o \in Operations : t = x[1] /\ o = x[2]
    OBVIOUS
  <2> QED BY <1>1, <2>1, <2>2, OneCliqueIs
<1>3. ASSUME NEW t \in Threads, NEW o \in Operations, z = <<Threads, o>>, KernelsOf(o) \subseteq Happened
      PROVE  z \in Performed
  <2>1. PICK x \in Threads \X Operations : x[1] = t /\ x[2] = o
    <3>1. <<t, o>> \in Threads \X Operations /\ <<t, o>>[1] = t /\ <<t, o>>[2] = o
      OBVIOUS
    <3> QED BY <3>1
  <2>2. \A u \in Clique(x[1], x[2]) : KernelsDone(u, x[2])
    BY <1>1, <1>3, <2>1
  <2>3. z = <<Clique(x[1], x[2]), x[2]>>
    BY <1>3, <2>1, OneCliqueIs
  <2> QED BY <2>2, <2>3 DEF Performed
<1> QED BY <1>2, <1>3

\* The same after a step.
LEMMA PerformedNext ==
  ASSUME OneClique
  PROVE  (ThunkTypeOK => \A z : z \in Performed <=>
            \E t \in Threads, o \in Operations : z = <<Threads, o>> /\ KernelsOf(o) \subseteq Happened)'
<1>1. ThunkTypeOK => \A z : z \in Performed <=>
        \E t \in Threads, o \in Operations : z = <<Threads, o>> /\ KernelsOf(o) \subseteq Happened
  BY PerformedIs
<1> QED BY <1>1, PTL

\* No kernel runs: nothing is performed.
LEMMA PerformedStays ==
  ASSUME kernelsRun' = kernelsRun
  PROVE  Performed' = Performed
  BY DEF Performed, KernelsDone

\* A step that leaves the histories alone is a stutter.
LEMMA AbstractStutter ==
  ASSUME UNCHANGED <<inputsRun, kernelsRun, outputsRun>>
  PROVE  UNCHANGED Abstract!vars
<1>1. Performed' = Performed
  BY PerformedStays
<1> QED BY <1>1 DEF Abstract!vars, Performed

LEMMA ExecuteImplements ==
  ASSUME OneClique, ThunkInvariant, NEW q \in Queues, Execute(q)
  PROVE  [Abstract!Next]_Abstract!vars
<1>0. ThunkTypeOK /\ ThunkInvariant'
  BY ExecuteHolds DEF ThunkInvariant, Control
<1>1. PICK c \in Commands : /\ c = Head(queue[q]) /\ Needs(c) \subseteq Happened
                            /\ Happened \subseteq Happened'
  BY HeadFacts
<1>2. /\ inputsRun' = IF c.cmd = "work" /\ c.thunk = "input"
                        THEN inputsRun \cup {<<c.thread, c.op>>} ELSE inputsRun
      /\ outputsRun' = IF c.cmd = "work" /\ c.thunk = "output"
                         THEN outputsRun \cup {<<c.thread, c.op>>} ELSE outputsRun
      /\ kernelsRun' = IF c.cmd = "kernel" THEN kernelsRun \cup {c.group} ELSE kernelsRun
  BY <1>1 DEF Execute
<1>3. CASE c.cmd = "work" /\ c.thunk = "input"
  <2>1. PICK t \in Threads, o \in Operations : t = c.thread /\ o = c.op
    BY <1>3, CommandKinds
  <2>2. /\ inputsRun' = inputsRun \cup {<<t, o>>} /\ outputsRun' = outputsRun /\ kernelsRun' = kernelsRun
    BY <1>2, <1>3, <2>1
  <2>3. Performed' = Performed
    BY <2>2, PerformedStays
  <2>4. CASE <<t, o>> \in inputsRun
    BY <2>2, <2>4, AbstractStutter
  <2>5. CASE <<t, o>> \notin inputsRun
    <3>1. Abstract!Compute(t, o)
      BY <2>2, <2>3, <2>5 DEF Abstract!Compute, Performed
    <3> QED BY <3>1 DEF Abstract!Next
  <2> QED BY <2>4, <2>5
<1>4. CASE c.cmd = "work" /\ c.thunk = "output"
  <2>1. PICK t \in Threads, o \in Operations : t = c.thread /\ o = c.op
    BY <1>4, CommandKinds
  <2>2. /\ outputsRun' = outputsRun \cup {<<t, o>>} /\ inputsRun' = inputsRun /\ kernelsRun' = kernelsRun
    BY <1>2, <1>4, <2>1
  <2>3. Performed' = Performed
    BY <2>2, PerformedStays
  <2>4. CASE <<t, o>> \in outputsRun
    BY <2>2, <2>4, AbstractStutter
  <2>5. CASE <<t, o>> \notin outputsRun
    <3>1. KernelsOf(o) \subseteq Happened
      BY <1>1, <1>4, <2>1 DEF Needs
    <3>2. <<Threads, o>> \in Performed
      BY <1>0, <3>1, PerformedIs
    <3>3. <<Clique(t, o), o>> \in Performed
      BY <3>2, OneCliqueIs
    <3>4. Abstract!Use(t, o)
      BY <2>2, <2>3, <2>5, <3>3 DEF Abstract!Use, Performed
    <3> QED BY <3>4 DEF Abstract!Next
  <2> QED BY <2>4, <2>5
<1>5. CASE c.cmd = "kernel"
  <2>1. PICK x \in Calls : c.group = Group(x)
    BY <1>5, CommandKinds
  <2>2. PICK o \in Operations, t \in Threads : o = OpOf(x) /\ x \in CallsOf(o)
    BY CallOps DEF Queues
  <2>3. /\ inputsRun' = inputsRun /\ outputsRun' = outputsRun
        /\ kernelsRun' = kernelsRun \cup {Group(x)}
    BY <1>2, <1>5, <2>1
  <2>4. ASSUME NEW y \in Operations, y # o
        PROVE  KernelsOf(y) \subseteq Happened' <=> KernelsOf(y) \subseteq Happened
    <3>1. ASSUME NEW d \in CallsOf(y) PROVE KernelOf(d) \in Happened' <=> KernelOf(d) \in Happened
      <4>1. d # x
        <5>1. OpOf(d) = y
          BY OperationsAssumption
        <5> QED BY <2>2, <2>4, <5>1
      <4>2. Group(d) # Group(x)
        <5>1. [thread |-> t, call |-> d] \in Group(d)
          BY DEF Group
        <5>2. [thread |-> t, call |-> d] \notin Group(x)
          BY <4>1 DEF Group
        <5> QED BY <5>1, <5>2
      <4>3. Group(d) \in kernelsRun' <=> Group(d) \in kernelsRun
        BY <2>3, <4>2
      <4> QED BY <4>3 DEF KernelOf, Happened
    <3> QED BY <3>1 DEF KernelsOf
  <2>5. ThunkTypeOK'
    BY <1>0 DEF ThunkInvariant, Control
  <2>6. ASSUME NEW z
        PROVE  z \in Performed' <=>
                 \E v \in Threads, y \in Operations : z = <<Threads, y>> /\ KernelsOf(y) \subseteq Happened'
    BY <2>5, PerformedNext
  <2>7. CASE KernelsOf(o) \subseteq Happened \/ ~(KernelsOf(o) \subseteq Happened')
    <3>1. \A y \in Operations : KernelsOf(y) \subseteq Happened' <=> KernelsOf(y) \subseteq Happened
      BY <1>1, <2>4, <2>7
    <3>2. \A z : z \in Performed' <=> z \in Performed
      BY <1>0, <2>6, <3>1, PerformedIs
    <3>3. Performed' = Performed
      BY <3>2
    <3> QED BY <2>3, <3>3 DEF Abstract!vars, Performed
  <2>8. CASE ~(KernelsOf(o) \subseteq Happened) /\ KernelsOf(o) \subseteq Happened'
    <3>1. \A z : z \in Performed' <=> z \in Performed \/ z = <<Threads, o>>
      <4>1. ASSUME NEW z, z \in Performed' PROVE z \in Performed \/ z = <<Threads, o>>
        BY <1>0, <2>4, <2>6, <4>1, PerformedIs
      <4>2. ASSUME NEW z, z \in Performed PROVE z \in Performed'
        <5>1. PICK v \in Threads, y \in Operations : z = <<Threads, y>> /\ KernelsOf(y) \subseteq Happened
          BY <1>0, <4>2, PerformedIs
        <5>2. KernelsOf(y) \subseteq Happened'
          BY <1>1, <5>1
        <5> QED BY <2>6, <5>1, <5>2
      <4>3. <<Threads, o>> \in Performed'
        BY <2>2, <2>6, <2>8
      <4> QED BY <4>1, <4>2, <4>3
    <3>2. <<Threads, o>> \notin Performed
      <4>1. ASSUME NEW y \in Operations, <<Threads, o>> = <<Threads, y>> PROVE y = o
        BY <4>1
      <4> QED BY <1>0, <2>8, <4>1, PerformedIs
    <3>3. Performed' = Performed \cup {<<Threads, o>>}
      BY <3>1
    <3>4. ASSUME NEW u \in Threads PROVE <<u, o>> \in inputsRun
      <4>1. PICK p \in Group(x) : p.thread = u /\ OpOf(p.call) = o
        <5>1. [thread |-> u, call |-> x] \in Group(x)
          BY DEF Group
        <5> QED BY <2>2, <5>1
      <4>2. InputOf(p.thread, OpOf(p.call)) \in Needs(c)
        BY <1>5, <2>1 DEF Needs
      <4> QED BY <1>1, <4>1, <4>2, HappenedIs
    <3>5. Clique(t, o) = Threads
      BY OneCliqueIs
    <3>6. Abstract!Perform(Clique(t, o), o)
      BY <2>3, <3>2, <3>3, <3>4, <3>5 DEF Abstract!Perform, Performed
    <3> QED BY <3>6 DEF Abstract!Next
  <2> QED BY <2>7, <2>8
<1>6. CASE c.cmd \in {"signal", "wait"}
  BY <1>2, <1>6, AbstractStutter
<1> QED BY <1>3, <1>4, <1>5, <1>6, CommandKinds

\* The device queues, driven by the hosts, implement Collective: an operation
\* takes effect once, after every member's inputs and before any use.
THEOREM ImplementsCollectiveHolds == OneClique => (ThunkSpec => ImplementsCollective)
<1> SUFFICES ASSUME OneClique PROVE ThunkSpec => ImplementsCollective
  OBVIOUS
<1>1. ThunkInit => Abstract!Init
  <2> SUFFICES ASSUME ThunkInit PROVE Abstract!Init
    OBVIOUS
  <2>1. ThunkTypeOK /\ inputsRun = {} /\ outputsRun = {} /\ kernelsRun = {}
    BY ThunkInvariantInit DEF ThunkInit, ThunkInvariant, Control
  <2>2. ASSUME NEW z \in Performed PROVE FALSE
    <3>1. PICK o \in Operations : KernelsOf(o) \subseteq Happened
      BY <2>1, <2>2, PerformedIs
    <3>2. KernelOf(o) \in Happened
      BY <3>1, OpFacts DEF KernelsOf
    <3> QED BY <2>1, <3>2, HappenedIs
  <2>3. Performed = {}
    BY <2>2
  <2> QED BY <2>1, <2>3 DEF Abstract!Init, Performed
<1>2. ThunkInvariant /\ [ThunkNext]_thunkVars => [Abstract!Next]_Abstract!vars
  <2> SUFFICES ASSUME ThunkInvariant, [ThunkNext]_thunkVars PROVE [Abstract!Next]_Abstract!vars
    OBVIOUS
  <2>1. ASSUME NEW q \in Queues, Execute(q) PROVE [Abstract!Next]_Abstract!vars
    BY <2>1, ExecuteImplements
  <2>2. ASSUME NEW t \in Threads, HostStep(t) PROVE UNCHANGED runVars
    BY <2>2 DEF HostStep, EnqueueWork, Arrive, Locked, CallWait, CallLaunch, CallReturn, RecordDone,
         ReadFirst, BlockHostUntilDone, Await
  <2>3. UNCHANGED thunkVars => UNCHANGED runVars
    BY DEF thunkVars
  <2>4. UNCHANGED runVars => UNCHANGED Abstract!vars
    BY AbstractStutter DEF runVars
  <2> QED BY <2>1, <2>2, <2>3, <2>4 DEF ThunkNext, ThunkStop
<1> QED BY <1>1, <1>2, ThunkInvariantHolds, PTL DEF ThunkSpec, ImplementsCollective, Abstract!Spec
=============================================================================
