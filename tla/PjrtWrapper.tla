----------------------------- MODULE PjrtWrapper -----------------------------
(***************************************************************************)
(* The C interface of the plug-in (pjrt_c_api_wrapper_impl.cc): handles    *)
(* that a caller creates, uses from several threads and destroys, over C++ *)
(* objects whose operations finish on the devices later.                   *)
(*                                                                         *)
(* A handle is a heap object whose address is used again after it is       *)
(* destroyed.  A future is one operation that runs on a device, with the   *)
(* memory it uses and the OnReady lambdas that are registered on it.       *)
(* Memory that only a shared_ptr or unique_ptr keeps is alive as long as   *)
(* a frame of a call or a registered lambda holds it.                      *)
(*                                                                         *)
(* The caller keeps the contract of the interface: it uses a handle only   *)
(* between the call that returns it and the call that destroys it, shares  *)
(* no handle but an executable between threads, and destroys the client    *)
(* last.                                                                   *)
(***************************************************************************)
EXTENDS Naturals, Sequences, FiniteSets, SequencesExt, FiniteSetsExt

CONSTANTS
  Threads,      \* threads of the caller
  NumDevices,   \* the C++ client's devices are 1 .. NumDevices
  Addressable,  \* the devices this process can use
  Workloads,    \* what callers do: the calls their threads make, and (bounds) how
                \* many handles, futures and executables exist at one time and
                \* how many clients one after the other; awaits bounds how
                \* often an event is awaited that has been queried before;
                \* outputs is the number of results of a program
  None

CppDevices == 1 .. NumDevices

Calls == {"compile", "topology", "get_executable", "delete", "cost", "execute",
          "from_host", "to_host", "ready", "copy", "on_ready", "await", "error",
          "serialize", "destroy", "client"}

ASSUME PjrtAssumption ==
  /\ NumDevices \in Nat \ {0} /\ IsFiniteSet(Threads)
  /\ Addressable \subseteq CppDevices /\ Addressable # {}
  /\ \A w \in Workloads :
       /\ w.threads \subseteq Threads /\ w.calls \subseteq Calls
       /\ w.handles \in Nat /\ w.futures \in Nat /\ w.executables \in Nat /\ w.outputs \in Nat
       /\ w.awaits \in Nat

(* The objects behind the handles, the operations, and the C client.       *)
Pointers == Nat \X Nat
EventObjects  == [kind : {"event"}, future : Nat, status : {None, "ok", "error"},
                  awaits : Nat, again : Nat]
BufferObjects == [kind : {"buffer"}, deleted : BOOLEAN]
ExecutableObjects == [kind : {"executable"}, exe : Nat, ran : BOOLEAN, writes : Nat,
                      published : BOOLEAN]
LoadedObjects == [kind : {"loaded"}, exe : Nat, deleted : BOOLEAN,
                  devices : UNION {[S -> Pointers] : S \in SUBSET Addressable}]
SerializedObjects == [kind : {"serialized"}]
HandleObjects == EventObjects \cup BufferObjects \cup ExecutableObjects
                   \cup LoadedObjects \cup SerializedObjects
FutureObjects == [state : {"running", "ok", "error"}, uses : SUBSET Nat,
                  kept : SUBSET Nat, lists : SUBSET {"send", "recv"},
                  failed : BOOLEAN, user : {"none", "registered", "called"}]
ClientObjects == [gen : Nat, cap : Nat, owned : Seq(CppDevices), devices : Seq(Pointers),
                  addressable : Seq(Pointers), cdev : [CppDevices -> Pointers \cup {None}],
                  allocator : {"bfc", "null"}]

\* A null pointer is no object, no pointer to one and no status.
ASSUME NoneAssumption ==
  None \notin HandleObjects \cup FutureObjects \cup ClientObjects \cup Pointers
                \cup {"ok", "error"}

VARIABLES
  work,       \* the workload, chosen at first
  client,     \* the PJRT_Client, None when there is none
  allocator,  \* the static device allocator: "unset" or "moved"
  clients,    \* how many clients have been created
  handles,    \* handles[id]: the object at an address, None when it is free
  futures,    \* futures[id]: an asynchronous operation, None when it is free
  pc          \* pc[t]: the call thread t is in

vars == <<work, client, allocator, clients, handles, futures, pc>>

HandleIds == 1 .. work.handles
FutureIds == 1 .. work.futures

Idle == [at |-> "idle"]
Init ==
  /\ work \in Workloads
  /\ client = None /\ allocator = "unset" /\ clients = 0
  /\ handles = [h \in HandleIds |-> None]
  /\ futures = [f \in FutureIds |-> None]
  /\ pc = [t \in Threads |-> Idle]

-----------------------------------------------------------------------------
(* The C++ client and the table of C devices.  owned_devices is a vector:  *)
(* a pointer into it is the buffer (its generation) and an index, and the  *)
(* buffer is replaced when an element is added beyond the capacity.        *)

Back(c) == <<c.gen, Len(c.owned)>>
PushBack(c, d) ==
  IF Len(c.owned) < c.cap
  THEN [c EXCEPT !.owned = Append(@, d)]
  ELSE [c EXCEPT !.owned = Append(@, d), !.gen = @ + 1, !.cap = 2 * @ + 1]
Reserve_None(c, n) == c
Reserve(c, n) == [c EXCEPT !.cap = n]

(* PJRT_Client_Create: the static allocator is filled by the first client  *)
(* and moved from; a later one passes a null pointer on.  Failures of the  *)
(* C++ client leave nothing behind.                                        *)
ClientCreate(t) ==
  /\ client = None /\ clients < work.clients /\ t \in work.threads
  /\ \A u \in Threads : pc[u] = Idle
  /\ client' = Reserve([gen |-> 0, cap |-> 0, owned |-> <<>>, devices |-> <<>>,
                        addressable |-> <<>>, cdev |-> [d \in CppDevices |-> None],
                        allocator |-> IF allocator = "unset" THEN "bfc" ELSE "null"],
                       NumDevices)
  /\ allocator' = "moved" /\ clients' = clients + 1
  /\ pc' = [pc EXCEPT ![t] = [at |-> "wrapping"]]
  /\ UNCHANGED <<work, handles, futures>>

(* One turn of the loop of CreateWrapperClient. *)
WrapDevice(t) ==
  /\ pc[t].at = "wrapping" /\ Len(client.owned) < NumDevices
  /\ LET d == Len(client.owned) + 1
         c == PushBack(client, d)
     IN client' = [c EXCEPT !.devices = Append(@, Back(c)),
                            !.addressable = IF d \in Addressable
                                            THEN Append(@, Back(c)) ELSE @,
                            !.cdev[d] = Back(c)]
  /\ UNCHANGED <<work, allocator, clients, handles, futures, pc>>

ClientCreated(t) ==
  /\ pc[t].at = "wrapping" /\ Len(client.owned) = NumDevices
  /\ pc' = [pc EXCEPT ![t] = Idle]
  /\ UNCHANGED <<work, client, allocator, clients, handles, futures>>

(* The device a C pointer leads to; None for a pointer into freed memory. *)
Deref(p) == IF p[1] = client.gen THEN client.owned[p[2]] ELSE None

(* LookupDevice and LookupAddressableDevice answer with GetCDevice. *)
GetCDevice(d) == client.cdev[d]

Used(h) == \E t \in Threads : pc[t].at # "idle" /\ "handle" \in DOMAIN pc[t]
                              /\ pc[t].handle = h

ClientDestroy(t) ==
  /\ t \in work.threads /\ "client" \in work.calls /\ client # None /\ \A h \in HandleIds : handles[h] = None
  /\ \A u \in Threads : pc[u] = Idle
  /\ client' = None
  /\ UNCHANGED <<work, allocator, clients, handles, futures, pc>>

-----------------------------------------------------------------------------
(* Handles and futures. *)

Ready == client # None /\ \A u \in Threads : pc[u].at # "wrapping"
Call(t, name) == Ready /\ pc[t] = Idle /\ t \in work.threads /\ name \in work.calls

Is(h, kinds) == handles[h] # None /\ handles[h].kind \in kinds

FreeHandles == {h \in HandleIds : handles[h] = None}
FreeFutures == {f \in FutureIds : futures[f] = None}
Rank(x, S) == Cardinality({y \in S : y <= x})

\* What Execute creates for a device: its outputs and, if wanted, an event.
HandlesPerDevice(wanted) == (1 .. work.outputs) \cup (IF wanted THEN {0} ELSE {})
\* Handles that calls in progress will still create.
Promised == Cardinality(UNION {pc[t].futures \X HandlesPerDevice(pc[t].wanted) :
                                 t \in {u \in Threads : pc[u].at = "executing"}})
\* The lowest free addresses are given to the new objects, in order.
Create(objects) ==
  handles' = [h \in HandleIds |->
                IF handles[h] = None /\ Rank(h, FreeHandles) <= Len(objects)
                THEN objects[Rank(h, FreeHandles)] ELSE handles[h]]
New(objects) ==
  /\ Promised + Len(objects) <= Cardinality(FreeHandles)
  /\ Create(objects)
\* awaits counts the queries of the future, again those that the caller made
\* by awaiting an event whose future had been queried.
Event(f)       == [kind |-> "event", future |-> f, status |-> None, awaits |-> 0, again |-> 0]
Buffer         == [kind |-> "buffer", deleted |-> FALSE]
Executable(x)  == [kind |-> "executable", exe |-> x, ran |-> FALSE, writes |-> 0,
                   published |-> FALSE]

(* A new operation: uses is the memory it works on, kept what the lambdas  *)
(* registered on its future hold, lists the callbacks it may invoke and    *)
(* user the caller's own OnReady callback.                                 *)
Running(uses, kept, lists) ==
  [state |-> "running", uses |-> uses, kept |-> kept, lists |-> lists,
   failed |-> FALSE, user |-> "none"]

\* Memory that a frame or a registered lambda owns.
HeldByFrame(m)  == \E t \in Threads : pc[t].at = "executing" /\ m \in pc[t].memory
HeldByLambda(m) == \E f \in FutureIds : futures[f] # None /\ m \in futures[f].kept
Unused(m) == /\ ~HeldByFrame(m) /\ ~HeldByLambda(m)
             /\ \A f \in FutureIds : futures[f] # None => m \notin futures[f].uses
FreshMemory == CHOOSE m \in 1 .. (work.futures + Cardinality(Threads) + 1) : Unused(m)

NextFuture == Min(FreeFutures)
Same == UNCHANGED <<work, client, allocator, clients>>

(* Every entry point first compares struct sizes, and most pass on errors  *)
(* of the C++ call; such a call returns an error, creates no handle and    *)
(* changes nothing, so it is a stuttering step.                            *)

Over(f) == f # None /\ f.state \in {"ok", "error"}
\* An event, or a call in progress, has the future f.
Referenced(f) == \/ \E h \in HandleIds : Is(h, {"event"}) /\ handles[h].future = f
                 \/ \E t \in Threads : pc[t].at = "executing" /\ f \in pc[t].futures

(* The Destroy calls.  A future lives until its operation is over and its  *)
(* event is gone.                                                          *)
Destroy(t, h) ==
  /\ Call(t, "destroy") /\ handles[h] # None /\ ~Used(h)
  /\ handles' = [handles EXCEPT ![h] = None]
  /\ futures' = [f \in FutureIds |->
                   IF Is(h, {"event"}) /\ handles[h].future = f /\ Over(futures[f])
                   THEN None ELSE futures[f]]
  /\ Same /\ UNCHANGED pc

-----------------------------------------------------------------------------
(* Executables. *)

\* The C++ executables that some handle shares.
Exes == {handles[h].exe : h \in {i \in HandleIds : Is(i, {"loaded", "executable"})}}
NewExe == Min((1 .. work.executables) \ Exes)
CanCompile == Cardinality(Exes) < work.executables

\* PopulatePjrtExecutableAddressableDevices: FindDeviceWrapper for each device.
FindDeviceWrapper(d) ==
  LET at == {i \in DOMAIN client.addressable : Deref(client.addressable[i]) = d}
  IN IF at = {} THEN None ELSE client.addressable[Min(at)]

(* PJRT_Client_Compile. *)
Compile(t) ==
  /\ Call(t, "compile") /\ CanCompile
  /\ \E devs \in SUBSET Addressable \ {{}} :
       New(<<[kind |-> "loaded", exe |-> NewExe, deleted |-> FALSE,
              devices |-> [d \in devs |-> FindDeviceWrapper(d)]]>>)
  /\ Same /\ UNCHANGED <<futures, pc>>

(* The bytes of a serialized executable are an object of their own, from   *)
(* which a new executable is loaded.                                       *)
Serialize(t, h) ==
  /\ Call(t, "serialize") /\ Is(h, {"executable"}) /\ New(<<[kind |-> "serialized"]>>)
  /\ Same /\ UNCHANGED <<futures, pc>>

DeserializeAndLoad(t, h) ==
  /\ Call(t, "serialize") /\ CanCompile /\ Is(h, {"serialized"})
  /\ \E devs \in SUBSET Addressable \ {{}} :
       New(<<[kind |-> "loaded", exe |-> NewExe, deleted |-> FALSE,
              devices |-> [d \in devs |-> FindDeviceWrapper(d)]]>>)
  /\ Same /\ UNCHANGED <<futures, pc>>

(* PJRT_Compile makes an executable that is not loaded. *)
CompileForTopology(t) ==
  /\ Call(t, "topology") /\ CanCompile /\ New(<<Executable(NewExe)>>)
  /\ Same /\ UNCHANGED <<futures, pc>>

GetExecutable(t, h) ==
  /\ Call(t, "get_executable") /\ Is(h, {"loaded"}) /\ New(<<Executable(handles[h].exe)>>)
  /\ Same /\ UNCHANGED <<futures, pc>>

LoadedExecutableDelete(t, h) ==
  /\ Call(t, "delete") /\ Is(h, {"loaded"}) /\ ~Used(h)
  /\ handles' = [handles EXCEPT ![h].deleted = TRUE]
  /\ Same /\ UNCHANGED <<futures, pc>>

Populated_Again(x, found) == [x EXCEPT !.ran = TRUE, !.writes = IF @ < 3 THEN @ + found ELSE @]
(* PopulateExecutableCostAnalysisIfNeeded, under the executable's mutex.   *)
(* Two threads may be in GetCostAnalysis of one executable.                *)
Populated(x, found) == IF x.ran THEN x
                       ELSE [x EXCEPT !.ran = TRUE, !.writes = @ + found]

PopulateCostAnalysis(t, h) ==
  /\ Call(t, "cost") /\ Is(h, {"executable"})
  /\ \E found \in {0, 1} : handles' = [handles EXCEPT ![h] = Populated(@, found)]
  /\ pc' = [pc EXCEPT ![t] = [at |-> "cost", handle |-> h]]
  /\ Same /\ UNCHANGED futures

\* The rest of GetCostAnalysis, without the mutex: the caller gets pointers.
ReturnCostAnalysis(t) ==
  /\ pc[t].at = "cost"
  /\ handles' = [handles EXCEPT ![pc[t].handle].published = handles[pc[t].handle].writes > 0]
  /\ pc' = [pc EXCEPT ![t] = Idle]
  /\ Same /\ UNCHANGED futures

-----------------------------------------------------------------------------
(* Execution.  lists are the callback lists the caller gave ("send",       *)
(* "recv"), wanted whether it asked for device_complete_events.  With an   *)
(* execute_device the call is refused unless it is for one device and has  *)
(* no callbacks, and then does what it does for that device without one.   *)

DevicesOf(h) == {Deref(handles[h].devices[d]) : d \in DOMAIN handles[h].devices}

(* From the conversion of the callbacks to the return of the C++ Execute:  *)
(* an operation runs on each device, and Execute's frame holds the lists.  *)
Execute(t, h, lists, wanted) ==
  /\ Call(t, "execute") /\ Is(h, {"loaded"}) /\ ~handles[h].deleted
  /\ LET n   == Cardinality(DevicesOf(h))
         ids == {f \in FreeFutures : Rank(f, FreeFutures) <= n}
         mem == IF lists = {} THEN {} ELSE {FreshMemory}
     IN /\ n <= Cardinality(FreeFutures)
        /\ Promised + n * Cardinality(HandlesPerDevice(wanted)) <= Cardinality(FreeHandles)
        /\ futures' = [f \in FutureIds |-> IF f \in ids THEN Running(mem, {}, lists)
                                           ELSE futures[f]]
        /\ pc' = [pc EXCEPT ![t] = [at |-> "executing", handle |-> h, memory |-> mem,
                                    wanted |-> wanted, futures |-> ids]]
  /\ Same /\ UNCHANGED handles

(* OnReady of a future that is ready runs the lambda at once. *)
Registered(f, kept) == IF f.state = "running" THEN [f EXCEPT !.kept = @ \cup kept] ELSE f

KeepAlive_First(fs, memory) ==
  [f \in FutureIds |-> IF f = Min(fs) THEN Registered(futures[f], memory) ELSE futures[f]]
\* The lambdas that hold the lists, one on the future of every device.
KeepAlive(fs, memory) ==
  [f \in FutureIds |-> IF f \in fs THEN Registered(futures[f], memory) ELSE futures[f]]

(* The rest of Execute: keep the lists alive, hand out events and outputs. *)
ExecuteReturns(t) ==
  /\ pc[t].at = "executing"
  /\ LET fs == [i \in 1 .. Cardinality(pc[t].futures) |->
                  CHOOSE f \in pc[t].futures : Rank(f, pc[t].futures) = i]
     IN /\ futures' = LET kept == KeepAlive(pc[t].futures, pc[t].memory)
                      IN [f \in FutureIds |-> IF f \in pc[t].futures /\ ~pc[t].wanted
                                                 /\ Over(kept[f]) THEN None ELSE kept[f]]
        /\ Create((IF pc[t].wanted THEN [i \in DOMAIN fs |-> Event(fs[i])] ELSE <<>>)
                  \o [i \in 1 .. Len(fs) * work.outputs |-> Buffer])
  /\ pc' = [pc EXCEPT ![t] = Idle]
  /\ Same

(* A device calls the send callback; an error it returns fails the run.    *)
(* The caller's receive callback gets a stream and may add a chunk to it   *)
(* (PJRT_CopyToDeviceStream_AddChunk), whose event the caller keeps.       *)
SendCallback(f) ==
  /\ futures[f] # None /\ futures[f].state = "running" /\ "send" \in futures[f].lists
  /\ \E failed \in BOOLEAN :
       futures' = [futures EXCEPT ![f].lists = @ \ {"send"}, ![f].failed = failed]
  /\ Same /\ UNCHANGED <<handles, pc>>

RecvCallback(f) ==
  /\ futures[f] # None /\ futures[f].state = "running" /\ "recv" \in futures[f].lists
  /\ FreeFutures # {} /\ New(<<Event(NextFuture)>>)
  /\ futures' = [futures EXCEPT ![f].lists = @ \ {"recv"},
                                ![NextFuture] = Running({}, {}, {})]
  /\ Same /\ UNCHANGED pc

-----------------------------------------------------------------------------
(* Buffers. *)

\* A second promise, which nobody sets, given to the event.
BufferFromHostBuffer_TwoPromises(t) ==
  /\ Call(t, "from_host") /\ FreeFutures # {}
  /\ New(<<Buffer, Event(NextFuture)>>)
  /\ futures' = [futures EXCEPT ![NextFuture] = [Running({}, {}, {}) EXCEPT !.state = "unset"]]
  /\ Same /\ UNCHANGED pc
(* The promise of done_with_host_buffer is set when the C++ client has     *)
(* read the caller's data.                                                 *)
BufferFromHostBuffer(t) ==
  /\ Call(t, "from_host") /\ FreeFutures # {}
  /\ New(<<Buffer, Event(NextFuture)>>)
  /\ futures' = [futures EXCEPT ![NextFuture] = Running({}, {}, {})]
  /\ Same /\ UNCHANGED pc

(* PJRT_Buffer_ToHostBuffer with a destination that is large enough; the   *)
(* call that only asks for the size changes nothing.  The operation writes *)
(* through a literal that a lambda of the future owns.                     *)
ToHostBuffer(t, h) ==
  /\ Call(t, "to_host") /\ Is(h, {"buffer"}) /\ FreeFutures # {}
  /\ New(<<Event(NextFuture)>>)
  /\ futures' = [futures EXCEPT ![NextFuture] = Running({FreshMemory}, {FreshMemory}, {})]
  /\ Same /\ UNCHANGED pc

ReadyEvent(t, h) ==
  /\ Call(t, "ready") /\ Is(h, {"buffer"}) /\ FreeFutures # {}
  /\ New(<<Event(NextFuture)>>)
  /\ futures' = [futures EXCEPT ![NextFuture] = Running({}, {}, {})]
  /\ Same /\ UNCHANGED pc

CopyToDevice(t, h) ==
  /\ Call(t, "copy") /\ Is(h, {"buffer"}) /\ ~handles[h].deleted /\ New(<<Buffer>>)
  /\ Same /\ UNCHANGED <<futures, pc>>

BufferDelete(t, h) ==
  /\ Call(t, "delete") /\ Is(h, {"buffer"})
  /\ handles' = [handles EXCEPT ![h].deleted = TRUE]
  /\ Same /\ UNCHANGED <<futures, pc>>

-----------------------------------------------------------------------------
(* Events. *)

(* The device finishes: the registered lambdas run, give up what they hold *)
(* and call the caller's callback.                                         *)
Completed(f, result) ==
  [f EXCEPT !.state = result, !.uses = {}, !.kept = {}, !.lists = {}, !.failed = FALSE,
            !.user = IF @ = "registered" THEN "called" ELSE @]
Complete(f) ==
  /\ futures[f] # None /\ futures[f].state = "running"
  /\ \E result \in IF futures[f].failed THEN {"error"} ELSE {"ok", "error"} :
       futures' = [futures EXCEPT ![f] = IF Referenced(f) THEN Completed(@, result) ELSE None]
  /\ Same /\ UNCHANGED <<handles, pc>>

FutureReady(f) == Over(futures[f])

OnReady(t, h) ==
  /\ Call(t, "on_ready") /\ Is(h, {"event"}) /\ ~Used(h)
  /\ LET f == handles[h].future
     IN /\ futures[f].user = "none"
        /\ futures' = [futures EXCEPT ![f].user =
                         IF FutureReady(f) THEN "called" ELSE "registered"]
  /\ Same /\ UNCHANGED <<handles, pc>>

(* What future.Await() returns.  It can only safely be called once: what   *)
(* another call returns is anybody's guess.                                *)
Queried(e) == IF e.awaits = 0 THEN {futures[e.future].state} ELSE {"ok", "error"}
\* 1 when the caller awaits an event whose future has been queried.
Repeated(e) == IF e.awaits > 0 THEN 1 ELSE 0
\* status.emplace(future.Await()), once more (n = 1) than needed or not.
Awaited(e, result, n) == [e EXCEPT !.status = result, !.awaits = @ + 1, !.again = @ + n]

(* PJRT_Event_Await blocks in future.Await(), whether the event has a      *)
(* status or not.                                                          *)
Await(t, h) ==
  /\ Call(t, "await") /\ Is(h, {"event"}) /\ ~Used(h)
  /\ handles[h].awaits <= work.awaits      \* a bound
  /\ pc' = [pc EXCEPT ![t] = [at |-> "await", handle |-> h]]
  /\ Same /\ UNCHANGED <<handles, futures>>
AwaitReturns(t) ==
  /\ pc[t].at = "await" /\ FutureReady(handles[pc[t].handle].future)
  /\ \E result \in Queried(handles[pc[t].handle]) :
       handles' = [handles EXCEPT ![pc[t].handle] = Awaited(@, result, Repeated(@))]
  /\ pc' = [pc EXCEPT ![t] = Idle]
  /\ Same /\ UNCHANGED futures

HasStatus_Never(e) == e.awaits > 1
(* PJRT_Event_Error, after PJRT_Event_IsReady has answered true; the CHECK *)
(* ends the process otherwise.                                             *)
HasStatus(e) == e.status # None
Error(t, h) ==
  /\ Call(t, "error") /\ Is(h, {"event"}) /\ ~Used(h) /\ FutureReady(handles[h].future)
  /\ \E result \in Queried(handles[h]) :
       handles' = [handles EXCEPT ![h] = IF HasStatus(@) THEN @ ELSE Awaited(@, result, 0)]
  /\ Same /\ UNCHANGED <<futures, pc>>

-----------------------------------------------------------------------------
Caller(t) ==
  \/ ClientCreate(t) \/ ClientDestroy(t)
  \/ Compile(t) \/ CompileForTopology(t) \/ BufferFromHostBuffer(t)
  \/ \E h \in HandleIds :
       \/ Destroy(t, h) \/ GetExecutable(t, h) \/ LoadedExecutableDelete(t, h)
       \/ PopulateCostAnalysis(t, h) \/ Serialize(t, h) \/ DeserializeAndLoad(t, h)
       \/ \E lists \in SUBSET {"send", "recv"}, wanted \in BOOLEAN :
            Execute(t, h, lists, wanted)
       \/ ToHostBuffer(t, h) \/ ReadyEvent(t, h) \/ CopyToDevice(t, h)
       \/ BufferDelete(t, h) \/ OnReady(t, h) \/ Await(t, h) \/ Error(t, h)
Wrapper(t) == WrapDevice(t) \/ ClientCreated(t) \/ ReturnCostAnalysis(t)
              \/ ExecuteReturns(t) \/ AwaitReturns(t)
Next ==
  \/ \E t \in Threads : Caller(t) \/ Wrapper(t)
  \/ \E f \in FutureIds : SendCallback(f) \/ RecvCallback(f) \/ Complete(f)

(* Every operation on a device ends, and a call that has begun goes on. *)
Fairness == /\ \A t \in Threads : WF_vars(Wrapper(t))
            /\ \A f \in 1 .. Max({w.futures : w \in Workloads}) : WF_vars(f \in FutureIds /\ Complete(f))
Spec == Init /\ [][Next]_vars /\ Fairness

-----------------------------------------------------------------------------
(* The memory of a running operation (callback lists, the literal of a     *)
(* transfer) is alive until the operation is over on every device, even    *)
(* when the call has returned and the caller has destroyed the events.     *)
MemoryOutlivesDevices ==
  \A f \in FutureIds : futures[f] # None /\ futures[f].state = "running"
    => \A m \in futures[f].uses : HeldByFrame(m) \/ HeldByLambda(m)

(* Every device pointer the wrapper has stored or handed out leads to the  *)
(* C device of the C++ device it was made for: the table never moved.      *)
DevicePointersStayValid ==
  client # None =>
    /\ \A i \in DOMAIN client.devices : Deref(client.devices[i]) = i
    /\ \A d \in 1 .. Len(client.owned) : Deref(GetCDevice(d)) = d
    /\ {Deref(client.addressable[i]) : i \in DOMAIN client.addressable}
         = Addressable \cap (1 .. Len(client.owned))
    /\ \A h \in HandleIds : Is(h, {"loaded"}) =>
         \A d \in DOMAIN handles[h].devices : Deref(handles[h].devices[d]) = d

(* The wrapper queries a future once: Error does not when the event has a  *)
(* status, whoever set it, and only a caller that awaits such an event     *)
(* makes it query again.  An event that was queried once has its future's  *)
(* result.                                                                 *)
StatusIsTheFutures ==
  \A h \in HandleIds : Is(h, {"event"}) =>
    /\ handles[h].awaits <= 1 + handles[h].again
    /\ handles[h].status # None /\ handles[h].again = 0
         => handles[h].status = futures[handles[h].future].state

(* The cost properties a caller holds pointers to are never written again, *)
(* whatever other threads ask of the executable.                           *)
CostAnalysisStays ==
  [][\A h \in HandleIds :
       Is(h, {"executable"}) /\ handles[h].published /\ handles'[h] # None
         => handles'[h].kind = "executable" /\ handles'[h].writes = handles[h].writes]_vars

\* An event that is not ready, or whose callback has not been called.
Pending(f) == /\ f \in FutureIds /\ futures[f] # None /\ Referenced(f)
              /\ ~Over(futures[f]) \/ futures[f].user = "registered"

(* Every call returns, and every event becomes ready and calls the         *)
(* caller's callback.                                                      *)
EverythingCompletes ==
  /\ \A t \in Threads : (pc[t] # Idle) ~> (pc[t] = Idle)
  /\ \A f \in 1 .. Max({w.futures : w \in Workloads}) :
       Pending(f) ~> ~Pending(f)
=============================================================================
