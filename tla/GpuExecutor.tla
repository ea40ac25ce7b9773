------------------------------ MODULE GpuExecutor ------------------------------
(***************************************************************************)
(* What a GpuExecutor (sycl_executor.cc) keeps for the executables that    *)
(* run on it, and the caches through which GpuExecutable and KernelThunk   *)
(* use it: modules with a reference count per binary, kernels, and device  *)
(* constants shared between executables.                                   *)
(*                                                                         *)
(* A run is one call of GpuExecutable::ExecuteAsyncOnStream on a host      *)
(* thread.  It resolves the executable's constants under the executable's  *)
(* module_handle_mutex_, loads the kernel of each thunk under the thunk's  *)
(* mutex, and launches the kernels.  Each step below is one critical       *)
(* section of the executor; runs on the same or on other executables, and  *)
(* the destructor of an executable nobody runs, interleave between them.   *)
(*                                                                         *)
(* The table of modules is keyed by the ADDRESS of a binary.  An address   *)
(* is free again when its executable is gone and may be given to the next. *)
(***************************************************************************)
EXTENDS Naturals, Sequences, FiniteSets

CONSTANTS
  Executors,    \* the devices' GpuExecutors
  Executables,  \* the GpuExecutables of the process, each with one lifetime
  Addresses,    \* where their binaries may lie
  Runs,         \* the calls of ExecuteAsyncOnStream
  Job,          \* Job[r]: [exe |-> executable, on |-> executor] of run r
  Kernels,      \* Kernels[e]: the kernel name of each thunk of e, in order
  Constants,    \* Constants[e]: [name, symbol, content] of each constant of e
  Empty,        \* the content of a constant the module initialises itself
  MaxAllocs,    \* bound: device allocations for constants, per executor
  MaxFailures,  \* bound: failed allocations, per executor and address
  None          \* a null pointer

\* The range of device memory handed out for shared constants.
Allocs   == 1 .. MaxAllocs
Contents == UNION {{Constants[e][i].content : i \in DOMAIN Constants[e]} :
                     e \in Executables}

ASSUME JobAssumption ==
  \A r \in Runs : Job[r].exe \in Executables /\ Job[r].on \in Executors

ASSUME NoneAssumption ==
  None \notin Executables \cup Runs \cup Contents /\ None \notin Allocs

VARIABLES
  stage,        \* stage[e]: "none", "alive", "destructor" or "gone"
  addr,         \* addr[e]: the address of e's binary_
  mutex,        \* mutex[e]: the run that holds e's module_handle_mutex_
  module,       \* gpu_binary_to_module_: whose code is loaded for an address
  refcount,     \* gpu_binary_to_module_: the reference count of that entry
  kernels,      \* kernel_to_gpu_binary_: the <<e, thunk>> with a loaded kernel
  code,         \* kernel_cache_: whose code a thunk's kernel executes
  handles,      \* module_handles_ and module_globals_: resolved executables
  weak,         \* shared_constants_ of the executor: per content, None if expired
  memory,       \* the content of each allocation, None when it is not allocated
  shared,       \* shared_constants_ of the executables: the <<i, allocation>> held
  pc,           \* where a run is
  at,           \* the constant or thunk a run has come to
  handle,       \* the module handle a run holds in a local variable
  lost,         \* history: module handles dropped by failed resolutions
  aborted       \* a LOG(FATAL) has ended the process

vars == <<stage, addr, mutex, module, refcount, kernels, code, handles, weak,
          memory, shared, pc, at, handle, lost, aborted>>
tables    == <<module, refcount, kernels>>
constants == <<weak, memory, shared>>

Exe(r) == Job[r].exe
On(r)  == Job[r].on
Thunks(e)  == DOMAIN Kernels[e]
ThunkIds   == UNION {{e} \X Thunks(e) : e \in Executables}

Init ==
  /\ stage = [e \in Executables |-> "none"]
  /\ addr = [e \in Executables |-> None]
  /\ mutex = [e \in Executables |-> None]
  /\ module = [x \in Executors |-> [a \in Addresses |-> None]]
  /\ refcount = [x \in Executors |-> [a \in Addresses |-> 0]]
  /\ kernels = [x \in Executors |-> {}]
  /\ code = [x \in Executors |-> [t \in ThunkIds |-> None]]
  /\ handles = [x \in Executors |-> {}]
  /\ weak = [x \in Executors |-> [c \in Contents |-> None]]
  /\ memory = [x \in Executors |-> [m \in Allocs |-> None]]
  /\ shared = [x \in Executors |-> [e \in Executables |-> {}]]
  /\ pc = [r \in Runs |-> "idle"]
  /\ at = [r \in Runs |-> 1]
  /\ handle = [r \in Runs |-> None]
  /\ lost = [x \in Executors |-> [a \in Addresses |-> 0]]
  /\ aborted = FALSE

-----------------------------------------------------------------------------
(* The client: compiles executables, runs them, and drops them when no run *)
(* uses them.                                                              *)

\* GpuExecutable::Create: the binary lies where no other live binary lies.
Create(e, a) ==
  /\ ~aborted /\ stage[e] = "none"
  /\ \A f \in Executables : stage[f] \in {"alive", "destructor"} => addr[f] # a
  /\ stage' = [stage EXCEPT ![e] = "alive"]
  /\ addr' = [addr EXCEPT ![e] = a]
  /\ UNCHANGED <<mutex, tables, code, handles, constants, pc, at, handle, lost, aborted>>

Start(r) ==
  /\ ~aborted /\ pc[r] = "idle" /\ stage[Exe(r)] = "alive"
  /\ pc' = [pc EXCEPT ![r] = "resolve"]
  /\ UNCHANGED <<stage, addr, mutex, tables, code, handles, constants, at, handle, lost, aborted>>

-----------------------------------------------------------------------------
(* The table of modules.                                                   *)

\* Mutant: an entry that is found keeps its count.
LoadModuleFromSpir_NoCount(x, e) ==
  LET a == addr[e] IN
  IF module[x][a] = None
  THEN /\ module' = [module EXCEPT ![x][a] = e]
       /\ refcount' = [refcount EXCEPT ![x][a] = 1]
  ELSE UNCHANGED <<module, refcount>>

\* LoadModuleFromSpir: load the binary, or count one more use of the module
\* that is loaded for its address.
LoadModuleFromSpir(x, e) ==
  LET a == addr[e] IN
  IF module[x][a] = None
  THEN /\ module' = [module EXCEPT ![x][a] = e]
       /\ refcount' = [refcount EXCEPT ![x][a] = 1]
  ELSE /\ refcount' = [refcount EXCEPT ![x][a] = @ + 1]
       /\ UNCHANGED module

\* Mutant: the module is unloaded when its first user is done with it.
UnloadGpuBinary_First(x, a) ==
  /\ module' = [module EXCEPT ![x][a] = None]
  /\ refcount' = [refcount EXCEPT ![x][a] = 0]

\* UnloadGpuBinary: one use less; the last one unloads and erases the entry.
UnloadGpuBinary(x, a) ==
  /\ refcount' = [refcount EXCEPT ![x][a] = IF @ = 0 THEN 0 ELSE @ - 1]
  /\ module' = [module EXCEPT ![x][a] = IF refcount[x][a] <= 1 THEN None ELSE @]

-----------------------------------------------------------------------------
(* GpuExecutable::ResolveConstantGlobals.                                  *)

\* The constants are already resolved for this executor.
FindGlobals(r) ==
  /\ ~aborted /\ pc[r] = "resolve" /\ mutex[Exe(r)] = None
  /\ Exe(r) \in handles[On(r)]
  /\ pc' = [pc EXCEPT ![r] = "initialize"]
  /\ UNCHANGED <<stage, addr, mutex, tables, code, handles, constants, at, handle, lost, aborted>>

\* They are not: keep the mutex and load the module.
LoadModule(r) ==
  /\ ~aborted /\ pc[r] = "resolve" /\ mutex[Exe(r)] = None
  /\ Exe(r) \notin handles[On(r)]
  /\ mutex' = [mutex EXCEPT ![Exe(r)] = r]
  /\ LoadModuleFromSpir(On(r), Exe(r))
  /\ handle' = [handle EXCEPT ![r] = addr[Exe(r)]]
  /\ pc' = [pc EXCEPT ![r] = "constants"]
  /\ UNCHANGED <<stage, addr, kernels, code, handles, constants, at, lost, aborted>>

\* The constant run r has come to.
Constant(r) == Constants[Exe(r)][at[r]]
HasConstant(r) ==
  ~aborted /\ pc[r] = "constants" /\ at[r] \in DOMAIN Constants[Exe(r)]

\* GetSymbol: the module loaded for the handle defines a symbol of that name.
GetSymbol(r) ==
  LET f == module[On(r)][handle[r]] IN
  \E i \in DOMAIN Constants[f] :
    Constants[f][i].name = Constant(r).name /\ Constants[f][i].symbol

\* The module defines the constant, or nothing does and it has no content.
UseSymbol(r) ==
  /\ HasConstant(r)
  /\ GetSymbol(r) \/ Constant(r).content = Empty
  /\ at' = [at EXCEPT ![r] = @ + 1]
  /\ UNCHANGED <<stage, addr, mutex, tables, code, handles, constants, pc, handle, lost, aborted>>

NeedsAllocation(r) ==
  HasConstant(r) /\ ~GetSymbol(r) /\ Constant(r).content # Empty

\* Some executable still owns allocation m.
Owned(owners, m) == \E e \in Executables : \E p \in owners[e] : p[2] = m

\* weak_ptr::lock of the executor's entry yields an allocation.
Cached(r) == weak[On(r)][Constant(r).content] # None

\* CreateOrShareConstant, with the allocation already there.
ShareConstant(r) ==
  /\ NeedsAllocation(r) /\ Cached(r)
  /\ shared' = [shared EXCEPT ![On(r)][Exe(r)] =
                  @ \cup {<<at[r], weak[On(r)][Constant(r).content]>>}]
  /\ at' = [at EXCEPT ![r] = @ + 1]
  /\ UNCHANGED <<stage, addr, mutex, tables, code, handles, weak, memory, pc, handle, lost, aborted>>

\* CreateOrShareConstant, with a new allocation and a copy of the content.
CreateConstant(r) ==
  /\ NeedsAllocation(r) /\ ~Cached(r)
  /\ \E m \in Allocs :
       /\ memory[On(r)][m] = None
       /\ \A n \in Allocs : n < m => memory[On(r)][n] # None
       /\ memory' = [memory EXCEPT ![On(r)][m] = Constant(r).content]
       /\ weak' = [weak EXCEPT ![On(r)][Constant(r).content] = m]
       /\ shared' = [shared EXCEPT ![On(r)][Exe(r)] = @ \cup {<<at[r], m>>}]
  /\ at' = [at EXCEPT ![r] = @ + 1]
  /\ UNCHANGED <<stage, addr, mutex, tables, code, handles, pc, handle, lost, aborted>>

\* Mutant: the error return does not unlock.
FailConstant_KeepsMutex(r) ==
  /\ NeedsAllocation(r) /\ ~Cached(r)
  /\ lost[On(r)][handle[r]] < MaxFailures
  /\ lost' = [lost EXCEPT ![On(r)][handle[r]] = @ + 1]
  /\ handle' = [handle EXCEPT ![r] = None]
  /\ pc' = [pc EXCEPT ![r] = "failed"]
  /\ UNCHANGED <<stage, addr, mutex, tables, code, handles, constants, at, aborted>>

\* CreateOrShareConstant cannot allocate: the error is returned to the client,
\* and with it the module handle, which is not scoped yet, is lost.
FailConstant(r) ==
  /\ NeedsAllocation(r) /\ ~Cached(r)
  /\ lost[On(r)][handle[r]] < MaxFailures
  /\ mutex' = [mutex EXCEPT ![Exe(r)] = None]
  /\ lost' = [lost EXCEPT ![On(r)][handle[r]] = @ + 1]
  /\ handle' = [handle EXCEPT ![r] = None]
  /\ pc' = [pc EXCEPT ![r] = "failed"]
  /\ UNCHANGED <<stage, addr, tables, code, handles, constants, at, aborted>>

\* All constants resolved: the handle and the map are emplaced.
EmplaceGlobals(r) ==
  /\ ~aborted /\ pc[r] = "constants" /\ at[r] \notin DOMAIN Constants[Exe(r)]
  /\ handles' = [handles EXCEPT ![On(r)] = @ \cup {Exe(r)}]
  /\ mutex' = [mutex EXCEPT ![Exe(r)] = None]
  /\ handle' = [handle EXCEPT ![r] = None]
  /\ at' = [at EXCEPT ![r] = 1]
  /\ pc' = [pc EXCEPT ![r] = "initialize"]
  /\ UNCHANGED <<stage, addr, tables, code, constants, lost, aborted>>

-----------------------------------------------------------------------------
(* KernelThunk::Initialize and ExecuteOnStream.                            *)

Thunk(r) == <<Exe(r), at[r]>>

\* Another run is loading the same thunk's kernel (KernelThunk::mutex_).
ThunkLocked(r) ==
  \E s \in Runs : pc[s] = "function" /\ Thunk(s) = Thunk(r)

\* The kernel is in the cache.
FindKernel(r) ==
  /\ ~aborted /\ pc[r] = "initialize" /\ at[r] \in Thunks(Exe(r)) /\ ~ThunkLocked(r)
  /\ code[On(r)][Thunk(r)] # None
  /\ at' = [at EXCEPT ![r] = @ + 1]
  /\ UNCHANGED <<stage, addr, mutex, tables, code, handles, constants, pc, handle, lost, aborted>>

\* GpuExecutor::GetKernel: load the module and note the kernel's binary.
GetKernel(r) ==
  /\ ~aborted /\ pc[r] = "initialize" /\ at[r] \in Thunks(Exe(r)) /\ ~ThunkLocked(r)
  /\ code[On(r)][Thunk(r)] = None
  /\ LoadModuleFromSpir(On(r), Exe(r))
  /\ kernels' = [kernels EXCEPT ![On(r)] = @ \cup {Thunk(r)}]
  /\ handle' = [handle EXCEPT ![r] = addr[Exe(r)]]
  /\ pc' = [pc EXCEPT ![r] = "function"]
  /\ UNCHANGED <<stage, addr, mutex, code, handles, constants, at, lost, aborted>>

\* The name of the thunk's kernel is one of the loaded module's.
InModule(r) ==
  LET f == module[On(r)][handle[r]] IN
  \E k \in Thunks(f) : Kernels[f][k] = Kernels[Exe(r)][at[r]]

\* GetModuleFunction, outside the lock, with the module found under it.
GetModuleFunction(r) ==
  /\ ~aborted /\ pc[r] = "function" /\ InModule(r)
  /\ code' = [code EXCEPT ![On(r)][Thunk(r)] = module[On(r)][handle[r]]]
  /\ handle' = [handle EXCEPT ![r] = None]
  /\ at' = [at EXCEPT ![r] = @ + 1]
  /\ pc' = [pc EXCEPT ![r] = "initialize"]
  /\ UNCHANGED <<stage, addr, mutex, tables, handles, constants, lost, aborted>>

\* L0_SAFE_CALL(zeKernelCreate): no such kernel, LOG(FATAL).
NoSuchKernel(r) ==
  /\ ~aborted /\ pc[r] = "function" /\ ~InModule(r)
  /\ aborted' = TRUE
  /\ UNCHANGED <<stage, addr, mutex, tables, code, handles, constants, pc, at, handle, lost>>

\* Every thunk is initialized: the kernels are launched and the run returns.
Execute(r) ==
  /\ ~aborted /\ pc[r] = "initialize" /\ at[r] \notin Thunks(Exe(r))
  /\ pc' = [pc EXCEPT ![r] = "done"]
  /\ UNCHANGED <<stage, addr, mutex, tables, code, handles, constants, at, handle, lost, aborted>>

Step(r) ==
  \/ FindGlobals(r) \/ LoadModule(r) \/ UseSymbol(r) \/ ShareConstant(r)
  \/ CreateConstant(r) \/ FailConstant(r) \/ EmplaceGlobals(r)
  \/ FindKernel(r) \/ GetKernel(r) \/ GetModuleFunction(r) \/ NoSuchKernel(r)
  \/ Execute(r)

-----------------------------------------------------------------------------
(* ~GpuExecutable: the members in the reverse of their declaration.        *)

Finished(r) == pc[r] \in {"idle", "done", "failed"}
Unused(e)   == \A r \in Runs : Exe(r) = e => Finished(r)

Destroy(e) ==
  /\ ~aborted /\ stage[e] = "alive" /\ Unused(e)
  /\ stage' = [stage EXCEPT ![e] = "destructor"]
  /\ UNCHANGED <<addr, mutex, tables, code, handles, constants, pc, at, handle, lost, aborted>>

Destructing(e) == ~aborted /\ stage[e] = "destructor"
HoldsConstants(e) == \E x \in Executors : shared[x][e] # {}
HoldsHandles(e)   == \E x \in Executors : e \in handles[x]
KernelsOf(x, e)   == {t \in kernels[x] : t[1] = e}

\* Mutant: the executor keeps the address of what was freed.
ReleaseConstant_Raw(e, x) ==
  /\ Destructing(e)
  /\ \E p \in shared[x][e] :
       /\ shared' = [shared EXCEPT ![x][e] = @ \ {p}]
       /\ memory' = [memory EXCEPT ![x][p[2]] =
                       IF Owned(shared'[x], p[2]) THEN @ ELSE None]
  /\ UNCHANGED <<stage, addr, mutex, tables, code, handles, weak, pc, at, handle, lost, aborted>>

\* shared_constants_: one shared_ptr; the last owner frees the memory, and the
\* executor's weak_ptr to it expires.
ReleaseConstant(e, x) ==
  /\ Destructing(e)
  /\ \E p \in shared[x][e] :
       /\ shared' = [shared EXCEPT ![x][e] = @ \ {p}]
       /\ IF Owned(shared'[x], p[2])
            THEN UNCHANGED <<memory, weak>>
            ELSE /\ memory' = [memory EXCEPT ![x][p[2]] = None]
                 /\ weak' = [weak EXCEPT ![x] =
                              [c \in Contents |-> IF @[c] = p[2] THEN None ELSE @[c]]]
  /\ UNCHANGED <<stage, addr, mutex, tables, code, handles, pc, at, handle, lost, aborted>>

\* module_handles_: ~ScopedModuleHandle, GpuExecutor::UnloadModule.
UnloadModule(e, x) ==
  /\ Destructing(e) /\ ~HoldsConstants(e) /\ e \in handles[x]
  /\ UnloadGpuBinary(x, addr[e])
  /\ handles' = [handles EXCEPT ![x] = @ \ {e}]
  /\ UNCHANGED <<stage, addr, mutex, kernels, code, constants, pc, at, handle, lost, aborted>>

\* thunks_: ~KernelBase, GpuExecutor::UnloadKernel.
UnloadKernel(e, x) ==
  /\ Destructing(e) /\ ~HoldsConstants(e) /\ ~HoldsHandles(e)
  /\ \E t \in KernelsOf(x, e) :
       /\ UnloadGpuBinary(x, addr[e])
       /\ kernels' = [kernels EXCEPT ![x] = @ \ {t}]
       /\ code' = [code EXCEPT ![x][t] = None]
  /\ UNCHANGED <<stage, addr, mutex, handles, constants, pc, at, handle, lost, aborted>>

\* binary_ is freed last.
FreeBinary(e) ==
  /\ Destructing(e) /\ ~HoldsConstants(e) /\ ~HoldsHandles(e)
  /\ \A x \in Executors : KernelsOf(x, e) = {}
  /\ stage' = [stage EXCEPT ![e] = "gone"]
  /\ UNCHANGED <<addr, mutex, tables, code, handles, constants, pc, at, handle, lost, aborted>>

Destructor(e) ==
  \/ \E x \in Executors :
       ReleaseConstant(e, x) \/ UnloadModule(e, x) \/ UnloadKernel(e, x)
  \/ FreeBinary(e)

Terminated == aborted \/ \A e \in Executables : stage[e] = "gone"
Stop       == Terminated /\ UNCHANGED vars

Next ==
  \/ \E e \in Executables : \/ \E a \in Addresses : Create(e, a)
                            \/ Destroy(e)
                            \/ Destructor(e)
  \/ \E r \in Runs : Start(r) \/ Step(r)
  \/ Stop

\* Host threads are scheduled; what the client does next is its own choice.
Fairness == /\ \A r \in Runs : WF_vars(Step(r))
            /\ \A e \in Executables : WF_vars(Destructor(e))
Spec == Init /\ [][Next]_vars /\ Fairness

-----------------------------------------------------------------------------
(* Properties.                                                             *)

\* The owners of the module loaded for address a: kernels, scoped handles,
\* and the handle of a run that is still resolving constants.
Owners(x, a) ==
  Cardinality({t \in kernels[x] : addr[t[1]] = a})
  + Cardinality({e \in handles[x] : addr[e] = a})
  + Cardinality({r \in Runs : pc[r] = "constants" /\ On(r) = x /\ handle[r] = a})

\* The reference count of a module is the number of its owners plus the
\* handles that failed resolutions lost, however runs, resolutions and
\* destructors of several executables interleave, and a module is loaded
\* exactly as long as it is counted (LoadModuleFromSpir, UnloadGpuBinary).
RefcountIsOwners ==
  \A x \in Executors, a \in Addresses :
    /\ refcount[x][a] = Owners(x, a) + lost[x][a]
    /\ module[x][a] # None <=> refcount[x][a] > 0

\* A cached kernel executes the code of its own executable, and the module it
\* comes from stays loaded for as long as the kernel is cached, unless a
\* failed resolution left a module behind at the binary's address.
KernelsRunOwnCode ==
  \A x \in Executors : \A t \in ThunkIds :
    code[x][t] # None =>
      /\ module[x][addr[t[1]]] = code[x][t]
      /\ lost[x][addr[t[1]]] = 0 => code[x][t] = t[1]

\* As long as an executable is resolved, each constant it got from
\* CreateOrShareConstant is allocated and holds the constant's content,
\* whoever created it and whichever executables sharing it are destroyed; the
\* memory of a constant that no executable shares any more is given back.
ConstantsStayAllocated ==
  \A x \in Executors :
    /\ \A e \in Executables : \A p \in shared[x][e] :
         memory[x][p[2]] = Constants[e][p[1]].content
    /\ \A m \in Allocs :
         memory[x][m] # None => \E e \in Executables : \E p \in shared[x][e] : p[2] = m

\* A run that has started returns, with a result or an error: the mutexes of
\* executables and thunks never leave everybody waiting.
EveryRunReturns ==
  \A r \in Runs : pc[r] = "resolve" ~> (pc[r] \in {"done", "failed"} \/ aborted)
=============================================================================
