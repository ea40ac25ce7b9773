-------------------------- MODULE GpuExecutorProofs --------------------------
(***************************************************************************)
(* Proofs about GpuExecutor, for any executors, executables, addresses and *)
(* concurrent runs: a module's reference count is the number of its        *)
(* owners, cached kernels run their own executable's code, and shared      *)
(* constants stay allocated as long as an executable shares them.          *)
(***************************************************************************)
EXTENDS GpuExecutor, FiniteSetTheorems, TLAPS

TypeOK ==
  /\ stage \in [Executables -> {"none", "alive", "destructor", "gone"}]
  /\ addr \in [Executables -> Addresses \cup {None}]
  /\ mutex \in [Executables -> Runs \cup {None}]
  /\ module \in [Executors -> [Addresses -> Executables \cup {None}]]
  /\ refcount \in [Executors -> [Addresses -> Nat]]
  /\ kernels \in [Executors -> SUBSET ThunkIds]
  /\ code \in [Executors -> [ThunkIds -> Executables \cup {None}]]
  /\ handles \in [Executors -> SUBSET Executables]
  /\ pc \in [Runs -> {"idle", "resolve", "constants", "initialize", "function",
                      "done", "failed"}]
  /\ at \in [Runs -> Nat]
  /\ handle \in [Runs -> Addresses \cup {None}]
  /\ lost \in [Executors -> [Addresses -> Nat]]

Live(e) == stage[e] \in {"alive", "destructor"}

\* Live binaries lie apart; only live executables are run, have kernels or
\* hold module handles.
LiveOnly ==
  /\ \A e \in Executables : Live(e) => addr[e] \in Addresses
  /\ \A e, f \in Executables : Live(e) /\ Live(f) /\ addr[e] = addr[f] => e = f
  /\ \A r \in Runs : ~Finished(r) => stage[Exe(r)] = "alive"
  /\ \A x \in Executors : \A t \in kernels[x] : Live(t[1])
  /\ \A x \in Executors : \A e \in handles[x] : Live(e)

\* A run that resolves constants has the executable's mutex, and the handle
\* of its module; nobody has resolved them before.
Resolving ==
  \A r \in Runs : pc[r] = "constants" =>
    /\ mutex[Exe(r)] = r
    /\ handle[r] = addr[Exe(r)]
    /\ Exe(r) \notin handles[On(r)]

\* A thunk has a kernel on an executor when its code is cached, or when a run
\* has loaded the module and is about to look the function up.
Loading ==
  /\ \A r \in Runs : pc[r] = "function" =>
       handle[r] = addr[Exe(r)] /\ Thunk(r) \in kernels[On(r)]
  /\ \A x \in Executors : \A t \in kernels[x] :
       \/ code[x][t] # None
       \/ \E r \in Runs : pc[r] = "function" /\ On(r) = x /\ Thunk(r) = t

\* The owners of the module at an address, as sets.
KernelsAt(x, a)   == {t \in kernels[x] : addr[t[1]] = a}
HandlesAt(x, a)   == {e \in handles[x] : addr[e] = a}
ResolvingAt(x, a) == {r \in Runs : pc[r] = "constants" /\ On(r) = x /\ handle[r] = a}

CountedAt(x, a) ==
  /\ IsFiniteSet(KernelsAt(x, a)) /\ IsFiniteSet(HandlesAt(x, a))
  /\ IsFiniteSet(ResolvingAt(x, a))
  /\ refcount[x][a] = Cardinality(KernelsAt(x, a)) + Cardinality(HandlesAt(x, a))
                        + Cardinality(ResolvingAt(x, a)) + lost[x][a]
  /\ module[x][a] # None <=> refcount[x][a] > 0
Counted == \A x \in Executors, a \in Addresses : CountedAt(x, a)

\* Cached code is a kernel's, and is the module of the kernel's binary.
CodeOfModule ==
  \A x \in Executors : \A t \in ThunkIds : code[x][t] # None =>
    t \in kernels[x] /\ module[x][addr[t[1]]] = code[x][t]

\* Without lost handles, a module is that of the live binary at its address.
ModuleOfBinary ==
  \A x \in Executors, a \in Addresses :
    module[x][a] # None /\ lost[x][a] = 0 =>
      Live(module[x][a]) /\ addr[module[x][a]] = a

IInv == /\ TypeOK /\ LiveOnly /\ Resolving /\ Loading
        /\ Counted /\ CodeOfModule /\ ModuleOfBinary

\* The memory of the shared constants: an entry of the executor's cache that
\* has not expired leads to memory with its content, memory that an executable
\* shares holds the content of its constant, and memory is shared or free.
ConstantTypes ==
  /\ weak \in [Executors -> [Contents -> Allocs \cup {None}]]
  /\ memory \in [Executors -> [Allocs -> Contents \cup {None}]]
  /\ shared \in [Executors -> [Executables -> SUBSET (Nat \X Allocs)]]
CacheLeadsToContent(x) ==
  \A c \in Contents : weak[x][c] # None => memory[x][weak[x][c]] = c
SharedAreContent(x) ==
  \A e \in Executables : \A p \in shared[x][e] :
    /\ Constants[e][p[1]].content \in Contents
    /\ memory[x][p[2]] = Constants[e][p[1]].content
AllocatedAreShared(x) ==
  \A m \in Allocs : memory[x][m] # None => Owned(shared[x], m)
ConstantsInv ==
  /\ ConstantTypes
  /\ \A x \in Executors :
       CacheLeadsToContent(x) /\ SharedAreContent(x) /\ AllocatedAreShared(x)
-----------------------------------------------------------------------------
(* The jobs, and types.                                                    *)

LEMMA RunFacts == ASSUME NEW r \in Runs
                  PROVE  Exe(r) \in Executables /\ On(r) \in Executors
<1> QED BY JobAssumption DEF Exe, On

LEMMA ThunkFacts ==
  ASSUME NEW t \in ThunkIds
  PROVE  t[1] \in Executables
<1> QED BY DEF ThunkIds

\* Where an active run's binary lies, and the thunk it has come to.
LEMMA ActiveFacts ==
  ASSUME TypeOK, LiveOnly, NEW r \in Runs, ~Finished(r)
  PROVE  /\ Exe(r) \in Executables /\ On(r) \in Executors
         /\ stage[Exe(r)] = "alive" /\ Live(Exe(r)) /\ addr[Exe(r)] \in Addresses
         /\ at[r] \in Thunks(Exe(r)) => Thunk(r) \in ThunkIds
         /\ Thunk(r)[1] = Exe(r)
<1>1. Exe(r) \in Executables /\ On(r) \in Executors
  BY RunFacts
<1>2. stage[Exe(r)] = "alive" /\ Live(Exe(r)) /\ addr[Exe(r)] \in Addresses
  BY <1>1 DEF LiveOnly, Live
<1>3. at[r] \in Thunks(Exe(r)) => Thunk(r) \in ThunkIds
  BY <1>1 DEF Thunk, ThunkIds
<1> QED BY <1>1, <1>2, <1>3 DEF Thunk

LEMMA TypeInit == Init => TypeOK
<1> QED BY DEF Init, TypeOK

\* LoadModuleFromSpir and UnloadGpuBinary keep the types of the table.
LEMMA TableTypes ==
  ASSUME TypeOK, NEW x \in Executors, NEW e \in Executables, addr[e] \in Addresses,
         LoadModuleFromSpir(x, e) \/ UnloadGpuBinary(x, addr[e])
  PROVE  /\ module' \in [Executors -> [Addresses -> Executables \cup {None}]]
         /\ refcount' \in [Executors -> [Addresses -> Nat]]
<1>1. PICK a \in Addresses : a = addr[e]
  OBVIOUS
<1>2. /\ refcount \in [Executors -> [Addresses -> Nat]]
      /\ module \in [Executors -> [Addresses -> Executables \cup {None}]]
  BY DEF TypeOK
<1>3. PICK n \in Nat : refcount' = [refcount EXCEPT ![x][a] = n]
  <2>1. CASE LoadModuleFromSpir(x, e) /\ module[x][a] = None
    BY <1>1, <2>1 DEF LoadModuleFromSpir
  <2>2. CASE LoadModuleFromSpir(x, e) /\ module[x][a] # None
    <3>1. refcount' = [refcount EXCEPT ![x][a] = refcount[x][a] + 1]
      BY <1>1, <2>2 DEF LoadModuleFromSpir
    <3>2. refcount[x][a] + 1 \in Nat
      BY <1>2
    <3> QED BY <3>1, <3>2
  <2>3. CASE UnloadGpuBinary(x, addr[e]) /\ refcount[x][a] = 0
    <3>1. refcount' = [refcount EXCEPT ![x][a] = 0]
      BY <1>1, <2>3 DEF UnloadGpuBinary
    <3> QED BY <3>1
  <2>4. CASE UnloadGpuBinary(x, addr[e]) /\ refcount[x][a] # 0
    <3>1. refcount' = [refcount EXCEPT ![x][a] = refcount[x][a] - 1]
      BY <1>1, <2>4 DEF UnloadGpuBinary
    <3>2. refcount[x][a] - 1 \in Nat
      BY <1>2, <2>4
    <3> QED BY <3>1, <3>2
  <2> QED BY <2>1, <2>2, <2>3, <2>4
<1>4. \/ module' = module
      \/ \E m \in Executables \cup {None} : module' = [module EXCEPT ![x][a] = m]
  <2>1. CASE LoadModuleFromSpir(x, e)
    BY <1>1, <2>1 DEF LoadModuleFromSpir
  <2>2. CASE UnloadGpuBinary(x, addr[e]) /\ refcount[x][a] <= 1
    BY <1>1, <2>2 DEF UnloadGpuBinary
  <2>3. CASE UnloadGpuBinary(x, addr[e]) /\ ~(refcount[x][a] <= 1)
    <3>1. module' = [module EXCEPT ![x][a] = module[x][a]]
      BY <1>1, <2>3 DEF UnloadGpuBinary
    <3>2. module[x][a] \in Executables \cup {None}
      BY <1>2
    <3> QED BY <3>1, <3>2
  <2> QED BY <2>1, <2>2, <2>3
<1>5. module' \in [Executors -> [Addresses -> Executables \cup {None}]]
  <2>1. ASSUME NEW m \in Executables \cup {None}, module' = [module EXCEPT ![x][a] = m]
        PROVE  module' \in [Executors -> [Addresses -> Executables \cup {None}]]
    BY <1>2, <2>1
  <2> QED BY <1>2, <1>4, <2>1
<1> QED BY <1>2, <1>3, <1>5

LEMMA TypeStep ==
  ASSUME TypeOK, LiveOnly, Resolving, Loading, [Next]_vars
  PROVE  TypeOK'
<1>1. ASSUME NEW e \in Executables, NEW a \in Addresses, Create(e, a) PROVE TypeOK'
  BY <1>1 DEF Create, TypeOK, tables
<1>2. ASSUME NEW r \in Runs, Start(r) PROVE TypeOK'
  BY <1>2 DEF Start, TypeOK, tables
<1>3. ASSUME NEW r \in Runs, FindGlobals(r) PROVE TypeOK'
  BY <1>3 DEF FindGlobals, TypeOK, tables
<1>4. ASSUME NEW r \in Runs, LoadModule(r) PROVE TypeOK'
  <2>1. Exe(r) \in Executables /\ On(r) \in Executors /\ addr[Exe(r)] \in Addresses
    BY <1>4, ActiveFacts DEF LoadModule, Finished
  <2>2. /\ module' \in [Executors -> [Addresses -> Executables \cup {None}]]
        /\ refcount' \in [Executors -> [Addresses -> Nat]]
    BY <1>4, <2>1, TableTypes DEF LoadModule
  <2> QED BY <1>4, <2>1, <2>2 DEF LoadModule, TypeOK
<1>5. ASSUME NEW r \in Runs, UseSymbol(r) \/ ShareConstant(r) \/ CreateConstant(r)
                             \/ FindKernel(r)
      PROVE  TypeOK'
  <2>1. at' = [at EXCEPT ![r] = @ + 1]
    BY <1>5 DEF UseSymbol, ShareConstant, CreateConstant, FindKernel
  <2>2. UNCHANGED <<stage, addr, mutex, tables, code, handles, pc, handle, lost>>
    BY <1>5 DEF UseSymbol, ShareConstant, CreateConstant, FindKernel
  <2> QED BY <2>1, <2>2 DEF TypeOK, tables
<1>6. ASSUME NEW r \in Runs, FailConstant(r) PROVE TypeOK'
  <2>1. pc[r] = "constants"
    BY <1>6 DEF FailConstant, NeedsAllocation, HasConstant
  <2>2. Exe(r) \in Executables /\ On(r) \in Executors /\ addr[Exe(r)] \in Addresses
    BY <2>1, ActiveFacts DEF Finished
  <2>3. handle[r] \in Addresses
    BY <2>1, <2>2 DEF Resolving
  <2> QED BY <1>6, <2>2, <2>3 DEF FailConstant, TypeOK, tables
<1>7. ASSUME NEW r \in Runs, EmplaceGlobals(r) PROVE TypeOK'
  BY <1>7, RunFacts DEF EmplaceGlobals, TypeOK, tables
<1>8. ASSUME NEW r \in Runs, GetKernel(r) PROVE TypeOK'
  <2>1. /\ Exe(r) \in Executables /\ On(r) \in Executors /\ addr[Exe(r)] \in Addresses
        /\ Thunk(r) \in ThunkIds
    BY <1>8, ActiveFacts DEF GetKernel, Finished
  <2>2. /\ module' \in [Executors -> [Addresses -> Executables \cup {None}]]
        /\ refcount' \in [Executors -> [Addresses -> Nat]]
    BY <1>8, <2>1, TableTypes DEF GetKernel
  <2> QED BY <1>8, <2>1, <2>2 DEF GetKernel, TypeOK
<1>9. ASSUME NEW r \in Runs, GetModuleFunction(r) PROVE TypeOK'
  <2>1. Exe(r) \in Executables /\ On(r) \in Executors /\ addr[Exe(r)] \in Addresses
    BY <1>9, ActiveFacts DEF GetModuleFunction, Finished
  <2>2. handle[r] \in Addresses /\ Thunk(r) \in ThunkIds
    BY <1>9, <2>1 DEF GetModuleFunction, Loading, TypeOK
  <2> QED BY <1>9, <2>1, <2>2 DEF GetModuleFunction, TypeOK, tables
<1>10. ASSUME NEW r \in Runs, NoSuchKernel(r) \/ Execute(r) PROVE TypeOK'
  BY <1>10 DEF NoSuchKernel, Execute, TypeOK, tables
<1>11. ASSUME NEW e \in Executables, Destroy(e) \/ FreeBinary(e) PROVE TypeOK'
  BY <1>11 DEF Destroy, FreeBinary, TypeOK, tables
<1>12. ASSUME NEW e \in Executables, NEW x \in Executors, ReleaseConstant(e, x)
       PROVE  TypeOK'
  BY <1>12 DEF ReleaseConstant, TypeOK, tables
<1>13. ASSUME NEW e \in Executables, NEW x \in Executors,
              UnloadModule(e, x) \/ UnloadKernel(e, x)
       PROVE  TypeOK'
  <2>1. addr[e] \in Addresses
    BY <1>13 DEF UnloadModule, UnloadKernel, Destructing, LiveOnly, Live
  <2>2. UnloadGpuBinary(x, addr[e])
    BY <1>13 DEF UnloadModule, UnloadKernel
  <2>3. /\ module' \in [Executors -> [Addresses -> Executables \cup {None}]]
        /\ refcount' \in [Executors -> [Addresses -> Nat]]
    BY <2>1, <2>2, TableTypes
  <2>4. CASE UnloadModule(e, x)
    BY <2>3, <2>4 DEF UnloadModule, TypeOK
  <2>5. CASE UnloadKernel(e, x)
    <3>1. PICK t \in KernelsOf(x, e) :
            /\ kernels' = [kernels EXCEPT ![x] = @ \ {t}]
            /\ code' = [code EXCEPT ![x][t] = None]
      BY <2>5 DEF UnloadKernel
    <3> QED BY <2>3, <2>5, <3>1 DEF UnloadKernel, TypeOK
  <2> QED BY <1>13, <2>4, <2>5
<1>14. CASE UNCHANGED vars
  BY <1>14 DEF vars, TypeOK
<1> QED BY <1>1, <1>2, <1>3, <1>4, <1>5, <1>6, <1>7, <1>8, <1>9, <1>10, <1>11, <1>12,
           <1>13, <1>14 DEF Next, Step, Destructor, Stop
-----------------------------------------------------------------------------
(* Who uses what.                                                          *)

LEMMA LiveOnlyStep ==
  ASSUME TypeOK, LiveOnly, [Next]_vars
  PROVE  LiveOnly'
<1>0. \A r \in Runs : Exe(r) \in Executables /\ On(r) \in Executors
  BY RunFacts
<1>1. ASSUME NEW e \in Executables, NEW a \in Addresses, Create(e, a) PROVE LiveOnly'
  <2>1. /\ stage[e] = "none" /\ stage' = [stage EXCEPT ![e] = "alive"]
        /\ addr' = [addr EXCEPT ![e] = a]
        /\ \A f \in Executables : Live(f) => addr[f] # a
        /\ UNCHANGED <<pc, kernels, handles>>
    BY <1>1 DEF Create, Live, tables
  <2>2. /\ Live(e)' /\ addr'[e] = a
        /\ \A f \in Executables : f # e =>
             (Live(f)' <=> Live(f)) /\ addr'[f] = addr[f] /\ stage'[f] = stage[f]
    BY <2>1 DEF Live, TypeOK
  <2>3. ~Live(e)
    BY <2>1 DEF Live
  <2>4. /\ \A x \in Executors : \A t \in kernels[x] : t[1] \in Executables /\ Live(t[1])
        /\ \A x \in Executors : \A f \in handles[x] : f \in Executables /\ Live(f)
    BY ThunkFacts DEF LiveOnly, TypeOK
  <2>5. \A r \in Runs : ~Finished(r)' => stage'[Exe(r)] = "alive"
    BY <1>0, <2>1, <2>2, <2>3 DEF LiveOnly, Finished, Live
  <2>6. /\ \A x \in Executors : \A t \in kernels'[x] : Live(t[1])'
        /\ \A x \in Executors : \A f \in handles'[x] : Live(f)'
    BY <2>1, <2>2, <2>3, <2>4
  <2>7. /\ \A f \in Executables : Live(f)' => addr'[f] \in Addresses
        /\ \A f, g \in Executables : Live(f)' /\ Live(g)' /\ addr'[f] = addr'[g] => f = g
    BY <2>1, <2>2 DEF LiveOnly
  <2> QED BY <2>5, <2>6, <2>7 DEF LiveOnly
<1>2. ASSUME UNCHANGED <<stage, addr>>,
             \A x \in Executors : \A t \in kernels'[x] : t \in kernels[x] \/ Live(t[1]),
             \A x \in Executors : \A e \in handles'[x] : e \in handles[x] \/ Live(e),
             \A r \in Runs : ~Finished(r)' => ~Finished(r) \/ stage[Exe(r)] = "alive"
      PROVE  LiveOnly'
  <2>1. \A e : Live(e)' <=> Live(e)
    BY <1>2 DEF Live
  <2> QED BY <1>2, <2>1 DEF LiveOnly
<1>3. ASSUME NEW r \in Runs, Start(r) PROVE LiveOnly'
  <2>1. /\ UNCHANGED <<stage, addr, kernels, handles>> /\ stage[Exe(r)] = "alive"
        /\ pc' = [pc EXCEPT ![r] = "resolve"]
    BY <1>3 DEF Start, tables
  <2>2. \A s \in Runs : ~Finished(s)' => ~Finished(s) \/ stage[Exe(s)] = "alive"
    BY <2>1 DEF Finished, TypeOK
  <2> QED BY <1>2, <2>1, <2>2
<1>4. ASSUME NEW r \in Runs, Step(r) PROVE LiveOnly'
  <2>1. UNCHANGED <<stage, addr>>
    BY <1>4 DEF Step, FindGlobals, LoadModule, UseSymbol, ShareConstant, CreateConstant,
                FailConstant, EmplaceGlobals, FindKernel, GetKernel, GetModuleFunction,
                NoSuchKernel, Execute
  <2>2. ~Finished(r)
    BY <1>4 DEF Step, FindGlobals, LoadModule, UseSymbol, ShareConstant, CreateConstant,
                FailConstant, EmplaceGlobals, FindKernel, GetKernel, GetModuleFunction,
                NoSuchKernel, Execute, NeedsAllocation, HasConstant, Finished
  <2>3. \A s \in Runs : s # r => pc'[s] = pc[s]
    BY <1>4 DEF Step, FindGlobals, LoadModule, UseSymbol, ShareConstant, CreateConstant,
                FailConstant, EmplaceGlobals, FindKernel, GetKernel, GetModuleFunction,
                NoSuchKernel, Execute, TypeOK
  <2>4. \A s \in Runs : ~Finished(s)' => ~Finished(s)
    BY <2>2, <2>3 DEF Finished
  <2>5. Live(Exe(r)) /\ Exe(r) \in Executables /\ On(r) \in Executors /\ Thunk(r)[1] = Exe(r)
    BY <2>2, ActiveFacts
  <2>6. /\ \A x \in Executors : \A t \in kernels'[x] : t \in kernels[x] \/ t = Thunk(r)
        /\ \A x \in Executors : \A e \in handles'[x] : e \in handles[x] \/ e = Exe(r)
    <3>1. /\ EmplaceGlobals(r) \/ handles' = handles
          /\ GetKernel(r) \/ kernels' = kernels
      BY <1>4 DEF Step, FindGlobals, LoadModule, UseSymbol, ShareConstant,
                  CreateConstant, FailConstant, EmplaceGlobals, FindKernel, GetKernel,
                  GetModuleFunction, NoSuchKernel, Execute, tables
    <3>2. EmplaceGlobals(r) =>
            \A x \in Executors : \A e \in handles'[x] : e \in handles[x] \/ e = Exe(r)
      BY <2>5 DEF EmplaceGlobals, TypeOK
    <3>3. GetKernel(r) =>
            \A x \in Executors : \A t \in kernels'[x] : t \in kernels[x] \/ t = Thunk(r)
      BY <2>5 DEF GetKernel, TypeOK
    <3> QED BY <3>1, <3>2, <3>3
  <2> QED BY <1>2, <2>1, <2>4, <2>5, <2>6
<1>5. ASSUME NEW e \in Executables, Destroy(e) PROVE LiveOnly'
  <2>1. /\ stage[e] = "alive" /\ Unused(e) /\ stage' = [stage EXCEPT ![e] = "destructor"]
        /\ UNCHANGED <<addr, pc, kernels, handles>>
    BY <1>5 DEF Destroy, tables
  <2>2. \A f \in Executables : /\ Live(f)' <=> Live(f)
                               /\ f # e => stage'[f] = stage[f]
    BY <2>1 DEF Live, TypeOK
  <2>3. \A r \in Runs : ~Finished(r)' => stage'[Exe(r)] = "alive"
    BY <1>0, <2>1, <2>2 DEF LiveOnly, Finished, Unused
  <2>4. /\ \A x \in Executors : \A t \in kernels'[x] : Live(t[1])'
        /\ \A x \in Executors : \A f \in handles'[x] : Live(f)'
    BY <2>1, <2>2, ThunkFacts DEF LiveOnly, TypeOK
  <2> QED BY <2>1, <2>2, <2>3, <2>4 DEF LiveOnly
<1>6. ASSUME NEW e \in Executables, NEW x \in Executors,
             ReleaseConstant(e, x) \/ UnloadModule(e, x) \/ UnloadKernel(e, x)
      PROVE  LiveOnly'
  <2>1. UNCHANGED <<stage, addr, pc>>
    BY <1>6 DEF ReleaseConstant, UnloadModule, UnloadKernel
  <2>2. /\ \A y \in Executors : kernels'[y] \subseteq kernels[y]
        /\ \A y \in Executors : handles'[y] \subseteq handles[y]
    <3>1. CASE ReleaseConstant(e, x)
      BY <3>1 DEF ReleaseConstant, tables
    <3>2. CASE UnloadModule(e, x)
      BY <3>2 DEF UnloadModule, TypeOK
    <3>3. CASE UnloadKernel(e, x)
      BY <3>3 DEF UnloadKernel, TypeOK
    <3> QED BY <1>6, <3>1, <3>2, <3>3
  <2> QED BY <1>2, <2>1, <2>2 DEF Finished
<1>7. ASSUME NEW e \in Executables, FreeBinary(e) PROVE LiveOnly'
  <2>1. /\ stage[e] = "destructor" /\ stage' = [stage EXCEPT ![e] = "gone"]
        /\ \A x \in Executors : e \notin handles[x] /\ KernelsOf(x, e) = {}
        /\ UNCHANGED <<addr, pc, kernels, handles>>
    BY <1>7 DEF FreeBinary, Destructing, HoldsHandles, tables
  <2>2. ~Live(e)' /\ \A f \in Executables : f # e => (Live(f)' <=> Live(f)) /\ stage'[f] = stage[f]
    BY <2>1 DEF Live, TypeOK
  <2>3. \A r \in Runs : ~Finished(r)' => stage'[Exe(r)] = "alive"
    BY <1>0, <2>1, <2>2 DEF LiveOnly, Finished
  <2>4. \A x \in Executors : \A t \in kernels'[x] : Live(t[1])'
    BY <2>1, <2>2, ThunkFacts DEF LiveOnly, TypeOK, KernelsOf
  <2>5. \A x \in Executors : \A f \in handles'[x] : Live(f)'
    BY <2>1, <2>2 DEF LiveOnly, TypeOK
  <2> QED BY <2>1, <2>2, <2>3, <2>4, <2>5 DEF LiveOnly
<1>8. CASE UNCHANGED vars
  BY <1>2, <1>8 DEF vars, Finished
<1> QED BY <1>1, <1>3, <1>4, <1>5, <1>6, <1>7, <1>8 DEF Next, Destructor, Stop

LEMMA ResolvingStep ==
  ASSUME TypeOK, LiveOnly, Resolving, [Next]_vars
  PROVE  Resolving'
<1>0. \A r \in Runs : Exe(r) \in Executables /\ On(r) \in Executors /\ r # None
  BY RunFacts, NoneAssumption
<1>1. ASSUME NEW e \in Executables, NEW a \in Addresses, Create(e, a) PROVE Resolving'
  <2>1. \A r \in Runs : pc[r] = "constants" => Exe(r) # e
    BY <1>1 DEF Create, LiveOnly, Finished
  <2> QED BY <1>0, <1>1, <2>1 DEF Create, Resolving, TypeOK, tables
<1>2. ASSUME NEW r \in Runs, LoadModule(r) PROVE Resolving'
  <2>1. /\ mutex[Exe(r)] = None /\ Exe(r) \notin handles[On(r)]
        /\ mutex' = [mutex EXCEPT ![Exe(r)] = r]
        /\ handle' = [handle EXCEPT ![r] = addr[Exe(r)]]
        /\ pc' = [pc EXCEPT ![r] = "constants"]
        /\ UNCHANGED <<addr, handles>>
    BY <1>2 DEF LoadModule
  <2>2. \A s \in Runs : pc[s] = "constants" => Exe(s) # Exe(r)
    BY <1>0, <2>1 DEF Resolving
  <2> QED BY <1>0, <2>1, <2>2 DEF Resolving, TypeOK
<1>3. ASSUME NEW r \in Runs, FailConstant(r) \/ EmplaceGlobals(r) PROVE Resolving'
  <2>1. /\ pc[r] = "constants"
        /\ mutex' = [mutex EXCEPT ![Exe(r)] = None]
        /\ handle' = [handle EXCEPT ![r] = None]
        /\ \E s \in {"failed", "initialize"} : pc' = [pc EXCEPT ![r] = s]
        /\ addr' = addr
        /\ \/ handles' = handles
           \/ handles' = [handles EXCEPT ![On(r)] = @ \cup {Exe(r)}]
    BY <1>3 DEF FailConstant, EmplaceGlobals, NeedsAllocation, HasConstant
  <2>2. \A s \in Runs : pc[s] = "constants" /\ s # r => Exe(s) # Exe(r)
    BY <2>1 DEF Resolving
  <2>3. \A x \in Executors : handles'[x] \subseteq handles[x] \cup {Exe(r)}
    BY <1>0, <2>1 DEF TypeOK
  <2>4. \A s \in Runs : pc'[s] = "constants" =>
          /\ s # r /\ pc[s] = "constants" /\ handle'[s] = handle[s]
    BY <2>1 DEF TypeOK
  <2>5. \A e \in Executables : e # Exe(r) => mutex'[e] = mutex[e]
    BY <2>1 DEF TypeOK
  <2> QED BY <1>0, <2>1, <2>2, <2>3, <2>4, <2>5 DEF Resolving
<1>4. ASSUME UNCHANGED <<mutex, addr>>,
             \A x \in Executors : handles'[x] \subseteq handles[x],
             \A r \in Runs : pc'[r] = "constants" =>
               pc[r] = "constants" /\ handle'[r] = handle[r]
      PROVE  Resolving'
  BY <1>0, <1>4 DEF Resolving
<1>5. ASSUME NEW r \in Runs, GetKernel(r) \/ GetModuleFunction(r) PROVE Resolving'
  <2>1. /\ UNCHANGED <<mutex, addr, handles>> /\ pc[r] # "constants"
        /\ \E s \in {"function", "initialize"} : pc' = [pc EXCEPT ![r] = s]
        /\ \E h : handle' = [handle EXCEPT ![r] = h]
    BY <1>5 DEF GetKernel, GetModuleFunction, tables
  <2>2. \A s \in Runs : pc'[s] = "constants" =>
          pc[s] = "constants" /\ handle'[s] = handle[s]
    BY <2>1 DEF TypeOK
  <2> QED BY <1>4, <2>1, <2>2
<1>6. ASSUME NEW r \in Runs, Start(r) \/ FindGlobals(r) \/ Execute(r) PROVE Resolving'
  <2>1. /\ UNCHANGED <<mutex, addr, handles, handle>>
        /\ \E s \in {"resolve", "initialize", "done"} : pc' = [pc EXCEPT ![r] = s]
    BY <1>6 DEF Start, FindGlobals, Execute
  <2>2. \A s \in Runs : pc'[s] = "constants" => pc[s] = "constants"
    BY <2>1 DEF TypeOK
  <2> QED BY <1>4, <2>1, <2>2
<1>7. ASSUME NEW r \in Runs, UseSymbol(r) \/ ShareConstant(r) \/ CreateConstant(r)
                             \/ FindKernel(r) \/ NoSuchKernel(r)
      PROVE  Resolving'
  BY <1>4, <1>7 DEF UseSymbol, ShareConstant, CreateConstant, FindKernel, NoSuchKernel
<1>8. ASSUME NEW e \in Executables, Destroy(e) \/ FreeBinary(e) PROVE Resolving'
  BY <1>4, <1>8 DEF Destroy, FreeBinary
<1>9. ASSUME NEW e \in Executables, NEW x \in Executors,
             ReleaseConstant(e, x) \/ UnloadKernel(e, x)
      PROVE  Resolving'
  BY <1>4, <1>9 DEF ReleaseConstant, UnloadKernel
<1>10. ASSUME NEW e \in Executables, NEW x \in Executors, UnloadModule(e, x)
       PROVE  Resolving'
  <2>1. \A y \in Executors : handles'[y] \subseteq handles[y]
    BY <1>10 DEF UnloadModule, TypeOK
  <2> QED BY <1>4, <1>10, <2>1 DEF UnloadModule
<1>11. CASE UNCHANGED vars
  BY <1>4, <1>11 DEF vars
<1> QED BY <1>1, <1>2, <1>3, <1>5, <1>6, <1>7, <1>8, <1>9, <1>10, <1>11
        DEF Next, Step, Destructor, Stop
-----------------------------------------------------------------------------
(* The table of modules.                                                   *)

\* What LoadModuleFromSpir does to the entries.
LEMMA LoadEffect ==
  ASSUME TypeOK, NEW x \in Executors, NEW e \in Executables, NEW a \in Addresses,
         a = addr[e], LoadModuleFromSpir(x, e)
  PROVE  /\ \A y \in Executors, b \in Addresses : y # x \/ b # a =>
              module'[y][b] = module[y][b] /\ refcount'[y][b] = refcount[y][b]
         /\ module[x][a] = None => module'[x][a] = e /\ refcount'[x][a] = 1
         /\ module[x][a] # None => /\ module'[x][a] = module[x][a]
                                  /\ refcount'[x][a] = refcount[x][a] + 1
<1>1. CASE module[x][a] = None
  <2>1. /\ module' = [module EXCEPT ![x][a] = e]
        /\ refcount' = [refcount EXCEPT ![x][a] = 1]
    BY <1>1 DEF LoadModuleFromSpir
  <2> QED BY <1>1, <2>1 DEF TypeOK
<1>2. CASE module[x][a] # None
  <2>1. /\ module' = module
        /\ refcount' = [refcount EXCEPT ![x][a] = refcount[x][a] + 1]
    BY <1>2 DEF LoadModuleFromSpir
  <2> QED BY <1>2, <2>1 DEF TypeOK
<1> QED BY <1>1, <1>2

\* What UnloadGpuBinary does to an entry that is counted.
LEMMA UnloadEffect ==
  ASSUME TypeOK, NEW x \in Executors, NEW a \in Addresses, UnloadGpuBinary(x, a),
         refcount[x][a] > 0
  PROVE  /\ \A y \in Executors, b \in Addresses : y # x \/ b # a =>
              module'[y][b] = module[y][b] /\ refcount'[y][b] = refcount[y][b]
         /\ refcount'[x][a] = refcount[x][a] - 1
         /\ refcount[x][a] = 1 => module'[x][a] = None
         /\ refcount[x][a] # 1 => module'[x][a] = module[x][a]
<1>1. refcount[x][a] \in Nat
  BY DEF TypeOK
<1>2. refcount' = [refcount EXCEPT ![x][a] = refcount[x][a] - 1]
  <2>1. refcount[x][a] # 0
    BY <1>1
  <2> QED BY <2>1 DEF UnloadGpuBinary
<1>3. CASE refcount[x][a] = 1
  <2>1. module' = [module EXCEPT ![x][a] = None]
    BY <1>3 DEF UnloadGpuBinary
  <2> QED BY <1>2, <1>3, <2>1 DEF TypeOK
<1>4. CASE refcount[x][a] # 1
  <2>1. module' = [module EXCEPT ![x][a] = module[x][a]]
    <3>1. ~(refcount[x][a] <= 1)
      BY <1>1, <1>4
    <3> QED BY <3>1 DEF UnloadGpuBinary
  <2> QED BY <1>2, <1>4, <2>1 DEF TypeOK
<1> QED BY <1>3, <1>4

\* A module that has an owner is counted and loaded.
LEMMA OwnedIsLoaded ==
  ASSUME TypeOK, Counted, NEW x \in Executors, NEW a \in Addresses,
         KernelsAt(x, a) # {} \/ HandlesAt(x, a) # {} \/ ResolvingAt(x, a) # {}
  PROVE  refcount[x][a] > 0 /\ module[x][a] # None
<1>1. /\ IsFiniteSet(KernelsAt(x, a)) /\ IsFiniteSet(HandlesAt(x, a))
      /\ IsFiniteSet(ResolvingAt(x, a)) /\ lost[x][a] \in Nat
  BY DEF Counted, CountedAt, TypeOK
<1>2. /\ Cardinality(KernelsAt(x, a)) \in Nat /\ Cardinality(HandlesAt(x, a)) \in Nat
      /\ Cardinality(ResolvingAt(x, a)) \in Nat
  BY <1>1, FS_CardinalityType
<1>3. \/ Cardinality(KernelsAt(x, a)) # 0 \/ Cardinality(HandlesAt(x, a)) # 0
      \/ Cardinality(ResolvingAt(x, a)) # 0
  BY <1>1, FS_EmptySet
<1> QED BY <1>1, <1>2, <1>3 DEF Counted, CountedAt

LEMMA LoadingStep ==
  ASSUME TypeOK, LiveOnly, Loading, Counted, [Next]_vars
  PROVE  Loading'
<1>0. \A r \in Runs : Exe(r) \in Executables /\ On(r) \in Executors
  BY RunFacts
<1>1. ASSUME NEW e \in Executables, NEW a \in Addresses, Create(e, a) PROVE Loading'
  <2>1. \A r \in Runs : pc[r] = "function" => Exe(r) # e
    BY <1>1 DEF Create, LiveOnly, Finished
  <2>2. \A r \in Runs : Thunk(r)' = Thunk(r)
    BY <1>1 DEF Create, Thunk
  <2> QED BY <1>0, <1>1, <2>1, <2>2 DEF Create, Loading, TypeOK, tables
<1>2. ASSUME UNCHANGED <<addr, kernels, code>>,
             \A r \in Runs : pc'[r] = "function" <=> pc[r] = "function",
             \A r \in Runs : pc[r] = "function" => handle'[r] = handle[r] /\ at'[r] = at[r]
      PROVE  Loading'
  <2>1. \A r \in Runs : pc[r] = "function" => Thunk(r)' = Thunk(r)
    BY <1>2 DEF Thunk
  <2> QED BY <1>2, <2>1 DEF Loading
<1>3. ASSUME NEW r \in Runs,
             \/ Start(r) \/ FindGlobals(r) \/ LoadModule(r) \/ UseSymbol(r)
             \/ ShareConstant(r) \/ CreateConstant(r) \/ FailConstant(r)
             \/ EmplaceGlobals(r) \/ FindKernel(r) \/ NoSuchKernel(r) \/ Execute(r)
      PROVE  Loading'
  <2>1. UNCHANGED <<addr, kernels, code>>
    BY <1>3 DEF Start, FindGlobals, LoadModule, UseSymbol, ShareConstant, CreateConstant,
          FailConstant, EmplaceGlobals, FindKernel, NoSuchKernel, Execute, tables
  <2>2. CASE pc' = pc /\ at' = at /\ handle' = handle
    BY <1>2, <2>1, <2>2
  <2>3. CASE pc[r] # "function"
    <3>1. \A s \in Runs : s # r => pc'[s] = pc[s] /\ at'[s] = at[s] /\ handle'[s] = handle[s]
      BY <1>3 DEF Start, FindGlobals, LoadModule, UseSymbol, ShareConstant, CreateConstant,
            FailConstant, EmplaceGlobals, FindKernel, NoSuchKernel, Execute, TypeOK
    <3>2. pc'[r] # "function"
      BY <1>3, <2>3 DEF Start, FindGlobals, LoadModule, UseSymbol, ShareConstant,
            CreateConstant, FailConstant, EmplaceGlobals, FindKernel, NoSuchKernel,
            Execute, TypeOK
    <3> QED BY <1>2, <2>1, <2>3, <3>1, <3>2
  <2>4. NoSuchKernel(r) \/ pc[r] # "function"
    BY <1>3 DEF Start, FindGlobals, LoadModule, UseSymbol, ShareConstant, CreateConstant,
          FailConstant, EmplaceGlobals, FindKernel, Execute, NeedsAllocation, HasConstant
  <2> QED BY <2>2, <2>3, <2>4 DEF NoSuchKernel
<1>4. ASSUME NEW r \in Runs, GetKernel(r) PROVE Loading'
  <2>1. /\ pc[r] = "initialize" /\ UNCHANGED <<addr, code, at>>
        /\ kernels' = [kernels EXCEPT ![On(r)] = @ \cup {Thunk(r)}]
        /\ handle' = [handle EXCEPT ![r] = addr[Exe(r)]]
        /\ pc' = [pc EXCEPT ![r] = "function"]
    BY <1>4 DEF GetKernel
  <2>2. /\ \A s \in Runs : Thunk(s)' = Thunk(s)
        /\ pc'[r] = "function" /\ handle'[r] = addr[Exe(r)]
        /\ \A s \in Runs : s # r => pc'[s] = pc[s] /\ handle'[s] = handle[s]
        /\ \A x \in Executors :
             kernels'[x] = IF x = On(r) THEN kernels[x] \cup {Thunk(r)} ELSE kernels[x]
    BY <1>0, <2>1 DEF Thunk, TypeOK
  <2>3. ASSUME NEW s \in Runs, pc'[s] = "function"
        PROVE  handle'[s] = addr'[Exe(s)] /\ Thunk(s)' \in kernels'[On(s)]
    BY <1>0, <2>1, <2>2, <2>3 DEF Loading
  <2>4. ASSUME NEW x \in Executors, NEW t \in kernels'[x]
        PROVE  \/ code'[x][t] # None
               \/ \E s \in Runs : pc'[s] = "function" /\ On(s) = x /\ Thunk(s)' = t
    <3>1. CASE t \in kernels[x]
      <4>1. \/ code[x][t] # None
            \/ \E s \in Runs : pc[s] = "function" /\ On(s) = x /\ Thunk(s) = t
        BY <3>1 DEF Loading
      <4> QED BY <2>1, <2>2, <4>1
    <3>2. CASE t \notin kernels[x]
      BY <2>2, <2>4, <3>2
    <3> QED BY <3>1, <3>2
  <2> QED BY <2>3, <2>4 DEF Loading
<1>5. ASSUME NEW r \in Runs, GetModuleFunction(r) PROVE Loading'
  <2>1. /\ pc[r] = "function" /\ UNCHANGED <<addr, kernels>>
        /\ code' = [code EXCEPT ![On(r)][Thunk(r)] = module[On(r)][handle[r]]]
        /\ handle' = [handle EXCEPT ![r] = None]
        /\ at' = [at EXCEPT ![r] = @ + 1]
        /\ pc' = [pc EXCEPT ![r] = "initialize"]
    BY <1>5 DEF GetModuleFunction, tables
  <2>2. module[On(r)][handle[r]] # None
    <3>1. handle[r] = addr[Exe(r)] /\ Thunk(r) \in kernels[On(r)]
      BY <2>1 DEF Loading
    <3>2. handle[r] \in Addresses /\ Thunk(r)[1] = Exe(r)
      BY <2>1, <3>1, ActiveFacts DEF Finished
    <3>3. Thunk(r) \in KernelsAt(On(r), handle[r])
      BY <3>1, <3>2 DEF KernelsAt
    <3> QED BY <1>0, <3>2, <3>3, OwnedIsLoaded
  <2>3. \A s \in Runs : s # r => /\ pc'[s] = pc[s] /\ handle'[s] = handle[s]
                                 /\ Thunk(s)' = Thunk(s)
    BY <2>1 DEF TypeOK, Thunk
  <2>4. pc'[r] # "function"
    BY <2>1 DEF TypeOK
  <2>5. ASSUME NEW x \in Executors, NEW t \in kernels[x],
               code[x][t] # None \/ (x = On(r) /\ t = Thunk(r))
        PROVE  code'[x][t] # None
    <3>1. t \in ThunkIds
      BY DEF TypeOK
    <3> QED BY <1>0, <2>1, <2>2, <2>5, <3>1 DEF TypeOK
  <2>6. ASSUME NEW x \in Executors, NEW t \in kernels[x]
        PROVE  \/ code'[x][t] # None
               \/ \E s \in Runs : pc'[s] = "function" /\ On(s) = x /\ Thunk(s)' = t
    <3>1. CASE code[x][t] # None
      BY <2>5, <3>1
    <3>2. CASE code[x][t] = None
      <4>1. PICK s \in Runs : pc[s] = "function" /\ On(s) = x /\ Thunk(s) = t
        BY <3>2 DEF Loading
      <4> QED BY <2>3, <2>5, <4>1
    <3> QED BY <3>1, <3>2
  <2>7. \A s \in Runs : pc'[s] = "function" =>
          handle'[s] = addr'[Exe(s)] /\ Thunk(s)' \in kernels'[On(s)]
    BY <2>1, <2>3, <2>4 DEF Loading
  <2> QED BY <2>1, <2>6, <2>7 DEF Loading
<1>6. ASSUME NEW e \in Executables, Destroy(e) \/ FreeBinary(e) PROVE Loading'
  BY <1>2, <1>6 DEF Destroy, FreeBinary, tables
<1>7. ASSUME NEW e \in Executables, NEW x \in Executors,
             ReleaseConstant(e, x) \/ UnloadModule(e, x)
      PROVE  Loading'
  BY <1>2, <1>7 DEF ReleaseConstant, UnloadModule, tables
<1>8. ASSUME NEW e \in Executables, NEW x \in Executors, UnloadKernel(e, x)
      PROVE  Loading'
  <2>1. PICK t \in KernelsOf(x, e) :
          /\ kernels' = [kernels EXCEPT ![x] = @ \ {t}]
          /\ code' = [code EXCEPT ![x][t] = None]
    BY <1>8 DEF UnloadKernel
  <2>2. stage[e] = "destructor" /\ UNCHANGED <<addr, pc, at, handle>>
    BY <1>8 DEF UnloadKernel, Destructing
  <2>3. t \in kernels[x] /\ t[1] = e /\ t \in ThunkIds
    BY <2>1 DEF KernelsOf, TypeOK
  <2>4. \A s \in Runs : Thunk(s)' = Thunk(s)
    BY <2>2 DEF Thunk
  <2>5. \A s \in Runs : pc[s] = "function" => Thunk(s) # t
    <3> SUFFICES ASSUME NEW s \in Runs, pc[s] = "function", Thunk(s) = t PROVE FALSE
      OBVIOUS
    <3>1. stage[Exe(s)] = "alive" /\ Thunk(s)[1] = Exe(s)
      BY ActiveFacts DEF Finished
    <3> QED BY <2>2, <2>3, <3>1
  <2>6. /\ \A y \in Executors : \A k \in kernels'[y] :
             k \in kernels[y] /\ code'[y][k] = code[y][k]
        /\ \A y \in Executors : \A k \in kernels[y] : k # t => k \in kernels'[y]
    BY <2>1, <2>3 DEF TypeOK
  <2> QED BY <1>0, <2>2, <2>4, <2>5, <2>6 DEF Loading
<1>9. CASE UNCHANGED vars
  BY <1>2, <1>9 DEF vars
<1> QED BY <1>1, <1>3, <1>4, <1>5, <1>6, <1>7, <1>8, <1>9
        DEF Next, Step, Destructor, Stop
-----------------------------------------------------------------------------
(* The reference counts.                                                   *)

\* The numbers at an address are naturals.
LEMMA CountTypes ==
  ASSUME TypeOK, Counted, NEW x \in Executors, NEW a \in Addresses
  PROVE  /\ Cardinality(KernelsAt(x, a)) \in Nat /\ Cardinality(HandlesAt(x, a)) \in Nat
         /\ Cardinality(ResolvingAt(x, a)) \in Nat
         /\ refcount[x][a] \in Nat /\ lost[x][a] \in Nat
<1> QED BY FS_CardinalityType DEF Counted, CountedAt, TypeOK

\* Nothing that is counted changes at an address.
LEMMA NothingCounted ==
  ASSUME Counted, NEW x \in Executors, NEW a \in Addresses,
         module'[x][a] = module[x][a], refcount'[x][a] = refcount[x][a],
         lost'[x][a] = lost[x][a],
         KernelsAt(x, a)' = KernelsAt(x, a), HandlesAt(x, a)' = HandlesAt(x, a),
         ResolvingAt(x, a)' = ResolvingAt(x, a)
  PROVE  CountedAt(x, a)'
<1>1. CountedAt(x, a)
  BY DEF Counted
<1> QED BY <1>1 DEF CountedAt

LEMMA CountedStep ==
  ASSUME TypeOK, LiveOnly, Resolving, Loading, Counted, [Next]_vars
  PROVE  Counted'
<1>0. \A r \in Runs : Exe(r) \in Executables /\ On(r) \in Executors
  BY RunFacts
<1>1. ASSUME NEW e \in Executables, NEW a \in Addresses, Create(e, a) PROVE Counted'
  <2>1. /\ \A f \in Executables : f # e => addr'[f] = addr[f]
        /\ UNCHANGED <<kernels, handles, module, refcount, lost, pc, handle>> /\ ~Live(e)
    BY <1>1 DEF Create, TypeOK, tables, Live
  <2>2. \A x \in Executors, b \in Addresses : KernelsAt(x, b)' = KernelsAt(x, b)
    <3>1. \A x \in Executors : \A t \in kernels[x] : addr'[t[1]] = addr[t[1]]
      BY <2>1, ThunkFacts DEF LiveOnly, TypeOK
    <3> QED BY <2>1, <3>1 DEF KernelsAt
  <2>3. \A x \in Executors, b \in Addresses : HandlesAt(x, b)' = HandlesAt(x, b)
    <3>1. \A x \in Executors : \A f \in handles[x] : addr'[f] = addr[f]
      BY <2>1 DEF LiveOnly, TypeOK
    <3> QED BY <2>1, <3>1 DEF HandlesAt
  <2>4. \A x \in Executors, b \in Addresses : ResolvingAt(x, b)' = ResolvingAt(x, b)
    BY <2>1 DEF ResolvingAt
  <2> QED BY <2>1, <2>2, <2>3, <2>4, NothingCounted DEF Counted
<1>2. ASSUME UNCHANGED <<addr, kernels, handles, module, refcount, lost>>,
             \A r \in Runs : pc'[r] = "constants" <=> pc[r] = "constants",
             \A r \in Runs : pc[r] = "constants" => handle'[r] = handle[r]
      PROVE  Counted'
  <2>1. \A x \in Executors, b \in Addresses :
          KernelsAt(x, b)' = KernelsAt(x, b) /\ HandlesAt(x, b)' = HandlesAt(x, b)
    BY <1>2 DEF KernelsAt, HandlesAt
  <2>2. \A x \in Executors, b \in Addresses : ResolvingAt(x, b)' = ResolvingAt(x, b)
    BY <1>2 DEF ResolvingAt
  <2> QED BY <1>2, <2>1, <2>2, NothingCounted DEF Counted
<1>3. ASSUME NEW r \in Runs, LoadModule(r) PROVE Counted'
  <2>1. PICK x \in Executors, e \in Executables, a \in Addresses :
          x = On(r) /\ e = Exe(r) /\ a = addr[e]
    BY <1>3, ActiveFacts DEF LoadModule, Finished
  <2>2. /\ pc[r] = "resolve" /\ UNCHANGED <<addr, kernels, handles, lost>>
        /\ LoadModuleFromSpir(x, e)
        /\ handle' = [handle EXCEPT ![r] = a]
        /\ pc' = [pc EXCEPT ![r] = "constants"]
    BY <1>3, <2>1 DEF LoadModule
  <2>3. \A y \in Executors, b \in Addresses :
          KernelsAt(y, b)' = KernelsAt(y, b) /\ HandlesAt(y, b)' = HandlesAt(y, b)
    BY <2>2 DEF KernelsAt, HandlesAt
  <2>4. \A y \in Executors, b \in Addresses : y # x \/ b # a =>
          ResolvingAt(y, b)' = ResolvingAt(y, b)
    BY <2>1, <2>2 DEF ResolvingAt, TypeOK
  <2>5. ResolvingAt(x, a)' = ResolvingAt(x, a) \cup {r} /\ r \notin ResolvingAt(x, a)
    BY <2>1, <2>2 DEF ResolvingAt, TypeOK
  <2>6. /\ IsFiniteSet(ResolvingAt(x, a)')
        /\ Cardinality(ResolvingAt(x, a)') = Cardinality(ResolvingAt(x, a)) + 1
    BY <2>5, FS_AddElement DEF Counted, CountedAt
  <2>7. refcount'[x][a] = refcount[x][a] + 1 /\ module'[x][a] # None
    <3>1. module[x][a] = None => refcount[x][a] = 0
      BY CountTypes DEF Counted, CountedAt
    <3> QED BY <2>1, <2>2, <3>1, LoadEffect, NoneAssumption
  <2>8. CountedAt(x, a)'
    BY <2>2, <2>3, <2>6, <2>7, CountTypes DEF Counted, CountedAt
  <2>9. \A y \in Executors, b \in Addresses : y # x \/ b # a => CountedAt(y, b)'
    BY <2>1, <2>2, <2>3, <2>4, LoadEffect, NothingCounted
  <2> QED BY <2>8, <2>9 DEF Counted
<1>4. ASSUME NEW r \in Runs, FailConstant(r) PROVE Counted'
  <2>1. pc[r] = "constants"
    BY <1>4 DEF FailConstant, NeedsAllocation, HasConstant
  <2>2. PICK x \in Executors, a \in Addresses : x = On(r) /\ a = handle[r]
    BY <2>1, ActiveFacts DEF Finished, Resolving
  <2>3. /\ UNCHANGED <<addr, kernels, handles, module, refcount>>
        /\ lost' = [lost EXCEPT ![x][a] = @ + 1]
        /\ handle' = [handle EXCEPT ![r] = None]
        /\ pc' = [pc EXCEPT ![r] = "failed"]
    BY <1>4, <2>2 DEF FailConstant, tables
  <2>4. \A y \in Executors, b \in Addresses :
          KernelsAt(y, b)' = KernelsAt(y, b) /\ HandlesAt(y, b)' = HandlesAt(y, b)
    BY <2>3 DEF KernelsAt, HandlesAt
  <2>5. \A y \in Executors, b \in Addresses : y # x \/ b # a =>
          ResolvingAt(y, b)' = ResolvingAt(y, b)
    BY <2>1, <2>2, <2>3 DEF ResolvingAt, TypeOK
  <2>6. ResolvingAt(x, a)' = ResolvingAt(x, a) \ {r} /\ r \in ResolvingAt(x, a)
    BY <2>1, <2>2, <2>3 DEF ResolvingAt, TypeOK
  <2>7. /\ IsFiniteSet(ResolvingAt(x, a)')
        /\ Cardinality(ResolvingAt(x, a)') = Cardinality(ResolvingAt(x, a)) - 1
    BY <2>6, FS_RemoveElement DEF Counted, CountedAt
  <2>8. /\ lost'[x][a] = lost[x][a] + 1
        /\ \A y \in Executors, b \in Addresses : y # x \/ b # a => lost'[y][b] = lost[y][b]
    BY <2>3 DEF TypeOK
  <2>9. CountedAt(x, a)'
    BY <2>3, <2>4, <2>7, <2>8, CountTypes DEF Counted, CountedAt
  <2>10. \A y \in Executors, b \in Addresses : y # x \/ b # a => CountedAt(y, b)'
    BY <2>3, <2>4, <2>5, <2>8, NothingCounted
  <2> QED BY <2>9, <2>10 DEF Counted
<1>5. ASSUME NEW r \in Runs, EmplaceGlobals(r) PROVE Counted'
  <2>1. PICK x \in Executors, e \in Executables, a \in Addresses :
          x = On(r) /\ e = Exe(r) /\ a = addr[e]
    BY <1>5, ActiveFacts DEF EmplaceGlobals, Finished
  <2>2. /\ pc[r] = "constants" /\ UNCHANGED <<addr, kernels, module, refcount, lost>>
        /\ handles' = [handles EXCEPT ![x] = @ \cup {e}]
        /\ handle' = [handle EXCEPT ![r] = None]
        /\ pc' = [pc EXCEPT ![r] = "initialize"]
    BY <1>5, <2>1 DEF EmplaceGlobals, tables
  <2>3. handle[r] = a /\ e \notin handles[x]
    BY <2>1, <2>2 DEF Resolving
  <2>4. \A y \in Executors, b \in Addresses : KernelsAt(y, b)' = KernelsAt(y, b)
    BY <2>2 DEF KernelsAt
  <2>5. \A y \in Executors, b \in Addresses : y # x \/ b # a =>
          /\ ResolvingAt(y, b)' = ResolvingAt(y, b)
          /\ HandlesAt(y, b)' = HandlesAt(y, b)
    <3> TAKE y \in Executors, b \in Addresses
    <3>1. y # x \/ b # a => ResolvingAt(y, b)' = ResolvingAt(y, b)
      BY <2>1, <2>2, <2>3 DEF ResolvingAt, TypeOK
    <3>2. y # x \/ b # a => HandlesAt(y, b)' = HandlesAt(y, b)
      BY <2>1, <2>2 DEF HandlesAt, TypeOK
    <3> QED BY <3>1, <3>2
  <2>6. ResolvingAt(x, a)' = ResolvingAt(x, a) \ {r} /\ r \in ResolvingAt(x, a)
    BY <2>1, <2>2, <2>3 DEF ResolvingAt, TypeOK
  <2>7. HandlesAt(x, a)' = HandlesAt(x, a) \cup {e} /\ e \notin HandlesAt(x, a)
    BY <2>1, <2>2, <2>3 DEF HandlesAt, TypeOK
  <2>8. /\ IsFiniteSet(ResolvingAt(x, a)') /\ IsFiniteSet(HandlesAt(x, a)')
        /\ Cardinality(ResolvingAt(x, a)') = Cardinality(ResolvingAt(x, a)) - 1
        /\ Cardinality(HandlesAt(x, a)') = Cardinality(HandlesAt(x, a)) + 1
    BY <2>6, <2>7, FS_RemoveElement, FS_AddElement DEF Counted, CountedAt
  <2>9. CountedAt(x, a)'
    BY <2>2, <2>4, <2>8, CountTypes DEF Counted, CountedAt
  <2>10. \A y \in Executors, b \in Addresses : y # x \/ b # a => CountedAt(y, b)'
    BY <2>2, <2>4, <2>5, NothingCounted
  <2> QED BY <2>9, <2>10 DEF Counted
<1>6. ASSUME NEW r \in Runs, GetKernel(r) PROVE Counted'
  <2>1. PICK x \in Executors, e \in Executables, a \in Addresses, t \in ThunkIds :
          x = On(r) /\ e = Exe(r) /\ a = addr[e] /\ t = Thunk(r) /\ t[1] = e
    BY <1>6, ActiveFacts DEF GetKernel, Finished
  <2>2. /\ pc[r] = "initialize" /\ UNCHANGED <<addr, handles, lost>>
        /\ LoadModuleFromSpir(x, e)
        /\ kernels' = [kernels EXCEPT ![x] = @ \cup {t}]
        /\ handle' = [handle EXCEPT ![r] = a]
        /\ pc' = [pc EXCEPT ![r] = "function"]
    BY <1>6, <2>1 DEF GetKernel
  <2>3. t \notin kernels[x]
    BY <1>6, <2>1 DEF GetKernel, ThunkLocked, Loading
  <2>4. \A y \in Executors, b \in Addresses :
          ResolvingAt(y, b)' = ResolvingAt(y, b) /\ HandlesAt(y, b)' = HandlesAt(y, b)
    <3> TAKE y \in Executors, b \in Addresses
    <3>1. ResolvingAt(y, b)' = ResolvingAt(y, b)
      BY <2>2 DEF ResolvingAt, TypeOK
    <3> QED BY <2>2, <3>1 DEF HandlesAt
  <2>5. \A y \in Executors, b \in Addresses : y # x \/ b # a =>
          KernelsAt(y, b)' = KernelsAt(y, b)
    BY <2>1, <2>2 DEF KernelsAt, TypeOK
  <2>6. KernelsAt(x, a)' = KernelsAt(x, a) \cup {t} /\ t \notin KernelsAt(x, a)
    BY <2>1, <2>2, <2>3 DEF KernelsAt, TypeOK
  <2>7. /\ IsFiniteSet(KernelsAt(x, a)')
        /\ Cardinality(KernelsAt(x, a)') = Cardinality(KernelsAt(x, a)) + 1
    BY <2>6, FS_AddElement DEF Counted, CountedAt
  <2>8. refcount'[x][a] = refcount[x][a] + 1 /\ module'[x][a] # None
    <3>1. module[x][a] = None => refcount[x][a] = 0
      BY CountTypes DEF Counted, CountedAt
    <3> QED BY <2>1, <2>2, <3>1, LoadEffect, NoneAssumption
  <2>9. CountedAt(x, a)'
    BY <2>2, <2>4, <2>7, <2>8, CountTypes DEF Counted, CountedAt
  <2>10. \A y \in Executors, b \in Addresses : y # x \/ b # a => CountedAt(y, b)'
    BY <2>1, <2>2, <2>4, <2>5, LoadEffect, NothingCounted
  <2> QED BY <2>9, <2>10 DEF Counted
<1>7. ASSUME NEW e \in Executables, NEW x \in Executors, UnloadModule(e, x)
      PROVE  Counted'
  <2>1. PICK a \in Addresses : a = addr[e]
    BY <1>7 DEF UnloadModule, Destructing, LiveOnly, Live
  <2>2. /\ e \in handles[x] /\ UNCHANGED <<addr, kernels, lost, pc, handle>>
        /\ UnloadGpuBinary(x, a)
        /\ handles' = [handles EXCEPT ![x] = @ \ {e}]
    BY <1>7, <2>1 DEF UnloadModule
  <2>3. \A y \in Executors, b \in Addresses :
          KernelsAt(y, b)' = KernelsAt(y, b) /\ ResolvingAt(y, b)' = ResolvingAt(y, b)
    BY <2>2 DEF KernelsAt, ResolvingAt
  <2>4. \A y \in Executors, b \in Addresses : y # x \/ b # a =>
          HandlesAt(y, b)' = HandlesAt(y, b)
    BY <2>1, <2>2 DEF HandlesAt, TypeOK
  <2>5. HandlesAt(x, a)' = HandlesAt(x, a) \ {e} /\ e \in HandlesAt(x, a)
    BY <2>1, <2>2 DEF HandlesAt, TypeOK
  <2>6. /\ IsFiniteSet(HandlesAt(x, a)')
        /\ Cardinality(HandlesAt(x, a)') = Cardinality(HandlesAt(x, a)) - 1
    BY <2>5, FS_RemoveElement DEF Counted, CountedAt
  <2>7. refcount[x][a] > 0 /\ module[x][a] # None
    BY <2>5, OwnedIsLoaded
  <2>8. /\ refcount'[x][a] = refcount[x][a] - 1
        /\ module'[x][a] # None <=> refcount'[x][a] > 0
    BY <2>2, <2>7, UnloadEffect, CountTypes
  <2>9. CountedAt(x, a)'
    BY <2>2, <2>3, <2>6, <2>8, CountTypes DEF Counted, CountedAt
  <2>10. \A y \in Executors, b \in Addresses : y # x \/ b # a => CountedAt(y, b)'
    BY <2>2, <2>3, <2>4, <2>7, UnloadEffect, NothingCounted
  <2> QED BY <2>9, <2>10 DEF Counted
<1>8. ASSUME NEW e \in Executables, NEW x \in Executors, UnloadKernel(e, x)
      PROVE  Counted'
  <2>1. PICK a \in Addresses : a = addr[e]
    BY <1>8 DEF UnloadKernel, Destructing, LiveOnly, Live
  <2>2. PICK t \in KernelsOf(x, e) :
          /\ UnloadGpuBinary(x, a)
          /\ kernels' = [kernels EXCEPT ![x] = @ \ {t}]
    BY <1>8, <2>1 DEF UnloadKernel
  <2>3. t \in kernels[x] /\ t[1] = e /\ UNCHANGED <<addr, handles, lost, pc, handle>>
    BY <1>8, <2>2 DEF UnloadKernel, KernelsOf
  <2>4. \A y \in Executors, b \in Addresses :
          HandlesAt(y, b)' = HandlesAt(y, b) /\ ResolvingAt(y, b)' = ResolvingAt(y, b)
    BY <2>3 DEF HandlesAt, ResolvingAt
  <2>5. \A y \in Executors, b \in Addresses : y # x \/ b # a =>
          KernelsAt(y, b)' = KernelsAt(y, b)
    BY <2>1, <2>2, <2>3 DEF KernelsAt, TypeOK
  <2>6. KernelsAt(x, a)' = KernelsAt(x, a) \ {t} /\ t \in KernelsAt(x, a)
    BY <2>1, <2>2, <2>3 DEF KernelsAt, TypeOK
  <2>7. /\ IsFiniteSet(KernelsAt(x, a)')
        /\ Cardinality(KernelsAt(x, a)') = Cardinality(KernelsAt(x, a)) - 1
    BY <2>6, FS_RemoveElement DEF Counted, CountedAt
  <2>8. refcount[x][a] > 0 /\ module[x][a] # None
    BY <2>6, OwnedIsLoaded
  <2>9. /\ refcount'[x][a] = refcount[x][a] - 1
        /\ module'[x][a] # None <=> refcount'[x][a] > 0
    BY <2>2, <2>8, UnloadEffect, CountTypes
  <2>10. CountedAt(x, a)'
    BY <2>3, <2>4, <2>7, <2>9, CountTypes DEF Counted, CountedAt
  <2>11. \A y \in Executors, b \in Addresses : y # x \/ b # a => CountedAt(y, b)'
    BY <2>2, <2>3, <2>4, <2>5, <2>8, UnloadEffect, NothingCounted
  <2> QED BY <2>10, <2>11 DEF Counted
<1>9. ASSUME NEW r \in Runs,
             \/ Start(r) \/ FindGlobals(r) \/ UseSymbol(r) \/ ShareConstant(r)
             \/ CreateConstant(r) \/ FindKernel(r) \/ GetModuleFunction(r)
             \/ NoSuchKernel(r) \/ Execute(r)
      PROVE  Counted'
  <2>1. UNCHANGED <<addr, kernels, handles, module, refcount, lost>>
    BY <1>9 DEF Start, FindGlobals, UseSymbol, ShareConstant, CreateConstant, FindKernel,
                GetModuleFunction, NoSuchKernel, Execute, tables
  <2>2. /\ \A s \in Runs : pc'[s] = "constants" <=> pc[s] = "constants"
        /\ \A s \in Runs : pc[s] = "constants" => handle'[s] = handle[s]
    BY <1>9 DEF Start, FindGlobals, UseSymbol, ShareConstant, CreateConstant, FindKernel,
                GetModuleFunction, NoSuchKernel, Execute, TypeOK
  <2> QED BY <1>2, <2>1, <2>2
<1>10. ASSUME NEW e \in Executables, Destroy(e) \/ FreeBinary(e) PROVE Counted'
  BY <1>2, <1>10 DEF Destroy, FreeBinary, tables
<1>11. ASSUME NEW e \in Executables, NEW x \in Executors, ReleaseConstant(e, x)
       PROVE  Counted'
  BY <1>2, <1>11 DEF ReleaseConstant, tables
<1>12. CASE UNCHANGED vars
  BY <1>2, <1>12 DEF vars
<1> QED BY <1>1, <1>3, <1>4, <1>5, <1>6, <1>7, <1>8, <1>9, <1>10, <1>11, <1>12
        DEF Next, Step, Destructor, Stop
-----------------------------------------------------------------------------
(* Whose code is loaded and cached.                                        *)

\* What CodeOfModule says of one thunk.
CodeAt(x, t) ==
  code[x][t] # None => t \in kernels[x] /\ module[x][addr[t[1]]] = code[x][t]

\* The last owner of a module is its only owner, and none of its handles is lost.
LEMMA LastOwner ==
  ASSUME TypeOK, Counted, NEW x \in Executors, NEW a \in Addresses, refcount[x][a] = 1
  PROVE  /\ HandlesAt(x, a) # {} => KernelsAt(x, a) = {}
         /\ \A t \in KernelsAt(x, a) : KernelsAt(x, a) = {t}
<1>1. /\ IsFiniteSet(KernelsAt(x, a)) /\ IsFiniteSet(HandlesAt(x, a))
      /\ Cardinality(KernelsAt(x, a)) + Cardinality(HandlesAt(x, a)) <= 1
  BY CountTypes DEF Counted, CountedAt
<1>2. Cardinality(KernelsAt(x, a)) \in Nat /\ Cardinality(HandlesAt(x, a)) \in Nat
  BY CountTypes
<1>3. HandlesAt(x, a) # {} => KernelsAt(x, a) = {}
  <2>1. HandlesAt(x, a) # {} => Cardinality(HandlesAt(x, a)) # 0
    BY <1>1, FS_EmptySet
  <2>2. HandlesAt(x, a) # {} => Cardinality(KernelsAt(x, a)) = 0
    BY <1>1, <1>2, <2>1
  <2> QED BY <1>1, <2>2, FS_EmptySet
<1>4. ASSUME NEW t \in KernelsAt(x, a) PROVE KernelsAt(x, a) = {t}
  <2>1. Cardinality(KernelsAt(x, a)) # 0
    BY <1>1, <1>4, FS_EmptySet
  <2>2. Cardinality(KernelsAt(x, a)) = 1
    BY <1>1, <1>2, <2>1
  <2> QED BY <1>1, <1>4, <2>2, FS_Singleton
<1> QED BY <1>3, <1>4

LEMMA CodeOfModuleStep ==
  ASSUME TypeOK, LiveOnly, Resolving, Loading, Counted, CodeOfModule, [Next]_vars
  PROVE  CodeOfModule'
<1>0. \A x \in Executors, t \in ThunkIds : t[1] \in Executables /\ CodeAt(x, t)
  BY ThunkFacts DEF CodeOfModule, CodeAt
<1> SUFFICES ASSUME NEW y \in Executors, NEW k \in ThunkIds PROVE CodeAt(y, k)'
  BY DEF CodeOfModule, CodeAt
<1>1. CodeAt(y, k) /\ k[1] \in Executables
  BY <1>0
<1>2. k \in kernels[y] => /\ Live(k[1]) /\ addr[k[1]] \in Addresses
                          /\ module[y][addr[k[1]]] # None
  <2> HAVE k \in kernels[y]
  <2>1. Live(k[1]) /\ addr[k[1]] \in Addresses
    BY <1>1 DEF LiveOnly
  <2>2. KernelsAt(y, addr[k[1]]) # {}
    BY DEF KernelsAt
  <2> QED BY <2>1, <2>2, OwnedIsLoaded
<1>3. ASSUME UNCHANGED <<addr, code>>, kernels[y] \subseteq kernels'[y],
             k \in kernels[y] => module'[y][addr[k[1]]] = module[y][addr[k[1]]]
      PROVE  CodeAt(y, k)'
  BY <1>1, <1>3 DEF CodeAt
<1>4. ASSUME NEW e \in Executables, NEW a \in Addresses, Create(e, a)
      PROVE  CodeAt(y, k)'
  <2>1. /\ ~Live(e) /\ addr' = [addr EXCEPT ![e] = a]
        /\ UNCHANGED <<code, kernels, module>>
    BY <1>4 DEF Create, Live, tables
  <2>2. k \in kernels[y] => addr'[k[1]] = addr[k[1]]
    BY <1>1, <1>2, <2>1 DEF TypeOK
  <2> QED BY <1>1, <2>1, <2>2 DEF CodeAt
<1>5. ASSUME NEW r \in Runs, LoadModule(r) \/ GetKernel(r) PROVE CodeAt(y, k)'
  <2>1. PICK x \in Executors, e \in Executables, a \in Addresses :
          x = On(r) /\ e = Exe(r) /\ a = addr[e]
    BY <1>5, ActiveFacts DEF LoadModule, GetKernel, Finished
  <2>2. LoadModuleFromSpir(x, e) /\ UNCHANGED <<addr, code>>
    BY <1>5, <2>1 DEF LoadModule, GetKernel
  <2>3. kernels[y] \subseteq kernels'[y]
    <3>1. CASE LoadModule(r)
      BY <3>1 DEF LoadModule
    <3>2. CASE GetKernel(r)
      <4>1. PICK t : kernels' = [kernels EXCEPT ![x] = @ \cup {t}]
        BY <2>1, <3>2 DEF GetKernel
      <4> QED BY <4>1 DEF TypeOK
    <3> QED BY <1>5, <3>1, <3>2
  <2>4. k \in kernels[y] => module'[y][addr[k[1]]] = module[y][addr[k[1]]]
    BY <1>2, <2>1, <2>2, LoadEffect
  <2> QED BY <1>3, <2>2, <2>3, <2>4
<1>6. ASSUME NEW r \in Runs, GetModuleFunction(r) PROVE CodeAt(y, k)'
  <2>1. PICK x \in Executors, e \in Executables, a \in Addresses :
          x = On(r) /\ e = Exe(r) /\ a = addr[e]
    BY <1>6, ActiveFacts DEF GetModuleFunction, Finished
  <2>2. PICK t \in ThunkIds : t = Thunk(r) /\ t[1] = e
    <3>1. Thunk(r) \in kernels[x]
      BY <1>6, <2>1 DEF GetModuleFunction, Loading
    <3>2. Thunk(r) \in ThunkIds /\ Thunk(r)[1] = e
      BY <2>1, <3>1 DEF TypeOK, Thunk
    <3> QED BY <3>2
  <2>3. t \in kernels[x] /\ handle[r] = a
    BY <1>6, <2>1, <2>2 DEF GetModuleFunction, Loading
  <2>4. code' = [code EXCEPT ![x][t] = module[x][a]] /\ UNCHANGED <<addr, kernels, module>>
    BY <1>6, <2>1, <2>2, <2>3 DEF GetModuleFunction, tables
  <2>5. CASE x = y /\ t = k
    <3>1. code'[y][k] = module[y][addr[k[1]]]
      BY <2>1, <2>2, <2>4, <2>5 DEF TypeOK
    <3> QED BY <2>3, <2>4, <2>5, <3>1 DEF CodeAt
  <2>6. CASE x # y \/ t # k
    <3>1. code'[y][k] = code[y][k]
      BY <2>4, <2>6 DEF TypeOK
    <3> QED BY <1>1, <2>4, <3>1 DEF CodeAt
  <2> QED BY <2>5, <2>6
<1>7. ASSUME NEW e \in Executables, NEW x \in Executors, UnloadModule(e, x)
      PROVE  CodeAt(y, k)'
  <2>1. PICK a \in Addresses : a = addr[e]
    BY <1>7 DEF UnloadModule, Destructing, LiveOnly, Live
  <2>2. e \in handles[x] /\ UNCHANGED <<addr, kernels, code>> /\ UnloadGpuBinary(x, a)
    BY <1>7, <2>1 DEF UnloadModule
  <2>3. HandlesAt(x, a) # {} /\ refcount[x][a] > 0
    <3>1. HandlesAt(x, a) # {}
      BY <2>1, <2>2 DEF HandlesAt
    <3> QED BY <3>1, OwnedIsLoaded
  <2>4. k \in kernels[y] => module'[y][addr[k[1]]] = module[y][addr[k[1]]]
    <3> HAVE k \in kernels[y]
    <3>1. CASE y # x \/ addr[k[1]] # a
      BY <1>2, <2>2, <2>3, <3>1, UnloadEffect
    <3>2. CASE y = x /\ addr[k[1]] = a
      <4>1. KernelsAt(x, a) # {}
        BY <3>2 DEF KernelsAt
      <4>2. refcount[x][a] # 1
        BY <2>3, <4>1, LastOwner
      <4> QED BY <2>2, <2>3, <3>2, <4>2, UnloadEffect
    <3> QED BY <3>1, <3>2
  <2> QED BY <1>3, <2>2, <2>4
<1>8. ASSUME NEW e \in Executables, NEW x \in Executors, UnloadKernel(e, x)
      PROVE  CodeAt(y, k)'
  <2>1. PICK a \in Addresses : a = addr[e]
    BY <1>8 DEF UnloadKernel, Destructing, LiveOnly, Live
  <2>2. PICK t \in KernelsOf(x, e) :
          /\ UnloadGpuBinary(x, a)
          /\ kernels' = [kernels EXCEPT ![x] = @ \ {t}]
          /\ code' = [code EXCEPT ![x][t] = None]
    BY <1>8, <2>1 DEF UnloadKernel
  <2>3. t \in kernels[x] /\ t[1] = e /\ t \in ThunkIds /\ UNCHANGED addr
    BY <1>8, <2>2 DEF UnloadKernel, KernelsOf, TypeOK
  <2>4. t \in KernelsAt(x, a) /\ refcount[x][a] > 0
    <3>1. t \in KernelsAt(x, a)
      BY <2>1, <2>3 DEF KernelsAt
    <3> QED BY <3>1, OwnedIsLoaded
  <2>5. CASE y = x /\ k = t
    BY <2>2, <2>3, <2>5 DEF CodeAt, TypeOK
  <2>6. CASE y # x \/ k # t
    <3>1. /\ code'[y][k] = code[y][k]
          /\ k \in kernels[y] => k \in kernels'[y]
      BY <2>2, <2>3, <2>6 DEF TypeOK
    <3>2. k \in kernels[y] => module'[y][addr[k[1]]] = module[y][addr[k[1]]]
      <4> HAVE k \in kernels[y]
      <4>1. CASE y # x \/ addr[k[1]] # a
        BY <1>2, <2>2, <2>4, <4>1, UnloadEffect
      <4>2. CASE y = x /\ addr[k[1]] = a
        <5>1. k \in KernelsAt(x, a)
          BY <4>2 DEF KernelsAt
        <5>2. refcount[x][a] # 1
          BY <2>4, <2>6, <4>2, <5>1, LastOwner
        <5> QED BY <2>2, <2>4, <4>2, <5>2, UnloadEffect
      <4> QED BY <4>1, <4>2
    <3> QED BY <1>1, <2>3, <3>1, <3>2 DEF CodeAt
  <2> QED BY <2>5, <2>6
<1>9. ASSUME NEW r \in Runs,
             \/ Start(r) \/ FindGlobals(r) \/ UseSymbol(r) \/ ShareConstant(r)
             \/ CreateConstant(r) \/ FailConstant(r) \/ EmplaceGlobals(r)
             \/ FindKernel(r) \/ NoSuchKernel(r) \/ Execute(r)
      PROVE  CodeAt(y, k)'
  <2>1. UNCHANGED <<addr, code, kernels, module>>
    BY <1>9 DEF Start, FindGlobals, UseSymbol, ShareConstant, CreateConstant, FindKernel,
                FailConstant, EmplaceGlobals, NoSuchKernel, Execute, tables
  <2> QED BY <1>3, <2>1
<1>10. ASSUME NEW e \in Executables, Destroy(e) \/ FreeBinary(e) PROVE CodeAt(y, k)'
  BY <1>3, <1>10 DEF Destroy, FreeBinary, tables
<1>11. ASSUME NEW e \in Executables, NEW x \in Executors, ReleaseConstant(e, x)
       PROVE  CodeAt(y, k)'
  BY <1>3, <1>11 DEF ReleaseConstant, tables
<1>12. CASE UNCHANGED vars
  BY <1>3, <1>12 DEF vars
<1> QED BY <1>4, <1>5, <1>6, <1>7, <1>8, <1>9, <1>10, <1>11, <1>12
        DEF Next, Step, Destructor, Stop

\* A live executable without kernels and handles that nobody runs owns nothing
\* at its address: what is counted there are lost handles.
LEMMA NoOwners ==
  ASSUME TypeOK, LiveOnly, Resolving, Counted,
         NEW x \in Executors, NEW e \in Executables, stage[e] = "destructor",
         KernelsOf(x, e) = {}, e \notin handles[x]
  PROVE  addr[e] \in Addresses /\ refcount[x][addr[e]] = lost[x][addr[e]]
<1>1. Live(e) /\ addr[e] \in Addresses
  BY DEF LiveOnly, Live
<1>2. PICK a \in Addresses : a = addr[e]
  BY <1>1
<1>3. KernelsAt(x, a) = {}
  <2> SUFFICES ASSUME NEW t \in kernels[x], addr[t[1]] = a PROVE FALSE
    BY DEF KernelsAt
  <2>1. t[1] \in Executables /\ Live(t[1])
    BY ThunkFacts DEF TypeOK, LiveOnly
  <2>2. t[1] = e
    BY <1>1, <1>2, <2>1 DEF LiveOnly
  <2> QED BY <2>2 DEF KernelsOf
<1>4. HandlesAt(x, a) = {}
  <2> SUFFICES ASSUME NEW f \in handles[x], addr[f] = a PROVE FALSE
    BY DEF HandlesAt
  <2>1. f \in Executables /\ Live(f)
    BY DEF TypeOK, LiveOnly
  <2> QED BY <1>1, <1>2, <2>1 DEF LiveOnly
<1>5. ResolvingAt(x, a) = {}
  <2> SUFFICES ASSUME NEW r \in Runs, pc[r] = "constants", handle[r] = a PROVE FALSE
    BY DEF ResolvingAt
  <2>1. Exe(r) \in Executables /\ Live(Exe(r)) /\ stage[Exe(r)] = "alive"
    BY ActiveFacts DEF Finished
  <2>2. addr[Exe(r)] = a
    BY DEF Resolving
  <2> QED BY <1>1, <1>2, <2>1, <2>2 DEF LiveOnly
<1>6. refcount[x][a] = lost[x][a]
  BY <1>3, <1>4, <1>5, FS_EmptySet, CountTypes DEF Counted, CountedAt
<1> QED BY <1>1, <1>2, <1>6

LEMMA ModuleOfBinaryStep ==
  ASSUME TypeOK, LiveOnly, Resolving, Loading, Counted, ModuleOfBinary, [Next]_vars
  PROVE  ModuleOfBinary'
<1> DEFINE Of(y, b) == module[y][b] # None /\ lost[y][b] = 0 =>
                         Live(module[y][b]) /\ addr[module[y][b]] = b
<1> SUFFICES ASSUME NEW y \in Executors, NEW b \in Addresses PROVE Of(y, b)'
  BY DEF ModuleOfBinary
<1>1. Of(y, b) /\ module[y][b] \in Executables \cup {None} /\ lost[y][b] \in Nat
  BY DEF ModuleOfBinary, TypeOK
<1>2. ASSUME module'[y][b] = module[y][b] \/ module'[y][b] = None,
             lost'[y][b] = 0 => lost[y][b] = 0,
             \A f \in Executables : Live(f) => Live(f)' /\ addr'[f] = addr[f]
      PROVE  Of(y, b)'
  BY <1>1, <1>2
<1>3. ASSUME UNCHANGED <<stage, addr>> PROVE \A f : Live(f) => Live(f)' /\ addr'[f] = addr[f]
  BY <1>3 DEF Live
<1>4. ASSUME NEW e \in Executables, NEW a \in Addresses, Create(e, a) PROVE Of(y, b)'
  <2>1. \A f \in Executables : Live(f) => Live(f)' /\ addr'[f] = addr[f]
    BY <1>4 DEF Create, Live, TypeOK
  <2>2. UNCHANGED <<module, lost>>
    BY <1>4 DEF Create, tables
  <2> QED BY <1>2, <2>1, <2>2
<1>5. ASSUME NEW r \in Runs, LoadModule(r) \/ GetKernel(r) PROVE Of(y, b)'
  <2>1. PICK x \in Executors, e \in Executables, a \in Addresses :
          x = On(r) /\ e = Exe(r) /\ a = addr[e] /\ Live(e)
    BY <1>5, ActiveFacts DEF LoadModule, GetKernel, Finished
  <2>2. LoadModuleFromSpir(x, e) /\ UNCHANGED <<stage, addr, lost>>
    BY <1>5, <2>1 DEF LoadModule, GetKernel
  <2>3. CASE y = x /\ b = a /\ module[x][a] = None
    <3>1. module'[y][b] = e
      BY <2>1, <2>2, <2>3, LoadEffect
    <3>2. Live(e)' /\ addr'[e] = b
      BY <1>3, <2>1, <2>2, <2>3
    <3> QED BY <3>1, <3>2
  <2>4. CASE ~(y = x /\ b = a /\ module[x][a] = None)
    <3>1. module'[y][b] = module[y][b]
      BY <2>1, <2>2, <2>4, LoadEffect
    <3> QED BY <1>2, <1>3, <2>2, <3>1
  <2> QED BY <2>3, <2>4
<1>6. ASSUME NEW r \in Runs, FailConstant(r) PROVE Of(y, b)'
  <2>1. pc[r] = "constants"
    BY <1>6 DEF FailConstant, NeedsAllocation, HasConstant
  <2>2. PICK x \in Executors, a \in Addresses : x = On(r) /\ a = handle[r]
    BY <2>1, ActiveFacts DEF Finished, Resolving
  <2>3. lost' = [lost EXCEPT ![x][a] = @ + 1] /\ UNCHANGED <<stage, addr, module>>
    BY <1>6, <2>2 DEF FailConstant, tables
  <2>4. lost'[y][b] = 0 => lost[y][b] = 0
    <3>1. CASE y = x /\ b = a
      BY <1>1, <2>3, <3>1 DEF TypeOK
    <3>2. CASE y # x \/ b # a
      BY <2>3, <3>2 DEF TypeOK
    <3> QED BY <3>1, <3>2
  <2> QED BY <1>2, <1>3, <2>3, <2>4
<1>7. ASSUME NEW e \in Executables, NEW x \in Executors,
             UnloadModule(e, x) \/ UnloadKernel(e, x)
      PROVE  Of(y, b)'
  <2>1. PICK a \in Addresses : a = addr[e]
    BY <1>7 DEF UnloadModule, UnloadKernel, Destructing, LiveOnly, Live
  <2>2. UnloadGpuBinary(x, a) /\ UNCHANGED <<stage, addr, lost>>
    BY <1>7, <2>1 DEF UnloadModule, UnloadKernel
  <2>3. refcount[x][a] > 0
    <3>1. HandlesAt(x, a) # {} \/ KernelsAt(x, a) # {}
      BY <1>7, <2>1 DEF UnloadModule, UnloadKernel, HandlesAt, KernelsAt, KernelsOf
    <3> QED BY <3>1, OwnedIsLoaded
  <2>4. module'[y][b] = module[y][b] \/ module'[y][b] = None
    BY <2>2, <2>3, UnloadEffect
  <2> QED BY <1>2, <1>3, <2>2, <2>4
<1>8. ASSUME NEW e \in Executables, FreeBinary(e) PROVE Of(y, b)'
  <2>1. /\ stage' = [stage EXCEPT ![e] = "gone"] /\ UNCHANGED <<addr, module, lost>>
        /\ stage[e] = "destructor" /\ e \notin handles[y] /\ KernelsOf(y, e) = {}
    BY <1>8 DEF FreeBinary, Destructing, HoldsHandles, tables
  <2>2. addr[e] \in Addresses /\ refcount[y][addr[e]] = lost[y][addr[e]]
    BY <2>1, NoOwners
  <2>3. ASSUME module[y][b] # None, lost[y][b] = 0 PROVE module[y][b] # e
    <3> SUFFICES ASSUME module[y][b] = e PROVE FALSE
      OBVIOUS
    <3>1. addr[e] = b
      BY <1>1, <2>3
    <3>2. refcount[y][b] = 0
      BY <2>2, <2>3, <3>1
    <3> QED BY <2>3, <3>2 DEF Counted, CountedAt
  <2>4. \A f \in Executables : f # e /\ Live(f) => Live(f)'
    BY <2>1 DEF Live, TypeOK
  <2> QED BY <1>1, <2>1, <2>3, <2>4
<1>9. ASSUME NEW r \in Runs,
             \/ Start(r) \/ FindGlobals(r) \/ UseSymbol(r) \/ ShareConstant(r)
             \/ CreateConstant(r) \/ EmplaceGlobals(r) \/ FindKernel(r)
             \/ GetModuleFunction(r) \/ NoSuchKernel(r) \/ Execute(r)
      PROVE  Of(y, b)'
  <2>1. UNCHANGED <<stage, addr, module, lost>>
    BY <1>9 DEF Start, FindGlobals, UseSymbol, ShareConstant, CreateConstant, FindKernel,
                EmplaceGlobals, GetModuleFunction, NoSuchKernel, Execute, tables
  <2> QED BY <1>2, <1>3, <2>1
<1>10. ASSUME NEW e \in Executables, Destroy(e) PROVE Of(y, b)'
  <2>1. \A f \in Executables : Live(f) => Live(f)' /\ addr'[f] = addr[f]
    BY <1>10 DEF Destroy, Live, TypeOK
  <2> QED BY <1>2, <1>10, <2>1 DEF Destroy, tables
<1>11. ASSUME NEW e \in Executables, NEW x \in Executors, ReleaseConstant(e, x)
       PROVE  Of(y, b)'
  BY <1>2, <1>3, <1>11 DEF ReleaseConstant, tables
<1>12. CASE UNCHANGED vars
  BY <1>2, <1>3, <1>12 DEF vars
<1> QED BY <1>4, <1>5, <1>6, <1>7, <1>8, <1>9, <1>10, <1>11, <1>12
        DEF Next, Step, Destructor, Stop
-----------------------------------------------------------------------------
(* The theorems about modules and kernels.                                 *)

LEMMA InvariantInit == Init => IInv
<1> SUFFICES ASSUME Init PROVE IInv
  OBVIOUS
<1>1. TypeOK
  BY TypeInit
<1>2. LiveOnly /\ Resolving /\ Loading
  BY RunFacts DEF Init, LiveOnly, Live, Finished, Resolving, Loading
<1>3. Counted
  <2> SUFFICES ASSUME NEW x \in Executors, NEW a \in Addresses PROVE CountedAt(x, a)
    BY DEF Counted
  <2>1. KernelsAt(x, a) = {} /\ HandlesAt(x, a) = {} /\ ResolvingAt(x, a) = {}
    BY DEF Init, KernelsAt, HandlesAt, ResolvingAt
  <2> QED BY <2>1, FS_EmptySet DEF Init, CountedAt
<1>4. CodeOfModule /\ ModuleOfBinary
  BY DEF Init, CodeOfModule, ModuleOfBinary
<1> QED BY <1>1, <1>2, <1>3, <1>4 DEF IInv

\* The inductive invariant: live binaries lie apart and only they are used,
\* every module is counted, and cached code is its binary's module.
THEOREM InvariantHolds == Spec => []IInv
<1>1. Init => IInv
  BY InvariantInit
<1>2. IInv /\ [Next]_vars => IInv'
  BY TypeStep, LiveOnlyStep, ResolvingStep, LoadingStep, CountedStep, CodeOfModuleStep,
     ModuleOfBinaryStep DEF IInv
<1> QED BY <1>1, <1>2, PTL DEF Spec

\* LoadModuleFromSpir and UnloadGpuBinary keep the count of a module equal to
\* the number of its owners and lost handles, for any number of executables,
\* executors and concurrent runs.
THEOREM RefcountHolds == Spec => []RefcountIsOwners
<1>1. IInv => RefcountIsOwners
  <2> SUFFICES ASSUME IInv, NEW x \in Executors, NEW a \in Addresses
               PROVE  /\ refcount[x][a] = Owners(x, a) + lost[x][a]
                      /\ module[x][a] # None <=> refcount[x][a] > 0
    BY DEF RefcountIsOwners
  <2>1. CountedAt(x, a)
    BY DEF IInv, Counted
  <2> QED BY <2>1 DEF CountedAt, Owners, KernelsAt, HandlesAt, ResolvingAt
<1> QED BY <1>1, InvariantHolds, PTL

\* A cached kernel's module stays loaded, and is its own executable's unless
\* a failed resolution has left a module at the binary's address.
THEOREM KernelsRunOwnCodeHolds == Spec => []KernelsRunOwnCode
<1>1. IInv => KernelsRunOwnCode
  <2> SUFFICES ASSUME IInv, NEW x \in Executors, NEW t \in ThunkIds, code[x][t] # None
               PROVE  /\ module[x][addr[t[1]]] = code[x][t]
                      /\ lost[x][addr[t[1]]] = 0 => code[x][t] = t[1]
    BY DEF KernelsRunOwnCode
  <2>1. t \in kernels[x] /\ module[x][addr[t[1]]] = code[x][t]
    BY DEF IInv, CodeOfModule
  <2>2. t[1] \in Executables /\ Live(t[1]) /\ addr[t[1]] \in Addresses
    BY <2>1, ThunkFacts DEF IInv, LiveOnly
  <2>3. code[x][t] \in Executables
    BY DEF IInv, TypeOK
  <2>4. lost[x][addr[t[1]]] = 0 => Live(code[x][t]) /\ addr[code[x][t]] = addr[t[1]]
    BY <2>1, <2>2 DEF IInv, ModuleOfBinary
  <2> QED BY <2>1, <2>2, <2>3, <2>4 DEF IInv, LiveOnly
<1> QED BY <1>1, InvariantHolds, PTL

-----------------------------------------------------------------------------
(* The shared constants.                                                   *)

\* The constant a run has come to, and its content.
LEMMA ConstantFacts ==
  ASSUME TypeOK, NEW r \in Runs, HasConstant(r)
  PROVE  /\ On(r) \in Executors /\ Exe(r) \in Executables /\ at[r] \in Nat
         /\ Constant(r) = Constants[Exe(r)][at[r]] /\ Constant(r).content \in Contents
<1> QED BY RunFacts DEF HasConstant, Constant, Contents, TypeOK

LEMMA ConstantsStep ==
  ASSUME TypeOK, ConstantsInv, [Next]_vars
  PROVE  ConstantsInv'
<1>1. /\ ConstantTypes
      /\ \A x \in Executors :
           CacheLeadsToContent(x) /\ SharedAreContent(x) /\ AllocatedAreShared(x)
  BY DEF ConstantsInv
<1>2. ASSUME ConstantTypes', \A x \in Executors : /\ CacheLeadsToContent(x)'
                                                  /\ SharedAreContent(x)'
                                                  /\ AllocatedAreShared(x)'
      PROVE  ConstantsInv'
  BY <1>2 DEF ConstantsInv
<1>3. ASSUME NEW r \in Runs, ShareConstant(r) PROVE ConstantsInv'
  <2>1. HasConstant(r) /\ Cached(r)
    BY <1>3 DEF ShareConstant, NeedsAllocation
  <2>2. PICK x \in Executors, e \in Executables, i \in Nat, c \in Contents :
          x = On(r) /\ e = Exe(r) /\ i = at[r] /\ c = Constant(r).content
    BY <2>1, ConstantFacts
  <2>3. c = Constants[e][i].content
    BY <2>1, <2>2, ConstantFacts
  <2>4. PICK m \in Allocs : m = weak[x][c]
    BY <1>1, <2>1, <2>2 DEF Cached, ConstantTypes
  <2>5. memory[x][m] = c
    BY <1>1, <2>1, <2>2, <2>4 DEF Cached, CacheLeadsToContent
  <2>6. /\ shared' = [shared EXCEPT ![x][e] = shared[x][e] \cup {<<i, m>>}]
        /\ UNCHANGED <<weak, memory>>
    BY <1>3, <2>2, <2>4 DEF ShareConstant
  <2>7. ConstantTypes'
    BY <1>1, <2>6 DEF ConstantTypes
  <2>8. \A y \in Executors, f \in Executables :
          /\ shared[y][f] \subseteq shared'[y][f]
          /\ \A p \in shared'[y][f] :
               p \in shared[y][f] \/ (y = x /\ f = e /\ p = <<i, m>>)
    BY <1>1, <2>6 DEF ConstantTypes
  <2>9. ASSUME NEW y \in Executors
        PROVE  CacheLeadsToContent(y)' /\ SharedAreContent(y)' /\ AllocatedAreShared(y)'
    <3>1. CacheLeadsToContent(y)'
      BY <1>1, <2>6 DEF CacheLeadsToContent
    <3>2. SharedAreContent(y)'
      BY <1>1, <2>3, <2>5, <2>6, <2>8 DEF SharedAreContent
    <3>3. AllocatedAreShared(y)'
      BY <1>1, <2>6, <2>8 DEF AllocatedAreShared, Owned
    <3> QED BY <3>1, <3>2, <3>3
  <2> QED BY <1>2, <2>7, <2>9
<1>4. ASSUME NEW r \in Runs, CreateConstant(r) PROVE ConstantsInv'
  <2>1. HasConstant(r)
    BY <1>4 DEF CreateConstant, NeedsAllocation
  <2>2. PICK x \in Executors, e \in Executables, i \in Nat, c \in Contents :
          x = On(r) /\ e = Exe(r) /\ i = at[r] /\ c = Constant(r).content
    BY <2>1, ConstantFacts
  <2>3. c = Constants[e][i].content
    BY <2>1, <2>2, ConstantFacts
  <2>4. PICK m \in Allocs :
          /\ memory[x][m] = None
          /\ memory' = [memory EXCEPT ![x][m] = c]
          /\ weak' = [weak EXCEPT ![x][c] = m]
          /\ shared' = [shared EXCEPT ![x][e] = @ \cup {<<i, m>>}]
    BY <1>4, <2>2 DEF CreateConstant
  <2>5. ConstantTypes'
    BY <1>1, <2>4 DEF ConstantTypes
  <2>6. \A y \in Executors, f \in Executables :
          /\ shared[y][f] \subseteq shared'[y][f]
          /\ \A p \in shared'[y][f] :
               p \in shared[y][f] \/ (y = x /\ f = e /\ p = <<i, m>>)
          /\ \A p \in shared[y][f] : p[2] \in Allocs
          /\ y = x /\ f = e => <<i, m>> \in shared'[y][f]
    BY <1>1, <2>4 DEF ConstantTypes
  <2>7. /\ memory'[x][m] = c /\ weak'[x][c] = m
        /\ \A y \in Executors, n \in Allocs :
             y # x \/ n # m => memory'[y][n] = memory[y][n]
        /\ \A y \in Executors, d \in Contents :
             y # x \/ d # c => weak'[y][d] = weak[y][d]
    BY <1>1, <2>4 DEF ConstantTypes
  <2>8. None \notin Contents /\ None \notin Allocs
    BY NoneAssumption
  <2>9. ASSUME NEW y \in Executors
        PROVE  CacheLeadsToContent(y)' /\ SharedAreContent(y)' /\ AllocatedAreShared(y)'
    <3>1. CacheLeadsToContent(y)'
      <4> SUFFICES ASSUME NEW d \in Contents, weak'[y][d] # None
                   PROVE  memory'[y][weak'[y][d]] = d
        BY DEF CacheLeadsToContent
      <4>1. CASE y = x /\ d = c
        BY <2>7, <4>1
      <4>2. CASE y # x \/ d # c
        <5>1. weak'[y][d] = weak[y][d] /\ weak[y][d] \in Allocs
          BY <1>1, <2>7, <4>2 DEF ConstantTypes
        <5>2. memory[y][weak[y][d]] = d
          BY <1>1, <5>1 DEF CacheLeadsToContent
        <5> QED BY <2>4, <2>7, <2>8, <5>1, <5>2
      <4> QED BY <4>1, <4>2
    <3>2. SharedAreContent(y)'
      <4> SUFFICES ASSUME NEW f \in Executables, NEW p \in shared'[y][f]
                   PROVE  /\ Constants[f][p[1]].content \in Contents
                          /\ memory'[y][p[2]] = Constants[f][p[1]].content
        BY DEF SharedAreContent
      <4>1. CASE y = x /\ f = e /\ p = <<i, m>>
        BY <2>3, <2>7, <4>1
      <4>2. CASE p \in shared[y][f]
        <5>1. /\ Constants[f][p[1]].content \in Contents
              /\ memory[y][p[2]] = Constants[f][p[1]].content
          BY <1>1, <4>2 DEF SharedAreContent
        <5> QED BY <2>4, <2>6, <2>7, <2>8, <4>2, <5>1
      <4> QED BY <2>6, <4>1, <4>2
    <3>3. AllocatedAreShared(y)'
      <4> SUFFICES ASSUME NEW n \in Allocs, memory'[y][n] # None
                   PROVE  \E f \in Executables : \E p \in shared'[y][f] : p[2] = n
        BY DEF AllocatedAreShared, Owned
      <4>1. CASE y = x /\ n = m
        <5>1. <<i, m>> \in shared'[y][e] /\ <<i, m>>[2] = n
          BY <2>6, <4>1
        <5> QED BY <5>1
      <4>2. CASE y # x \/ n # m
        <5>1. memory[y][n] # None
          BY <2>7, <4>2
        <5>2. PICK f \in Executables : \E p \in shared[y][f] : p[2] = n
          BY <1>1, <5>1 DEF AllocatedAreShared, Owned
        <5> QED BY <2>6, <5>2
      <4> QED BY <4>1, <4>2
    <3> QED BY <3>1, <3>2, <3>3
  <2> QED BY <1>2, <2>5, <2>9
<1>5. ASSUME NEW e \in Executables, NEW x \in Executors, ReleaseConstant(e, x)
      PROVE  ConstantsInv'
  <2>1. PICK p \in shared[x][e] :
          /\ shared' = [shared EXCEPT ![x][e] = @ \ {p}]
          /\ IF Owned(shared'[x], p[2])
               THEN UNCHANGED <<memory, weak>>
               ELSE /\ memory' = [memory EXCEPT ![x][p[2]] = None]
                    /\ weak' = [weak EXCEPT ![x] =
                                 [c \in Contents |-> IF @[c] = p[2] THEN None ELSE @[c]]]
    BY <1>5 DEF ReleaseConstant
  <2>2. PICK m \in Allocs : m = p[2]
    BY <1>1 DEF ConstantTypes
  <2>3. shared' \in [Executors -> [Executables -> SUBSET (Nat \X Allocs)]]
    BY <1>1, <2>1 DEF ConstantTypes
  <2>4. \A y \in Executors, f \in Executables :
          /\ shared'[y][f] \subseteq shared[y][f]
          /\ \A q \in shared[y][f] : q \in shared'[y][f] \/ (y = x /\ q[2] = m)
    BY <1>1, <2>1, <2>2 DEF ConstantTypes
  <2>5. CASE Owned(shared'[x], m)
    <3>1. UNCHANGED <<memory, weak>>
      BY <2>1, <2>2, <2>5
    <3>2. ConstantTypes'
      BY <1>1, <2>3, <3>1 DEF ConstantTypes
    <3>3. ASSUME NEW y \in Executors
          PROVE  CacheLeadsToContent(y)' /\ SharedAreContent(y)' /\ AllocatedAreShared(y)'
      <4>1. CacheLeadsToContent(y)'
        BY <1>1, <3>1 DEF CacheLeadsToContent
      <4>2. SharedAreContent(y)'
        BY <1>1, <2>4, <3>1 DEF SharedAreContent
      <4>3. AllocatedAreShared(y)'
        <5> SUFFICES ASSUME NEW n \in Allocs, memory[y][n] # None
                     PROVE  Owned(shared'[y], n)
          BY <3>1 DEF AllocatedAreShared, Owned
        <5>1. PICK f \in Executables : \E q \in shared[y][f] : q[2] = n
          BY <1>1 DEF AllocatedAreShared, Owned
        <5>2. CASE y = x /\ n = m
          BY <2>5, <5>2
        <5>3. CASE y # x \/ n # m
          BY <2>4, <5>1, <5>3 DEF Owned
        <5> QED BY <5>2, <5>3
      <4> QED BY <4>1, <4>2, <4>3
    <3> QED BY <1>2, <3>2, <3>3
  <2>6. CASE ~Owned(shared'[x], m)
    <3>1. /\ memory' = [memory EXCEPT ![x][m] = None]
          /\ weak' = [weak EXCEPT ![x] =
                       [c \in Contents |-> IF weak[x][c] = m THEN None ELSE weak[x][c]]]
      BY <1>1, <2>1, <2>2, <2>6 DEF ConstantTypes
    <3>2. /\ memory'[x][m] = None
          /\ \A y \in Executors, n \in Allocs :
               y # x \/ n # m => memory'[y][n] = memory[y][n]
          /\ memory' \in [Executors -> [Allocs -> Contents \cup {None}]]
      BY <1>1, <3>1 DEF ConstantTypes
    <3>3. \A y \in Executors, d \in Contents :
            weak'[y][d] = IF y = x /\ weak[y][d] = m THEN None ELSE weak[y][d]
      BY <1>1, <3>1 DEF ConstantTypes
    <3>4. weak' \in [Executors -> [Contents -> Allocs \cup {None}]]
      <4>1. [c \in Contents |-> IF weak[x][c] = m THEN None ELSE weak[x][c]]
              \in [Contents -> Allocs \cup {None}]
        BY <1>1 DEF ConstantTypes
      <4> QED BY <1>1, <3>1, <4>1 DEF ConstantTypes
    <3>5. ConstantTypes'
      BY <2>3, <3>2, <3>4 DEF ConstantTypes
    <3>6. ASSUME NEW y \in Executors
          PROVE  CacheLeadsToContent(y)' /\ SharedAreContent(y)' /\ AllocatedAreShared(y)'
      <4>1. CacheLeadsToContent(y)'
        <5> SUFFICES ASSUME NEW d \in Contents, weak'[y][d] # None
                     PROVE  memory'[y][weak'[y][d]] = d
          BY DEF CacheLeadsToContent
        <5>1. weak'[y][d] = weak[y][d] /\ (y # x \/ weak[y][d] # m) /\ weak[y][d] # None
          BY <3>3
        <5>2. weak[y][d] \in Allocs
          BY <1>1, <5>1 DEF ConstantTypes
        <5> QED BY <1>1, <3>2, <5>1, <5>2 DEF CacheLeadsToContent
      <4>2. SharedAreContent(y)'
        <5> SUFFICES ASSUME NEW f \in Executables, NEW q \in shared'[y][f]
                     PROVE  /\ Constants[f][q[1]].content \in Contents
                            /\ memory'[y][q[2]] = Constants[f][q[1]].content
          BY DEF SharedAreContent
        <5>1. q \in shared[y][f] /\ q[2] \in Allocs
          BY <1>1, <2>4 DEF ConstantTypes
        <5>2. y # x \/ q[2] # m
          BY <2>6 DEF Owned
        <5> QED BY <1>1, <3>2, <5>1, <5>2 DEF SharedAreContent
      <4>3. AllocatedAreShared(y)'
        <5> SUFFICES ASSUME NEW n \in Allocs, memory'[y][n] # None
                     PROVE  Owned(shared'[y], n)
          BY DEF AllocatedAreShared, Owned
        <5>1. (y # x \/ n # m) /\ memory[y][n] # None
          BY <3>2
        <5>2. PICK f \in Executables : \E q \in shared[y][f] : q[2] = n
          BY <1>1, <5>1 DEF AllocatedAreShared, Owned
        <5> QED BY <2>4, <5>1, <5>2 DEF Owned
      <4> QED BY <4>1, <4>2, <4>3
    <3> QED BY <1>2, <3>5, <3>6
  <2> QED BY <2>5, <2>6
<1>6. ASSUME UNCHANGED <<weak, memory, shared>> PROVE ConstantsInv'
  BY <1>6 DEF ConstantsInv, ConstantTypes, CacheLeadsToContent, SharedAreContent,
              AllocatedAreShared, Owned
<1>7. ASSUME NEW e \in Executables, NEW a \in Addresses, Create(e, a) PROVE ConstantsInv'
  BY <1>6, <1>7 DEF Create, constants
<1>8. ASSUME NEW r \in Runs,
             \/ Start(r) \/ FindGlobals(r) \/ LoadModule(r) \/ UseSymbol(r)
             \/ FailConstant(r) \/ EmplaceGlobals(r) \/ FindKernel(r) \/ GetKernel(r)
             \/ GetModuleFunction(r) \/ NoSuchKernel(r) \/ Execute(r)
      PROVE  ConstantsInv'
  BY <1>6, <1>8 DEF Start, FindGlobals, LoadModule, UseSymbol, FailConstant, GetKernel,
     EmplaceGlobals, FindKernel, GetModuleFunction, NoSuchKernel, Execute, constants
<1>9. ASSUME NEW e \in Executables, Destroy(e) \/ FreeBinary(e) PROVE ConstantsInv'
  BY <1>6, <1>9 DEF Destroy, FreeBinary, constants
<1>10. ASSUME NEW e \in Executables, NEW x \in Executors,
              UnloadModule(e, x) \/ UnloadKernel(e, x)
       PROVE  ConstantsInv'
  BY <1>6, <1>10 DEF UnloadModule, UnloadKernel, constants
<1>11. CASE UNCHANGED vars
  BY <1>6, <1>11 DEF vars
<1> QED BY <1>3, <1>4, <1>5, <1>7, <1>8, <1>9, <1>10, <1>11
        DEF Next, Step, Destructor, Stop

\* CreateOrShareConstant and the destructors of the executables keep every
\* constant allocated, with its content, as long as an executable shares it,
\* and no longer.
THEOREM ConstantsStayAllocatedHolds == Spec => []ConstantsStayAllocated
<1>1. Init => ConstantsInv
  BY DEF Init, ConstantsInv, ConstantTypes, CacheLeadsToContent, SharedAreContent,
         AllocatedAreShared
<1>2. IInv /\ ConstantsInv /\ [Next]_vars => ConstantsInv'
  BY ConstantsStep DEF IInv
<1>3. ConstantsInv => ConstantsStayAllocated
  BY DEF ConstantsInv, SharedAreContent, AllocatedAreShared, Owned, ConstantsStayAllocated
<1> QED BY <1>1, <1>2, <1>3, InvariantHolds, PTL DEF Spec
=============================================================================
