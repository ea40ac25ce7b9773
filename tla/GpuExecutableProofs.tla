------------------------- MODULE GpuExecutableProofs -------------------------
(***************************************************************************)
(* Proofs about GpuExecutable, for any jobs, runs and device memory: every *)
(* buffer is free or has one owner, the callers keep the buffers they did  *)
(* not give away, and without asynchronous deallocation no buffer is freed *)
(* that a stream still uses.                                               *)
(*                                                                         *)
(* The argument follows the buffers of a run.  A run has the allocations   *)
(* it made or that became an output (Mine), which lie apart; the others    *)
(* are still the caller's.  A step of a run only moves cells between what  *)
(* the run holds and what is free, so that nobody else is affected.        *)
(***************************************************************************)
EXTENDS GpuExecutable, SequenceTheorems, NaturalsInduction, WellFoundedInduction, TLAPS

Live == {"allocate", "outputs", "thunks"}

\* The allocations of run r that are or contain an output, and those whose
\* memory is the run's.
OutAllocs(r) == {output_info(r)[o].alloc : o \in DOMAIN result[r]}
Mine(r)      == {i \in DOMAIN buffers[r] :
                   NeedsMemory(allocations(r)[i]) \/ i \in OutAllocs(r)}

\* The frames of the host's stack.
Steps(r, op) == {t \in UNION {Range(s) : s \in Job(r).program.sequences} : t.op = op}
Resumes(r)   == [op : {"return", "leave"}]
                  \cup [op : {"test", "loop"}, thunk : Steps(r, "while")]
                  \cup [op : {"count"}, thunk : Steps(r, "for"), left : Nat]
Frames(r)    == [thunks : Job(r).program.sequences, resume : Resumes(r)]

Enqueued == [run : Runs, fn : KernelNames, args : Seq(Cells), out : Cells]

Types ==
  /\ job \in Jobs
  /\ pc \in [Runs -> Live \cup {"returned", "consumed", "dropped", "failed"}]
  /\ buffers \in [Runs -> Seq(Cells \cup {Null})]
  /\ result \in [Runs -> Seq(Cells)]
  /\ aliased \in [Runs -> SUBSET Nat]
  /\ owned \in [Runs -> SUBSET Nat]
  /\ DOMAIN stack = Runs /\ \A r \in Runs : stack[r] \in Seq(Frames(r))
  /\ stream \in [Runs \cup {"compute"} -> Seq(Enqueued)]
  /\ DOMAIN mem = Cells
  /\ free \in SUBSET job.cells

\* How far a run has come with its allocations and outputs.
Progress(r) ==
  /\ Len(buffers[r]) <= Len(allocations(r)) /\ Len(result[r]) <= Len(output_info(r))
  /\ pc[r] = "allocate" => result[r] = <<>>
  /\ pc[r] \notin {"allocate", "failed"} \/ result[r] # <<>>
       => Len(buffers[r]) = Len(allocations(r))
  /\ pc[r] \in {"thunks", "returned", "consumed", "dropped"}
       => Len(result[r]) = Len(output_info(r))

\* What a buffer is, and a result.
CallersBuffer(r, a) == CASE a.kind = "param"        -> Job(r).args[a.param]
                         [] a.kind = "constant"     -> a.cell
                         [] a.kind = "thread_local" -> Null
Placed(r) ==
  /\ \A i \in DOMAIN buffers[r] :
       IF i \in Mine(r) THEN buffers[r][i] \in job.cells
                        ELSE buffers[r][i] = CallersBuffer(r, allocations(r)[i])
  /\ \A o \in DOMAIN result[r] : result[r][o] = buffers[r][output_info(r)[o].alloc]

\* Only outputs there are already are marked as aliased; one that is no argument
\* is, exactly if the whole result tuple is.
AliasedOutputs(r) ==
  /\ aliased[r] \subseteq DOMAIN result[r]
  /\ \A o \in DOMAIN result[r] :
       output_info(r)[o].alias = "none" => (o \in aliased[r] <=> EntirelyAliased(r))

\* A donated argument is still owned, or it is an output that an error leaves.
Donated(r) ==
  /\ AliasedOutputs(r)
  /\ owned[r] \subseteq Job(r).donated
  /\ \A p \in Job(r).donated \ owned[r] :
       \E o \in DOMAIN result[r] :
         output_info(r)[o].alias # "none" /\ ParamAt(Job(r).program, o) = p
  /\ \A o \in DOMAIN result[r] : output_info(r)[o].alias # "none" =>
       LET p == ParamAt(Job(r).program, o) IN
       /\ p \notin owned[r]
       /\ p \in Job(r).donated => o \in aliased[r]
       /\ output_info(r)[o].alias = "must" /\ ~Job(r).shaped => p \in Job(r).donated

\* The buffers of a run lie apart.
Apart(r) ==
  /\ \A i, j \in Mine(r) : i # j => buffers[r][i] # buffers[r][j]
  /\ \A i \in Mine(r) : \A p \in owned[r] : buffers[r][i] # Job(r).args[p]

\* The memory that belongs to run r, or that it leaked.
Has(r) == Held(r) \cup Lost(r)

\* What the callers keep is never free.
Reserved == free \cap (Lent \cup Constants) = {}

Ownership ==
  /\ Types
  /\ \A r \in Runs : Progress(r) /\ Placed(r) /\ Donated(r) /\ Apart(r)
  /\ OneOwner /\ Reserved

\* No command writes what the callers keep.
WritesApart ==
  /\ \A s \in DOMAIN stream : \A i \in DOMAIN stream[s] : stream[s][i].out \notin Lent
  /\ \A c \in Lent : mem[c] = InitialMem[c]

\* A run that failed had no output yet.
FailedEarly == \A r \in Runs : pc[r] = "failed" => result[r] = <<>>

\* Without asynchronous deallocation, the commands of a stream are those of
\* its run, which is not over and keeps what they use.
StreamsKept ==
  ~job.async /\ FailedEarly =>
    \A s \in DOMAIN stream : \A i \in DOMAIN stream[s] :
      /\ s \in Runs /\ pc[s] \in {"outputs", "thunks"} /\ result[s] # <<>>
      /\ {stream[s][i].out} \cup Range(stream[s][i].args) \subseteq Has(s) \cup Lent \cup Constants

Invariant == Ownership /\ WritesApart /\ StreamsKept

-----------------------------------------------------------------------------
(* Jobs, programs and runs.                                                *)

LEMMA JobFacts ==
  ASSUME job \in Jobs, NEW r \in Runs
  PROVE  /\ job.async \in BOOLEAN /\ job.cells \subseteq Cells /\ job.cells \subseteq Nat
         /\ WellFormedRun(Job(r), job.cells) /\ WellFormedProgram(Job(r).program)
<1>1. job.async \in BOOLEAN /\ job.cells \subseteq Cells /\ WellFormedRun(Job(r), job.cells)
  BY JobsAssumption DEF Job
<1> QED BY <1>1, CellsAssumption DEF WellFormedRun

LEMMA RunFacts ==
  ASSUME job \in Jobs, NEW r \in Runs
  PROVE  /\ Job(r).args \in Seq(job.cells) /\ Job(r).donated \subseteq DOMAIN Job(r).args
         /\ DOMAIN Job(r).args \subseteq Nat
         /\ \A p \in DOMAIN Job(r).args : Job(r).args[p] \in job.cells
         /\ allocations(r) \in Seq(AllocationRecords) /\ Len(allocations(r)) \in Nat
         /\ DOMAIN allocations(r) = 1 .. Len(allocations(r))
         /\ output_info(r) \in Seq(OutputRecords) /\ Len(output_info(r)) \in Nat \ {0}
         /\ DOMAIN output_info(r) = 1 .. Len(output_info(r))
         /\ Job(r).shaped => Job(r).donated = {}
<1>1. WellFormedRun(Job(r), job.cells) /\ WellFormedProgram(Job(r).program)
  BY JobFacts
<1>2. /\ Job(r).args \in Seq(job.cells) /\ Job(r).donated \subseteq DOMAIN Job(r).args
      /\ Job(r).shaped => Job(r).donated = {}
  BY <1>1 DEF WellFormedRun
<1>3. DOMAIN Job(r).args \subseteq Nat /\ \A p \in DOMAIN Job(r).args : Job(r).args[p] \in job.cells
  BY <1>2
<1>4. allocations(r) \in Seq(AllocationRecords)
  BY <1>1 DEF WellFormedProgram, allocations
<1>5. output_info(r) \in Seq(OutputRecords) /\ output_info(r) # <<>>
  BY <1>1 DEF WellFormedProgram, output_info
<1>6. Len(allocations(r)) \in Nat /\ DOMAIN allocations(r) = 1 .. Len(allocations(r))
  BY <1>4
<1>7. Len(output_info(r)) \in Nat \ {0} /\ DOMAIN output_info(r) = 1 .. Len(output_info(r))
  BY <1>5
<1> QED BY <1>2, <1>3, <1>4, <1>5, <1>6, <1>7

\* The allocations of a program.
LEMMA AllocationFacts ==
  ASSUME job \in Jobs, NEW r \in Runs, NEW i \in DOMAIN allocations(r)
  PROVE  /\ allocations(r)[i] \in AllocationRecords
         /\ allocations(r)[i].kind = "param"
              => /\ allocations(r)[i].param \in DOMAIN Job(r).args
                 /\ Job(r).args[allocations(r)[i].param] \in job.cells
         /\ allocations(r)[i].kind = "constant"
              => allocations(r)[i].cell \in Constants /\ allocations(r)[i].cell \in job.cells
         /\ \A j \in DOMAIN allocations(r) :
              allocations(r)[i].kind = "param" /\ allocations(r)[j].kind = "param"
                /\ allocations(r)[i].param = allocations(r)[j].param => i = j
<1>1. WellFormedRun(Job(r), job.cells) /\ WellFormedProgram(Job(r).program)
  BY JobFacts
<1>2. allocations(r)[i] \in AllocationRecords
  BY RunFacts
<1>3. allocations(r)[i].kind = "param" => allocations(r)[i].param \in DOMAIN Job(r).args
  BY <1>1 DEF WellFormedRun, allocations
<1>4. allocations(r)[i].kind = "constant" => allocations(r)[i].cell \in job.cells
  BY <1>1 DEF WellFormedRun, allocations
<1>5. ASSUME allocations(r)[i].kind = "constant"
      PROVE  allocations(r)[i].cell \in Constants
  <2>1. allocations(r)[i] \in Range(allocations(r))
    BY DEF Range
  <2>2. allocations(r)[i].cell \in {a.cell : a \in {b \in Range(allocations(r)) : b.kind = "constant"}}
    BY <1>5, <2>1
  <2> QED BY <2>2 DEF Constants
<1>6. \A j \in DOMAIN allocations(r) :
        allocations(r)[i].kind = "param" /\ allocations(r)[j].kind = "param"
          /\ allocations(r)[i].param = allocations(r)[j].param => i = j
  BY <1>1 DEF WellFormedProgram, allocations
<1>7. \A p \in DOMAIN Job(r).args : Job(r).args[p] \in job.cells
  BY RunFacts
<1> QED BY <1>2, <1>3, <1>4, <1>5, <1>6, <1>7

\* The outputs of a program.
LEMMA OutputFacts ==
  ASSUME job \in Jobs, NEW r \in Runs, NEW o \in DOMAIN output_info(r)
  PROVE  /\ output_info(r)[o] \in OutputRecords
         /\ output_info(r)[o].alloc \in DOMAIN allocations(r)
         /\ ParamAt(Job(r).program, o) = allocations(r)[output_info(r)[o].alloc].param
         /\ output_info(r)[o].alias = "none"
              => allocations(r)[output_info(r)[o].alloc].kind = "output"
         /\ output_info(r)[o].alias # "none"
              => /\ allocations(r)[output_info(r)[o].alloc].kind = "param"
                 /\ ParamAt(Job(r).program, o) \in DOMAIN Job(r).args
                 /\ output_info(r)[o].leaf
         /\ \A q \in DOMAIN output_info(r) :
              output_info(r)[o].alias # "none" /\ q # o
                => output_info(r)[q].alloc # output_info(r)[o].alloc
         /\ output_info(r)[o].passthrough =>
              \/ ParamAt(Job(r).program, o) \in Job(r).donated
              \/ ~Job(r).shaped /\ \E q \in 1 .. o - 1 :
                   /\ output_info(r)[q].alias = "must"
                   /\ ParamAt(Job(r).program, q) \notin Job(r).donated
<1>1. WellFormedRun(Job(r), job.cells) /\ WellFormedProgram(Job(r).program)
  BY JobFacts
<1>2. output_info(r)[o] \in OutputRecords
  BY RunFacts
<1>3. /\ output_info(r)[o].alloc \in DOMAIN allocations(r)
      /\ allocations(r)[output_info(r)[o].alloc].kind
           = IF output_info(r)[o].alias = "none" THEN "output" ELSE "param"
      /\ output_info(r)[o].alias # "none" => output_info(r)[o].leaf
      /\ \A q \in DOMAIN output_info(r) \ {o} :
           output_info(r)[o].alias # "none" => output_info(r)[q].alloc # output_info(r)[o].alloc
  BY <1>1 DEF WellFormedProgram, allocations, output_info
<1>4. ParamAt(Job(r).program, o) = allocations(r)[output_info(r)[o].alloc].param
  BY DEF ParamAt, allocations, output_info
<1>5. output_info(r)[o].passthrough =>
        \/ ParamAt(Job(r).program, o) \in Job(r).donated
        \/ ~Job(r).shaped /\ \E q \in 1 .. o - 1 :
             /\ output_info(r)[q].alias = "must"
             /\ ParamAt(Job(r).program, q) \notin Job(r).donated
  BY <1>1 DEF WellFormedRun, output_info
<1>6. output_info(r)[o].alias # "none" => ParamAt(Job(r).program, o) \in DOMAIN Job(r).args
  BY <1>3, <1>4, AllocationFacts
<1>7. output_info(r)[o].alias = "none"
        => allocations(r)[output_info(r)[o].alloc].kind = "output"
  BY <1>3
<1>8. output_info(r)[o].alias # "none"
        => allocations(r)[output_info(r)[o].alloc].kind = "param"
  BY <1>3
<1>9. \A q \in DOMAIN output_info(r) :
        output_info(r)[o].alias # "none" /\ q # o
          => output_info(r)[q].alloc # output_info(r)[o].alloc
  BY <1>3
<1> QED BY <1>2, <1>3, <1>4, <1>5, <1>6, <1>7, <1>8, <1>9

\* Memory that outlives a run is an output's.
LEMMA LiveOutFacts ==
  ASSUME job \in Jobs, NEW r \in Runs, NEW i \in DOMAIN allocations(r)
  PROVE  /\ allocations(r)[i].kind = "output" => allocations(r)[i].live_out
         /\ allocations(r)[i].live_out =>
              \/ allocations(r)[i].kind \in {"temp", "output"}
              \/ \E o \in DOMAIN output_info(r) : output_info(r)[o].alloc = i
<1>1. WellFormedProgram(Job(r).program)
  BY JobFacts
<1>2. allocations(r)[i].kind = "output" => allocations(r)[i].live_out
  BY <1>1 DEF WellFormedProgram, allocations
<1>3. allocations(r)[i].live_out =>
        \/ allocations(r)[i].kind \in {"temp", "output"}
        \/ \E o \in Range(output_info(r)) : o.alloc = i
  BY <1>1 DEF WellFormedProgram, allocations, output_info
<1> QED BY <1>2, <1>3 DEF Range

\* Arguments that are donated are nobody else's, and the others and the
\* constants lie in the job's memory.
LEMMA DonatedFacts ==
  ASSUME job \in Jobs, NEW r \in Runs, NEW p \in Job(r).donated
  PROVE  /\ Job(r).args[p] \in job.cells /\ Job(r).args[p] \in Given
         /\ Job(r).args[p] \notin Lent \cup Constants
         /\ \A s \in Runs : \A q \in DOMAIN Job(s).args :
              Job(r).args[p] = Job(s).args[q] => r = s /\ p = q
<1>1. p \in DOMAIN Job(r).args /\ Job(r).args[p] \in job.cells
  BY RunFacts
<1>2. \A s \in Runs : \A q \in DOMAIN Job(s).args :
        Job(r).args[p] = Job(s).args[q] => r = s /\ p = q
  BY JobsAssumption DEF Job
<1>3. Job(r).args[p] \in Given
  BY DEF Given
<1>4. Job(r).args[p] \notin Lent
  <2>1. SUFFICES ASSUME NEW s \in Runs, NEW q \in Params(s) \ Job(s).donated,
                        Job(r).args[p] = Job(s).args[q]
                 PROVE  FALSE
    BY DEF Lent
  <2> QED BY <2>1, <1>2 DEF Params
<1>5. Job(r).args[p] \notin Constants
  <2>1. SUFFICES ASSUME NEW s \in Runs, NEW a \in Range(allocations(s)),
                        a.kind = "constant", a.cell = Job(r).args[p]
                 PROVE  FALSE
    BY DEF Constants
  <2>2. PICK i \in DOMAIN allocations(s) : a = allocations(s)[i]
    BY <2>1 DEF Range
  <2>3. allocations(s)[i].kind = "constant" => allocations(s)[i].cell # Job(r).args[p]
    BY JobsAssumption, <2>2 DEF Job, allocations
  <2> QED BY <2>1, <2>2, <2>3
<1> QED BY <1>1, <1>2, <1>3, <1>4, <1>5

LEMMA KeptFacts ==
  ASSUME job \in Jobs
  PROVE  Lent \subseteq job.cells /\ Constants \subseteq job.cells /\ Given \subseteq job.cells
<1>1. Lent \subseteq job.cells /\ Given \subseteq job.cells
  BY RunFacts DEF Lent, Given, Params
<1>2. ASSUME NEW s \in Runs, NEW a \in Range(allocations(s)), a.kind = "constant"
      PROVE  a.cell \in job.cells
  BY <1>2, AllocationFacts DEF Range
<1>3. Constants \subseteq job.cells
  BY <1>2 DEF Constants
<1> QED BY <1>1, <1>3

\* An argument of a run that was not given away.
LEMMA LentFacts ==
  ASSUME job \in Jobs, NEW r \in Runs, NEW p \in DOMAIN Job(r).args, p \notin Job(r).donated
  PROVE  Job(r).args[p] \in Lent
<1> QED BY DEF Lent, Params

\* A set of numbers that is not empty has a least one, which the allocator
\* hands out.
LEMMA LowestIsFree ==
  ASSUME job \in Jobs, free \in SUBSET job.cells, free # {}, Runs # {}
  PROVE  Lowest \in free
<1>1. free \subseteq Nat
  BY JobFacts
<1>2. PICK m \in free : \A j \in free : ~(<<j, m>> \in OpToRel(<, Nat))
  BY <1>1, NatLessThanWellFounded, WFMin
<1>3. OpToRel(<, Nat) = {p \in Nat \X Nat : p[1] < p[2]}
  BY DEF OpToRel
<1>4. \A j \in free : ~(<<j, m>> \in {p \in Nat \X Nat : p[1] < p[2]})
  BY <1>2, <1>3, Zenon
<1>5. ASSUME NEW j \in free PROVE m <= j
  <2>1. j \in Nat /\ m \in Nat /\ <<j, m>> \in Nat \X Nat
    BY <1>1
  <2>2. ~(j < m)
    BY <1>4, <2>1
  <2> QED BY <2>1, <2>2
<1> QED BY <1>5 DEF Lowest

-----------------------------------------------------------------------------
(* What a run holds.                                                       *)

MyCells(r)   == {buffers[r][i] : i \in Mine(r)}
OwnedArgs(r) == {Job(r).args[p] : p \in owned[r]}
RunInv(r)    == Progress(r) /\ Placed(r) /\ Donated(r) /\ Apart(r)

\* Where the outputs so far lie.
LEMMA ResultFacts ==
  ASSUME Types, NEW r \in Runs, Progress(r), Placed(r), NEW o \in DOMAIN result[r]
  PROVE  /\ o \in DOMAIN output_info(r) /\ output_info(r)[o].alloc \in Mine(r)
         /\ output_info(r)[o].alloc \in DOMAIN allocations(r)
         /\ result[r][o] = buffers[r][output_info(r)[o].alloc]
<1>1. /\ result[r] \in Seq(Cells) /\ buffers[r] \in Seq(Cells \cup {Null}) /\ job \in Jobs
  BY DEF Types
<1>2. Len(output_info(r)) \in Nat /\ DOMAIN output_info(r) = 1 .. Len(output_info(r))
  BY <1>1, RunFacts
<1>3. o \in DOMAIN output_info(r)
  BY <1>1, <1>2 DEF Progress
<1>4. output_info(r)[o].alloc \in DOMAIN allocations(r)
  BY <1>1, <1>3, OutputFacts
<1>5. result[r] # <<>>
  BY <1>1
<1>6. DOMAIN buffers[r] = DOMAIN allocations(r)
  BY <1>1, <1>5, RunFacts DEF Progress
<1>7. output_info(r)[o].alloc \in OutAllocs(r)
  BY DEF OutAllocs
<1> QED BY <1>3, <1>4, <1>6, <1>7 DEF Mine, Placed

LEMMA OwnIs ==
  ASSUME Types, NEW r \in Runs, Progress(r), Placed(r)
  PROVE  Own(r) \cup Range(result[r]) = MyCells(r)
<1>1. ASSUME NEW c \in Own(r) PROVE c \in MyCells(r)
  BY DEF Own, MyCells, Mine
<1>2. ASSUME NEW c \in Range(result[r]) PROVE c \in MyCells(r)
  <2>1. PICK o \in DOMAIN result[r] : c = result[r][o]
    BY DEF Range
  <2> QED BY <2>1, ResultFacts DEF MyCells
<1>3. ASSUME NEW i \in Mine(r) PROVE buffers[r][i] \in Own(r) \cup Range(result[r])
  <2>1. CASE NeedsMemory(allocations(r)[i])
    BY <2>1 DEF Own, Mine
  <2>2. CASE i \in OutAllocs(r)
    <3>1. PICK o \in DOMAIN result[r] : i = output_info(r)[o].alloc
      BY <2>2 DEF OutAllocs
    <3>2. buffers[r][i] = result[r][o]
      BY <3>1, ResultFacts
    <3> QED BY <3>2 DEF Range
  <2> QED BY <2>1, <2>2 DEF Mine
<1> QED BY <1>1, <1>2, <1>3 DEF MyCells

LEMMA HeldLive ==
  ASSUME Types, NEW r \in Runs, Progress(r), Placed(r), pc[r] \in Live
  PROVE  Has(r) = MyCells(r) \cup OwnedArgs(r)
<1>1. Has(r) = Own(r) \cup Range(result[r]) \cup {Job(r).args[p] : p \in owned[r]}
  BY DEF Has, Held, Lost, Live
<1> QED BY <1>1, OwnIs DEF OwnedArgs

LEMMA HeldLiveNext ==
  (\A r \in Runs : Types /\ Progress(r) /\ Placed(r) /\ pc[r] \in Live
     => Has(r) = MyCells(r) \cup OwnedArgs(r))'
<1>1. \A r \in Runs : Types /\ Progress(r) /\ Placed(r) /\ pc[r] \in Live
        => Has(r) = MyCells(r) \cup OwnedArgs(r)
  BY HeldLive
<1> QED BY <1>1, PTL

\* A run that takes no step.
Same(s) == /\ pc'[s] = pc[s] /\ buffers'[s] = buffers[s] /\ result'[s] = result[s]
           /\ aliased'[s] = aliased[s] /\ owned'[s] = owned[s]

LEMMA SameStays ==
  ASSUME job' = job, NEW s \in Runs, Same(s)
  PROVE  /\ RunInv(s) => RunInv(s)'
         /\ Has(s)' = Has(s) /\ Mine(s)' = Mine(s) /\ MyCells(s)' = MyCells(s)
         /\ OwnedArgs(s)' = OwnedArgs(s)
<1>1. /\ allocations(s)' = allocations(s) /\ output_info(s)' = output_info(s)
      /\ Job(s)' = Job(s)
  BY DEF Job, allocations, output_info
<1>2. OutAllocs(s)' = OutAllocs(s) /\ Mine(s)' = Mine(s)
  BY <1>1 DEF Same, OutAllocs, Mine
<1>3. MyCells(s)' = MyCells(s) /\ OwnedArgs(s)' = OwnedArgs(s)
  BY <1>1, <1>2 DEF Same, MyCells, OwnedArgs
<1>4. Progress(s) => Progress(s)'
  BY <1>1 DEF Same, Progress
<1>5. Placed(s) => Placed(s)'
  BY <1>1, <1>2 DEF Same, Placed, CallersBuffer
<1>6. Donated(s) => Donated(s)'
  BY <1>1 DEF Same, Donated, AliasedOutputs, EntirelyAliased
<1>7. Apart(s) => Apart(s)'
  BY <1>1, <1>2 DEF Same, Apart
<1>8. Has(s)' = Has(s)
  <2>1. Own(s)' = Own(s)
    BY <1>1 DEF Same, Own
  <2> QED BY <1>1, <2>1 DEF Same, Has, Held, Lost
<1> QED BY <1>2, <1>3, <1>4, <1>5, <1>6, <1>7, <1>8 DEF RunInv

LEMMA KeptStay ==
  ASSUME job' = job
  PROVE  Lent' = Lent /\ Constants' = Constants /\ Given' = Given
<1>1. ASSUME NEW r
      PROVE  allocations(r)' = allocations(r) /\ Job(r)' = Job(r) /\ Params(r)' = Params(r)
  BY DEF Job, allocations, Params
<1> QED BY <1>1 DEF Lent, Constants, Given

\* A step of a run that only moves cells between what it holds and what is
\* free keeps the ownership.
LEMMA CellsMove ==
  ASSUME Ownership, job' = job, NEW r \in Runs, \A s \in Runs \ {r} : Same(s),
         Types', RunInv(r)',
         Has(r)' \cup free' = Has(r) \cup free, Has(r)' \cap free' = {}
  PROVE  Ownership'
<1>1. Lent' = Lent /\ Constants' = Constants
  BY KeptStay
<1>2. \A s \in Runs : RunInv(s)'
  BY SameStays DEF Ownership, RunInv
<1>3. \A s \in Runs \ {r} : Has(s)' = Has(s)
  BY SameStays
<1>4. /\ \A s, u \in Runs : s # u => Has(s) \cap Has(u) = {}
      /\ \A s \in Runs : Has(s) \cap (free \cup Lent \cup Constants) = {}
      /\ job.cells = free \cup Lent \cup Constants \cup UNION {Has(s) : s \in Runs}
      /\ free \cap (Lent \cup Constants) = {}
  BY DEF Ownership, OneOwner, Has, Reserved
<1>5. \A s, u \in Runs : s # u => Has(s)' \cap Has(u)' = {}
  <2>1. \A s \in Runs \ {r} : Has(s)' \cap Has(r)' = {}
    BY <1>3, <1>4
  <2> QED BY <2>1, <1>3, <1>4
<1>6. \A s \in Runs : Has(s)' \cap (free' \cup Lent \cup Constants) = {}
  BY <1>3, <1>4
<1>7. free' \cap (Lent \cup Constants) = {}
  BY <1>4
<1>8. job.cells = free' \cup Lent \cup Constants \cup UNION {Has(s)' : s \in Runs}
  <2>1. UNION {Has(s) : s \in Runs} = Has(r) \cup UNION {Has(s) : s \in Runs \ {r}}
    OBVIOUS
  <2>2. UNION {Has(s)' : s \in Runs} = Has(r)' \cup UNION {Has(s) : s \in Runs \ {r}}
    BY <1>3
  <2> QED BY <2>1, <2>2, <1>4
<1>9. OneOwner'
  BY <1>1, <1>5, <1>6, <1>8 DEF OneOwner, Has
<1> QED BY <1>1, <1>2, <1>7, <1>9 DEF Ownership, Reserved, RunInv

-----------------------------------------------------------------------------
(* The host's stack.                                                       *)

Sequences(r) == Job(r).program.sequences

LEMMA SequenceFacts ==
  ASSUME job \in Jobs, NEW r \in Runs, NEW s \in Sequences(r)
  PROVE  /\ s \in Seq(Range(s))
         /\ s # <<>> => Tail(s) \in Sequences(r) /\ Head(s) \in Range(s)
         /\ \A t \in Range(s) : WellFormedThunk(Job(r).program, t)
         /\ Job(r).program.thunks \in Sequences(r)
<1>1. WellFormedProgram(Job(r).program)
  BY JobFacts
<1>2. /\ s \in Seq(Range(s))
      /\ s # <<>> => Tail(s) \in Sequences(r)
      /\ \A t \in Range(s) : WellFormedThunk(Job(r).program, t)
      /\ Job(r).program.thunks \in Sequences(r)
  BY <1>1 DEF WellFormedProgram, Sequences
<1>3. s # <<>> => Head(s) \in Range(s)
  BY <1>2
<1> QED BY <1>2, <1>3

LEMMA ProgramThunks ==
  ASSUME job \in Jobs, NEW r \in Runs
  PROVE  Job(r).program.thunks \in Sequences(r) /\ <<>> \in Sequences(r)
<1>1. WellFormedProgram(Job(r).program)
  BY JobFacts
<1> QED BY <1>1 DEF WellFormedProgram, Sequences

\* The thunks, by kind.
LEMMA StepFacts ==
  ASSUME job \in Jobs, NEW r \in Runs, NEW op, NEW t \in Steps(r, op)
  PROVE  /\ t.op = op /\ WellFormedThunk(Job(r).program, t)
         /\ op = "kernel" => /\ t.fn \in KernelNames /\ t.args \in Seq(Readable(Job(r).program))
                             /\ t.out \in Writable(Job(r).program)
         /\ op = "while" => t.cond \in Sequences(r) /\ t.body \in Sequences(r)
         /\ op = "for" => t.limit \in Nat /\ t.body \in Sequences(r)
         /\ op = "conditional" =>
              /\ t.branches \in Seq(Sequences(r)) /\ t.branches # <<>>
              /\ t.is_bool => Len(t.branches) = 2
<1>1. PICK s \in Sequences(r) : t \in Range(s)
  BY DEF Steps, Sequences
<1>2. WellFormedThunk(Job(r).program, t) /\ t.op = op
  BY <1>1, SequenceFacts DEF Steps
<1> QED BY <1>2 DEF WellFormedThunk, Sequences

\* The thunk or the end the host has come to, and the frames that remain.
LEMMA FrameFacts ==
  ASSUME Types, NEW r \in Runs, InThunks(r)
  PROVE  /\ Frame(r) \in Frames(r) /\ Tail(stack[r]) \in Seq(Frames(r))
         /\ Frame(r).thunks \in Sequences(r) /\ Frame(r).resume \in Resumes(r)
         /\ Frame(r).thunks # <<>> =>
              /\ Advanced(r) \in Seq(Frames(r))
              /\ Head(Frame(r).thunks) \in Steps(r, Head(Frame(r).thunks).op)
<1>1. stack[r] \in Seq(Frames(r)) /\ stack[r] # <<>> /\ job \in Jobs
  BY DEF Types, InThunks
<1>2. Frame(r) \in Frames(r) /\ Tail(stack[r]) \in Seq(Frames(r))
  BY <1>1 DEF Frame
<1>3. Frame(r).thunks \in Sequences(r) /\ Frame(r).resume \in Resumes(r)
  BY <1>2 DEF Frames, Sequences
<1>4. ASSUME Frame(r).thunks # <<>>
      PROVE  /\ Advanced(r) \in Seq(Frames(r))
             /\ Head(Frame(r).thunks) \in Steps(r, Head(Frame(r).thunks).op)
  <2>1. /\ Tail(Frame(r).thunks) \in Sequences(r)
        /\ Head(Frame(r).thunks) \in Range(Frame(r).thunks)
    BY <1>1, <1>3, <1>4, SequenceFacts
  <2>2. [Frame(r) EXCEPT !.thunks = Tail(@)] \in Frames(r)
    BY <1>2, <2>1 DEF Frames, Sequences
  <2>3. <<[Frame(r) EXCEPT !.thunks = Tail(@)]>> \in Seq(Frames(r))
    BY <2>2
  <2>4. Advanced(r) \in Seq(Frames(r))
    BY <1>2, <2>3, ConcatProperties DEF Advanced
  <2>5. Head(Frame(r).thunks) \in UNION {Range(s) : s \in Job(r).program.sequences}
    BY <1>3, <2>1 DEF Sequences
  <2> QED BY <2>4, <2>5 DEF Steps
<1> QED BY <1>2, <1>3, <1>4

LEMMA EnterIs ==
  ASSUME NEW r \in Runs, NEW thunks \in Sequences(r), NEW resume \in Resumes(r),
         NEW under \in Seq(Frames(r))
  PROVE  Enter(thunks, resume, under) \in Seq(Frames(r))
<1>1. [thunks |-> thunks, resume |-> resume] \in Frames(r)
  BY DEF Frames, Sequences
<1>2. <<[thunks |-> thunks, resume |-> resume]>> \in Seq(Frames(r))
  BY <1>1
<1> QED BY <1>2, ConcatProperties DEF Enter

\* The branch that is taken exists.
LEMMA BranchExists ==
  ASSUME job \in Jobs, NEW r \in Runs, NEW t \in Steps(r, "conditional"), NEW value
  PROVE  t.branches[Branch(t, value)] \in Sequences(r)
<1>1. /\ t.branches \in Seq(Sequences(r)) /\ t.branches # <<>>
      /\ t.is_bool => Len(t.branches) = 2
  BY StepFacts
<1>2. Branch(t, value) \in DOMAIN t.branches
  <2>1. CASE t.is_bool
    BY <1>1, <2>1 DEF Branch
  <2>2. CASE ~t.is_bool /\ value + 1 \in DOMAIN t.branches
    BY <2>2 DEF Branch
  <2>3. CASE ~t.is_bool /\ value + 1 \notin DOMAIN t.branches
    <3>1. Branch(t, value) = Len(t.branches)
      BY <2>3 DEF Branch
    <3> QED BY <1>1, <3>1
  <2> QED BY <2>1, <2>2, <2>3
<1> QED BY <1>1, <1>2

-----------------------------------------------------------------------------
(* Ownership: the steps that only move the host.                           *)

LEMMA StackMoves ==
  ASSUME Types, job' = job, NEW r \in Runs, NEW frames \in Seq(Frames(r)),
         stack' = [stack EXCEPT ![r] = frames]
  PROVE  DOMAIN stack' = Runs /\ \A s \in Runs : stack'[s] \in Seq(Frames(s)')
<1>1. \A s \in Runs : Frames(s)' = Frames(s)
  BY DEF Frames, Resumes, Steps, Job
<1> QED BY <1>1 DEF Types

LEMMA StackStays ==
  ASSUME Types, job' = job, stack' = stack
  PROVE  DOMAIN stack' = Runs /\ \A s \in Runs : stack'[s] \in Seq(Frames(s)')
<1>1. \A s \in Runs : Frames(s)' = Frames(s)
  BY DEF Frames, Resumes, Steps, Job
<1> QED BY <1>1 DEF Types

\* A host that goes on within its thunks.
Walks(r) == /\ UNCHANGED <<job, pc, buffers, result, aliased, owned, mem, free>>
            /\ \E frames \in Seq(Frames(r)) : stack' = [stack EXCEPT ![r] = frames]

LEMMA WalksHolds ==
  ASSUME Ownership, NEW r \in Runs, Walks(r),
         stream' \in [Runs \cup {"compute"} -> Seq(Enqueued)]
  PROVE  Ownership'
<1>1. DOMAIN stack' = Runs /\ \A s \in Runs : stack'[s] \in Seq(Frames(s)')
  BY StackMoves DEF Walks, Ownership
<1>2. Types'
  BY <1>1 DEF Walks, Ownership, Types
<1>3. \A s \in Runs : Same(s)
  BY DEF Walks, Same
<1>4. RunInv(r)' /\ Has(r)' = Has(r)
  BY <1>3, SameStays DEF Walks, Ownership, RunInv
<1>5. Has(r) \cap free = {}
  BY DEF Ownership, OneOwner, Has
<1> QED BY <1>2, <1>3, <1>4, <1>5, CellsMove DEF Walks

LEMMA AtThunkFacts ==
  ASSUME Types, NEW r \in Runs, NEW op, AtThunk(r, op)
  PROVE  /\ pc[r] = "thunks" /\ Advanced(r) \in Seq(Frames(r)) /\ job \in Jobs
         /\ Head(Frame(r).thunks) \in Steps(r, op)
  BY FrameFacts DEF AtThunk, InThunks, Types

LEMMA AtEndFacts ==
  ASSUME Types, NEW r \in Runs, NEW op, AtEnd(r, op)
  PROVE  /\ pc[r] = "thunks" /\ Tail(stack[r]) \in Seq(Frames(r)) /\ job \in Jobs
         /\ Frame(r).resume \in Resumes(r) /\ Frame(r).resume.op = op
  BY FrameFacts DEF AtEnd, InThunks, Types

LEMMA WhileWalks ==
  ASSUME Types, NEW r \in Runs, EnterWhile(r) \/ TestWhile(r) \/ LoopWhile(r)
  PROVE  Walks(r) /\ stream' = stream
<1>1. CASE EnterWhile(r)
  <2>1. AtThunk(r, "while")
    BY <1>1 DEF EnterWhile
  <2>2. PICK t : t = Head(Frame(r).thunks)
    OBVIOUS
  <2>3. t \in Steps(r, "while") /\ t.cond \in Sequences(r) /\ Advanced(r) \in Seq(Frames(r))
    BY <2>1, <2>2, AtThunkFacts, StepFacts
  <2>4. [op |-> "test", thunk |-> t] \in Resumes(r)
    BY <2>3 DEF Resumes
  <2>5. Enter(t.cond, [op |-> "test", thunk |-> t], Advanced(r)) \in Seq(Frames(r))
    BY <2>3, <2>4, EnterIs
  <2>6. stack' = [stack EXCEPT ![r] = Enter(t.cond, [op |-> "test", thunk |-> t], Advanced(r))]
    BY <1>1, <2>2 DEF EnterWhile
  <2> QED BY <1>1, <2>5, <2>6 DEF EnterWhile, Walks
<1>2. CASE TestWhile(r)
  <2>1. AtEnd(r, "test")
    BY <1>2 DEF TestWhile
  <2>2. PICK t : t = Frame(r).resume.thunk
    OBVIOUS
  <2>3. Tail(stack[r]) \in Seq(Frames(r)) /\ Frame(r).resume \in Resumes(r)
        /\ Frame(r).resume.op = "test" /\ job \in Jobs
    BY <2>1, AtEndFacts
  <2>4. t \in Steps(r, "while")
    BY <2>2, <2>3 DEF Resumes
  <2>5. t.body \in Sequences(r)
    BY <2>3, <2>4, StepFacts
  <2>6. [op |-> "loop", thunk |-> t] \in Resumes(r)
    BY <2>4 DEF Resumes
  <2>7. Enter(t.body, [op |-> "loop", thunk |-> t], Tail(stack[r])) \in Seq(Frames(r))
    BY <2>3, <2>5, <2>6, EnterIs
  <2>8. \/ stack' = [stack EXCEPT ![r] = Enter(t.body, [op |-> "loop", thunk |-> t], Tail(stack[r]))]
        \/ stack' = [stack EXCEPT ![r] = Tail(stack[r])]
    BY <1>2, <2>2 DEF TestWhile
  <2> QED BY <1>2, <2>3, <2>7, <2>8 DEF TestWhile, Walks
<1>3. CASE LoopWhile(r)
  <2>1. AtEnd(r, "loop")
    BY <1>3 DEF LoopWhile
  <2>2. PICK t : t = Frame(r).resume.thunk
    OBVIOUS
  <2>3. Tail(stack[r]) \in Seq(Frames(r)) /\ Frame(r).resume \in Resumes(r)
        /\ Frame(r).resume.op = "loop" /\ job \in Jobs
    BY <2>1, AtEndFacts
  <2>4. t \in Steps(r, "while")
    BY <2>2, <2>3 DEF Resumes
  <2>5. t.cond \in Sequences(r)
    BY <2>3, <2>4, StepFacts
  <2>6. [op |-> "test", thunk |-> t] \in Resumes(r)
    BY <2>4 DEF Resumes
  <2>7. Enter(t.cond, [op |-> "test", thunk |-> t], Tail(stack[r])) \in Seq(Frames(r))
    BY <2>3, <2>5, <2>6, EnterIs
  <2>8. stack' = [stack EXCEPT ![r] = Enter(t.cond, [op |-> "test", thunk |-> t], Tail(stack[r]))]
    BY <1>3, <2>2 DEF LoopWhile
  <2> QED BY <1>3, <2>7, <2>8 DEF LoopWhile, Walks
<1> QED BY <1>1, <1>2, <1>3

LEMMA ForWalks ==
  ASSUME Types, NEW r \in Runs, EnterFor(r) \/ LoopFor(r)
  PROVE  Walks(r) /\ stream' = stream
<1>1. CASE EnterFor(r)
  <2>1. AtThunk(r, "for")
    BY <1>1 DEF EnterFor
  <2>2. PICK t : t = Head(Frame(r).thunks)
    OBVIOUS
  <2>3. /\ t \in Steps(r, "for") /\ t.limit \in Nat /\ t.body \in Sequences(r)
        /\ Advanced(r) \in Seq(Frames(r)) /\ job \in Jobs
    BY <2>1, <2>2, AtThunkFacts, StepFacts
  <2>4. [op |-> "count", thunk |-> t, left |-> t.limit] \in Resumes(r)
    BY <2>3 DEF Resumes
  <2>5. <<>> \in Sequences(r)
    BY <2>3, ProgramThunks
  <2>6. Enter(<<>>, [op |-> "count", thunk |-> t, left |-> t.limit], Advanced(r)) \in Seq(Frames(r))
    BY <2>3, <2>4, <2>5, EnterIs
  <2>7. stack' = [stack EXCEPT ![r] =
          Enter(<<>>, [op |-> "count", thunk |-> t, left |-> t.limit], Advanced(r))]
    BY <1>1, <2>2 DEF EnterFor
  <2> QED BY <1>1, <2>6, <2>7 DEF EnterFor, Walks
<1>2. CASE LoopFor(r)
  <2>1. AtEnd(r, "count")
    BY <1>2 DEF LoopFor
  <2>2. PICK t, left : t = Frame(r).resume.thunk /\ left = Frame(r).resume.left
    OBVIOUS
  <2>3. Tail(stack[r]) \in Seq(Frames(r)) /\ Frame(r).resume \in Resumes(r)
        /\ Frame(r).resume.op = "count" /\ job \in Jobs
    BY <2>1, AtEndFacts
  <2>4. t \in Steps(r, "for") /\ left \in Nat
    BY <2>2, <2>3 DEF Resumes
  <2>5. t.body \in Sequences(r)
    BY <2>3, <2>4, StepFacts
  <2>6. CASE left = 0
    <3>1. stack' = [stack EXCEPT ![r] = Tail(stack[r])]
      BY <1>2, <2>2, <2>6 DEF LoopFor
    <3> QED BY <1>2, <2>3, <3>1 DEF LoopFor, Walks
  <2>7. CASE left # 0
    <3>1. left - 1 \in Nat
      BY <2>4, <2>7
    <3>2. [op |-> "count", thunk |-> t, left |-> left - 1] \in Resumes(r)
      BY <2>4, <3>1 DEF Resumes
    <3>3. Enter(t.body, [op |-> "count", thunk |-> t, left |-> left - 1], Tail(stack[r]))
            \in Seq(Frames(r))
      BY <2>3, <2>5, <3>2, EnterIs
    <3>4. stack' = [stack EXCEPT ![r] =
            Enter(t.body, [op |-> "count", thunk |-> t, left |-> left - 1], Tail(stack[r]))]
      BY <1>2, <2>2, <2>7 DEF LoopFor
    <3> QED BY <1>2, <3>3, <3>4 DEF LoopFor, Walks
  <2> QED BY <2>6, <2>7
<1> QED BY <1>1, <1>2

LEMMA ConditionalWalks ==
  ASSUME Types, NEW r \in Runs, EnterConditional(r) \/ LeaveConditional(r)
  PROVE  Walks(r) /\ stream' = stream
<1>1. CASE EnterConditional(r)
  <2>1. AtThunk(r, "conditional")
    BY <1>1 DEF EnterConditional
  <2>2. PICK t, branch : /\ t = Head(Frame(r).thunks)
                         /\ branch = t.branches[Branch(t, mem[buffers[r][t.index]])]
    OBVIOUS
  <2>3. t \in Steps(r, "conditional") /\ Advanced(r) \in Seq(Frames(r)) /\ job \in Jobs
    BY <2>1, <2>2, AtThunkFacts
  <2>4. branch \in Sequences(r)
    BY <2>2, <2>3, BranchExists
  <2>5. [op |-> "leave"] \in Resumes(r)
    BY DEF Resumes
  <2>6. Enter(branch, [op |-> "leave"], Advanced(r)) \in Seq(Frames(r))
    BY <2>3, <2>4, <2>5, EnterIs
  <2>7. stack' = [stack EXCEPT ![r] = Enter(branch, [op |-> "leave"], Advanced(r))]
    BY <1>1, <2>2 DEF EnterConditional
  <2> QED BY <1>1, <2>6, <2>7 DEF EnterConditional, Walks
<1>2. CASE LeaveConditional(r)
  <2>1. Tail(stack[r]) \in Seq(Frames(r))
    BY <1>2, AtEndFacts DEF LeaveConditional
  <2>2. stack' = [stack EXCEPT ![r] = Tail(stack[r])]
    BY <1>2 DEF LeaveConditional
  <2> QED BY <1>2, <2>1, <2>2 DEF LeaveConditional, Walks
<1> QED BY <1>1, <1>2

-----------------------------------------------------------------------------
(* Ownership: the allocations.                                             *)

\* A step of a run that is not over.
LEMMA LiveStep ==
  ASSUME Ownership, job' = job, NEW r \in Runs, \A s \in Runs \ {r} : Same(s),
         Types', RunInv(r)', pc[r] \in Live, pc'[r] \in Live,
         MyCells(r)' \cup OwnedArgs(r)' \cup free' = MyCells(r) \cup OwnedArgs(r) \cup free,
         (MyCells(r)' \cup OwnedArgs(r)') \cap free' = {}
  PROVE  Ownership'
<1>1. Has(r) = MyCells(r) \cup OwnedArgs(r)
  BY HeldLive DEF Ownership
<1>2. Has(r)' = MyCells(r)' \cup OwnedArgs(r)'
  BY HeldLiveNext DEF RunInv
<1> QED BY <1>1, <1>2, CellsMove

\* What a run that is not over holds is not free, and nobody else's.
LEMMA LiveHolds ==
  ASSUME Ownership, NEW r \in Runs, pc[r] \in Live
  PROVE  /\ Has(r) = MyCells(r) \cup OwnedArgs(r)
         /\ (MyCells(r) \cup OwnedArgs(r)) \cap (free \cup Lent \cup Constants) = {}
<1>1. Has(r) = MyCells(r) \cup OwnedArgs(r)
  BY HeldLive DEF Ownership
<1> QED BY <1>1 DEF Ownership, OneOwner, Has

LEMMA StageMoves ==
  ASSUME Ownership, NEW r \in Runs, NEW stage \in Live, pc[r] \in Live,
         pc' = [pc EXCEPT ![r] = stage],
         UNCHANGED <<job, buffers, result, aliased, owned, stream, mem, free>>,
         DOMAIN stack' = Runs /\ \A s \in Runs : stack'[s] \in Seq(Frames(s)'),
         Progress(r)'
  PROVE  Ownership'
<1>1. Types /\ RunInv(r)
  BY DEF Ownership, RunInv
<1>2. Types'
  BY <1>1 DEF Types
<1>3. pc'[r] = stage /\ \A s \in Runs \ {r} : Same(s)
  BY <1>1 DEF Types, Same
<1>4. /\ allocations(r)' = allocations(r) /\ output_info(r)' = output_info(r)
      /\ Job(r)' = Job(r)
  BY DEF Job, allocations, output_info
<1>5. Mine(r)' = Mine(r)
  BY <1>4 DEF OutAllocs, Mine
<1>6. MyCells(r)' = MyCells(r) /\ OwnedArgs(r)' = OwnedArgs(r)
  BY <1>4, <1>5 DEF MyCells, OwnedArgs
<1>7. Placed(r)'
  BY <1>1, <1>4, <1>5 DEF RunInv, Placed, CallersBuffer
<1>8. Donated(r)' /\ Apart(r)'
  BY <1>1, <1>4, <1>5 DEF RunInv, Donated, AliasedOutputs, EntirelyAliased, Apart
<1> QED BY <1>2, <1>3, <1>6, <1>7, <1>8, LiveHolds, LiveStep DEF RunInv

LEMMA AllAllocatedHolds ==
  ASSUME Ownership, NEW r \in Runs, AllAllocated(r)
  PROVE  Ownership'
<1>1. pc[r] = "allocate" /\ Len(buffers[r]) = Len(allocations(r)) /\ Types /\ Progress(r)
  BY DEF AllAllocated, Ownership
<1>2. pc' = [pc EXCEPT ![r] = "outputs"] /\ pc'[r] = "outputs"
  BY <1>1 DEF AllAllocated, Types
<1>3. allocations(r)' = allocations(r) /\ output_info(r)' = output_info(r)
  BY DEF AllAllocated, Job, allocations, output_info
<1>4. Progress(r)'
  BY <1>1, <1>2, <1>3 DEF AllAllocated, Progress
<1>5. DOMAIN stack' = Runs /\ \A s \in Runs : stack'[s] \in Seq(Frames(s)')
  BY <1>1, StackStays DEF AllAllocated
<1> QED BY <1>1, <1>2, <1>4, <1>5, StageMoves DEF AllAllocated, Live

LEMMA BeginThunksHolds ==
  ASSUME Ownership, NEW r \in Runs, BeginThunks(r)
  PROVE  Ownership'
<1>1. pc[r] = "outputs" /\ Len(result[r]) = Len(output_info(r)) /\ Types /\ Progress(r)
  BY DEF BeginThunks, Ownership
<1>2. pc' = [pc EXCEPT ![r] = "thunks"] /\ pc'[r] = "thunks"
  BY <1>1 DEF BeginThunks, Types
<1>3. allocations(r)' = allocations(r) /\ output_info(r)' = output_info(r)
  BY DEF BeginThunks, Job, allocations, output_info
<1>4. Progress(r)'
  BY <1>1, <1>2, <1>3 DEF BeginThunks, Progress
<1>5. PICK frame : frame = [thunks |-> Job(r).program.thunks, resume |-> [op |-> "return"]]
  OBVIOUS
<1>6. frame \in Frames(r)
  <2>1. [op |-> "return"] \in Resumes(r)
    BY DEF Resumes
  <2>2. Job(r).program.thunks \in Job(r).program.sequences
    BY <1>1, ProgramThunks DEF Types, Sequences
  <2> QED BY <1>5, <2>1, <2>2 DEF Frames
<1>7. <<frame>> \in Seq(Frames(r)) /\ stack' = [stack EXCEPT ![r] = <<frame>>]
  BY <1>5, <1>6 DEF BeginThunks
<1>8. DOMAIN stack' = Runs /\ \A s \in Runs : stack'[s] \in Seq(Frames(s)')
  BY <1>1, <1>7, StackMoves DEF BeginThunks
<1> QED BY <1>1, <1>2, <1>4, <1>8, StageMoves DEF BeginThunks, Live

\* One more allocation has a buffer.
LEMMA OneMoreBuffer ==
  ASSUME Ownership, NEW r \in Runs, Allocating(r), NEW b \in Cells \cup {Null},
         job' = job, pc' = pc, result' = result, aliased' = aliased, owned' = owned,
         buffers' = [buffers EXCEPT ![r] = Append(@, b)]
  PROVE  /\ Len(buffers[r]) + 1 \in DOMAIN allocations(r)
         /\ Allocation(r) = allocations(r)[Len(buffers[r]) + 1]
         /\ Len(buffers[r]) + 1 \notin DOMAIN buffers[r]
         /\ buffers' \in [Runs -> Seq(Cells \cup {Null})]
         /\ DOMAIN buffers'[r] = DOMAIN buffers[r] \cup {Len(buffers[r]) + 1}
         /\ buffers'[r][Len(buffers[r]) + 1] = b
         /\ \A i \in DOMAIN buffers[r] : buffers'[r][i] = buffers[r][i]
         /\ result[r] = <<>> /\ Progress(r)'
         /\ Mine(r)' = IF NeedsMemory(Allocation(r)) THEN Mine(r) \cup {Len(buffers[r]) + 1}
                                                    ELSE Mine(r)
         /\ \A s \in Runs \ {r} : Same(s)
         /\ pc[r] \in Live /\ pc'[r] \in Live
         /\ OwnedArgs(r)' = OwnedArgs(r)
         /\ Donated(r)'
<1>1. /\ Types /\ Progress(r) /\ Donated(r) /\ pc[r] = "allocate"
      /\ Len(buffers[r]) < Len(allocations(r))
  BY DEF Ownership, Allocating
<1>2. /\ buffers \in [Runs -> Seq(Cells \cup {Null})] /\ buffers[r] \in Seq(Cells \cup {Null})
      /\ job \in Jobs
  BY <1>1 DEF Types
<1>3. Len(allocations(r)) \in Nat /\ DOMAIN allocations(r) = 1 .. Len(allocations(r))
  BY <1>2, RunFacts
<1>4. PICK n \in Nat : n = Len(buffers[r]) /\ DOMAIN buffers[r] = 1 .. n
  BY <1>2
<1>5. buffers'[r] = Append(buffers[r], b) /\ buffers' \in [Runs -> Seq(Cells \cup {Null})]
  BY <1>2
<1>6. /\ n + 1 \in DOMAIN allocations(r) /\ n + 1 \notin DOMAIN buffers[r]
      /\ DOMAIN buffers'[r] = DOMAIN buffers[r] \cup {n + 1} /\ Len(buffers'[r]) = n + 1
      /\ buffers'[r][n + 1] = b
      /\ \A i \in DOMAIN buffers[r] : buffers'[r][i] = buffers[r][i]
  BY <1>1, <1>2, <1>3, <1>4, <1>5
<1>7. result[r] = <<>>
  BY <1>1 DEF Progress
<1>8. /\ allocations(r)' = allocations(r) /\ output_info(r)' = output_info(r)
      /\ Job(r)' = Job(r)
  BY DEF Job, allocations, output_info
<1>9. Progress(r)'
  <2>1. Len(buffers'[r]) <= Len(allocations(r))
    BY <1>3, <1>6
  <2> QED BY <1>1, <1>7, <1>8, <2>1 DEF Progress
<1>10. Mine(r)' = IF NeedsMemory(Allocation(r)) THEN Mine(r) \cup {n + 1} ELSE Mine(r)
  <2>1. OutAllocs(r) = {} /\ OutAllocs(r)' = {}
    BY <1>7 DEF OutAllocs
  <2>2. Allocation(r) = allocations(r)[n + 1]
    BY <1>4 DEF Allocation
  <2>3. Mine(r)' = {i \in DOMAIN buffers[r] \cup {n + 1} : NeedsMemory(allocations(r)[i])}
    BY <1>6, <1>8, <2>1 DEF Mine
  <2>4. Mine(r) = {i \in DOMAIN buffers[r] : NeedsMemory(allocations(r)[i])}
    BY <2>1 DEF Mine
  <2> QED BY <2>2, <2>3, <2>4
<1>11. \A s \in Runs \ {r} : Same(s)
  BY <1>2 DEF Same
<1>12. Donated(r)'
  BY <1>1, <1>8 DEF Donated, AliasedOutputs, EntirelyAliased
<1> QED BY <1>1, <1>4, <1>5, <1>6, <1>7, <1>8, <1>9, <1>10, <1>11, <1>12
        DEF Allocation, Live, OwnedArgs

LEMMA UseBufferHolds ==
  ASSUME Ownership, NEW r \in Runs, UseBuffer(r)
  PROVE  Ownership'
<1>1. /\ Types /\ RunInv(r) /\ Allocating(r) /\ ~NeedsMemory(Allocation(r))
      /\ UNCHANGED <<job, pc, result, aliased, owned, stack, stream, mem, free>>
  BY DEF UseBuffer, Ownership, RunInv
<1>2. PICK b, n : b = CallersBuffer(r, Allocation(r)) /\ n = Len(buffers[r]) + 1
  OBVIOUS
<1>3. buffers' = [buffers EXCEPT ![r] = Append(@, b)]
  <2>1. buffers' = [buffers EXCEPT ![r] = Append(@, CallersBuffer(r, Allocation(r)))]
    BY Zenon DEF UseBuffer, CallersBuffer
  <2> QED BY <1>2, <2>1
<1>4. b \in Cells \cup {Null}
  <2>1. job \in Jobs /\ job.cells \subseteq Cells
    BY <1>1, JobFacts DEF Types
  <2>2. /\ buffers[r] \in Seq(Cells \cup {Null})
        /\ Len(allocations(r)) \in Nat /\ DOMAIN allocations(r) = 1 .. Len(allocations(r))
    BY <1>1, <2>1, RunFacts DEF Types
  <2>3. n \in DOMAIN allocations(r) /\ Allocation(r) = allocations(r)[n]
    BY <1>1, <1>2, <2>2 DEF Allocating, Allocation
  <2>4. Allocation(r).kind \in {"param", "constant", "temp", "output", "thread_local"}
    BY <2>1, <2>3, AllocationFacts DEF AllocationRecords
  <2>5. CASE Allocation(r).kind = "param"
    <3>1. b = Job(r).args[Allocation(r).param]
      BY <1>2, <2>5 DEF CallersBuffer
    <3> QED BY <2>1, <2>3, <2>5, <3>1, AllocationFacts
  <2>6. CASE Allocation(r).kind = "constant"
    <3>1. b = Allocation(r).cell
      BY <1>2, <2>6 DEF CallersBuffer
    <3> QED BY <2>1, <2>3, <2>6, <3>1, AllocationFacts
  <2>7. CASE Allocation(r).kind = "thread_local"
    <3>1. b = Null
      BY <1>2, <2>7 DEF CallersBuffer
    <3> QED BY <3>1
  <2> QED BY <1>1, <2>4, <2>5, <2>6, <2>7 DEF NeedsMemory
<1>5. /\ n \in DOMAIN allocations(r) /\ Allocation(r) = allocations(r)[n]
      /\ n \notin DOMAIN buffers[r]
      /\ buffers' \in [Runs -> Seq(Cells \cup {Null})]
      /\ DOMAIN buffers'[r] = DOMAIN buffers[r] \cup {n} /\ buffers'[r][n] = b
      /\ \A i \in DOMAIN buffers[r] : buffers'[r][i] = buffers[r][i]
      /\ result[r] = <<>> /\ Progress(r)' /\ Mine(r)' = Mine(r)
      /\ \A s \in Runs \ {r} : Same(s)
      /\ pc[r] \in Live /\ pc'[r] \in Live
      /\ OwnedArgs(r)' = OwnedArgs(r) /\ Donated(r)'
  BY <1>1, <1>2, <1>3, <1>4, OneMoreBuffer
<1>6. allocations(r)' = allocations(r) /\ Job(r)' = Job(r)
  BY <1>1 DEF Job, allocations
<1>7. Mine(r) \subseteq DOMAIN buffers[r]
  BY DEF Mine
<1>8. Placed(r)'
  <2>1. \A i \in DOMAIN buffers'[r] :
          IF i \in Mine(r) THEN buffers'[r][i] \in job.cells
                           ELSE buffers'[r][i] = CallersBuffer(r, allocations(r)[i])
    BY <1>1, <1>2, <1>5, <1>7 DEF RunInv, Placed
  <2>2. result'[r] = <<>>
    BY <1>1, <1>5
  <2>3. \A i \in DOMAIN buffers'[r] :
          CallersBuffer(r, allocations(r)[i])' = CallersBuffer(r, allocations(r)[i])
    BY <1>6 DEF CallersBuffer
  <2> QED BY <1>1, <1>5, <2>1, <2>2, <2>3 DEF Placed
<1>9. Apart(r)'
  BY <1>1, <1>5, <1>6, <1>7 DEF RunInv, Apart
<1>10. MyCells(r)' = MyCells(r)
  BY <1>5, <1>7 DEF MyCells
<1>11. Types'
  BY <1>1, <1>5, StackStays DEF Types
<1> QED BY <1>1, <1>5, <1>8, <1>9, <1>10, <1>11, LiveHolds, LiveStep DEF RunInv

LEMMA AllocateHolds ==
  ASSUME Ownership, NEW r \in Runs, Allocate(r)
  PROVE  Ownership'
<1>1. /\ Types /\ RunInv(r) /\ Allocating(r) /\ NeedsMemory(Allocation(r)) /\ free # {}
      /\ UNCHANGED <<job, pc, result, aliased, owned, stack, stream, mem>>
  BY DEF Allocate, Ownership, RunInv
<1>2. PICK b, n : b = Lowest /\ n = Len(buffers[r]) + 1
  OBVIOUS
<1>3. /\ buffers' = [buffers EXCEPT ![r] = Append(@, b)]
      /\ free' = free \ {b}
  BY <1>2 DEF Allocate
<1>4. b \in free /\ b \in job.cells /\ b \in Cells \cup {Null}
  <2>1. b \in free
    BY <1>1, <1>2, LowestIsFree DEF Types
  <2> QED BY <1>1, <2>1, JobFacts DEF Types
<1>5. /\ n \notin DOMAIN buffers[r]
      /\ buffers' \in [Runs -> Seq(Cells \cup {Null})]
      /\ DOMAIN buffers'[r] = DOMAIN buffers[r] \cup {n} /\ buffers'[r][n] = b
      /\ \A i \in DOMAIN buffers[r] : buffers'[r][i] = buffers[r][i]
      /\ result[r] = <<>> /\ Progress(r)' /\ Mine(r)' = Mine(r) \cup {n}
      /\ \A s \in Runs \ {r} : Same(s)
      /\ pc[r] \in Live /\ pc'[r] \in Live
      /\ OwnedArgs(r)' = OwnedArgs(r) /\ Donated(r)'
  BY <1>1, <1>2, <1>3, <1>4, OneMoreBuffer
<1>6. allocations(r)' = allocations(r) /\ Job(r)' = Job(r)
  BY <1>1 DEF Job, allocations
<1>7. Mine(r) \subseteq DOMAIN buffers[r]
  BY DEF Mine
<1>8. (MyCells(r) \cup OwnedArgs(r)) \cap free = {}
  BY <1>5, LiveHolds
<1>9. Placed(r)'
  <2>1. \A i \in DOMAIN buffers'[r] :
          IF i \in Mine(r) \cup {n} THEN buffers'[r][i] \in job.cells
          ELSE buffers'[r][i] = CallersBuffer(r, allocations(r)[i])
    BY <1>1, <1>4, <1>5, <1>7 DEF RunInv, Placed
  <2>2. result'[r] = <<>>
    BY <1>1, <1>5
  <2>3. \A i \in DOMAIN buffers'[r] :
          CallersBuffer(r, allocations(r)[i])' = CallersBuffer(r, allocations(r)[i])
    BY <1>6 DEF CallersBuffer
  <2> QED BY <1>1, <1>5, <2>1, <2>2, <2>3 DEF Placed
<1>10. Apart(r)'
  <2>1. \A i \in Mine(r) : buffers[r][i] # b
    BY <1>4, <1>8 DEF MyCells
  <2>2. \A p \in owned[r] : Job(r).args[p] # b
    BY <1>4, <1>8 DEF OwnedArgs
  <2> QED BY <1>1, <1>5, <1>6, <1>7, <2>1, <2>2 DEF RunInv, Apart
<1>11. MyCells(r)' = MyCells(r) \cup {b}
  BY <1>5, <1>7 DEF MyCells
<1>12. Types'
  BY <1>1, <1>3, <1>5, StackStays DEF Types
<1>13. /\ MyCells(r)' \cup OwnedArgs(r)' \cup free' = MyCells(r) \cup OwnedArgs(r) \cup free
       /\ (MyCells(r)' \cup OwnedArgs(r)') \cap free' = {}
  BY <1>3, <1>4, <1>5, <1>8, <1>11
<1> QED BY <1>1, <1>5, <1>9, <1>10, <1>12, <1>13, LiveStep DEF RunInv

-----------------------------------------------------------------------------
(* Ownership: the buffers of the outputs.                                  *)

\* The output a run has come to.
LEMMA OutputStep ==
  ASSUME Ownership, NEW r \in Runs, Outputs(r)
  PROVE  LET n == Len(result[r]) + 1
             k == Output(r).alloc
             p == ParamOf(r) IN
         /\ Types /\ RunInv(r) /\ job \in Jobs
         /\ pc[r] = "outputs" /\ pc[r] \in Live
         /\ n \in Nat /\ n \in DOMAIN output_info(r) /\ Output(r) = output_info(r)[n]
         /\ DOMAIN result[r] = 1 .. n - 1 /\ n \notin DOMAIN result[r]
         /\ \A o \in DOMAIN result[r] : o \in DOMAIN output_info(r)
         /\ p = ParamAt(Job(r).program, n)
         /\ k \in DOMAIN allocations(r) /\ DOMAIN buffers[r] = DOMAIN allocations(r)
         /\ Output(r).alias # "none" =>
              /\ k \notin Mine(r) /\ k \notin OutAllocs(r)
              /\ p \in DOMAIN Job(r).args /\ Job(r).args[p] \in job.cells
              /\ buffers[r][k] = Job(r).args[p]
              /\ Output(r).leaf
              /\ p \in Job(r).donated => p \in owned[r]
         /\ Output(r).alias = "none" => k \in Mine(r)
<1> DEFINE n == Len(result[r]) + 1
           k == Output(r).alloc
           p == ParamOf(r)
<1>1. /\ Types /\ RunInv(r) /\ job \in Jobs /\ pc[r] = "outputs"
      /\ Len(result[r]) < Len(output_info(r))
  BY DEF Ownership, RunInv, Types, Outputs
<1>2. /\ Len(output_info(r)) \in Nat /\ DOMAIN output_info(r) = 1 .. Len(output_info(r))
      /\ Len(allocations(r)) \in Nat /\ DOMAIN allocations(r) = 1 .. Len(allocations(r))
  BY <1>1, RunFacts
<1>3. result[r] \in Seq(Cells) /\ buffers[r] \in Seq(Cells \cup {Null})
  BY <1>1 DEF Types
<1>4. /\ n \in Nat /\ n \in DOMAIN output_info(r) /\ Output(r) = output_info(r)[n]
      /\ DOMAIN result[r] = 1 .. n - 1 /\ n \notin DOMAIN result[r]
      /\ \A o \in DOMAIN result[r] : o \in DOMAIN output_info(r)
  BY <1>1, <1>2, <1>3 DEF Output
<1>5. DOMAIN buffers[r] = DOMAIN allocations(r)
  BY <1>1, <1>2, <1>3 DEF RunInv, Progress
<1>6. k \in DOMAIN allocations(r) /\ p = ParamAt(Job(r).program, n)
  BY <1>1, <1>4, OutputFacts DEF ParamOf
<1>7. ASSUME Output(r).alias # "none"
      PROVE  /\ k \notin Mine(r) /\ k \notin OutAllocs(r)
             /\ p \in DOMAIN Job(r).args /\ Job(r).args[p] \in job.cells
             /\ buffers[r][k] = Job(r).args[p]
             /\ Output(r).leaf
             /\ p \in Job(r).donated => p \in owned[r]
  <2>1. /\ allocations(r)[k].kind = "param" /\ Output(r).leaf
        /\ \A q \in DOMAIN output_info(r) : q # n => output_info(r)[q].alloc # k
    BY <1>1, <1>4, <1>7, OutputFacts
  <2>2. k \notin OutAllocs(r)
    BY <1>4, <2>1 DEF OutAllocs
  <2>3. k \notin Mine(r)
    BY <2>1, <2>2 DEF Mine, NeedsMemory
  <2>4. p \in DOMAIN Job(r).args /\ Job(r).args[p] \in job.cells /\ p = allocations(r)[k].param
    BY <1>1, <1>6, <2>1, AllocationFacts DEF ParamOf
  <2>5. buffers[r][k] = CallersBuffer(r, allocations(r)[k])
    BY <1>1, <1>5, <1>6, <2>3 DEF RunInv, Placed
  <2>6. CallersBuffer(r, allocations(r)[k]) = Job(r).args[allocations(r)[k].param]
    BY <2>1 DEF CallersBuffer
  <2>7. ASSUME p \in Job(r).donated, p \notin owned[r] PROVE FALSE
    <3>1. PICK o \in DOMAIN result[r] : /\ output_info(r)[o].alias # "none"
                                        /\ ParamAt(Job(r).program, o) = p
      BY <1>1, <2>7 DEF RunInv, Donated
    <3>2. o \in DOMAIN output_info(r) /\ o # n
      BY <1>4
    <3>3. /\ output_info(r)[o].alloc \in DOMAIN allocations(r)
          /\ allocations(r)[output_info(r)[o].alloc].kind = "param"
          /\ allocations(r)[output_info(r)[o].alloc].param = p
      BY <1>1, <3>1, <3>2, OutputFacts
    <3>4. output_info(r)[o].alloc = k
      BY <1>1, <1>6, <2>1, <2>4, <3>3, AllocationFacts
    <3> QED BY <2>1, <3>2, <3>4
  <2> QED BY <2>1, <2>2, <2>3, <2>4, <2>5, <2>6, <2>7
<1>8. ASSUME Output(r).alias = "none" PROVE k \in Mine(r)
  <2>1. allocations(r)[k].kind = "output"
    BY <1>1, <1>4, <1>8, OutputFacts
  <2> QED BY <1>5, <1>6, <2>1 DEF Mine, NeedsMemory
<1> QED BY <1>1, <1>4, <1>5, <1>6, <1>7, <1>8 DEF Live

\* One more output has a buffer.
LEMMA OneMoreResult ==
  ASSUME Ownership, NEW r \in Runs, Outputs(r), NEW c \in Cells,
         job' = job, pc' = pc, result' = [result EXCEPT ![r] = Append(@, c)],
         buffers' \in [Runs -> Seq(Cells \cup {Null})],
         DOMAIN buffers'[r] = DOMAIN buffers[r]
  PROVE  LET n == Len(result[r]) + 1
             k == Output(r).alloc IN
         /\ result' \in [Runs -> Seq(Cells)]
         /\ DOMAIN result'[r] = DOMAIN result[r] \cup {n} /\ result'[r][n] = c
         /\ \A o \in DOMAIN result[r] : result'[r][o] = result[r][o]
         /\ Progress(r)' /\ pc'[r] \in Live
         /\ allocations(r)' = allocations(r) /\ output_info(r)' = output_info(r)
         /\ Job(r)' = Job(r)
         /\ OutAllocs(r)' = OutAllocs(r) \cup {k} /\ Mine(r)' = Mine(r) \cup {k}
<1> DEFINE n == Len(result[r]) + 1
           k == Output(r).alloc
<1>1. /\ Types /\ RunInv(r) /\ job \in Jobs /\ pc[r] = "outputs" /\ pc[r] \in Live
      /\ n \in Nat /\ n \in DOMAIN output_info(r) /\ Output(r) = output_info(r)[n]
      /\ DOMAIN result[r] = 1 .. n - 1
      /\ k \in DOMAIN allocations(r) /\ DOMAIN buffers[r] = DOMAIN allocations(r)
  BY OutputStep
<1>2. result \in [Runs -> Seq(Cells)] /\ result[r] \in Seq(Cells)
      /\ buffers[r] \in Seq(Cells \cup {Null}) /\ buffers'[r] \in Seq(Cells \cup {Null})
  BY <1>1 DEF Types
<1>3. result'[r] = Append(result[r], c) /\ result' \in [Runs -> Seq(Cells)]
  BY <1>2
<1>4. /\ DOMAIN result'[r] = DOMAIN result[r] \cup {n} /\ result'[r][n] = c
      /\ \A o \in DOMAIN result[r] : result'[r][o] = result[r][o]
      /\ Len(result'[r]) = n
  BY <1>1, <1>2, <1>3
<1>5. /\ allocations(r)' = allocations(r) /\ output_info(r)' = output_info(r)
      /\ Job(r)' = Job(r)
  BY DEF Job, allocations, output_info
<1>6. /\ Len(output_info(r)) \in Nat /\ DOMAIN output_info(r) = 1 .. Len(output_info(r))
      /\ Len(allocations(r)) \in Nat /\ DOMAIN allocations(r) = 1 .. Len(allocations(r))
  BY <1>1, RunFacts
<1>7. Progress(r)'
  <2>1. Len(buffers'[r]) = Len(buffers[r]) /\ Len(buffers[r]) = Len(allocations(r))
    BY <1>1, <1>2, <1>6
  <2>2. n <= Len(output_info(r))
    BY <1>1, <1>6
  <2> QED BY <1>1, <1>4, <1>5, <1>6, <2>1, <2>2 DEF Progress
<1>8. OutAllocs(r)' = OutAllocs(r) \cup {k}
  BY <1>1, <1>4, <1>5 DEF OutAllocs
<1>9. Mine(r)' = Mine(r) \cup {k}
  BY <1>1, <1>5, <1>8 DEF Mine
<1> QED BY <1>1, <1>3, <1>4, <1>5, <1>7, <1>8, <1>9

LEMMA DonateHolds ==
  ASSUME Ownership, NEW r \in Runs, Donate(r)
  PROVE  Ownership'
<1>1. Outputs(r) /\ HasOwnership(r) /\ UNCHANGED <<job, pc, buffers, stack, stream, mem, free>>
  BY DEF Donate
<1>2. PICK n, k, p, c : /\ n = Len(result[r]) + 1 /\ k = Output(r).alloc
                        /\ p = ParamOf(r) /\ c = Job(r).args[p]
  OBVIOUS
<1>3. /\ Types /\ RunInv(r) /\ job \in Jobs /\ pc[r] \in Live
      /\ n \in Nat /\ n \in DOMAIN output_info(r) /\ Output(r) = output_info(r)[n]
      /\ n \notin DOMAIN result[r] /\ \A o \in DOMAIN result[r] : o \in DOMAIN output_info(r)
      /\ p = ParamAt(Job(r).program, n) /\ DOMAIN buffers[r] = DOMAIN allocations(r)
      /\ k \in DOMAIN allocations(r)
      /\ k \notin Mine(r) /\ k \notin OutAllocs(r) /\ c \in job.cells /\ buffers[r][k] = c
  BY <1>1, <1>2, OutputStep DEF HasOwnership
<1>4. p \in owned[r] /\ p \in Job(r).donated /\ Output(r).alias # "none"
  BY <1>1, <1>2, <1>3 DEF HasOwnership, RunInv, Donated
<1>5. /\ result' = [result EXCEPT ![r] = Append(@, c)]
      /\ owned' = [owned EXCEPT ![r] = @ \ {p}]
      /\ aliased' = [aliased EXCEPT ![r] = @ \cup {n}]
  BY <1>2 DEF Donate
<1>6. c \in Cells
  BY <1>3, JobFacts
<1>7. /\ result' \in [Runs -> Seq(Cells)]
      /\ DOMAIN result'[r] = DOMAIN result[r] \cup {n} /\ result'[r][n] = c
      /\ \A o \in DOMAIN result[r] : result'[r][o] = result[r][o]
      /\ Progress(r)' /\ pc'[r] \in Live
      /\ allocations(r)' = allocations(r) /\ output_info(r)' = output_info(r)
      /\ Job(r)' = Job(r) /\ Mine(r)' = Mine(r) \cup {k}
  <2>1. buffers' \in [Runs -> Seq(Cells \cup {Null})] /\ DOMAIN buffers'[r] = DOMAIN buffers[r]
    BY <1>1, <1>3 DEF Types
  <2> QED BY <1>1, <1>2, <1>5, <1>6, <2>1, OneMoreResult
<1>8. /\ owned'[r] = owned[r] \ {p} /\ aliased'[r] = aliased[r] \cup {n}
      /\ owned' \in [Runs -> SUBSET Nat] /\ aliased' \in [Runs -> SUBSET Nat]
  BY <1>3, <1>5 DEF Types
<1>9. Types'
  BY <1>1, <1>3, <1>7, <1>8, StackStays DEF Types
<1>10. \A s \in Runs \ {r} : Same(s)
  BY <1>1, <1>3, <1>5 DEF Same, Types
<1>11. Placed(r)'
  <2>1. \A i \in DOMAIN buffers[r] :
          IF i \in Mine(r) \cup {k} THEN buffers[r][i] \in job.cells
          ELSE buffers[r][i] = CallersBuffer(r, allocations(r)[i])
    BY <1>3 DEF RunInv, Placed
  <2>2. \A i \in DOMAIN buffers[r] :
          CallersBuffer(r, allocations(r)[i])' = CallersBuffer(r, allocations(r)[i])
    BY <1>7 DEF CallersBuffer
  <2>3. \A o \in DOMAIN result'[r] : result'[r][o] = buffers[r][output_info(r)[o].alloc]
    BY <1>2, <1>3, <1>7 DEF RunInv, Placed
  <2> QED BY <1>1, <1>7, <2>1, <2>2, <2>3 DEF Placed
<1>12. Donated(r)'
  <2>1. \A q \in Job(r).donated \ owned'[r] :
          \E o \in DOMAIN result'[r] :
            output_info(r)[o].alias # "none" /\ ParamAt(Job(r).program, o) = q
    BY <1>3, <1>4, <1>7, <1>8 DEF RunInv, Donated
  <2>2. owned'[r] \subseteq Job(r).donated
    BY <1>3, <1>8 DEF RunInv, Donated
  <2>3. \A o \in DOMAIN result'[r] : output_info(r)[o].alias # "none" =>
          /\ ParamAt(Job(r).program, o) \notin owned'[r]
          /\ ParamAt(Job(r).program, o) \in Job(r).donated => o \in aliased'[r]
          /\ output_info(r)[o].alias = "must" /\ ~Job(r).shaped
               => ParamAt(Job(r).program, o) \in Job(r).donated
    BY <1>3, <1>4, <1>7, <1>8 DEF RunInv, Donated
  <2>4. AliasedOutputs(r)'
    BY <1>3, <1>4, <1>7, <1>8 DEF RunInv, Donated, AliasedOutputs, EntirelyAliased
  <2> QED BY <1>7, <2>1, <2>2, <2>3, <2>4 DEF Donated
<1>13. Apart(r)'
  <2>1. \A i \in Mine(r) : buffers[r][i] # c
    BY <1>2, <1>3, <1>4 DEF RunInv, Apart
  <2>2. \A q \in owned'[r] : c # Job(r).args[q]
    <3>1. \A q \in owned'[r] : q \in DOMAIN Job(r).args /\ q # p
      BY <1>3, <1>8, RunFacts DEF RunInv, Donated
    <3> QED BY <1>2, <1>3, <1>4, <3>1, DonatedFacts
  <2> QED BY <1>1, <1>3, <1>7, <1>8, <2>1, <2>2 DEF RunInv, Apart
<1>14. MyCells(r)' = MyCells(r) \cup {c}
  BY <1>1, <1>3, <1>7 DEF MyCells
<1>15. OwnedArgs(r)' \cup {c} = OwnedArgs(r)
  <2>1. OwnedArgs(r)' = {Job(r).args[q] : q \in owned[r] \ {p}}
    BY <1>7, <1>8 DEF OwnedArgs
  <2> QED BY <1>2, <1>4, <2>1 DEF OwnedArgs
<1>16. (MyCells(r) \cup OwnedArgs(r)) \cap free = {}
  BY <1>3, LiveHolds
<1>17. /\ MyCells(r)' \cup OwnedArgs(r)' \cup free' = MyCells(r) \cup OwnedArgs(r) \cup free
       /\ (MyCells(r)' \cup OwnedArgs(r)') \cap free' = {}
  BY <1>1, <1>14, <1>15, <1>16
<1> QED BY <1>1, <1>3, <1>7, <1>9, <1>10, <1>11, <1>12, <1>13, <1>17, LiveStep DEF RunInv

\* What CopyProtection enqueues.
LEMMA CopyEnqueues ==
  ASSUME Types, NEW r \in Runs, NEW fn \in KernelNames, NEW args \in Seq(Cells),
         NEW out \in Cells, Enqueue(r, fn, args, out)
  PROVE  /\ StreamOf(r) \in Runs \cup {"compute"}
         /\ stream' \in [Runs \cup {"compute"} -> Seq(Enqueued)]
         /\ stream' = [stream EXCEPT ![StreamOf(r)] =
              Append(@, [run |-> r, fn |-> fn, args |-> args, out |-> out])]
         /\ [run |-> r, fn |-> fn, args |-> args, out |-> out] \in Enqueued
<1>1. [run |-> r, fn |-> fn, args |-> args, out |-> out] \in Enqueued
  BY DEF Enqueued
<1>2. stream' = [stream EXCEPT ![StreamOf(r)] =
        Append(@, [run |-> r, fn |-> fn, args |-> args, out |-> out])]
  BY DEF Enqueue
<1>3. StreamOf(r) \in Runs \cup {"compute"}
  BY DEF StreamOf
<1> QED BY <1>1, <1>2, <1>3 DEF Types

LEMMA CopyProtectionHolds ==
  ASSUME Ownership, NEW r \in Runs, CopyProtection(r)
  PROVE  Ownership'
<1>1. /\ CopyProtected(r) /\ free # {} /\ UNCHANGED <<job, pc, aliased, owned, stack, mem>>
      /\ Outputs(r) /\ ~HasOwnership(r) /\ ~Rejected(r) /\ Output(r).alias # "none"
  BY DEF CopyProtection, CopyProtected
<1>2. PICK n, k, p, c : /\ n = Len(result[r]) + 1 /\ k = Output(r).alloc
                        /\ p = ParamOf(r) /\ c = Lowest
  OBVIOUS
<1>3. /\ Types /\ RunInv(r) /\ job \in Jobs /\ pc[r] \in Live
      /\ n \in Nat /\ n \in DOMAIN output_info(r) /\ Output(r) = output_info(r)[n]
      /\ n \notin DOMAIN result[r] /\ \A o \in DOMAIN result[r] : o \in DOMAIN output_info(r)
      /\ p = ParamAt(Job(r).program, n) /\ DOMAIN buffers[r] = DOMAIN allocations(r)
      /\ k \in DOMAIN allocations(r)
      /\ k \notin Mine(r) /\ k \notin OutAllocs(r)
      /\ Job(r).args[p] \in job.cells /\ buffers[r][k] = Job(r).args[p]
      /\ p \in Job(r).donated => p \in owned[r]
  BY <1>1, <1>2, OutputStep
<1>4. p \notin owned[r] /\ p \notin Job(r).donated
  BY <1>1, <1>2, <1>3 DEF HasOwnership
<1>5. /\ result' = [result EXCEPT ![r] = Append(@, c)]
      /\ buffers' = [buffers EXCEPT ![r][k] = c] /\ free' = free \ {c}
      /\ Enqueue(r, "copy", <<buffers[r][k]>>, c)
  BY <1>2 DEF CopyProtection
<1>6. c \in free /\ c \in job.cells /\ c \in Cells /\ job.cells \subseteq Cells
  <2>1. c \in free
    BY <1>1, <1>2, <1>3, LowestIsFree DEF Types
  <2> QED BY <1>3, <2>1, JobFacts DEF Types
<1>7. /\ buffers' \in [Runs -> Seq(Cells \cup {Null})]
      /\ DOMAIN buffers'[r] = DOMAIN buffers[r] /\ buffers'[r][k] = c
      /\ \A i \in DOMAIN buffers[r] \ {k} : buffers'[r][i] = buffers[r][i]
  <2>1. buffers \in [Runs -> Seq(Cells \cup {Null})] /\ buffers[r] \in Seq(Cells \cup {Null})
    BY <1>3 DEF Types
  <2>2. [buffers[r] EXCEPT ![k] = c] \in Seq(Cells \cup {Null})
    BY <1>3, <1>6, <2>1
  <2>3. buffers'[r] = [buffers[r] EXCEPT ![k] = c]
    BY <1>5, <2>1
  <2>4. buffers' \in [Runs -> Seq(Cells \cup {Null})]
    BY <1>5, <2>1, <2>2
  <2> QED BY <1>3, <2>1, <2>3, <2>4
<1>8. /\ result' \in [Runs -> Seq(Cells)]
      /\ DOMAIN result'[r] = DOMAIN result[r] \cup {n} /\ result'[r][n] = c
      /\ \A o \in DOMAIN result[r] : result'[r][o] = result[r][o]
      /\ Progress(r)' /\ pc'[r] \in Live
      /\ allocations(r)' = allocations(r) /\ output_info(r)' = output_info(r)
      /\ Job(r)' = Job(r) /\ Mine(r)' = Mine(r) \cup {k}
  BY <1>1, <1>2, <1>5, <1>6, <1>7, OneMoreResult
<1>9. stream' \in [Runs \cup {"compute"} -> Seq(Enqueued)]
  <2>1. <<buffers[r][k]>> \in Seq(Cells) /\ "copy" \in KernelNames
    BY <1>3, <1>6 DEF KernelNames
  <2> QED BY <1>3, <1>5, <1>6, <2>1, CopyEnqueues
<1>10. Types'
  BY <1>1, <1>3, <1>5, <1>7, <1>8, <1>9, StackStays DEF Types
<1>11. \A s \in Runs \ {r} : Same(s)
  BY <1>1, <1>3, <1>5 DEF Same, Types
<1>12. (MyCells(r) \cup OwnedArgs(r)) \cap free = {}
  BY <1>3, LiveHolds
<1>13. Mine(r) \subseteq DOMAIN buffers[r] \ {k}
  BY <1>3 DEF Mine
<1>14. Placed(r)'
  <2>1. \A i \in DOMAIN buffers'[r] :
          IF i \in Mine(r) \cup {k} THEN buffers'[r][i] \in job.cells
          ELSE buffers'[r][i] = CallersBuffer(r, allocations(r)[i])
    BY <1>3, <1>6, <1>7 DEF RunInv, Placed
  <2>2. \A i \in DOMAIN buffers'[r] :
          CallersBuffer(r, allocations(r)[i])' = CallersBuffer(r, allocations(r)[i])
    BY <1>8 DEF CallersBuffer
  <2>3. \A o \in DOMAIN result[r] :
          output_info(r)[o].alloc # k /\ output_info(r)[o].alloc \in DOMAIN buffers[r]
    BY <1>3, OutputFacts DEF OutAllocs
  <2>4. \A o \in DOMAIN result'[r] : result'[r][o] = buffers'[r][output_info(r)[o].alloc]
    BY <1>2, <1>3, <1>7, <1>8, <2>3 DEF RunInv, Placed
  <2> QED BY <1>1, <1>8, <2>1, <2>2, <2>4 DEF Placed
<1>15. Donated(r)'
  <2>1. ~(output_info(r)[n].alias = "must" /\ ~Job(r).shaped)
    BY <1>1, <1>3 DEF Rejected
  <2>2. \A o \in DOMAIN result'[r] : output_info(r)[o].alias # "none" =>
          /\ ParamAt(Job(r).program, o) \notin owned[r]
          /\ ParamAt(Job(r).program, o) \in Job(r).donated => o \in aliased[r]
          /\ output_info(r)[o].alias = "must" /\ ~Job(r).shaped
               => ParamAt(Job(r).program, o) \in Job(r).donated
    BY <1>3, <1>4, <1>8, <2>1 DEF RunInv, Donated
  <2>3. \A q \in Job(r).donated \ owned[r] :
          \E o \in DOMAIN result'[r] :
            output_info(r)[o].alias # "none" /\ ParamAt(Job(r).program, o) = q
    BY <1>3, <1>8 DEF RunInv, Donated
  <2>4. AliasedOutputs(r)'
    BY <1>1, <1>3, <1>8 DEF RunInv, Donated, AliasedOutputs, EntirelyAliased
  <2> QED BY <1>1, <1>3, <1>8, <2>2, <2>3, <2>4 DEF RunInv, Donated
<1>16. Apart(r)'
  <2>1. \A i \in Mine(r) : buffers[r][i] # c
    BY <1>6, <1>12 DEF MyCells
  <2>2. \A q \in owned[r] : Job(r).args[q] # c
    BY <1>6, <1>12 DEF OwnedArgs
  <2> QED BY <1>1, <1>3, <1>7, <1>8, <1>13, <2>1, <2>2 DEF RunInv, Apart
<1>17. MyCells(r)' = MyCells(r) \cup {c} /\ OwnedArgs(r)' = OwnedArgs(r)
  BY <1>1, <1>7, <1>8, <1>13 DEF MyCells, OwnedArgs
<1>18. /\ MyCells(r)' \cup OwnedArgs(r)' \cup free' = MyCells(r) \cup OwnedArgs(r) \cup free
       /\ (MyCells(r)' \cup OwnedArgs(r)') \cap free' = {}
  BY <1>5, <1>6, <1>12, <1>17
<1> QED BY <1>1, <1>3, <1>8, <1>10, <1>11, <1>14, <1>15, <1>16, <1>18, LiveStep DEF RunInv

LEMMA TakeAllocationHolds ==
  ASSUME Ownership, NEW r \in Runs, TakeAllocation(r)
  PROVE  Ownership'
<1>1. /\ Outputs(r) /\ ~HasOwnership(r) /\ ~CopyProtected(r) /\ ~Rejected(r)
      /\ UNCHANGED <<job, pc, buffers, owned, stack, stream, mem, free>>
  BY DEF TakeAllocation
<1>2. PICK n, k, p, c : /\ n = Len(result[r]) + 1 /\ k = Output(r).alloc
                        /\ p = ParamOf(r) /\ c = buffers[r][k]
  OBVIOUS
<1>3. /\ Types /\ RunInv(r) /\ job \in Jobs /\ pc[r] \in Live
      /\ n \in Nat /\ n \in DOMAIN output_info(r) /\ Output(r) = output_info(r)[n]
      /\ DOMAIN result[r] = 1 .. n - 1 /\ n \notin DOMAIN result[r]
      /\ \A o \in DOMAIN result[r] : o \in DOMAIN output_info(r)
      /\ p = ParamAt(Job(r).program, n) /\ DOMAIN buffers[r] = DOMAIN allocations(r)
      /\ Output(r).alias # "none" =>
           Output(r).leaf /\ (p \in Job(r).donated => p \in owned[r])
      /\ Output(r).alias = "none" => k \in Mine(r)
  BY <1>1, <1>2, OutputStep
<1>4. Output(r).alias = "none" /\ k \in Mine(r)
  <2>1. SUFFICES ASSUME Output(r).alias # "none" PROVE FALSE
    BY <1>3
  <2>2. p \notin owned[r] /\ p \notin Job(r).donated
    BY <1>1, <1>2, <1>3, <2>1 DEF HasOwnership
  <2>3. Output(r).passthrough
    <3>1. Output(r) \in OutputRecords
      BY <1>3, OutputFacts
    <3> QED BY <1>1, <1>3, <2>1, <3>1 DEF CopyProtected, OutputRecords
  <2>4. PICK q \in 1 .. n - 1 : /\ ~Job(r).shaped /\ output_info(r)[q].alias = "must"
                                /\ ParamAt(Job(r).program, q) \notin Job(r).donated
    BY <1>3, <2>2, <2>3, OutputFacts
  <2> QED BY <1>3, <2>4 DEF RunInv, Donated
<1>5. /\ result' = [result EXCEPT ![r] = Append(@, c)]
      /\ aliased[r] \subseteq aliased'[r] /\ aliased' \in [Runs -> SUBSET Nat]
      /\ aliased'[r] = IF EntirelyAliased(r) THEN aliased[r] \cup {n} ELSE aliased[r]
      /\ \A s \in Runs \ {r} : aliased'[s] = aliased[s]
  <2>1. PICK a : a = IF EntirelyAliased(r) THEN aliased[r] \cup {n} ELSE aliased[r]
    OBVIOUS
  <2>2. aliased \in [Runs -> SUBSET Nat] /\ aliased[r] \in SUBSET Nat
    BY <1>3 DEF Types
  <2>3. aliased[r] \subseteq a /\ a \in SUBSET Nat
    BY <1>3, <2>1, <2>2
  <2>4. aliased' = [aliased EXCEPT ![r] = a]
    BY <1>2, <2>1 DEF TakeAllocation
  <2>5. result' = [result EXCEPT ![r] = Append(@, c)]
    BY <1>2 DEF TakeAllocation
  <2> QED BY <2>1, <2>2, <2>3, <2>4, <2>5
<1>6. c \in job.cells /\ c \in Cells
  <2>1. c \in job.cells
    BY <1>2, <1>3, <1>4 DEF RunInv, Placed, Mine
  <2> QED BY <1>3, <2>1, JobFacts
<1>7. /\ result' \in [Runs -> Seq(Cells)]
      /\ DOMAIN result'[r] = DOMAIN result[r] \cup {n} /\ result'[r][n] = c
      /\ \A o \in DOMAIN result[r] : result'[r][o] = result[r][o]
      /\ Progress(r)' /\ pc'[r] \in Live
      /\ allocations(r)' = allocations(r) /\ output_info(r)' = output_info(r)
      /\ Job(r)' = Job(r) /\ Mine(r)' = Mine(r)
  <2>1. buffers' \in [Runs -> Seq(Cells \cup {Null})] /\ DOMAIN buffers'[r] = DOMAIN buffers[r]
    BY <1>1, <1>3 DEF Types
  <2>2. /\ result' \in [Runs -> Seq(Cells)]
        /\ DOMAIN result'[r] = DOMAIN result[r] \cup {n} /\ result'[r][n] = c
        /\ \A o \in DOMAIN result[r] : result'[r][o] = result[r][o]
        /\ Progress(r)' /\ pc'[r] \in Live
        /\ allocations(r)' = allocations(r) /\ output_info(r)' = output_info(r)
        /\ Job(r)' = Job(r) /\ Mine(r)' = Mine(r) \cup {k}
    BY <1>1, <1>2, <1>5, <1>6, <2>1, OneMoreResult
  <2> QED BY <1>4, <2>2
<1>9. Types'
  BY <1>1, <1>3, <1>7, <1>5, StackStays DEF Types
<1>10. \A s \in Runs \ {r} : Same(s)
  BY <1>1, <1>3, <1>5 DEF Same, Types
<1>11. Placed(r)'
  <2>1. \A i \in DOMAIN buffers[r] :
          CallersBuffer(r, allocations(r)[i])' = CallersBuffer(r, allocations(r)[i])
    BY <1>7 DEF CallersBuffer
  <2>2. \A o \in DOMAIN result'[r] : result'[r][o] = buffers[r][output_info(r)[o].alloc]
    BY <1>2, <1>3, <1>7 DEF RunInv, Placed
  <2> QED BY <1>1, <1>3, <1>7, <2>1, <2>2 DEF RunInv, Placed
<1>12. Donated(r)'
  <2>1. \A o \in DOMAIN result'[r] : output_info(r)[o].alias # "none" =>
          /\ ParamAt(Job(r).program, o) \notin owned[r]
          /\ ParamAt(Job(r).program, o) \in Job(r).donated => o \in aliased'[r]
          /\ output_info(r)[o].alias = "must" /\ ~Job(r).shaped
               => ParamAt(Job(r).program, o) \in Job(r).donated
    BY <1>3, <1>4, <1>7, <1>5 DEF RunInv, Donated
  <2>2. \A q \in Job(r).donated \ owned[r] :
          \E o \in DOMAIN result'[r] :
            output_info(r)[o].alias # "none" /\ ParamAt(Job(r).program, o) = q
    BY <1>3, <1>7 DEF RunInv, Donated
  <2>3. AliasedOutputs(r)'
    BY <1>3, <1>5, <1>7 DEF RunInv, Donated, AliasedOutputs, EntirelyAliased
  <2> QED BY <1>1, <1>3, <1>7, <2>1, <2>2, <2>3 DEF RunInv, Donated
<1>13. Apart(r)'
  BY <1>1, <1>3, <1>7 DEF RunInv, Apart
<1>14. MyCells(r)' = MyCells(r) /\ OwnedArgs(r)' = OwnedArgs(r)
  BY <1>1, <1>7 DEF MyCells, OwnedArgs
<1> QED BY <1>1, <1>3, <1>7, <1>9, <1>10, <1>11, <1>12, <1>13, <1>14, LiveHolds, LiveStep
        DEF RunInv

-----------------------------------------------------------------------------
(* Ownership: the thunks.                                                  *)

\* What kernels read is in memory that the run holds or that is kept, and what
\* they write is the run's.
LEMMA KernelCells ==
  ASSUME Ownership, NEW r \in Runs, pc[r] = "thunks"
  PROVE  /\ \A j \in Readable(Job(r).program) :
              /\ buffers[r][j] \in Cells
              /\ buffers[r][j] \in MyCells(r) \cup OwnedArgs(r) \cup Lent \cup Constants
         /\ \A j \in Writable(Job(r).program) :
              buffers[r][j] \in Cells /\ buffers[r][j] \in MyCells(r)
<1>1. Types /\ RunInv(r) /\ job \in Jobs
  BY DEF Ownership, RunInv, Types
<1>2. /\ buffers[r] \in Seq(Cells \cup {Null}) /\ result[r] \in Seq(Cells)
      /\ Len(allocations(r)) \in Nat /\ DOMAIN allocations(r) = 1 .. Len(allocations(r))
      /\ Len(output_info(r)) \in Nat /\ DOMAIN output_info(r) = 1 .. Len(output_info(r))
      /\ job.cells \subseteq Cells
  BY <1>1, RunFacts, JobFacts DEF Types
<1>3. DOMAIN buffers[r] = DOMAIN allocations(r) /\ DOMAIN result[r] = DOMAIN output_info(r)
  BY <1>1, <1>2 DEF RunInv, Progress
<1>4. ASSUME NEW j \in Mine(r) PROVE buffers[r][j] \in Cells /\ buffers[r][j] \in MyCells(r)
  BY <1>1, <1>2 DEF RunInv, Placed, Mine, MyCells
<1>5. ASSUME NEW j \in Readable(Job(r).program)
      PROVE  /\ buffers[r][j] \in Cells
             /\ buffers[r][j] \in MyCells(r) \cup OwnedArgs(r) \cup Lent \cup Constants
  <2>1. j \in DOMAIN allocations(r) /\ allocations(r)[j].kind # "thread_local"
    BY DEF Readable, allocations
  <2>2. CASE j \in Mine(r)
    BY <1>4, <2>2
  <2>3. CASE j \notin Mine(r)
    <3>1. buffers[r][j] = CallersBuffer(r, allocations(r)[j])
      BY <1>1, <1>3, <2>1, <2>3 DEF RunInv, Placed
    <3>2. allocations(r)[j].kind \in {"param", "constant"}
      <4>1. allocations(r)[j] \in AllocationRecords
        BY <1>1, <2>1, AllocationFacts
      <4> QED BY <1>3, <2>1, <2>3, <4>1 DEF AllocationRecords, Mine, NeedsMemory
    <3>3. CASE allocations(r)[j].kind = "constant"
      <4>1. buffers[r][j] = allocations(r)[j].cell
        BY <3>1, <3>3 DEF CallersBuffer
      <4> QED BY <1>1, <1>2, <2>1, <3>3, <4>1, AllocationFacts
    <3>4. CASE allocations(r)[j].kind = "param"
      <4>1. PICK p : p = allocations(r)[j].param
        OBVIOUS
      <4>2. buffers[r][j] = Job(r).args[p]
        BY <3>1, <3>4, <4>1 DEF CallersBuffer
      <4>3. p \in DOMAIN Job(r).args /\ Job(r).args[p] \in job.cells
        BY <1>1, <2>1, <3>4, <4>1, AllocationFacts
      <4>4. p \in owned[r] \/ p \notin Job(r).donated
        <5>1. SUFFICES ASSUME p \in Job(r).donated \ owned[r] PROVE FALSE
          OBVIOUS
        <5>2. PICK o \in DOMAIN result[r] : /\ output_info(r)[o].alias # "none"
                                            /\ ParamAt(Job(r).program, o) = p
          BY <1>1, <5>1 DEF RunInv, Donated
        <5>3. /\ output_info(r)[o].alloc \in DOMAIN allocations(r)
              /\ allocations(r)[output_info(r)[o].alloc].kind = "param"
              /\ allocations(r)[output_info(r)[o].alloc].param = p
          BY <1>1, <1>3, <5>2, OutputFacts
        <5>4. output_info(r)[o].alloc = j
          BY <1>1, <2>1, <3>4, <4>1, <5>3, AllocationFacts
        <5> QED BY <1>3, <2>1, <2>3, <5>4 DEF Mine, OutAllocs
      <4> QED BY <1>1, <1>2, <4>2, <4>3, <4>4, LentFacts DEF OwnedArgs
    <3> QED BY <3>2, <3>3, <3>4
  <2> QED BY <2>2, <2>3
<1>6. ASSUME NEW j \in Writable(Job(r).program) PROVE j \in Mine(r)
  <2>1. CASE j \in DOMAIN allocations(r) /\ allocations(r)[j].kind \in {"temp", "output"}
    BY <1>3, <2>1 DEF Mine, NeedsMemory
  <2>2. CASE j \in {o.alloc : o \in {q \in Range(output_info(r)) : q.alias # "none" /\ ~q.passthrough}}
    <3>1. PICK o \in DOMAIN output_info(r) : j = output_info(r)[o].alloc
      BY <2>2 DEF Range
    <3>2. j \in DOMAIN allocations(r)
      BY <1>1, <3>1, OutputFacts
    <3> QED BY <1>3, <3>1, <3>2 DEF Mine, OutAllocs
  <2> QED BY <2>1, <2>2 DEF Writable, allocations, output_info
<1> QED BY <1>4, <1>5, <1>6

\* What LaunchKernel does.
LEMMA KernelWalks ==
  ASSUME Ownership, NEW r \in Runs, LaunchKernel(r)
  PROVE  /\ Walks(r) /\ pc[r] = "thunks"
         /\ \E fn \in KernelNames, args \in Seq(Cells), out \in Cells :
              /\ Enqueue(r, fn, args, out) /\ out \in MyCells(r)
              /\ Range(args) \subseteq MyCells(r) \cup OwnedArgs(r) \cup Lent \cup Constants
<1>1. AtThunk(r, "kernel") /\ Types
  BY DEF LaunchKernel, Ownership
<1>2. PICK t : t = Head(Frame(r).thunks)
  OBVIOUS
<1>3. /\ pc[r] = "thunks" /\ Advanced(r) \in Seq(Frames(r)) /\ job \in Jobs
      /\ t \in Steps(r, "kernel")
  BY <1>1, <1>2, AtThunkFacts
<1>4. /\ t.fn \in KernelNames /\ t.args \in Seq(Readable(Job(r).program))
      /\ t.out \in Writable(Job(r).program)
  BY <1>3, StepFacts
<1>5. PICK args, out : /\ args = [i \in DOMAIN t.args |-> buffers[r][t.args[i]]]
                       /\ out = buffers[r][t.out]
  OBVIOUS
<1>6. out \in Cells /\ out \in MyCells(r)
  BY <1>3, <1>4, <1>5, KernelCells
<1>7. \A i \in DOMAIN args : /\ args[i] \in Cells
                             /\ args[i] \in MyCells(r) \cup OwnedArgs(r) \cup Lent \cup Constants
  <2>1. \A i \in DOMAIN t.args : t.args[i] \in Readable(Job(r).program)
    BY <1>4
  <2> QED BY <1>3, <1>5, <2>1, KernelCells
<1>8. args \in Seq(Cells)
  <2>1. DOMAIN args = 1 .. Len(t.args) /\ Len(t.args) \in Nat
    BY <1>4, <1>5
  <2>2. args \in [1 .. Len(t.args) -> Cells]
    BY <1>5, <1>7, <2>1
  <2> QED BY <2>1, <2>2, SeqDef
<1>9. Enqueue(r, t.fn, args, out)
  BY <1>2, <1>5 DEF LaunchKernel
<1>10. Range(args) \subseteq MyCells(r) \cup OwnedArgs(r) \cup Lent \cup Constants
  BY <1>7 DEF Range
<1>11. Walks(r)
  BY <1>3 DEF LaunchKernel, Walks
<1> QED BY <1>3, <1>4, <1>6, <1>8, <1>9, <1>10, <1>11

LEMMA LaunchKernelHolds ==
  ASSUME Ownership, NEW r \in Runs, LaunchKernel(r)
  PROVE  Ownership'
<1>1. Types /\ Walks(r)
  BY KernelWalks DEF Ownership
<1>2. stream' \in [Runs \cup {"compute"} -> Seq(Enqueued)]
  BY <1>1, KernelWalks, CopyEnqueues
<1> QED BY <1>1, <1>2, WalksHolds

LEMMA ControlHolds ==
  ASSUME Ownership, NEW r \in Runs,
         \/ EnterWhile(r) \/ TestWhile(r) \/ LoopWhile(r) \/ EnterFor(r) \/ LoopFor(r)
         \/ EnterConditional(r) \/ LeaveConditional(r)
  PROVE  Ownership' /\ Walks(r) /\ stream' = stream
<1>1. Types
  BY DEF Ownership
<1>2. Walks(r) /\ stream' = stream
  BY <1>1, WhileWalks, ForWalks, ConditionalWalks
<1> QED BY <1>1, <1>2, WalksHolds DEF Types

LEMMA DeviceHolds ==
  ASSUME Ownership, NEW s \in DOMAIN stream, Device(s)
  PROVE  Ownership'
<1>1. Types /\ UNCHANGED <<job, pc, buffers, result, aliased, owned, stack, free>>
  BY DEF Ownership, Device
<1>2. stream' \in [Runs \cup {"compute"} -> Seq(Enqueued)]
  <2>1. stream \in [Runs \cup {"compute"} -> Seq(Enqueued)] /\ stream[s] # <<>>
        /\ stream' = [stream EXCEPT ![s] = Tail(@)]
    BY <1>1 DEF Device, Types
  <2>2. Tail(stream[s]) \in Seq(Enqueued)
    BY <1>1, <2>1 DEF Types
  <2> QED BY <2>1, <2>2
<1>3. DOMAIN mem' = Cells
  <2>1. \E v : mem' = [mem EXCEPT ![Head(stream[s]).out] = v]
    BY DEF Device
  <2> QED BY <1>1, <2>1 DEF Types
<1>4. Types'
  BY <1>1, <1>2, <1>3, StackStays DEF Types
<1>5. \A r \in Runs : Same(r)
  BY <1>1 DEF Same
<1>6. \A r \in Runs : RunInv(r)' /\ Has(r)' = Has(r)
  BY <1>1, <1>5, SameStays DEF Ownership, RunInv
<1>7. Lent' = Lent /\ Constants' = Constants
  BY <1>1, KeptStay
<1>8. OneOwner' /\ Reserved'
  BY <1>1, <1>6, <1>7 DEF Ownership, OneOwner, Has, Reserved
<1> QED BY <1>4, <1>6, <1>8 DEF Ownership, RunInv

-----------------------------------------------------------------------------
(* Ownership: the end of a run.                                            *)

\* What a run that is over holds, or the client after it.
HeldAfter(r) ==
  /\ pc[r] = "failed"   => Has(r) = MyCells(r) \ Released(r)
  /\ pc[r] = "returned" => Has(r) = Range(result[r]) \cup OwnedArgs(r)
  /\ pc[r] = "consumed" => Has(r) = Range(result[r])
  /\ pc[r] = "dropped"  => Has(r) = {}

\* The outputs that ~ExecutionOutput leaves are other buffers than the ones it
\* frees, and no arguments that the run still owns.
LEMMA AliasedApart ==
  ASSUME Types, NEW r \in Runs, RunInv(r), NEW o \in aliased[r] \cap DOMAIN result[r]
  PROVE  /\ \A q \in DOMAIN result[r] \ aliased[r] : result[r][q] # result[r][o]
         /\ result[r][o] \in MyCells(r) \ OwnedArgs(r)
<1>1. PICK k \in Mine(r) : k = output_info(r)[o].alloc /\ result[r][o] = buffers[r][k]
  BY ResultFacts DEF RunInv
<1>2. ASSUME NEW q \in DOMAIN result[r] \ aliased[r] PROVE result[r][q] # result[r][o]
  <2>1. PICK i \in Mine(r) : i = output_info(r)[q].alloc /\ result[r][q] = buffers[r][i]
    BY ResultFacts DEF RunInv
  <2>2. job \in Jobs /\ o \in DOMAIN output_info(r) /\ q \in DOMAIN output_info(r) /\ q # o
    BY ResultFacts DEF RunInv, Types
  <2>3. output_info(r)[o].alias # "none" \/ output_info(r)[q].alias # "none"
    BY <1>2 DEF RunInv, Donated, AliasedOutputs
  <2>4. i # k
    <3>1. output_info(r)[o].alias # "none" => output_info(r)[q].alloc # output_info(r)[o].alloc
      BY <2>2, OutputFacts
    <3>2. output_info(r)[q].alias # "none" => output_info(r)[o].alloc # output_info(r)[q].alloc
      BY <2>2, OutputFacts
    <3> QED BY <1>1, <2>1, <2>3, <3>1, <3>2
  <2> QED BY <1>1, <2>1, <2>4 DEF RunInv, Apart
<1>3. result[r][o] \in MyCells(r) \ OwnedArgs(r)
  BY <1>1 DEF RunInv, Apart, MyCells, OwnedArgs
<1> QED BY <1>2, <1>3

\* What an error return leaks is all that ~ExecutionOutput and ~ExecutionInput
\* do not release.
LEMMA LostIs ==
  ASSUME Types, NEW r \in Runs, RunInv(r), pc[r] = "failed"
  PROVE  Lost(r) = MyCells(r) \ Released(r)
<1> DEFINE Left == {result[r][o] : o \in aliased[r] \cap DOMAIN result[r]}
<1>1. Lost(r) = (Own(r) \ Range(result[r])) \cup Left
  BY DEF Lost
<1>2. Own(r) \cup Range(result[r]) = MyCells(r)
  BY OwnIs DEF RunInv
<1>3. MyCells(r) \cap OwnedArgs(r) = {}
  BY DEF RunInv, Apart, MyCells, OwnedArgs
<1>4. /\ Released(r) = {result[r][o] : o \in DOMAIN result[r] \ aliased[r]} \cup OwnedArgs(r)
      /\ Range(result[r]) = {result[r][o] : o \in DOMAIN result[r]}
  BY DEF Released, OwnedArgs, Range
<1>5. ASSUME NEW c \in Own(r) \ Range(result[r]) PROVE c \in MyCells(r) \ Released(r)
  BY <1>2, <1>3, <1>4
<1>6. ASSUME NEW c \in Left PROVE c \in MyCells(r) \ Released(r)
  <2>1. PICK o \in aliased[r] \cap DOMAIN result[r] : c = result[r][o]
    OBVIOUS
  <2>2. \A q \in DOMAIN result[r] \ aliased[r] : result[r][q] # c
    BY <2>1, AliasedApart
  <2>3. c \in MyCells(r) \ OwnedArgs(r)
    BY <2>1, AliasedApart
  <2> QED BY <1>4, <2>2, <2>3
<1>7. ASSUME NEW c \in MyCells(r) \ Released(r) PROVE c \in (Own(r) \ Range(result[r])) \cup Left
  BY <1>2, <1>4, <1>7
<1> QED BY <1>1, <1>5, <1>6, <1>7

LEMMA HeldIs ==
  ASSUME Types, NEW r \in Runs, RunInv(r)
  PROVE  HeldAfter(r)
<1>1. ASSUME pc[r] = "failed" PROVE Has(r) = MyCells(r) \ Released(r)
  <2>1. Held(r) = {}
    BY <1>1 DEF Held
  <2> QED BY <1>1, <2>1, LostIs DEF Has
<1>2. pc[r] = "returned" => Has(r) = Range(result[r]) \cup OwnedArgs(r)
  BY DEF Has, Held, Lost, OwnedArgs
<1>3. pc[r] = "consumed" => Has(r) = Range(result[r])
  BY DEF Has, Held, Lost
<1>4. pc[r] = "dropped" => Has(r) = {}
  BY DEF Has, Held, Lost
<1> QED BY <1>1, <1>2, <1>3, <1>4 DEF HeldAfter

LEMMA HeldIsNext ==
  (\A r \in Runs : Types /\ RunInv(r) => HeldAfter(r))'
<1>1. \A r \in Runs : Types /\ RunInv(r) => HeldAfter(r)
  BY HeldIs
<1> QED BY <1>1, PTL

\* A step that ends a run, or that a client takes after it, leaves its buffers.
LEMMA EndStep ==
  ASSUME Ownership, NEW r \in Runs,
         NEW stage \in {"failed", "returned", "consumed", "dropped"},
         pc' = [pc EXCEPT ![r] = stage], free' \in SUBSET job.cells,
         UNCHANGED <<job, buffers, result, aliased, owned, stream, mem>>,
         stack' = [stack EXCEPT ![r] = <<>>] \/ stack' = stack,
         stage = "failed" \/ Len(result[r]) = Len(output_info(r))
  PROVE  /\ Types' /\ RunInv(r)' /\ HeldAfter(r)' /\ pc'[r] = stage
         /\ \A s \in Runs \ {r} : Same(s)
         /\ MyCells(r)' = MyCells(r) /\ OwnedArgs(r)' = OwnedArgs(r)
         /\ Released(r)' = Released(r) /\ result'[r] = result[r]
<1>1. Types /\ RunInv(r) /\ job \in Jobs
  BY DEF Ownership, RunInv, Types
<1>2. DOMAIN stack' = Runs /\ \A s \in Runs : stack'[s] \in Seq(Frames(s)')
  <2>1. <<>> \in Seq(Frames(r))
    OBVIOUS
  <2> QED BY <1>1, <2>1, StackMoves, StackStays
<1>3. Types'
  BY <1>1, <1>2 DEF Types
<1>4. pc'[r] = stage /\ \A s \in Runs \ {r} : Same(s)
  BY <1>1 DEF Types, Same
<1>5. /\ allocations(r)' = allocations(r) /\ output_info(r)' = output_info(r)
      /\ Job(r)' = Job(r)
  BY DEF Job, allocations, output_info
<1>6. Mine(r)' = Mine(r)
  BY <1>5 DEF OutAllocs, Mine
<1>7. /\ MyCells(r)' = MyCells(r) /\ OwnedArgs(r)' = OwnedArgs(r)
      /\ Released(r)' = Released(r)
  BY <1>5, <1>6 DEF MyCells, OwnedArgs, Released
<1>8. Progress(r)'
  <2>1. result[r] \in Seq(Cells) /\ Len(output_info(r)) \in Nat \ {0}
    BY <1>1, RunFacts DEF Types
  <2>2. stage = "failed" \/ result[r] # <<>>
    BY <2>1
  <2> QED BY <1>1, <1>4, <1>5, <2>2 DEF RunInv, Progress
<1>9. Placed(r)'
  <2>1. \A i \in DOMAIN buffers[r] :
          CallersBuffer(r, allocations(r)[i])' = CallersBuffer(r, allocations(r)[i])
    BY <1>5 DEF CallersBuffer
  <2> QED BY <1>1, <1>5, <1>6, <2>1 DEF RunInv, Placed
<1>10. Donated(r)' /\ Apart(r)'
  BY <1>1, <1>5, <1>6 DEF RunInv, Donated, AliasedOutputs, EntirelyAliased, Apart
<1>11. HeldAfter(r)'
  <2>1. RunInv(r)'
    BY <1>8, <1>9, <1>10 DEF RunInv
  <2> QED BY <1>3, <2>1, HeldIsNext
<1> QED BY <1>3, <1>4, <1>7, <1>8, <1>9, <1>10, <1>11 DEF RunInv

\* What an error releases is the run's.
LEMMA ReleasedFacts ==
  ASSUME Ownership, NEW r \in Runs
  PROVE  /\ OwnedArgs(r) \subseteq Released(r)
         /\ Released(r) \subseteq MyCells(r) \cup OwnedArgs(r)
         /\ MyCells(r) \cup OwnedArgs(r) \subseteq job.cells
<1>1. Types /\ RunInv(r) /\ job \in Jobs
  BY DEF Ownership, RunInv, Types
<1>2. ASSUME NEW o \in DOMAIN result[r] PROVE result[r][o] \in MyCells(r)
  BY <1>1, <1>2, ResultFacts DEF MyCells, RunInv
<1>3. MyCells(r) \subseteq job.cells
  BY <1>1 DEF MyCells, Mine, RunInv, Placed
<1>4. OwnedArgs(r) \subseteq job.cells
  BY <1>1, DonatedFacts DEF OwnedArgs, RunInv, Donated
<1> QED BY <1>2, <1>3, <1>4 DEF Released, OwnedArgs

LEMMA FailHolds ==
  ASSUME Ownership, NEW r \in Runs, pc[r] \in Live, Fail(r)
  PROVE  Ownership'
<1>1. /\ pc' = [pc EXCEPT ![r] = "failed"] /\ stack' = [stack EXCEPT ![r] = <<>>]
      /\ UNCHANGED <<job, buffers, result, aliased, owned, stream, mem>>
      /\ free \in SUBSET job.cells
  BY DEF Fail, Ownership, Types
<1>2. /\ OwnedArgs(r) \subseteq Released(r)
      /\ Released(r) \subseteq MyCells(r) \cup OwnedArgs(r)
      /\ MyCells(r) \cup OwnedArgs(r) \subseteq job.cells
  BY ReleasedFacts
<1>3. free' = free \cup Released(r)
  <2>1. Null \notin job.cells
    BY JobFacts, CellsAssumption DEF Ownership, Types
  <2> QED BY <1>2, <2>1 DEF Fail
<1>4. /\ Types' /\ RunInv(r)' /\ HeldAfter(r)' /\ pc'[r] = "failed"
      /\ \A s \in Runs \ {r} : Same(s)
      /\ MyCells(r)' = MyCells(r) /\ Released(r)' = Released(r)
  BY <1>1, <1>2, <1>3, EndStep
<1>5. Has(r)' = MyCells(r) \ Released(r)
  BY <1>4 DEF HeldAfter
<1>6. Has(r) = MyCells(r) \cup OwnedArgs(r) /\ Has(r) \cap free = {}
  BY LiveHolds
<1> QED BY <1>1, <1>2, <1>3, <1>4, <1>5, <1>6, CellsMove

\* What a run frees at its end: all it has but the result.
LEMMA TemporaryIs ==
  ASSUME Ownership, NEW r \in Runs, pc[r] = "thunks"
  PROVE  /\ Temporary(r) = MyCells(r) \ Range(result[r])
         /\ Range(result[r]) \subseteq MyCells(r)
         /\ Len(result[r]) = Len(output_info(r))
<1>1. Types /\ RunInv(r) /\ job \in Jobs
  BY DEF Ownership, RunInv, Types
<1>2. /\ buffers[r] \in Seq(Cells \cup {Null}) /\ result[r] \in Seq(Cells)
      /\ Len(allocations(r)) \in Nat /\ DOMAIN allocations(r) = 1 .. Len(allocations(r))
      /\ Len(output_info(r)) \in Nat /\ DOMAIN output_info(r) = 1 .. Len(output_info(r))
  BY <1>1, RunFacts DEF Types
<1>3. /\ DOMAIN buffers[r] = DOMAIN allocations(r) /\ DOMAIN result[r] = DOMAIN output_info(r)
      /\ Len(result[r]) = Len(output_info(r))
  BY <1>1, <1>2 DEF RunInv, Progress
<1>4. Range(result[r]) \subseteq MyCells(r)
  BY <1>1, ResultFacts DEF Range, MyCells, RunInv
<1>5. \A i \in OutAllocs(r) : buffers[r][i] \in Range(result[r])
  BY <1>1, ResultFacts DEF OutAllocs, Range, RunInv
<1>6. ASSUME NEW i \in DOMAIN buffers[r], allocations(r)[i].kind = "temp"
      PROVE  i \in Mine(r) /\ buffers[r][i] \notin Range(result[r])
  <2>1. i \in Mine(r)
    BY <1>6 DEF Mine, NeedsMemory
  <2>2. SUFFICES ASSUME NEW o \in DOMAIN result[r], buffers[r][i] = result[r][o] PROVE FALSE
    BY <2>1 DEF Range
  <2>3. PICK k \in Mine(r) : k = output_info(r)[o].alloc /\ result[r][o] = buffers[r][k]
    BY <1>1, ResultFacts DEF RunInv
  <2>4. i = k
    BY <1>1, <2>1, <2>2, <2>3 DEF RunInv, Apart
  <2>5. allocations(r)[k].kind \in {"output", "param"}
    BY <1>1, <1>3, <2>3, OutputFacts
  <2> QED BY <1>6, <2>4, <2>5
<1>7. ASSUME NEW i \in DOMAIN buffers[r], allocations(r)[i].live_out PROVE i \in Mine(r)
  BY <1>1, <1>3, <1>7, LiveOutFacts DEF Mine, NeedsMemory, OutAllocs
<1>8. ASSUME NEW i \in Mine(r), buffers[r][i] \notin Range(result[r])
      PROVE  /\ i \in DOMAIN buffers[r]
             /\ allocations(r)[i].kind = "temp" \/ allocations(r)[i].live_out
  BY <1>1, <1>3, <1>5, <1>8, LiveOutFacts DEF Mine, NeedsMemory
<1>9. ASSUME NEW c \in Temporary(r) PROVE c \in MyCells(r) \ Range(result[r])
  BY <1>6, <1>7, <1>9 DEF Temporary, MyCells
<1>10. ASSUME NEW c \in MyCells(r) \ Range(result[r]) PROVE c \in Temporary(r)
  BY <1>8, <1>10 DEF Temporary, MyCells
<1> QED BY <1>3, <1>4, <1>9, <1>10

LEMMA TearDownHolds ==
  ASSUME Ownership, NEW r \in Runs, TearDown(r)
  PROVE  Ownership' /\ pc[r] = "thunks"
<1>1. /\ pc' = [pc EXCEPT ![r] = "returned"] /\ stack' = [stack EXCEPT ![r] = <<>>]
      /\ UNCHANGED <<job, buffers, result, aliased, owned, stream, mem>>
      /\ free' = free \cup Temporary(r) /\ free \in SUBSET job.cells
  BY DEF TearDown, Ownership, Types
<1>2. pc[r] = "thunks"
  BY AtEndFacts DEF TearDown, MaybeSync, Ownership
<1>3. /\ Temporary(r) = MyCells(r) \ Range(result[r]) /\ Range(result[r]) \subseteq MyCells(r)
      /\ Len(result[r]) = Len(output_info(r))
  BY <1>2, TemporaryIs
<1>4. free' \in SUBSET job.cells
  BY <1>1, <1>3, ReleasedFacts
<1>5. /\ Types' /\ RunInv(r)' /\ HeldAfter(r)' /\ pc'[r] = "returned"
      /\ \A s \in Runs \ {r} : Same(s)
      /\ OwnedArgs(r)' = OwnedArgs(r) /\ result'[r] = result[r]
  BY <1>1, <1>3, <1>4, EndStep
<1>6. Has(r)' = Range(result[r]) \cup OwnedArgs(r)
  BY <1>5 DEF HeldAfter, Range
<1>7. Has(r) = MyCells(r) \cup OwnedArgs(r) /\ Has(r) \cap free = {}
  BY <1>2, LiveHolds DEF Live
<1>8. MyCells(r) \cap OwnedArgs(r) = {}
  BY DEF Ownership, Apart, MyCells, OwnedArgs
<1>9. Has(r)' \cup free' = Has(r) \cup free /\ Has(r)' \cap free' = {}
  BY <1>1, <1>3, <1>6, <1>7, <1>8
<1> QED BY <1>1, <1>2, <1>5, <1>9, CellsMove

\* The client takes the result, and deallocates it.
LEMMA ClientHolds ==
  ASSUME Ownership, NEW r \in Runs, Consume(r) \/ DropResult(r)
  PROVE  Ownership'
<1>1. /\ Types /\ RunInv(r) /\ free \in SUBSET job.cells /\ job \in Jobs
  BY DEF Ownership, RunInv, Types
<1>2. pc[r] \in {"returned", "consumed"}
  BY DEF Consume, DropResult
<1>3. HeldAfter(r) /\ Has(r) \cap free = {}
  BY <1>1, HeldIs DEF Ownership, OneOwner, Has, RunInv
<1>4. Len(result[r]) = Len(output_info(r))
  BY <1>1, <1>2 DEF RunInv, Progress
<1>5. Range(result[r]) \subseteq MyCells(r)
  BY <1>1, ResultFacts DEF Range, MyCells, RunInv
<1>6. MyCells(r) \cap OwnedArgs(r) = {} /\ MyCells(r) \cup OwnedArgs(r) \subseteq job.cells
  BY ReleasedFacts DEF Ownership, Apart, MyCells, OwnedArgs
<1>7. CASE Consume(r)
  <2>1. /\ pc' = [pc EXCEPT ![r] = "consumed"] /\ pc[r] = "returned"
        /\ UNCHANGED <<job, buffers, result, aliased, owned, stack, stream, mem>>
        /\ free' = free \cup OwnedArgs(r)
    BY <1>7 DEF Consume, OwnedArgs
  <2>2. free' \in SUBSET job.cells
    BY <1>1, <1>6, <2>1
  <2>3. /\ Types' /\ RunInv(r)' /\ HeldAfter(r)' /\ pc'[r] = "consumed"
        /\ \A s \in Runs \ {r} : Same(s) /\ result'[r] = result[r]
    BY <1>4, <2>1, <2>2, EndStep
  <2>4. Has(r)' = Range(result[r]) /\ Has(r) = Range(result[r]) \cup OwnedArgs(r)
    BY <1>3, <2>1, <2>3 DEF HeldAfter, Range
  <2>5. Has(r)' \cup free' = Has(r) \cup free /\ Has(r)' \cap free' = {}
    BY <1>3, <1>5, <1>6, <2>1, <2>4
  <2> QED BY <2>1, <2>3, <2>5, CellsMove
<1>8. CASE DropResult(r)
  <2>1. /\ pc' = [pc EXCEPT ![r] = "dropped"] /\ pc[r] = "consumed"
        /\ UNCHANGED <<job, buffers, result, aliased, owned, stack, stream, mem>>
        /\ free' = free \cup Range(result[r])
    BY <1>8 DEF DropResult
  <2>2. free' \in SUBSET job.cells
    BY <1>1, <1>5, <1>6, <2>1
  <2>3. /\ Types' /\ RunInv(r)' /\ HeldAfter(r)' /\ pc'[r] = "dropped"
        /\ \A s \in Runs \ {r} : Same(s)
    BY <1>4, <2>1, <2>2, EndStep
  <2>4. Has(r)' = {} /\ Has(r) = Range(result[r])
    BY <1>3, <2>1, <2>3 DEF HeldAfter
  <2>5. Has(r)' \cup free' = Has(r) \cup free /\ Has(r)' \cap free' = {}
    BY <2>1, <2>4
  <2> QED BY <2>1, <2>3, <2>5, CellsMove
<1> QED BY <1>7, <1>8

-----------------------------------------------------------------------------
(* Ownership: every step.                                                  *)

LEMMA OwnershipInit == Init => Ownership
<1> SUFFICES ASSUME Init PROVE Ownership
  OBVIOUS
<1>1. job \in Jobs
  BY DEF Init
<1>2. /\ pc = [r \in Runs |-> "allocate"] /\ buffers = [r \in Runs |-> <<>>]
      /\ result = [r \in Runs |-> <<>>] /\ owned = [r \in Runs |-> Job(r).donated]
      /\ aliased = [r \in Runs |-> {}] /\ stack = [r \in Runs |-> <<>>]
      /\ free = job.cells \ (Constants \cup Lent \cup Given)
  BY DEF Init
<1>3. Types
  <2>1. \A r \in Runs : Job(r).donated \in SUBSET Nat
    BY <1>1, RunFacts
  <2>2. DOMAIN mem = Cells
    BY CellsAssumption DEF Init
  <2>3. stream \in [Runs \cup {"compute"} -> Seq(Enqueued)]
    BY DEF Init
  <2>4. \A r \in Runs : stack[r] \in Seq(Frames(r))
    BY <1>2
  <2>5. buffers \in [Runs -> Seq(Cells \cup {Null})] /\ result \in [Runs -> Seq(Cells)]
    BY <1>2
  <2> QED BY <1>1, <1>2, <2>1, <2>2, <2>3, <2>4, <2>5 DEF Types, Live
<1>4. ASSUME NEW r \in Runs PROVE RunInv(r)
  <2>1. buffers[r] = <<>> /\ result[r] = <<>> /\ owned[r] = Job(r).donated /\ pc[r] = "allocate"
    BY <1>2
  <2>2. Len(allocations(r)) \in Nat /\ Len(output_info(r)) \in Nat
    BY <1>1, RunFacts
  <2>3. Mine(r) = {}
    BY <2>1 DEF Mine
  <2>4. aliased[r] = {} /\ AliasedOutputs(r)
    BY <1>2 DEF AliasedOutputs
  <2> QED BY <2>1, <2>2, <2>3, <2>4 DEF RunInv, Progress, Placed, Donated, Apart
<1>5. ASSUME NEW r \in Runs PROVE Has(r) = {Job(r).args[p] : p \in Job(r).donated}
  <2>1. Has(r) = MyCells(r) \cup OwnedArgs(r)
    BY <1>2, <1>3, <1>4, HeldLive DEF RunInv, Live
  <2>2. MyCells(r) = {}
    BY <1>2 DEF MyCells, Mine
  <2> QED BY <1>2, <2>1, <2>2 DEF OwnedArgs
<1>6. UNION {Has(r) : r \in Runs} = Given
  BY <1>5 DEF Given
<1>7. \A r, s \in Runs : r # s => Has(r) \cap Has(s) = {}
  <2>1. SUFFICES ASSUME NEW r \in Runs, NEW s \in Runs, r # s,
                        NEW p \in Job(r).donated, NEW q \in Job(s).donated,
                        Job(r).args[p] = Job(s).args[q]
                 PROVE  FALSE
    BY <1>5
  <2>2. q \in DOMAIN Job(s).args
    BY <1>1, RunFacts
  <2> QED BY <1>1, <2>1, <2>2, DonatedFacts
<1>8. \A r \in Runs : Has(r) \cap (free \cup Lent \cup Constants) = {}
  BY <1>1, <1>2, <1>5, DonatedFacts
<1>9. job.cells = free \cup Lent \cup Constants \cup UNION {Has(r) : r \in Runs}
  BY <1>1, <1>2, <1>6, KeptFacts
<1>10. Reserved
  BY <1>2 DEF Reserved
<1> QED BY <1>3, <1>4, <1>7, <1>8, <1>9, <1>10 DEF Ownership, OneOwner, Has, RunInv

LEMMA OwnershipStutters ==
  ASSUME Ownership, UNCHANGED vars
  PROVE  Ownership'
<1>1. Types /\ UNCHANGED <<job, pc, buffers, result, aliased, owned, stack, stream, mem, free>>
  BY DEF Ownership, vars
<1>2. Types'
  BY <1>1, StackStays DEF Types
<1>3. \A r \in Runs : Same(r)
  BY <1>1 DEF Same
<1>4. \A r \in Runs : RunInv(r)' /\ Has(r)' = Has(r)
  BY <1>1, <1>3, SameStays DEF Ownership, RunInv
<1>5. Lent' = Lent /\ Constants' = Constants
  BY <1>1, KeptStay
<1>6. OneOwner' /\ Reserved'
  BY <1>1, <1>4, <1>5 DEF Ownership, OneOwner, Has, Reserved
<1> QED BY <1>2, <1>4, <1>6 DEF Ownership, RunInv

-----------------------------------------------------------------------------
(* What the steps do to the streams.                                       *)

\* A command is enqueued that works on what its run holds, and on what is kept.
Enqueues(r) ==
  /\ pc'[r] \in {"outputs", "thunks"} /\ result'[r] # <<>>
  /\ \E fn \in KernelNames, args \in Seq(Cells), out \in Cells :
       /\ Enqueue(r, fn, args, out)
       /\ out \in Has(r)' /\ Range(args) \subseteq Has(r)' \cup Lent \cup Constants

\* A run goes on, and frees nothing; or it is over, or its client frees what
\* it had.
GoesOn(r) ==
  /\ job' = job /\ mem' = mem /\ \A s \in Runs \ {r} : Same(s)
  /\ free' \subseteq free /\ pc[r] # "failed" /\ pc'[r] # "failed"
  /\ pc[r] \in {"outputs", "thunks"} => pc'[r] \in {"outputs", "thunks"}
  /\ result[r] # <<>> => result'[r] # <<>>
  /\ stream' = stream \/ Enqueues(r)
Ends(r) ==
  /\ job' = job /\ mem' = mem /\ stream' = stream /\ result' = result
  /\ \A s \in Runs \ {r} : Same(s)
  /\ pc[r] # "failed"
  /\ \/ pc'[r] = "failed"
     \/ pc[r] \notin {"outputs", "thunks"}
     \/ ~job.async => stream[r] = <<>>

\* Who frees nothing holds what it held.
LEMMA KeepsHolding ==
  ASSUME Ownership, Ownership', job' = job, NEW r \in Runs, \A s \in Runs \ {r} : Same(s),
         free' \subseteq free
  PROVE  \A s \in Runs : Has(s) \subseteq Has(s)'
<1>1. Lent' = Lent /\ Constants' = Constants
  BY KeptStay
<1>2. \A s \in Runs \ {r} : Has(s)' = Has(s)
  BY SameStays
<1>3. /\ \A s \in Runs : s # r => Has(s) \cap Has(r) = {}
      /\ Has(r) \cap (free \cup Lent \cup Constants) = {}
      /\ job.cells = free \cup Lent \cup Constants \cup UNION {Has(s) : s \in Runs}
  BY DEF Ownership, OneOwner, Has
<1>4. job.cells = free' \cup Lent \cup Constants \cup UNION {Has(s)' : s \in Runs}
  BY <1>1 DEF Ownership, OneOwner, Has
<1>5. Has(r) \subseteq Has(r)'
  <2>1. SUFFICES ASSUME NEW c \in Has(r), c \notin Has(r)' PROVE FALSE
    OBVIOUS
  <2>2. c \in job.cells
    BY <1>3
  <2>3. PICK s \in Runs : c \in Has(s)'
    BY <1>3, <1>4, <2>2
  <2> QED BY <1>2, <1>3, <2>1, <2>3
<1> QED BY <1>2, <1>5

\* What becomes a result is held.
LEMMA ResultHeld ==
  ASSUME Types, NEW r \in Runs, Progress(r), Placed(r), pc[r] \in Live
  PROVE  Range(result[r]) \subseteq Has(r)
<1> QED BY HeldLive, OwnIs

LEMMA ResultHeldNext ==
  (\A r \in Runs : Ownership /\ pc[r] \in Live => Range(result[r]) \subseteq Has(r))'
<1>1. \A r \in Runs : Ownership /\ pc[r] \in Live => Range(result[r]) \subseteq Has(r)
  BY ResultHeld DEF Ownership
<1> QED BY <1>1, PTL

LEMMA CopyGoesOn ==
  ASSUME Ownership, NEW r \in Runs, CopyProtection(r)
  PROVE  Ownership' /\ GoesOn(r)
<1>1. Ownership'
  BY CopyProtectionHolds
<1>2. /\ CopyProtected(r) /\ free # {} /\ UNCHANGED <<job, pc, aliased, owned, stack, mem>>
      /\ Outputs(r) /\ ~HasOwnership(r) /\ Output(r).alias # "none"
      /\ pc[r] = "outputs" /\ Types
  BY DEF CopyProtection, CopyProtected, Outputs, Ownership
<1>3. PICK c, b : c = Lowest /\ b = buffers[r][Output(r).alloc]
  OBVIOUS
<1>4. /\ result' = [result EXCEPT ![r] = Append(@, c)]
      /\ buffers' = [buffers EXCEPT ![r][Output(r).alloc] = c] /\ free' = free \ {c}
      /\ Enqueue(r, "copy", <<b>>, c)
  BY <1>2, <1>3 DEF CopyProtection
<1>5. \A s \in Runs \ {r} : Same(s)
  BY <1>2, <1>4 DEF Same, Types
<1>6. /\ ParamOf(r) \in DOMAIN Job(r).args /\ b = Job(r).args[ParamOf(r)] /\ b \in job.cells
      /\ ParamOf(r) \in Job(r).donated => ParamOf(r) \in owned[r]
  BY <1>2, <1>3, OutputStep
<1>7. b \in Lent /\ b \in Cells
  <2>1. ParamOf(r) \notin Job(r).donated
    BY <1>2, <1>6 DEF HasOwnership
  <2> QED BY <1>2, <1>6, <2>1, LentFacts, JobFacts DEF Types
<1>8. c \in free /\ c \in Cells
  BY <1>2, <1>3, LowestIsFree, JobFacts DEF Types
<1>9. result'[r] = Append(result[r], c) /\ result[r] \in Seq(Cells)
  BY <1>2, <1>4 DEF Types
<1>10. c \in Range(result'[r]) /\ result'[r] # <<>>
  <2>1. result'[r][Len(result[r]) + 1] = c /\ Len(result[r]) + 1 \in DOMAIN result'[r]
    BY <1>8, <1>9
  <2> QED BY <2>1 DEF Range
<1>11. c \in Has(r)'
  <2>1. Range(result[r])' \subseteq Has(r)'
    BY <1>1, <1>2, ResultHeldNext DEF Live
  <2> QED BY <1>10, <2>1 DEF Range
<1>12. Enqueues(r)
  <2>1. Range(<<b>>) \subseteq Lent /\ <<b>> \in Seq(Cells)
    BY <1>7 DEF Range
  <2> QED BY <1>2, <1>4, <1>8, <1>10, <1>11, <2>1 DEF Enqueues, KernelNames
<1> QED BY <1>1, <1>2, <1>4, <1>5, <1>10, <1>12 DEF GoesOn

LEMMA KernelGoesOn ==
  ASSUME Ownership, NEW r \in Runs, LaunchKernel(r)
  PROVE  Ownership' /\ GoesOn(r)
<1>1. Ownership' /\ Types /\ RunInv(r) /\ job \in Jobs
  BY LaunchKernelHolds DEF Ownership, RunInv, Types
<1>2. Walks(r) /\ pc[r] = "thunks"
  BY KernelWalks
<1>3. UNCHANGED <<job, pc, buffers, result, aliased, owned, mem, free>>
  BY <1>2 DEF Walks
<1>4. \A s \in Runs : Same(s)
  BY <1>3 DEF Same
<1>5. Has(r)' = Has(r) /\ Has(r) = MyCells(r) \cup OwnedArgs(r)
  BY <1>2, <1>3, <1>4, SameStays, LiveHolds DEF Live
<1>6. result[r] # <<>>
  <2>1. Len(output_info(r)) \in Nat \ {0} /\ result[r] \in Seq(Cells)
    BY <1>1, RunFacts DEF Types
  <2> QED BY <1>1, <1>2, <2>1 DEF RunInv, Progress
<1>7. Enqueues(r)
  BY <1>2, <1>3, <1>5, <1>6, KernelWalks DEF Enqueues
<1> QED BY <1>1, <1>2, <1>3, <1>4, <1>6, <1>7 DEF GoesOn

LEMMA ControlGoesOn ==
  ASSUME Ownership, NEW r \in Runs,
         \/ EnterWhile(r) \/ TestWhile(r) \/ LoopWhile(r) \/ EnterFor(r) \/ LoopFor(r)
         \/ EnterConditional(r) \/ LeaveConditional(r)
  PROVE  Ownership' /\ GoesOn(r)
<1>1. Ownership' /\ Walks(r) /\ stream' = stream
  BY ControlHolds
<1>2. UNCHANGED <<job, pc, buffers, result, aliased, owned, mem, free>>
  BY <1>1 DEF Walks
<1>3. pc[r] = "thunks"
  BY AtThunkFacts, AtEndFacts
     DEF EnterWhile, TestWhile, LoopWhile, EnterFor, LoopFor, EnterConditional,
         LeaveConditional, Ownership
<1> QED BY <1>1, <1>2, <1>3 DEF GoesOn, Same

LEMMA HostMoves ==
  ASSUME Ownership, NEW r \in Runs, Host(r) \/ Consume(r) \/ DropResult(r)
  PROVE  Ownership' /\ (GoesOn(r) \/ Ends(r))
<1>1. Types
  BY DEF Ownership
<1>2. CASE UseBuffer(r)
  <2>1. \A s \in Runs \ {r} : Same(s)
    BY <1>1, <1>2 DEF UseBuffer, Same, Types
  <2> QED BY <1>2, <2>1, UseBufferHolds DEF UseBuffer, Allocating, GoesOn
<1>3. CASE Allocate(r)
  <2>1. \A s \in Runs \ {r} : Same(s)
    BY <1>1, <1>3 DEF Allocate, Same, Types
  <2> QED BY <1>3, <2>1, AllocateHolds DEF Allocate, Allocating, GoesOn
<1>4. CASE AllAllocated(r)
  <2>1. \A s \in Runs \ {r} : Same(s)
    BY <1>1, <1>4 DEF AllAllocated, Same, Types
  <2>2. pc'[r] = "outputs"
    BY <1>1, <1>4 DEF AllAllocated, Types
  <2> QED BY <1>4, <2>1, <2>2, AllAllocatedHolds DEF AllAllocated, GoesOn
<1>5. CASE Donate(r)
  <2>1. \A s \in Runs \ {r} : Same(s)
    BY <1>1, <1>5 DEF Donate, Same, Types
  <2>2. result'[r] # <<>>
    <3>1. PICK c : result' = [result EXCEPT ![r] = Append(@, c)]
      BY <1>5 DEF Donate
    <3>2. result'[r] = Append(result[r], c) /\ result[r] \in Seq(Cells)
      BY <1>1, <3>1 DEF Types
    <3> QED BY <3>2
  <2> QED BY <1>5, <2>1, <2>2, DonateHolds DEF Donate, Outputs, GoesOn
<1>6. CASE CopyProtection(r)
  BY <1>6, CopyGoesOn
<1>7. CASE TakeAllocation(r)
  <2>1. \A s \in Runs \ {r} : Same(s)
    <3>1. PICK c, a : /\ result' = [result EXCEPT ![r] = c]
                      /\ aliased' = [aliased EXCEPT ![r] = a]
      BY <1>7 DEF TakeAllocation
    <3> QED BY <1>1, <1>7, <3>1 DEF TakeAllocation, Same, Types
  <2>2. result'[r] # <<>>
    <3>1. PICK c : result' = [result EXCEPT ![r] = Append(@, c)]
      BY <1>7 DEF TakeAllocation
    <3>2. result'[r] = Append(result[r], c) /\ result[r] \in Seq(Cells)
      BY <1>1, <3>1 DEF Types
    <3> QED BY <3>2
  <2> QED BY <1>7, <2>1, <2>2, TakeAllocationHolds DEF TakeAllocation, Outputs, GoesOn
<1>8. CASE BeginThunks(r)
  <2>1. \A s \in Runs \ {r} : Same(s)
    BY <1>1, <1>8 DEF BeginThunks, Same, Types
  <2>2. pc'[r] = "thunks"
    BY <1>1, <1>8 DEF BeginThunks, Types
  <2> QED BY <1>8, <2>1, <2>2, BeginThunksHolds DEF BeginThunks, GoesOn
<1>9. CASE LaunchKernel(r)
  BY <1>9, KernelGoesOn
<1>10. CASE \/ EnterWhile(r) \/ TestWhile(r) \/ LoopWhile(r) \/ EnterFor(r) \/ LoopFor(r)
            \/ EnterConditional(r) \/ LeaveConditional(r)
  BY <1>10, ControlGoesOn
<1>11. CASE \/ RejectArgument(r) \/ AllocateFails(r) \/ MustAlias(r) \/ CopyProtectionFails(r)
            \/ InitializeFails(r) \/ ThunkFails(r)
  <2>1. Fail(r) /\ pc[r] \in {"allocate", "outputs", "thunks"}
    BY <1>11 DEF RejectArgument, AllocateFails, MustAlias, CopyProtectionFails, InitializeFails,
       ThunkFails, Allocating, Outputs, CopyProtected, AtThunk, InThunks
  <2>2. pc'[r] = "failed" /\ \A s \in Runs \ {r} : Same(s)
    BY <1>1, <2>1 DEF Fail, Same, Types
  <2> QED BY <2>1, <2>2, FailHolds DEF Fail, Ends, Live
<1>12. CASE TearDown(r)
  <2>1. Ownership' /\ pc[r] = "thunks"
    BY <1>12, TearDownHolds
  <2>2. ~job.async => stream[r] = <<>>
    BY <1>12 DEF TearDown, MaybeSync, Drained, StreamOf
  <2>3. \A s \in Runs \ {r} : Same(s)
    BY <1>1, <1>12 DEF TearDown, Same, Types
  <2> QED BY <1>12, <2>1, <2>2, <2>3 DEF TearDown, Ends
<1>13. CASE Consume(r) \/ DropResult(r)
  <2>1. \A s \in Runs \ {r} : Same(s)
    BY <1>1, <1>13 DEF Consume, DropResult, Same, Types
  <2> QED BY <1>13, <2>1, ClientHolds DEF Consume, DropResult, Ends
<1> QED BY <1>2, <1>3, <1>4, <1>5, <1>6, <1>7, <1>8, <1>9, <1>10, <1>11, <1>12, <1>13 DEF Host

LEMMA OwnershipStep ==
  ASSUME Ownership, [Next]_vars
  PROVE  Ownership'
<1>1. CASE \E r \in Runs : Host(r) \/ Consume(r) \/ DropResult(r)
  BY <1>1, HostMoves
<1>2. CASE \E s \in DOMAIN stream : Device(s)
  BY <1>2, DeviceHolds
<1>3. CASE UNCHANGED vars
  BY <1>3, OwnershipStutters
<1> QED BY <1>1, <1>2, <1>3 DEF Next, Stop

-----------------------------------------------------------------------------
(* The streams and the callers' memory.                                    *)

LEMMA EnqueuesIs ==
  ASSUME Types, NEW r \in Runs, Enqueues(r)
  PROVE  \E e \in Enqueued :
           /\ e.out \in Has(r)' /\ Range(e.args) \subseteq Has(r)' \cup Lent \cup Constants
           /\ StreamOf(r) \in DOMAIN stream
           /\ stream' = [stream EXCEPT ![StreamOf(r)] = Append(@, e)]
<1>1. PICK fn \in KernelNames, args \in Seq(Cells), out \in Cells :
        /\ Enqueue(r, fn, args, out)
        /\ out \in Has(r)' /\ Range(args) \subseteq Has(r)' \cup Lent \cup Constants
  BY DEF Enqueues
<1>2. PICK e : e = [run |-> r, fn |-> fn, args |-> args, out |-> out]
  OBVIOUS
<1>3. /\ e \in Enqueued /\ StreamOf(r) \in Runs \cup {"compute"}
      /\ stream' = [stream EXCEPT ![StreamOf(r)] = Append(@, e)]
  BY <1>1, <1>2, CopyEnqueues
<1> QED BY <1>1, <1>2, <1>3 DEF Types

\* The commands of the streams after an enqueue, and after the device took one.
LEMMA Appended ==
  ASSUME Types, NEW t \in DOMAIN stream, NEW e \in Enqueued,
         stream' = [stream EXCEPT ![t] = Append(@, e)],
         NEW s \in DOMAIN stream', NEW i \in DOMAIN stream'[s]
  PROVE  /\ s \in DOMAIN stream
         /\ \/ i \in DOMAIN stream[s] /\ stream'[s][i] = stream[s][i]
            \/ s = t /\ stream'[s][i] = e
<1>1. s \in DOMAIN stream /\ stream[s] \in Seq(Enqueued)
  BY DEF Types
<1>2. CASE s # t
  BY <1>1, <1>2
<1>3. CASE s = t
  <2>1. stream'[s] = Append(stream[s], e)
    BY <1>1, <1>3
  <2> QED BY <1>1, <1>3, <2>1
<1> QED BY <1>1, <1>2, <1>3

LEMMA Executed ==
  ASSUME Types, NEW t \in DOMAIN stream, stream[t] # <<>>,
         stream' = [stream EXCEPT ![t] = Tail(@)],
         NEW s \in DOMAIN stream', NEW i \in DOMAIN stream'[s]
  PROVE  s \in DOMAIN stream /\ \E j \in DOMAIN stream[s] : stream'[s][i] = stream[s][j]
<1>1. s \in DOMAIN stream /\ stream[s] \in Seq(Enqueued)
  BY DEF Types
<1>2. CASE s # t
  BY <1>1, <1>2
<1>3. CASE s = t
  <2>1. stream'[s] = Tail(stream[s]) /\ stream[s] # <<>>
    BY <1>1, <1>3
  <2>2. i + 1 \in DOMAIN stream[s] /\ stream'[s][i] = stream[s][i + 1]
    BY <1>1, <2>1
  <2> QED BY <1>1, <2>2
<1> QED BY <1>1, <1>2, <1>3

\* Nobody writes what the callers keep.
LEMMA WritesApartStep ==
  ASSUME Ownership, Ownership', WritesApart, [Next]_vars
  PROVE  WritesApart'
<1>1. Types
  BY DEF Ownership
<1>2. CASE \E r \in Runs : Host(r) \/ Consume(r) \/ DropResult(r)
  <2>1. PICK r \in Runs : GoesOn(r) \/ Ends(r)
    BY <1>2, HostMoves
  <2>2. Lent' = Lent /\ mem' = mem
    BY <2>1, KeptStay DEF GoesOn, Ends
  <2>3. CASE stream' = stream
    BY <2>2, <2>3 DEF WritesApart
  <2>4. CASE Enqueues(r)
    <3>1. PICK e \in Enqueued : /\ e.out \in Has(r)' /\ StreamOf(r) \in DOMAIN stream
                                /\ stream' = [stream EXCEPT ![StreamOf(r)] = Append(@, e)]
      BY <1>1, <2>4, EnqueuesIs
    <3>2. e.out \notin Lent
      BY <2>2, <3>1 DEF Ownership, OneOwner, Has
    <3>3. ASSUME NEW s \in DOMAIN stream', NEW i \in DOMAIN stream'[s]
          PROVE  stream'[s][i].out \notin Lent
      BY <1>1, <3>1, <3>2, Appended DEF WritesApart
    <3> QED BY <2>2, <3>3 DEF WritesApart
  <2> QED BY <2>1, <2>3, <2>4 DEF GoesOn, Ends
<1>3. CASE \E t \in DOMAIN stream : Device(t)
  <2>1. PICK t \in DOMAIN stream : Device(t)
    BY <1>3
  <2>2. /\ stream[t] # <<>> /\ stream' = [stream EXCEPT ![t] = Tail(@)] /\ job' = job
        /\ \E v : mem' = [mem EXCEPT ![Head(stream[t]).out] = v]
    BY <2>1 DEF Device
  <2>3. Lent' = Lent
    BY <2>2, KeptStay
  <2>4. Head(stream[t]).out \notin Lent
    <3>1. stream[t] \in Seq(Enqueued)
      BY <1>1 DEF Types
    <3>2. 1 \in DOMAIN stream[t] /\ Head(stream[t]) = stream[t][1]
      BY <2>2, <3>1
    <3> QED BY <3>2 DEF WritesApart
  <2>5. \A c \in Lent : mem'[c] = InitialMem[c]
    <3>1. Lent \subseteq DOMAIN mem
      BY <1>1, KeptFacts, JobFacts, <2>4 DEF Types, Lent
    <3> QED BY <2>2, <2>4, <3>1 DEF WritesApart
  <2>6. ASSUME NEW s \in DOMAIN stream', NEW i \in DOMAIN stream'[s]
        PROVE  stream'[s][i].out \notin Lent
    BY <1>1, <2>2, Executed DEF WritesApart
  <2> QED BY <2>3, <2>5, <2>6 DEF WritesApart
<1>4. CASE UNCHANGED vars
  <2>1. Lent' = Lent /\ stream' = stream /\ mem' = mem
    BY <1>4, KeptStay DEF vars
  <2> QED BY <2>1 DEF WritesApart
<1> QED BY <1>2, <1>3, <1>4 DEF Next, Stop

LEMMA StreamsKeptStep ==
  ASSUME Ownership, Ownership', StreamsKept, [Next]_vars
  PROVE  StreamsKept'
<1>1. Types
  BY DEF Ownership
<1>2. SUFFICES ASSUME ~job.async, job' = job, FailedEarly',
                      NEW s \in DOMAIN stream', NEW i \in DOMAIN stream'[s]
               PROVE  /\ s \in Runs /\ pc'[s] \in {"outputs", "thunks"} /\ result'[s] # <<>>
                      /\ {stream'[s][i].out} \cup Range(stream'[s][i].args)
                           \subseteq Has(s)' \cup Lent \cup Constants
  <2>1. job' = job
    BY HostMoves DEF Next, Device, Stop, vars, GoesOn, Ends
  <2> QED BY <2>1, KeptStay DEF StreamsKept
<1>3. CASE \E r \in Runs : Host(r) \/ Consume(r) \/ DropResult(r)
  <2>1. PICK r \in Runs : GoesOn(r) \/ Ends(r)
    BY <1>3, HostMoves
  <2>2. pc[r] # "failed" /\ \A u \in Runs \ {r} : Same(u)
    BY <2>1 DEF GoesOn, Ends
  <2>3. FailedEarly
    BY <1>2, <2>2 DEF FailedEarly, Same
  <2>4. CASE GoesOn(r)
    <3>1. Has(s) \subseteq Has(s)' \/ s \notin Runs
      BY <1>2, <2>2, <2>4, KeepsHolding DEF GoesOn
    <3>2. ASSUME s \in DOMAIN stream, i \in DOMAIN stream[s], stream'[s][i] = stream[s][i]
          PROVE  /\ s \in Runs /\ pc'[s] \in {"outputs", "thunks"} /\ result'[s] # <<>>
                 /\ {stream'[s][i].out} \cup Range(stream'[s][i].args)
                      \subseteq Has(s)' \cup Lent \cup Constants
      <4>1. /\ s \in Runs /\ pc[s] \in {"outputs", "thunks"} /\ result[s] # <<>>
            /\ {stream[s][i].out} \cup Range(stream[s][i].args)
                 \subseteq Has(s) \cup Lent \cup Constants
        BY <1>2, <2>3, <3>2 DEF StreamsKept
      <4>2. pc'[s] \in {"outputs", "thunks"} /\ result'[s] # <<>>
        BY <2>2, <2>4, <4>1 DEF GoesOn, Same
      <4> QED BY <3>1, <3>2, <4>1, <4>2
    <3>3. CASE stream' = stream
      BY <1>2, <3>2, <3>3
    <3>4. CASE Enqueues(r)
      <4>1. PICK e \in Enqueued :
              /\ e.out \in Has(r)' /\ Range(e.args) \subseteq Has(r)' \cup Lent \cup Constants
              /\ StreamOf(r) \in DOMAIN stream
              /\ stream' = [stream EXCEPT ![StreamOf(r)] = Append(@, e)]
        BY <1>1, <3>4, EnqueuesIs
      <4>2. \/ s \in DOMAIN stream /\ i \in DOMAIN stream[s] /\ stream'[s][i] = stream[s][i]
            \/ s = StreamOf(r) /\ stream'[s][i] = e
        BY <1>1, <1>2, <4>1, Appended
      <4>3. StreamOf(r) = r
        BY <1>2 DEF StreamOf
      <4> QED BY <3>2, <3>4, <4>1, <4>2, <4>3 DEF Enqueues
    <3> QED BY <2>4, <3>3, <3>4 DEF GoesOn
  <2>5. CASE Ends(r)
    <3>1. /\ s \in Runs /\ pc[s] \in {"outputs", "thunks"} /\ result[s] # <<>>
          /\ {stream[s][i].out} \cup Range(stream[s][i].args)
               \subseteq Has(s) \cup Lent \cup Constants
          /\ stream' = stream /\ i \in DOMAIN stream[s]
      BY <1>2, <2>3, <2>5 DEF StreamsKept, Ends
    <3>2. s # r
      <4>1. SUFFICES ASSUME s = r PROVE FALSE
        OBVIOUS
      <4>2. stream[r] # <<>>
        BY <1>1, <3>1, <4>1 DEF Types
      <4>3. pc'[r] = "failed" /\ result'[r] # <<>>
        BY <1>2, <2>5, <3>1, <4>1, <4>2 DEF Ends
      <4> QED BY <1>2, <4>3 DEF FailedEarly
    <3>3. Has(s)' = Has(s) /\ Same(s)
      BY <1>2, <2>2, <3>1, <3>2, SameStays
    <3> QED BY <3>1, <3>3 DEF Same
  <2> QED BY <2>1, <2>4, <2>5
<1>4. CASE \E t \in DOMAIN stream : Device(t)
  <2>1. PICK t \in DOMAIN stream : Device(t)
    BY <1>4
  <2>2. /\ stream[t] # <<>> /\ stream' = [stream EXCEPT ![t] = Tail(@)]
        /\ \A u \in Runs : Same(u)
    BY <2>1 DEF Device, Same
  <2>3. PICK j \in DOMAIN stream[s] : stream'[s][i] = stream[s][j] /\ s \in DOMAIN stream
    BY <1>1, <1>2, <2>2, Executed
  <2>4. FailedEarly
    BY <1>2, <2>2 DEF FailedEarly, Same
  <2>5. /\ s \in Runs /\ pc[s] \in {"outputs", "thunks"} /\ result[s] # <<>>
        /\ {stream[s][j].out} \cup Range(stream[s][j].args) \subseteq Has(s) \cup Lent \cup Constants
    BY <1>2, <2>3, <2>4 DEF StreamsKept
  <2>6. Has(s)' = Has(s)
    BY <1>2, <2>2, <2>5, SameStays
  <2> QED BY <2>2, <2>3, <2>5, <2>6 DEF Same
<1>5. CASE UNCHANGED vars
  <2>1. stream' = stream /\ pc' = pc /\ result' = result /\ \A u \in Runs : Same(u)
    BY <1>5 DEF vars, Same
  <2>2. FailedEarly
    BY <1>2, <2>1 DEF FailedEarly
  <2>3. /\ s \in Runs /\ pc[s] \in {"outputs", "thunks"} /\ result[s] # <<>>
        /\ {stream[s][i].out} \cup Range(stream[s][i].args) \subseteq Has(s) \cup Lent \cup Constants
    BY <1>2, <2>1, <2>2 DEF StreamsKept
  <2>4. Has(s)' = Has(s)
    BY <1>2, <2>1, <2>3, SameStays
  <2> QED BY <2>1, <2>3, <2>4
<1> QED BY <1>3, <1>4, <1>5 DEF Next, Stop

-----------------------------------------------------------------------------
(* The theorems.                                                           *)

\* Ownership and what the streams may do follow, for any run of any jobs, from
\* BufferForAllocation, the choice of the output buffers (gpu_executable.cc:569
\* and following), TearDown and the destructors of inputs and outputs.
THEOREM InvariantHolds == Spec => []Invariant
<1>1. Init => Invariant
  <2>1. SUFFICES ASSUME Init PROVE Invariant
    OBVIOUS
  <2>2. \A s \in DOMAIN stream : stream[s] = <<>>
    BY <2>1 DEF Init
  <2>3. \A c \in Lent : mem[c] = InitialMem[c]
    BY <2>1 DEF Init
  <2>4. WritesApart /\ StreamsKept
    BY <2>2, <2>3 DEF WritesApart, StreamsKept
  <2> QED BY <2>1, <2>4, OwnershipInit DEF Invariant
<1>2. Invariant /\ [Next]_vars => Invariant'
  <2>1. SUFFICES ASSUME Ownership, WritesApart, StreamsKept, [Next]_vars PROVE Invariant'
    BY DEF Invariant
  <2>2. Ownership'
    BY <2>1, OwnershipStep
  <2> QED BY <2>1, <2>2, WritesApartStep, StreamsKeptStep DEF Invariant
<1> QED BY <1>1, <1>2, PTL DEF Spec

\* Every buffer is free, kept by its caller, has exactly one owner or was leaked by
\* a run that failed: TearDown, the result, and the destructors of ExecutionInput
\* and ExecutionOutput free nothing twice, and only an error return forgets buffers:
\* those of no output and the outputs it leaves (gpu_executable.cc:424, :630).
THEOREM OneOwnerHolds == Spec => []OneOwner
<1>1. Invariant => OneOwner
  BY DEF Invariant, Ownership
<1> QED BY <1>1, InvariantHolds, PTL

\* An aliased output of a failed run stays its caller's: the destructor of
\* ExecutionOutput skips the aliased indices, and nothing else lies there.
LEMMA AliasedStays ==
  ASSUME Ownership, NEW r \in Runs, pc[r] = "failed", NEW o \in DOMAIN result[r],
         output_info(r)[o].alias # "none",
         ParamAt(Job(r).program, o) \in Job(r).donated
  PROVE  result[r][o] \notin free
<1>1. Types /\ RunInv(r) /\ job \in Jobs
  BY DEF Ownership, RunInv, Types
<1>2. Lost(r) \cap free = {}
  BY DEF Ownership, OneOwner
<1>3. o \in aliased[r]
  BY <1>1 DEF RunInv, Donated
<1>4. result[r][o] \in Lost(r)
  BY <1>3 DEF Lost
<1> QED BY <1>2, <1>4

\* An argument that was not donated is never freed and keeps its contents,
\* although the program's output is declared to alias it (copy-protection), and
\* an error does not release a donated argument that became an output.
THEOREM CallersKeepTheirBuffersHolds == Spec => []CallersKeepTheirBuffers
<1>1. Invariant => CallersKeepTheirBuffers
  <2>1. SUFFICES ASSUME Invariant PROVE CallersKeepTheirBuffers
    OBVIOUS
  <2>2. \A c \in Lent : c \notin free /\ mem[c] = InitialMem[c]
    BY <2>1 DEF Invariant, Ownership, Reserved, WritesApart
  <2>3. ASSUME NEW r \in Runs, pc[r] = "failed", NEW o \in DOMAIN result[r],
               output_info(r)[o].alias # "none",
               ParamAt(Job(r).program, o) \in Job(r).donated
        PROVE  result[r][o] \notin free
    BY <2>1, <2>3, AliasedStays DEF Invariant
  <2> QED BY <2>2, <2>3 DEF CallersKeepTheirBuffers
<1> QED BY <1>1, InvariantHolds, PTL

\* Without asynchronous deallocation no free buffer is used by a command that
\* is still enqueued, because MaybeSyncAndProfile waits before TearDown; as long
\* as no run fails after it has begun with its outputs, since such a run frees
\* its outputs without waiting (gpu_executable.cc:424 and :630).
THEOREM FreedWhenIdleHolds == Spec => [](FailedEarly => FreedWhenIdle)
<1>1. Invariant => (FailedEarly => FreedWhenIdle)
  <2>1. SUFFICES ASSUME Invariant, FailedEarly, ~job.async,
                        NEW s \in DOMAIN stream, NEW o \in Range(stream[s])
                 PROVE  ({o.out} \cup Range(o.args)) \cap free = {}
    BY DEF FreedWhenIdle
  <2>2. PICK i \in DOMAIN stream[s] : o = stream[s][i]
    BY DEF Range
  <2>3. s \in Runs /\ {o.out} \cup Range(o.args) \subseteq Has(s) \cup Lent \cup Constants
    BY <2>1, <2>2 DEF Invariant, StreamsKept
  <2> QED BY <2>1, <2>3 DEF Invariant, Ownership, OneOwner, Has, Reserved
<1> QED BY <1>1, InvariantHolds, PTL
=============================================================================
