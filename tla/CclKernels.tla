------------------------------ MODULE CclKernels ------------------------------
(***************************************************************************)
(* One collective over one buffer, from the Run* function of its thunk     *)
(* (ccl_*_thunk.cc) to the kernel of ccl_ops.cc, computed on symbolic      *)
(* buffers and compared with what the collective means.                    *)
(*                                                                         *)
(* An element of rank r's operand is the one-element sequence <<<<r, i>>>> *)
(* and the reduction function concatenates: a result shows which operands  *)
(* went into it, how often and in which order.  Reading outside a buffer   *)
(* yields Stray.  allreduce works in place (its result aliases its         *)
(* operand); every other collective has distinct buffers.                  *)
(***************************************************************************)
EXTENDS CclDispatch, Integers, Sequences, FiniteSets

CONSTANTS
  MaxCount,     \* bound: elements of an operand
  RankCounts,   \* the clique sizes tried
  GroupSizes,   \* the devices' max_work_group_size values tried
  Types         \* the element types tried

ASSUME KernelsAssumption ==
  /\ MaxCount \in Nat
  /\ RankCounts \subseteq 2 .. MAX_RANK_SIZE
  /\ GroupSizes \subseteq Nat \ {0}
  /\ Types \subseteq PrimitiveTypes

Func(a, b) == a \o b
Stray      == <<<<-1, -1>>>>
Zero       == <<>>

\* The source-target pairs of a permute: no id twice as source or as target.
PairSets(n) ==
  {f \in UNION {[s -> 0 .. n - 1] : s \in SUBSET (0 .. n - 1)} :
     \A x, y \in DOMAIN f : x # y => f[x] # f[y]}

\* The collectives tried: every kind with every size, type, element count and
\* work-group size, and for a permute every set of pairs (source -> target).
Cases ==
  {c \in [kind : Kinds, reduction : ReductionKinds \cup {NoReduction},
          dtype : Types, n : RankCounts, count : 1 .. MaxCount,
          group_size : GroupSizes] :
     /\ CheckImplementable(c.kind, c.reduction, c.dtype)
     /\ LockAdmits(c.n)}

VARIABLES
  case,           \* the collective
  pairs,          \* its source-target pairs (permute)
  state,          \* "called", "launched", "done", "error" or "fatal"
  element_count,  \* the count passed to the sycl_* call
  out             \* per rank, the result buffer after the kernel

vars == <<case, pairs, state, element_count, out>>

Init ==
  /\ case \in Cases
  /\ pairs \in IF case.kind = "permute" THEN PairSets(case.n) ELSE {<<>>}
  /\ state = "called"
  /\ element_count = 0
  /\ out = <<>>

Ranks == 0 .. case.n - 1

\* The count the Run* functions compute: complex elements count twice.
Multiplied == case.count * (IF case.dtype \in ComplexTypes THEN 2 ELSE 1)

\* The buffer sizes, in elements of the type.
InSize  == case.count
OutSize == CASE case.kind = "allgather"      -> case.count * case.n
             [] case.kind = "reduce_scatter" -> case.count \div case.n
             [] OTHER                        -> case.count

\* RunAllReduce, RunAllGather, RunAllToAll (list form), RunReduceScatter,
\* RunCollectivePermute up to the sycl_* call.
Run ==
  /\ state = "called"
  /\ IF case.kind = "reduce_scatter"
       THEN IF Multiplied % case.n = 0
              THEN element_count' = Multiplied \div case.n /\ state' = "launched"
              ELSE UNCHANGED element_count /\ state' = "error"
       ELSE element_count' = Multiplied /\ state' = "launched"
  /\ UNCHANGED <<case, pairs, out>>

-----------------------------------------------------------------------------
(* The kernels.                                                            *)

\* The work items that pass the "index >= tensor_size" guard.
Items ==
  LET num_workgroup == (element_count + case.group_size - 1) \div case.group_size
  IN  {i \in 0 .. case.group_size * num_workgroup - 1 : i < element_count}

In(r, i) == IF i < InSize THEN <<<<r, i>>>> ELSE Stray

\* Func(...Func(Func(first, f[from]), f[from + 1])..., f[to])
FoldRanks(first, f, from, to) ==
  LET acc[j \in from - 1 .. to] ==
        IF j = from - 1 THEN first ELSE Func(acc[j - 1], f[j])
  IN  acc[to]

\* ADD_DPCPP(0, j) for every other rank, then COPY_OUT_DPCPP(j, 0).
allreduce_dpcpp ==
  [r \in Ranks |-> [i \in Items |->
     FoldRanks(In(0, i), [j \in Ranks |-> In(j, i)], 1, case.n - 1)]]

\* Copy every operand to its place in rank 0's result, then that result, of
\* n * element_count elements, to the other ranks.
allgather_dpcpp ==
  LET out0 == [i \in 0 .. case.n * element_count - 1 |->
                 In(i \div element_count, i % element_count)]
  IN  [r \in Ranks |-> out0]

\* recv[j][i][index] = send[i][j][index]: rank j's i-th buffer is what rank i
\* sent to it.  A result element is kept as <<sender, receiver, index>>.
alltoall_dpcpp ==
  [r \in Ranks |-> [s \in Ranks |-> [i \in Items |->
     IF i < InSize THEN <<<<s, r, i>>>> ELSE Stray]]]

\* Mutant: every rank reduces the first part.
reducescatter_dpcpp_NoOffset ==
  [r \in Ranks |-> [i \in Items |->
     FoldRanks(Func(In(0, i), In(1, i)), [j \in Ranks |-> In(j, i)], 2, case.n - 1)]]

\* out[i][index] from in[.][index + tensor_size * i].
reducescatter_dpcpp ==
  [r \in Ranks |-> [i \in Items |->
     LET at(j) == In(j, i + element_count * r) IN
     FoldRanks(Func(at(0), at(1)), [j \in Ranks |-> at(j)], 2, case.n - 1)]]

\* GetCclCollectivePermuteConfig: the source recorded for a target id.
HasSource(r) == \E s \in DOMAIN pairs : pairs[s] = r
SourceOf(r)  == CHOOSE s \in DOMAIN pairs : pairs[s] = r

\* permute_dpcpp copies from the participant send_id names; afterwards
\* RunCollectivePermute zeroes the result of a rank without a source.
permute_dpcpp ==
  [r \in Ranks |-> IF HasSource(r)
                     THEN [i \in 0 .. element_count - 1 |-> In(SourceOf(r), i)]
                     ELSE [i \in 0 .. OutSize - 1 |-> Zero]]

Kernel ==
  CASE case.kind = "allreduce"      -> allreduce_dpcpp
    [] case.kind = "allgather"      -> allgather_dpcpp
    [] case.kind = "alltoall"       -> alltoall_dpcpp
    [] case.kind = "reduce_scatter" -> reducescatter_dpcpp
    [] case.kind = "permute"        -> permute_dpcpp

\* The sycl_* call: a kernel, or LOG(FATAL).
Launch ==
  /\ state = "launched"
  /\ IF Dispatches(case.kind, case.reduction, case.dtype, case.n)
       THEN out' = Kernel /\ state' = "done"
       ELSE UNCHANGED out /\ state' = "fatal"
  /\ UNCHANGED <<case, pairs, element_count>>

Stop == state \in {"done", "error", "fatal"} /\ UNCHANGED vars
Next == Run \/ Launch \/ Stop
Spec == Init /\ [][Next]_vars

-----------------------------------------------------------------------------
(* Properties.                                                             *)

\* All operands of one index, in rank order.
AllOf(i) == [j \in 1 .. case.n |-> <<j - 1, i>>]

\* What rank r must find at index i of its result.
Expected(r, i) ==
  CASE case.kind = "allreduce"      -> AllOf(i)
    [] case.kind = "allgather"      -> <<<<i \div case.count, i % case.count>>>>
    [] case.kind = "reduce_scatter" -> AllOf(r * OutSize + i)
    [] case.kind = "permute"        ->
         IF r \in {pairs[s] : s \in DOMAIN pairs}
           THEN LET s == CHOOSE s \in DOMAIN pairs : pairs[s] = r IN <<<<s, i>>>>
           ELSE Zero

\* Every element of every result is what the collective means (the reduction
\* of all operands once each, the operand gathered from its rank, or the
\* element of the pair's source), and a kernel stays inside the buffers: it
\* writes no index beyond the result (the comment "tensor_size: output tensor
\* size") and uses nothing beyond the operands.
ResultsAreExact ==
  state = "done" =>
    \A r \in Ranks :
      IF case.kind = "alltoall"
        THEN \A s \in Ranks : out[r][s] = [i \in 0 .. OutSize - 1 |-> <<<<s, r, i>>>>]
        ELSE out[r] = [i \in 0 .. OutSize - 1 |-> Expected(r, i)]

=============================================================================
