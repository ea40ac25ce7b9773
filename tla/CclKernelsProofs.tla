--------------------------- MODULE CclKernelsProofs ---------------------------
(***************************************************************************)
(* Proofs about CclKernels, for any number of ranks, elements and work     *)
(* items: the kernels compute the collectives and stay inside the buffers, *)
(* for every element type that is not complex.                             *)
(***************************************************************************)
EXTENDS CclKernels, SequenceTheorems, WellFoundedInduction, TLAPS

\* No complex type: the Run* functions double the count of complex elements.
RealTypes == Types \cap ComplexTypes = {}

-----------------------------------------------------------------------------
(* The fold over the ranks.                                                *)

\* Element idx of the operands of the first n ranks, in rank order.
FirstOf(n, idx) == [k \in 1 .. n |-> <<k - 1, idx>>]

LEMMA AppendRank ==
  ASSUME NEW n \in Nat, NEW idx
  PROVE  FirstOf(n, idx) \o <<<<n, idx>>>> = FirstOf(n + 1, idx)
<1> DEFINE s == FirstOf(n, idx)
           u == FirstOf(n + 1, idx)
           P == Nat \X {idx}
<1>1. \A k \in 1 .. n : <<k - 1, idx>> \in P
  OBVIOUS
<1>2. s \in Seq(P) /\ Len(s) = n /\ \A k \in 1 .. n : s[k] = <<k - 1, idx>>
  BY <1>1 DEF FirstOf
<1>3. u \in Seq(P) /\ Len(u) = n + 1 /\ \A k \in 1 .. n + 1 : u[k] = <<k - 1, idx>>
  <2>1. \A k \in 1 .. n + 1 : <<k - 1, idx>> \in P
    OBVIOUS
  <2> QED BY <2>1 DEF FirstOf
<1>4. PICK e : e = <<<<n, idx>>>>
  OBVIOUS
<1>5. e \in Seq(P) /\ Len(e) = 1 /\ e[1] = <<n, idx>>
  BY <1>4
<1> HIDE DEF s, u, P
<1>6. /\ s \o e \in Seq(P) /\ Len(s \o e) = n + 1
      /\ \A k \in 1 .. n + 1 : (s \o e)[k] = IF k <= n THEN s[k] ELSE e[k - n]
  <2>1. /\ s \o e \in Seq(P) /\ Len(s \o e) = Len(s) + Len(e)
        /\ \A k \in 1 .. Len(s) + Len(e) :
             (s \o e)[k] = IF k <= Len(s) THEN s[k] ELSE e[k - Len(s)]
    BY <1>2, <1>5, ConcatProperties, Zenon
  <2> QED BY <1>2, <1>5, <2>1, Zenon
<1>7. \A k \in 1 .. n + 1 : (s \o e)[k] = u[k]
  <2> TAKE k \in 1 .. n + 1
  <2>1. CASE k = n + 1
    <3>1. ~(k <= n) /\ k - n = 1 /\ k - 1 = n
      BY <2>1
    <3> QED BY <1>3, <1>5, <1>6, <3>1
  <2>2. CASE k # n + 1
    <3>1. k <= n /\ k \in 1 .. n
      BY <2>2
    <3> QED BY <1>2, <1>3, <1>6, <3>1
  <2> QED BY <2>1, <2>2
<1>8. s \o e = u
  BY <1>3, <1>6, <1>7, SeqEqual
<1> QED BY <1>4, <1>8 DEF s, u

\* The kernel's loop over the ranks concatenates the operands in rank order.
LEMMA FoldFacts ==
  ASSUME NEW from \in Nat \ {0}, NEW to \in Nat, from <= to + 1, NEW idx, NEW f,
         \A j \in from .. to : f[j] = <<<<j, idx>>>>
  PROVE  FoldRanks(FirstOf(from, idx), f, from, to) = FirstOf(to + 1, idx)
<1> DEFINE S == from - 1 .. to
           first == FirstOf(from, idx)
           Eq(g) == g = [j \in S |-> IF j = from - 1 THEN first ELSE Func(g[j - 1], f[j])]
           w == [j \in S |-> FirstOf(j + 1, idx)]
           acc == CHOOSE g : Eq(g)
<1>1. FoldRanks(FirstOf(from, idx), f, from, to) = acc[to]
  BY DEF FoldRanks
<1>2. ASSUME NEW j \in S, j # from - 1
      PROVE  /\ j \in from .. to /\ j - 1 \in S /\ j \in Nat
             /\ Func(FirstOf(j, idx), f[j]) = FirstOf(j + 1, idx)
  <2>1. j \in from .. to /\ j - 1 \in S /\ j \in Nat
    BY <1>2
  <2> QED BY <2>1, AppendRank DEF Func
<1>3. Eq(w)
  <2>1. ASSUME NEW j \in S
        PROVE  w[j] = IF j = from - 1 THEN first ELSE Func(w[j - 1], f[j])
    <3>1. CASE j = from - 1
      BY <3>1
    <3>2. CASE j # from - 1
      <4>1. j - 1 \in S /\ j - 1 + 1 = j
        BY <1>2, <3>2
      <4>2. w[j - 1] = FirstOf(j, idx)
        BY <4>1
      <4> QED BY <1>2, <3>2, <4>2
    <3> QED BY <3>1, <3>2
  <2> QED BY <2>1
<1>4. Eq(acc)
  BY <1>3
<1>5. \A j \in S : acc[j] = IF j = from - 1 THEN first ELSE Func(acc[j - 1], f[j])
  BY <1>4
<1> HIDE DEF acc, w
<1>6. \A j \in S : acc[j] = FirstOf(j + 1, idx)
  <2> DEFINE Bad == {j \in S : acc[j] # FirstOf(j + 1, idx)}
  <2> SUFFICES ASSUME Bad # {} PROVE FALSE
    OBVIOUS
  <2>1. Bad \in SUBSET Nat
    OBVIOUS
  <2>2. PICK j \in Bad : \A i \in Bad : ~(<<i, j>> \in OpToRel(<, Nat))
    BY <2>1, NatLessThanWellFounded, WFMin
  <2>3. j \in S /\ acc[j] # FirstOf(j + 1, idx) /\ j \in Nat
    BY <2>1
  <2>4. ASSUME NEW i \in Bad PROVE ~(i < j)
    <3>1. OpToRel(<, Nat) = {p \in Nat \X Nat : p[1] < p[2]}
      BY DEF OpToRel
    <3>2. ~(<<i, j>> \in {p \in Nat \X Nat : p[1] < p[2]})
      BY <2>2, <3>1, Zenon
    <3> QED BY <2>1, <2>3, <3>2
  <2>5. CASE j = from - 1
    BY <1>5, <2>3, <2>5
  <2>6. CASE j # from - 1
    <3>1. j - 1 \in S /\ j - 1 + 1 = j /\ j - 1 < j
      BY <1>2, <2>3, <2>6
    <3>2. acc[j - 1] = FirstOf(j, idx)
      BY <2>4, <3>1
    <3>3. acc[j] = Func(acc[j - 1], f[j])
      BY <1>5, <2>3, <2>6
    <3> QED BY <1>2, <2>3, <2>6, <3>2, <3>3
  <2> QED BY <2>5, <2>6
<1> QED BY <1>1, <1>6

-----------------------------------------------------------------------------
(* Counts and work items.                                                  *)

\* The count that is passed on: the elements of a rank's part of the result,
\* or for an all-gather of its operand.
CountIs ==
  IF case.kind = "reduce_scatter"
    THEN /\ element_count \in Nat /\ element_count = case.count \div case.n
         /\ case.count = case.n * element_count
    ELSE element_count = case.count

KInv ==
  /\ case \in Cases
  /\ state = "launched" => CountIs
  /\ ResultsAreExact

LEMMA CaseFacts ==
  ASSUME case \in Cases
  PROVE  /\ case.n \in Nat /\ case.n >= 2 /\ case.count \in Nat /\ case.count >= 1
         /\ case.group_size \in Nat /\ case.group_size >= 1 /\ case.dtype \in Types
         /\ case.kind \in Kinds
         /\ Ranks \subseteq Nat /\ \A r \in Ranks : r < case.n
<1>1. /\ case.n \in RankCounts /\ case.count \in 1 .. MaxCount
      /\ case.group_size \in GroupSizes /\ case.dtype \in Types /\ case.kind \in Kinds
  BY DEF Cases
<1>2. case.n \in Nat /\ case.n >= 2
  <2>1. case.n \in 2 .. 16
    BY <1>1, KernelsAssumption DEF MAX_RANK_SIZE
  <2> QED BY <2>1
<1>3. /\ case.count \in Nat /\ case.count >= 1
      /\ case.group_size \in Nat /\ case.group_size >= 1
  <2>1. MaxCount \in Nat /\ case.group_size \in Nat \ {0}
    BY <1>1, KernelsAssumption
  <2> QED BY <1>1, <2>1
<1>4. Ranks \subseteq Nat /\ \A r \in Ranks : r < case.n
  BY <1>2 DEF Ranks
<1> QED BY <1>1, <1>2, <1>3, <1>4

LEMMA DivisionFacts ==
  ASSUME NEW a \in Nat, NEW g \in Nat, g >= 1
  PROVE  /\ a \div g \in Nat /\ a % g \in 0 .. g - 1 /\ g * (a \div g) \in Nat
         /\ g * (a \div g) + (a % g) = a
<1>1. a \div g \in Nat
  OBVIOUS
<1>2. a % g \in 0 .. g - 1
  OBVIOUS
<1>3. g * (a \div g) + (a % g) = a
  <2>1. a \in Int /\ g \in Int /\ g > 0
    OBVIOUS
  <2> QED BY <2>1, Z3
<1>4. g * (a \div g) \in Nat
  BY <1>1
<1> QED BY <1>1, <1>2, <1>3, <1>4

\* The guard leaves exactly the elements, however the last group is filled.
LEMMA ItemsFacts ==
  ASSUME case \in Cases, element_count \in Nat
  PROVE  Items = 0 .. element_count - 1
<1> DEFINE g == case.group_size
           a == element_count + g - 1
           q == a \div g
<1>1. g \in Nat /\ g >= 1 /\ a \in Nat
  BY CaseFacts
<1>2. g * q \in Nat /\ a % g \in 0 .. g - 1 /\ g * q + (a % g) = a
  BY <1>1, DivisionFacts
<1> HIDE DEF q
<1>4. PICK r \in 0 .. g - 1, m \in Nat : m = g * q /\ m + r = a
  BY <1>2
<1>6. element_count <= m
  BY <1>1, <1>4
<1>7. Items = {i \in 0 .. m - 1 : i < element_count}
  BY <1>4 DEF Items, q
<1> QED BY <1>4, <1>6, <1>7

LEMMA InFacts ==
  ASSUME case \in Cases, NEW r, NEW i \in Nat, i < case.count
  PROVE  In(r, i) = <<<<r, i>>>>
<1> QED BY DEF In, InSize

LEMMA AllOfFacts ==
  ASSUME case \in Cases, NEW i
  PROVE  AllOf(i) = FirstOf(case.n - 1 + 1, i)
<1>1. case.n - 1 + 1 = case.n
  BY CaseFacts
<1> QED BY <1>1 DEF AllOf, FirstOf

-----------------------------------------------------------------------------
(* The kernels.                                                            *)

LEMMA AllReduceFacts ==
  ASSUME case \in Cases, CountIs, case.kind = "allreduce"
  PROVE  \A r \in Ranks :
           allreduce_dpcpp[r] = [i \in 0 .. OutSize - 1 |-> Expected(r, i)]
<1>1. element_count = case.count /\ OutSize = case.count
  BY DEF CountIs, OutSize
<1>2. Items = 0 .. OutSize - 1
  BY <1>1, CaseFacts, ItemsFacts
<1>3. ASSUME NEW i \in 0 .. OutSize - 1
      PROVE  FoldRanks(In(0, i), [j \in Ranks |-> In(j, i)], 1, case.n - 1) = AllOf(i)
  <2> DEFINE f == [j \in Ranks |-> In(j, i)]
  <2>1. case.n \in Nat /\ case.n >= 2 /\ i \in Nat /\ i < case.count
    BY <1>1, CaseFacts
  <2>2. case.n - 1 \in Nat /\ 1 <= case.n - 1 + 1
    BY <2>1
  <2>3. \A j \in 1 .. case.n - 1 : f[j] = <<<<j, i>>>>
    BY <2>1, InFacts DEF Ranks
  <2>4. In(0, i) = FirstOf(1, i)
    <3>1. In(0, i) = <<<<0, i>>>>
      BY <2>1, InFacts
    <3>2. FirstOf(1, i) = <<<<0, i>>>>
      BY DEF FirstOf
    <3> QED BY <3>1, <3>2
  <2> HIDE DEF f
  <2>5. FoldRanks(FirstOf(1, i), f, 1, case.n - 1) = FirstOf(case.n - 1 + 1, i)
    BY <2>2, <2>3, FoldFacts
  <2> QED BY <2>4, <2>5, AllOfFacts DEF f
<1>4. \A r \in Ranks, i \in 0 .. OutSize - 1 : Expected(r, i) = AllOf(i)
  BY DEF Expected
<1> QED BY <1>2, <1>3, <1>4 DEF allreduce_dpcpp

LEMMA ReduceScatterFacts ==
  ASSUME case \in Cases, CountIs, case.kind = "reduce_scatter"
  PROVE  \A r \in Ranks :
           reducescatter_dpcpp[r] = [i \in 0 .. OutSize - 1 |-> Expected(r, i)]
<1>1. /\ element_count \in Nat /\ element_count = OutSize
      /\ case.count = case.n * element_count
  BY DEF CountIs, OutSize
<1>2. Items = 0 .. OutSize - 1
  BY <1>1, ItemsFacts
<1>3. ASSUME NEW r \in Ranks, NEW i \in 0 .. OutSize - 1
      PROVE  /\ i + element_count * r = r * OutSize + i
             /\ i + element_count * r \in Nat /\ i + element_count * r < case.count
  <2>1. /\ r \in Nat /\ case.n \in Nat /\ r + 1 <= case.n /\ i \in Nat
        /\ i + 1 <= element_count
    BY <1>1, CaseFacts
  <2>2. PICK d \in Nat : case.n = r + 1 + d
    <3>1. case.n - (r + 1) \in Nat /\ case.n = r + 1 + (case.n - (r + 1))
      BY <2>1
    <3> QED BY <3>1
  <2>3. /\ case.n * element_count = element_count * r + element_count + d * element_count
        /\ element_count * r \in Nat /\ d * element_count \in Nat
        /\ element_count * r = r * element_count
    BY <1>1, <2>1, <2>2
  <2>4. PICK x \in Nat, y \in Nat :
          /\ x = element_count * r /\ y = d * element_count
          /\ case.count = x + element_count + y /\ x = r * OutSize
    BY <1>1, <2>3
  <2> QED BY <1>1, <2>1, <2>4
<1>4. ASSUME NEW r \in Ranks, NEW i \in 0 .. OutSize - 1
      PROVE  FoldRanks(Func(In(0, i + element_count * r), In(1, i + element_count * r)),
                       [j \in Ranks |-> In(j, i + element_count * r)], 2, case.n - 1)
               = AllOf(r * OutSize + i)
  <2>1. PICK x \in Nat : /\ x = i + element_count * r /\ x < case.count
                         /\ x = r * OutSize + i
    BY <1>3
  <2> DEFINE f == [j \in Ranks |-> In(j, x)]
  <2>2. case.n - 1 \in Nat /\ 2 <= case.n - 1 + 1
    BY CaseFacts
  <2>3. \A j \in 2 .. case.n - 1 : f[j] = <<<<j, x>>>>
    BY <2>1, CaseFacts, InFacts DEF Ranks
  <2>4. Func(In(0, x), In(1, x)) = FirstOf(2, x)
    <3>1. In(0, x) = FirstOf(1, x)
      <4>1. FirstOf(1, x) = <<<<0, x>>>>
        BY DEF FirstOf
      <4> QED BY <2>1, <4>1, InFacts
    <3>2. In(1, x) = <<<<1, x>>>>
      BY <2>1, InFacts
    <3>3. FirstOf(1, x) \o <<<<1, x>>>> = FirstOf(1 + 1, x)
      BY AppendRank
    <3>4. FirstOf(1 + 1, x) = FirstOf(2, x)
      BY DEF FirstOf
    <3> QED BY <3>1, <3>2, <3>3, <3>4 DEF Func
  <2> HIDE DEF f
  <2>5. FoldRanks(FirstOf(2, x), f, 2, case.n - 1) = FirstOf(case.n - 1 + 1, x)
    BY <2>2, <2>3, FoldFacts
  <2>6. FoldRanks(Func(In(0, x), In(1, x)), f, 2, case.n - 1) = AllOf(x)
    BY <2>4, <2>5, AllOfFacts
  <2> QED BY <2>1, <2>6 DEF f
<1>5. \A r \in Ranks, i \in 0 .. OutSize - 1 : Expected(r, i) = AllOf(r * OutSize + i)
  BY DEF Expected
<1> QED BY <1>2, <1>4, <1>5 DEF reducescatter_dpcpp

LEMMA AllGatherFacts ==
  ASSUME case \in Cases, CountIs, case.kind = "allgather"
  PROVE  \A r \in Ranks :
           allgather_dpcpp[r] = [i \in 0 .. OutSize - 1 |-> Expected(r, i)]
<1>1. element_count = case.count /\ OutSize = case.count * case.n
  BY DEF CountIs, OutSize
<1>2. case.n * element_count = OutSize /\ OutSize \in Nat
  BY <1>1, CaseFacts
<1>3. ASSUME NEW r \in Ranks, NEW i \in 0 .. OutSize - 1
      PROVE  In(i \div element_count, i % element_count) = Expected(r, i)
  <2>1. i \in Nat /\ case.count \in Nat /\ case.count >= 1
    BY <1>2, CaseFacts
  <2>2. i % case.count \in Nat /\ i % case.count < case.count
    BY <2>1
  <2>3. Expected(r, i) = <<<<i \div case.count, i % case.count>>>>
    BY DEF Expected
  <2> QED BY <1>1, <2>2, <2>3, InFacts
<1> QED BY <1>2, <1>3 DEF allgather_dpcpp

LEMMA PermuteFacts ==
  ASSUME case \in Cases, CountIs, case.kind = "permute"
  PROVE  \A r \in Ranks :
           permute_dpcpp[r] = [i \in 0 .. OutSize - 1 |-> Expected(r, i)]
<1>1. element_count = case.count /\ OutSize = case.count
  BY DEF CountIs, OutSize
<1>2. ASSUME NEW r \in Ranks, HasSource(r), NEW i \in 0 .. OutSize - 1
      PROVE  In(SourceOf(r), i) = Expected(r, i)
  <2>1. r \in {pairs[s] : s \in DOMAIN pairs}
    BY <1>2 DEF HasSource
  <2>2. Expected(r, i) = <<<<SourceOf(r), i>>>>
    BY <2>1 DEF Expected, SourceOf
  <2>3. i \in Nat /\ i < case.count
    BY <1>1, CaseFacts
  <2> QED BY <2>2, <2>3, InFacts
<1>3. ASSUME NEW r \in Ranks, ~HasSource(r), NEW i \in 0 .. OutSize - 1
      PROVE  Expected(r, i) = Zero
  <2>1. r \notin {pairs[s] : s \in DOMAIN pairs}
    BY <1>3 DEF HasSource
  <2> QED BY <2>1 DEF Expected
<1> QED BY <1>1, <1>2, <1>3 DEF permute_dpcpp

LEMMA AllToAllFacts ==
  ASSUME case \in Cases, CountIs, case.kind = "alltoall"
  PROVE  \A r, s \in Ranks :
           alltoall_dpcpp[r][s] = [i \in 0 .. OutSize - 1 |-> <<<<s, r, i>>>>]
<1>1. element_count = case.count /\ OutSize = case.count
  BY DEF CountIs, OutSize
<1>2. Items = 0 .. OutSize - 1
  BY <1>1, CaseFacts, ItemsFacts
<1>3. \A i \in 0 .. OutSize - 1 : i < InSize
  BY <1>1, CaseFacts DEF InSize
<1> QED BY <1>2, <1>3 DEF alltoall_dpcpp

-----------------------------------------------------------------------------
(* The run.                                                                *)

LEMMA RunStep ==
  ASSUME RealTypes, KInv, Run
  PROVE  KInv'
<1>1. case' = case /\ state' \in {"launched", "error"}
  BY DEF Run
<1>2. Multiplied = case.count
  <2>1. case.dtype \notin ComplexTypes
    BY CaseFacts DEF RealTypes, KInv
  <2> QED BY <2>1, CaseFacts DEF Multiplied, KInv
<1>3. state' = "launched" => CountIs'
  <2>1. CASE case.kind = "reduce_scatter"
    <3> HAVE state' = "launched"
    <3>1. case.count % case.n = 0 /\ element_count' = case.count \div case.n
      BY <1>2, <2>1 DEF Run
    <3>2. /\ case.count \in Nat /\ case.n \in Nat /\ case.n >= 2
      BY CaseFacts DEF KInv
    <3>3. /\ case.count \div case.n \in Nat /\ case.n * (case.count \div case.n) \in Nat
          /\ case.n * (case.count \div case.n) + (case.count % case.n) = case.count
      <4>1. case.n >= 1
        BY <3>2
      <4> QED BY <3>2, <4>1, DivisionFacts
    <3>4. PICK m \in Nat : m = case.n * (case.count \div case.n) /\ m + 0 = case.count
      BY <3>1, <3>3
    <3>5. case.count = case.n * (case.count \div case.n)
      BY <3>4
    <3> QED BY <1>1, <2>1, <3>1, <3>3, <3>5 DEF CountIs
  <2>2. CASE case.kind # "reduce_scatter"
    BY <1>1, <1>2, <2>2 DEF Run, CountIs
  <2> QED BY <2>1, <2>2
<1>4. ResultsAreExact'
  BY <1>1 DEF ResultsAreExact
<1> QED BY <1>1, <1>3, <1>4 DEF KInv

LEMMA LaunchStep ==
  ASSUME KInv, Launch
  PROVE  KInv'
<1>1. /\ case' = case /\ pairs' = pairs /\ case \in Cases /\ CountIs
      /\ state' \in {"done", "fatal"} /\ (state' = "done" => out' = Kernel)
  BY DEF Launch, KInv
<1>2. Ranks' = Ranks /\ OutSize' = OutSize /\ \A r, i : Expected(r, i)' = Expected(r, i)
  BY <1>1 DEF Ranks, OutSize, Expected, AllOf
<1>3. ASSUME state' = "done", NEW r \in Ranks
      PROVE  IF case.kind = "alltoall"
               THEN \A s \in Ranks : out'[r][s] = [i \in 0 .. OutSize - 1 |-> <<<<s, r, i>>>>]
               ELSE out'[r] = [i \in 0 .. OutSize - 1 |-> Expected(r, i)]
  <2>1. case.kind \in Kinds /\ out' = Kernel
    BY <1>1, <1>3, CaseFacts
  <2>2. CASE case.kind = "allreduce"
    BY <1>1, <2>1, <2>2, AllReduceFacts DEF Kernel
  <2>3. CASE case.kind = "allgather"
    BY <1>1, <2>1, <2>3, AllGatherFacts DEF Kernel
  <2>4. CASE case.kind = "alltoall"
    BY <1>1, <2>1, <2>4, AllToAllFacts DEF Kernel
  <2>5. CASE case.kind = "reduce_scatter"
    BY <1>1, <2>1, <2>5, ReduceScatterFacts DEF Kernel
  <2>6. CASE case.kind = "permute"
    BY <1>1, <2>1, <2>6, PermuteFacts DEF Kernel
  <2> QED BY <2>1, <2>2, <2>3, <2>4, <2>5, <2>6 DEF Kinds, ReductionOps, MoveOps
<1>4. ResultsAreExact'
  BY <1>1, <1>2, <1>3 DEF ResultsAreExact
<1> QED BY <1>1, <1>4 DEF KInv

\* For element types that are not complex, every kernel that is launched
\* computes its collective and stays inside the buffers, for any number of
\* ranks, elements and work items of a group.
THEOREM ResultsAreExactHolds == RealTypes => (Spec => []ResultsAreExact)
<1> SUFFICES ASSUME RealTypes PROVE Spec => []ResultsAreExact
  OBVIOUS
<1>1. Init => KInv
  BY DEF Init, KInv, ResultsAreExact
<1>2. KInv /\ [Next]_vars => KInv'
  <2> SUFFICES ASSUME KInv, [Next]_vars PROVE KInv'
    OBVIOUS
  <2>1. CASE Run
    BY <2>1, RunStep
  <2>2. CASE Launch
    BY <2>2, LaunchStep
  <2>3. CASE UNCHANGED vars
    <3>1. /\ case' = case /\ pairs' = pairs /\ state' = state
          /\ element_count' = element_count /\ out' = out
      BY <2>3 DEF vars
    <3>2. Ranks' = Ranks /\ OutSize' = OutSize /\ \A r, i : Expected(r, i)' = Expected(r, i)
      BY <3>1 DEF Ranks, OutSize, Expected, AllOf
    <3>3. ResultsAreExact' <=> ResultsAreExact
      BY <3>1, <3>2 DEF ResultsAreExact
    <3> QED BY <3>1, <3>3 DEF KInv, CountIs
  <2> QED BY <2>1, <2>2, <2>3 DEF Next, Stop
<1>3. KInv => ResultsAreExact
  BY DEF KInv
<1> QED BY <1>1, <1>2, <1>3, PTL DEF Spec

=============================================================================
