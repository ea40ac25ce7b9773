----------------------------- MODULE FeedsProofs -----------------------------
(***************************************************************************)
(* Proofs about Feeds, for any threads, workloads and pinned buffers: the  *)
(* pool of pinned buffers of ReadDynamicShapes neither loses a buffer nor  *)
(* gives one to two callers.                                               *)
(***************************************************************************)
EXTENDS Feeds, FiniteSetTheorems, SequenceTheorems, WellFoundedInduction, TLAPS

Buffers == Range(PinnedChunk)

-----------------------------------------------------------------------------
(* Checking out: the fold over the leaves of a buffer.                     *)

\* Of the free buffers the last ones have been checked out, in this order.
Splits(state, free) ==
  /\ state = [free |-> state.free, dsts |-> state.dsts, checked_out |-> state.checked_out]
  /\ state.free \in Seq(Buffers) /\ state.checked_out \in Seq(Buffers)
  /\ Len(state.free) + Len(state.checked_out) = Len(free)
  /\ \A i \in 1 .. Len(state.free) : state.free[i] = free[i]
  /\ \A i \in 1 .. Len(state.checked_out) : state.checked_out[i] = free[Len(free) + 1 - i]

LEMMA CheckOutSplits ==
  ASSUME NEW free \in Seq(Buffers), NEW state, Splits(state, free), NEW leaf
  PROVE  Splits(CheckOut(state, leaf), free)
<1>1. CASE ~NeedsCopy(leaf)
  BY <1>1 DEF CheckOut
<1>2. CASE NeedsCopy(leaf) /\ ~(state.free # <<>> /\ ~leaf.big)
  <2>1. PICK d : d = Append(state.dsts, leaf.fallback)
    OBVIOUS
  <2>2. PICK f, o, e : /\ f = state.free /\ o = state.checked_out /\ e = state.dsts
                       /\ state = [free |-> f, dsts |-> e, checked_out |-> o]
    BY DEF Splits
  <2>3. CheckOut(state, leaf) = [state EXCEPT !.dsts = d]
    BY <1>2, <2>1 DEF CheckOut
  <2>4. CheckOut(state, leaf) = [free |-> f, dsts |-> d, checked_out |-> o]
    BY <2>2, <2>3
  <2>5. PICK r : r = CheckOut(state, leaf) /\ r.free = f /\ r.dsts = d /\ r.checked_out = o
                 /\ r = [free |-> r.free, dsts |-> r.dsts, checked_out |-> r.checked_out]
    BY <2>4
  <2>6. Splits(r, free)
    BY <2>2, <2>5 DEF Splits
  <2> QED BY <2>5, <2>6
<1>3. CASE NeedsCopy(leaf) /\ state.free # <<>> /\ ~leaf.big
  <2>1. PICK f, o, d : /\ f = Front(state.free) /\ d = Append(state.dsts, Last(state.free))
                       /\ o = Append(state.checked_out, Last(state.free))
    OBVIOUS
  <2>2. CheckOut(state, leaf) = [free |-> f, dsts |-> d, checked_out |-> o]
    BY <1>3, <2>1 DEF CheckOut
  <2>3. PICK s, c : s = state.free /\ c = state.checked_out
    OBVIOUS
  <2>4. /\ s \in Seq(Buffers) /\ s # <<>> /\ c \in Seq(Buffers)
        /\ Len(s) + Len(c) = Len(free)
        /\ \A i \in 1 .. Len(s) : s[i] = free[i]
        /\ \A i \in 1 .. Len(c) : c[i] = free[Len(free) + 1 - i]
    BY <1>3, <2>3 DEF Splits
  <2>5. Len(s) \in Nat /\ Len(s) > 0 /\ Len(c) \in Nat /\ Len(free) \in Nat
    BY <2>4
  <2>6. f = SubSeq(s, 1, Len(s) - 1) /\ o = Append(c, s[Len(s)])
    BY <2>1, <2>3 DEF Front, Last
  <2>7. /\ f \in Seq(Buffers) /\ Len(f) = Len(s) - 1
        /\ \A i \in 1 .. Len(s) - 1 : f[i] = s[i]
    <3>1. Len(s) - 1 \in Nat /\ 1 .. Len(s) - 1 \subseteq 1 .. Len(s)
      BY <2>5
    <3>2. f = [i \in 1 .. Len(s) - 1 |-> s[i]]
      BY <2>4, <2>6, <3>1
    <3>3. \A i \in 1 .. Len(s) - 1 : s[i] \in Buffers
      BY <2>4, <3>1
    <3> QED BY <3>1, <3>2, <3>3
  <2>8. /\ o \in Seq(Buffers) /\ Len(o) = Len(c) + 1 /\ o[Len(c) + 1] = s[Len(s)]
        /\ \A i \in 1 .. Len(c) : o[i] = c[i]
    BY <2>4, <2>5, <2>6
  <2>9. \A i \in 1 .. Len(o) : o[i] = free[Len(free) + 1 - i]
    <3> TAKE i \in 1 .. Len(o)
    <3>1. CASE i = Len(c) + 1
      <4>1. Len(free) + 1 - i = Len(s) /\ Len(s) \in 1 .. Len(s)
        BY <2>4, <2>5, <3>1
      <4> QED BY <2>4, <2>8, <3>1, <4>1
    <3>2. CASE i # Len(c) + 1
      <4>1. i \in 1 .. Len(c)
        BY <2>5, <2>8, <3>2
      <4> QED BY <2>4, <2>8, <4>1
    <3> QED BY <3>1, <3>2
  <2>10. Len(f) + Len(o) = Len(free)
    <3>1. Len(f) = Len(s) - 1 /\ Len(o) = Len(c) + 1 /\ Len(s) + Len(c) = Len(free)
      BY <2>4, <2>7, <2>8
    <3> QED BY <2>5, <3>1
  <2>11. \A i \in 1 .. Len(f) : f[i] = free[i]
    <3> TAKE i \in 1 .. Len(f)
    <3>1. i \in 1 .. Len(s) - 1 /\ i \in 1 .. Len(s)
      BY <2>5, <2>7
    <3> QED BY <2>4, <2>7, <3>1
  <2>12. PICK r : r = CheckOut(state, leaf) /\ r.free = f /\ r.dsts = d /\ r.checked_out = o
                  /\ r = [free |-> r.free, dsts |-> r.dsts, checked_out |-> r.checked_out]
    BY <2>2
  <2>13. Splits(r, free)
    BY <2>7, <2>8, <2>9, <2>10, <2>11, <2>12 DEF Splits
  <2> QED BY <2>12, <2>13
<1> QED BY <1>1, <1>2, <1>3

LEMMA MaxIs ==
  ASSUME NEW S \in SUBSET Nat, NEW k \in S, \A y \in S : y <= k
  PROVE  Max(S) = k
<1>1. k \in S /\ \A y \in S : k >= y
  OBVIOUS
<1>2. Max(S) \in S /\ \A y \in S : Max(S) >= y
  BY <1>1 DEF Max
<1>3. PICK m : m = Max(S)
  OBVIOUS
<1>4. m \in Nat /\ k \in Nat /\ m >= k /\ k >= m
  BY <1>1, <1>2, <1>3
<1>5. m = k
  BY <1>4
<1> QED BY <1>3, <1>5

\* What holds for no least number holds for none.
LEMMA LeastIn ==
  ASSUME NEW Bad \in SUBSET Nat, Bad # {}
  PROVE  \E j \in Bad : \A i \in Bad : ~(i < j)
<1>1. PICK j \in Bad : \A i \in Bad : ~(<<i, j>> \in OpToRel(<, Nat))
  BY NatLessThanWellFounded, WFMin
<1>2. OpToRel(<, Nat) = {p \in Nat \X Nat : p[1] < p[2]}
  BY DEF OpToRel
<1>3. \A i \in Bad : ~(<<i, j>> \in {p \in Nat \X Nat : p[1] < p[2]})
  BY <1>1, <1>2, Zenon
<1> QED BY <1>3

\* The function FoldLeft chooses: the state after the leaves at the places s.
IsFold(g, n, base, leaves) ==
  g = [s \in SUBSET (1 .. n) |->
         IF s = {} THEN base ELSE CheckOut(g[s \ {Max(s)}], leaves[Max(s)])]

LEMMA FoldExists ==
  ASSUME NEW base, NEW leaves, NEW n \in Nat
  PROVE  \E g : IsFold(g, n, base, leaves)
<1> DEFINE Bad == {k \in Nat : ~\E g : IsFold(g, k, base, leaves)}
<1> SUFFICES ASSUME Bad # {} PROVE FALSE
  OBVIOUS
<1>1. PICK k \in Bad : \A i \in Bad : ~(i < k)
  BY LeastIn
<1>2. CASE k = 0
  <2>1. SUBSET (1 .. 0) = {{}}
    OBVIOUS
  <2>2. IsFold([s \in SUBSET (1 .. 0) |-> base], 0, base, leaves)
    BY <2>1 DEF IsFold
  <2> QED BY <1>2, <2>2
<1>3. CASE k # 0
  <2>1. k - 1 \in Nat /\ k - 1 < k /\ k \in Nat
    BY <1>3
  <2>2. PICK g : IsFold(g, k - 1, base, leaves)
    BY <1>1, <2>1
  <2> DEFINE Without(s) == IF k \in s THEN CheckOut(g[s \ {k}], leaves[k]) ELSE g[s]
             h == [s \in SUBSET (1 .. k) |-> Without(s)]
  <2>3. ASSUME NEW s \in SUBSET (1 .. k)
        PROVE  Without(s) = IF s = {} THEN base ELSE CheckOut(h[s \ {Max(s)}], leaves[Max(s)])
    <3>1. CASE k \in s
      <4>1. Max(s) = k
        <5>1. s \in SUBSET Nat /\ \A y \in s : y <= k
          BY <2>1
        <5> QED BY <3>1, <5>1, MaxIs
      <4>2. s \ {k} \in SUBSET (1 .. k) /\ k \notin s \ {k}
        OBVIOUS
      <4>3. h[s \ {k}] = g[s \ {k}]
        BY <4>2
      <4> HIDE DEF h
      <4> QED BY <3>1, <4>1, <4>3
    <3>2. CASE k \notin s
      <4>1. s \in SUBSET (1 .. k - 1)
        BY <2>1, <3>2
      <4>2. s \ {Max(s)} \in SUBSET (1 .. k) /\ k \notin s \ {Max(s)}
        BY <3>2
      <4>3. h[s \ {Max(s)}] = g[s \ {Max(s)}]
        BY <4>2
      <4> HIDE DEF h
      <4>4. g[s] = IF s = {} THEN base ELSE CheckOut(g[s \ {Max(s)}], leaves[Max(s)])
        BY <2>2, <4>1 DEF IsFold
      <4> QED BY <3>2, <4>3, <4>4
    <3> QED BY <3>1, <3>2
  <2> HIDE DEF Without
  <2>4. h = [s \in SUBSET (1 .. k) |->
               IF s = {} THEN base ELSE CheckOut(h[s \ {Max(s)}], leaves[Max(s)])]
    BY <2>3
  <2>5. IsFold(h, k, base, leaves)
    BY <2>4 DEF IsFold
  <2> QED BY <2>5
<1> QED BY <1>2, <1>3

LEMMA FoldSplits ==
  ASSUME NEW free \in Seq(Buffers), NEW leaves, leaves \in Seq(Range(leaves)),
         NEW base, base = [free |-> free, dsts |-> <<>>, checked_out |-> <<>>]
  PROVE  Splits(FoldLeft(CheckOut, base, leaves), free)
<1> DEFINE n == Len(leaves)
           g == CHOOSE g : IsFold(g, n, base, leaves)
<1>1. n \in Nat /\ DOMAIN leaves = 1 .. n
  OBVIOUS
<1>2. IsFold(g, n, base, leaves)
  BY <1>1, FoldExists
<1>3. FoldLeft(CheckOut, base, leaves) = g[1 .. n]
  BY <1>1 DEF FoldLeft, MapThenFoldSet, IsFold
<1> HIDE DEF g, n
<1>4. \A k \in 0 .. n : Splits(g[1 .. k], free)
  <2> DEFINE Bad == {k \in 0 .. n : ~Splits(g[1 .. k], free)}
  <2> SUFFICES ASSUME Bad # {} PROVE FALSE
    OBVIOUS
  <2>1. PICK k \in Bad : \A i \in Bad : ~(i < k)
    <3>1. Bad \in SUBSET Nat
      BY <1>1
    <3> QED BY <3>1, LeastIn
  <2>2. CASE k = 0
    <3>1. g[{}] = base /\ 1 .. 0 = {}
      BY <1>2 DEF IsFold
    <3>2. Splits(base, free)
      BY DEF Splits
    <3> QED BY <2>2, <3>1, <3>2
  <2>3. CASE k # 0
    <3>1. k \in 1 .. n /\ k \in Nat /\ k - 1 \in 0 .. n /\ k - 1 < k
      BY <1>1, <2>3
    <3>2. Max(1 .. k) = k /\ (1 .. k) \ {k} = 1 .. k - 1 /\ 1 .. k # {}
      <4>1. 1 .. k \in SUBSET Nat /\ k \in 1 .. k /\ \A y \in 1 .. k : y <= k
        BY <3>1
      <4>2. Max(1 .. k) = k
        BY <4>1, MaxIs
      <4>3. (1 .. k) \ {k} = 1 .. k - 1
        BY <3>1
      <4> QED BY <4>1, <4>2, <4>3
    <3>3. 1 .. k \in SUBSET (1 .. n)
      BY <1>1, <3>1
    <3>4. g[1 .. k] = CheckOut(g[1 .. k - 1], leaves[k])
      BY <1>2, <3>2, <3>3 DEF IsFold
    <3>5. Splits(g[1 .. k - 1], free)
      BY <2>1, <3>1
    <3> QED BY <3>4, <3>5, CheckOutSplits
  <2> QED BY <2>2, <2>3
<1> QED BY <1>1, <1>3, <1>4

-----------------------------------------------------------------------------
(* Pool and callers.                                                       *)

\* The buffers of the pool p and those the threads hold are all buffers, each
\* of them once.
Kept(p, h) ==
  /\ p \in Seq(Buffers) /\ h \in [Threads -> Seq(Buffers)]
  /\ \A i, j \in 1 .. Len(p) : p[i] = p[j] => i = j
  /\ \A t, u \in Threads : \A i \in 1 .. Len(h[t]), j \in 1 .. Len(h[u]) :
       h[t][i] = h[u][j] => t = u /\ i = j
  /\ \A t \in Threads : \A i \in 1 .. Len(p), j \in 1 .. Len(h[t]) : p[i] # h[t][j]
  /\ \A b \in Buffers : \/ \E i \in 1 .. Len(p) : p[i] = b
                        \/ \E t \in Threads : \E j \in 1 .. Len(h[t]) : h[t][j] = b

\* Checking buffers out.
LEMMA TakeKeeps ==
  ASSUME NEW p, NEW h, Kept(p, h), NEW t \in Threads, h[t] = <<>>, NEW out, Splits(out, p)
  PROVE  Kept(out.free, [h EXCEPT ![t] = out.checked_out])
<1>1. PICK f, c, g : f = out.free /\ c = out.checked_out /\ g = [h EXCEPT ![t] = c]
  OBVIOUS
<1>2. /\ p \in Seq(Buffers) /\ f \in Seq(Buffers) /\ c \in Seq(Buffers) /\ Len(f) + Len(c) = Len(p)
      /\ \A i \in 1 .. Len(f) : f[i] = p[i]
      /\ \A i \in 1 .. Len(c) : c[i] = p[Len(p) + 1 - i]
  BY <1>1 DEF Kept, Splits
<1>3. Len(p) \in Nat /\ Len(f) \in Nat /\ Len(c) \in Nat
  BY <1>2
<1>4. g \in [Threads -> Seq(Buffers)] /\ g[t] = c /\ \A u \in Threads : u # t => g[u] = h[u]
  BY <1>1, <1>2 DEF Kept
<1>5. \A i \in 1 .. Len(f) : i \in 1 .. Len(p)
  BY <1>2, <1>3
<1>6. \A i \in 1 .. Len(c) : /\ Len(p) + 1 - i \in 1 .. Len(p)
                             /\ \A j \in 1 .. Len(f) : Len(p) + 1 - i # j
                             /\ \A j \in 1 .. Len(c) : Len(p) + 1 - i = Len(p) + 1 - j => i = j
  BY <1>2, <1>3
<1>7. \A i, j \in 1 .. Len(f) : f[i] = f[j] => i = j
  BY <1>2, <1>5 DEF Kept
<1>8. ASSUME NEW u \in Threads, NEW v \in Threads, NEW i \in 1 .. Len(g[u]), NEW j \in 1 .. Len(g[v]),
             g[u][i] = g[v][j]
      PROVE  u = v /\ i = j
  <2>1. CASE u = t /\ v = t
    <3>1. i \in 1 .. Len(c) /\ j \in 1 .. Len(c) /\ c[i] = c[j]
      BY <1>4, <1>8, <2>1
    <3>2. PICK k, l : k = Len(p) + 1 - i /\ l = Len(p) + 1 - j
      OBVIOUS
    <3>3. k \in 1 .. Len(p) /\ l \in 1 .. Len(p) /\ p[k] = p[l]
      BY <1>2, <1>6, <3>1, <3>2
    <3>4. k = l
      BY <3>3 DEF Kept
    <3> QED BY <1>6, <2>1, <3>1, <3>2, <3>4
  <2>2. CASE u = t /\ v # t
    <3>1. i \in 1 .. Len(c) /\ j \in 1 .. Len(h[v]) /\ c[i] = h[v][j]
      BY <1>4, <1>8, <2>2
    <3>2. PICK k : k = Len(p) + 1 - i
      OBVIOUS
    <3>3. k \in 1 .. Len(p) /\ p[k] = h[v][j]
      BY <1>2, <1>6, <3>1, <3>2
    <3> QED BY <3>1, <3>3 DEF Kept
  <2>3. CASE u # t /\ v = t
    <3>1. j \in 1 .. Len(c) /\ i \in 1 .. Len(h[u]) /\ c[j] = h[u][i]
      BY <1>4, <1>8, <2>3
    <3>2. PICK k : k = Len(p) + 1 - j
      OBVIOUS
    <3>3. k \in 1 .. Len(p) /\ p[k] = h[u][i]
      BY <1>2, <1>6, <3>1, <3>2
    <3> QED BY <3>1, <3>3 DEF Kept
  <2>4. CASE u # t /\ v # t
    BY <1>4, <1>8, <2>4 DEF Kept
  <2> QED BY <2>1, <2>2, <2>3, <2>4
<1>9. ASSUME NEW u \in Threads, NEW i \in 1 .. Len(f), NEW j \in 1 .. Len(g[u]) PROVE f[i] # g[u][j]
  <2>1. CASE u = t
    <3>1. j \in 1 .. Len(c) /\ g[u][j] = p[Len(p) + 1 - j] /\ f[i] = p[i]
      BY <1>2, <1>4, <2>1
    <3> QED BY <1>5, <1>6, <3>1 DEF Kept
  <2>2. CASE u # t
    BY <1>2, <1>4, <1>5, <2>2 DEF Kept
  <2> QED BY <2>1, <2>2
<1>10. ASSUME NEW b \in Buffers
       PROVE  \/ \E i \in 1 .. Len(f) : f[i] = b
              \/ \E u \in Threads : \E j \in 1 .. Len(g[u]) : g[u][j] = b
  <2>1. CASE \E i \in 1 .. Len(p) : p[i] = b
    <3>1. PICK i \in 1 .. Len(p) : p[i] = b
      BY <2>1
    <3>2. CASE i <= Len(f)
      <4>1. i \in 1 .. Len(f)
        BY <1>3, <3>2
      <4> QED BY <1>2, <3>1, <4>1
    <3>3. CASE ~(i <= Len(f))
      <4>1. PICK j : j = Len(p) + 1 - i
        OBVIOUS
      <4>2. j \in 1 .. Len(c) /\ Len(p) + 1 - j = i
        BY <1>2, <1>3, <3>3, <4>1
      <4>3. c[j] = b
        BY <1>2, <3>1, <4>2
      <4> QED BY <1>4, <4>2, <4>3
    <3> QED BY <3>2, <3>3
  <2>2. CASE \E u \in Threads : \E j \in 1 .. Len(h[u]) : h[u][j] = b
    <3>1. PICK u \in Threads : \E j \in 1 .. Len(h[u]) : h[u][j] = b
      BY <2>2
    <3>2. u # t
      <4>1. 1 .. Len(h[t]) = {}
        OBVIOUS
      <4> QED BY <3>1, <4>1
    <3> QED BY <1>4, <3>1, <3>2
  <2> QED BY <2>1, <2>2 DEF Kept
<1>11. Kept(f, g)
  BY <1>2, <1>4, <1>7, <1>8, <1>9, <1>10 DEF Kept
<1> QED BY <1>1, <1>11

\* Giving them back.
LEMMA GiveKeeps ==
  ASSUME NEW p, NEW h, Kept(p, h), NEW t \in Threads
  PROVE  Kept(p \o h[t], [h EXCEPT ![t] = <<>>])
<1>1. PICK c, q, g : c = h[t] /\ q = p \o c /\ g = [h EXCEPT ![t] = <<>>]
  OBVIOUS
<1>2. p \in Seq(Buffers) /\ c \in Seq(Buffers)
  BY <1>1 DEF Kept
<1>3. /\ q \in Seq(Buffers) /\ Len(q) = Len(p) + Len(c)
      /\ \A i \in 1 .. Len(p) + Len(c) : q[i] = IF i <= Len(p) THEN p[i] ELSE c[i - Len(p)]
  BY <1>1, <1>2, ConcatProperties, Zenon
<1>4. Len(p) \in Nat /\ Len(c) \in Nat
  BY <1>2
<1>5. \A i \in 1 .. Len(q) : \/ i \in 1 .. Len(p) /\ q[i] = p[i]
                             \/ i - Len(p) \in 1 .. Len(c) /\ q[i] = c[i - Len(p)]
  BY <1>3, <1>4
<1>6. /\ \A i \in 1 .. Len(p) : i \in 1 .. Len(q) /\ q[i] = p[i]
      /\ \A i \in 1 .. Len(c) : i + Len(p) \in 1 .. Len(q) /\ q[i + Len(p)] = c[i]
  <2>1. \A i \in 1 .. Len(p) : i \in 1 .. Len(q) /\ q[i] = p[i]
    BY <1>3, <1>4
  <2>2. ASSUME NEW i \in 1 .. Len(c) PROVE i + Len(p) \in 1 .. Len(q) /\ q[i + Len(p)] = c[i]
    <3>1. PICK k : k = i + Len(p)
      OBVIOUS
    <3>2. k \in 1 .. Len(p) + Len(c) /\ ~(k <= Len(p)) /\ k - Len(p) = i
      BY <1>4, <3>1
    <3> QED BY <1>3, <3>1, <3>2
  <2> QED BY <2>1, <2>2
<1>7. /\ g \in [Threads -> Seq(Buffers)] /\ \A u \in Threads : u # t => g[u] = h[u]
      /\ \A u \in Threads : \A i \in 1 .. Len(g[u]) : u # t
  <2>1. g \in [Threads -> Seq(Buffers)] /\ g[t] = <<>> /\ \A u \in Threads : u # t => g[u] = h[u]
    BY <1>1 DEF Kept
  <2>2. 1 .. Len(g[t]) = {}
    BY <2>1
  <2> QED BY <2>1, <2>2
<1>8. ASSUME NEW i \in 1 .. Len(q), NEW j \in 1 .. Len(q), q[i] = q[j] PROVE i = j
  <2>1. CASE i \in 1 .. Len(p) /\ q[i] = p[i]
    <3>1. CASE j \in 1 .. Len(p) /\ q[j] = p[j]
      BY <1>8, <2>1, <3>1 DEF Kept
    <3>2. CASE j - Len(p) \in 1 .. Len(c) /\ q[j] = c[j - Len(p)]
      <4>1. PICK k : k = j - Len(p)
        OBVIOUS
      <4>2. k \in 1 .. Len(h[t]) /\ p[i] = h[t][k]
        BY <1>1, <1>8, <2>1, <3>2, <4>1
      <4> QED BY <2>1, <4>2 DEF Kept
    <3> QED BY <1>5, <3>1, <3>2
  <2>2. CASE i - Len(p) \in 1 .. Len(c) /\ q[i] = c[i - Len(p)]
    <3>1. CASE j \in 1 .. Len(p) /\ q[j] = p[j]
      <4>1. PICK k : k = i - Len(p)
        OBVIOUS
      <4>2. k \in 1 .. Len(h[t]) /\ p[j] = h[t][k]
        BY <1>1, <1>8, <2>2, <3>1, <4>1
      <4> QED BY <3>1, <4>2 DEF Kept
    <3>2. CASE j - Len(p) \in 1 .. Len(c) /\ q[j] = c[j - Len(p)]
      <4>1. PICK k, l : k = i - Len(p) /\ l = j - Len(p)
        OBVIOUS
      <4>2. k \in 1 .. Len(h[t]) /\ l \in 1 .. Len(h[t]) /\ h[t][k] = h[t][l]
        BY <1>1, <1>8, <2>2, <3>2, <4>1
      <4>3. k = l
        BY <4>2 DEF Kept
      <4> QED BY <1>3, <1>4, <4>1, <4>3
    <3> QED BY <1>5, <3>1, <3>2
  <2> QED BY <1>5, <2>1, <2>2
<1>9. ASSUME NEW u \in Threads, NEW v \in Threads, NEW i \in 1 .. Len(g[u]), NEW j \in 1 .. Len(g[v]),
             g[u][i] = g[v][j]
      PROVE  u = v /\ i = j
  <2>1. u # t /\ v # t
    BY <1>7
  <2> QED BY <1>7, <1>9, <2>1 DEF Kept
<1>10. ASSUME NEW u \in Threads, NEW i \in 1 .. Len(q), NEW j \in 1 .. Len(g[u]) PROVE q[i] # g[u][j]
  <2>1. u # t /\ g[u] = h[u] /\ j \in 1 .. Len(h[u])
    BY <1>7
  <2>2. CASE i \in 1 .. Len(p) /\ q[i] = p[i]
    BY <2>1, <2>2 DEF Kept
  <2>3. CASE i - Len(p) \in 1 .. Len(c) /\ q[i] = c[i - Len(p)]
    <3>1. PICK k : k = i - Len(p)
      OBVIOUS
    <3>2. k \in 1 .. Len(h[t]) /\ q[i] = h[t][k]
      BY <1>1, <2>3, <3>1
    <3> QED BY <2>1, <3>2 DEF Kept
  <2> QED BY <1>5, <2>2, <2>3
<1>11. ASSUME NEW b \in Buffers
       PROVE  \/ \E i \in 1 .. Len(q) : q[i] = b
              \/ \E u \in Threads : \E j \in 1 .. Len(g[u]) : g[u][j] = b
  <2>1. CASE \E i \in 1 .. Len(p) : p[i] = b
    BY <1>6, <2>1
  <2>2. CASE \E u \in Threads : \E j \in 1 .. Len(h[u]) : h[u][j] = b
    <3>1. PICK u \in Threads : \E j \in 1 .. Len(h[u]) : h[u][j] = b
      BY <2>2
    <3>2. CASE u = t
      BY <1>1, <1>6, <3>1, <3>2
    <3>3. CASE u # t
      BY <1>7, <3>1, <3>3
    <3> QED BY <3>2, <3>3
  <2> QED BY <2>1, <2>2 DEF Kept
<1>12. Kept(q, g)
  BY <1>3, <1>7, <1>8, <1>9, <1>10, <1>11 DEF Kept
<1> QED BY <1>1, <1>12

-----------------------------------------------------------------------------
(* The frames of the threads.                                              *)

ReadDos  == {"read", "read_write", "read_end"}
OtherDos == {"idle", "sync", "infeed", "infeed_end", "outfeed", "outfeed_done", "outfeed_end", "fetch"}

Inner(a)  == IF a.do = "wait" THEN a.then ELSE a
HeldIn(f) == IF f.do \in ReadDos THEN f.checked_out ELSE <<>>

\* A frame that is not a wait, with what a step takes over from it.
FrameOK(f) ==
  /\ f.do \in ReadDos \cup OtherDos
  /\ f.do \in ReadDos =>
       f = [do |-> f.do, dsts |-> f.dsts, checked_out |-> f.checked_out, i |-> f.i]
  /\ f.do = "outfeed" => f = OutfeedLeaf(f.tree, f.i)

HeldBy == [t \in Threads |-> HeldIn(Inner(at[t]))]

\* Nobody reads before the pinned buffers are allocated.
PoolInv ==
  IF pinned = None THEN \A t \in Threads : Inner(at[t]).do \notin ReadDos
  ELSE Kept(pinned, HeldBy)

FramesInv == at = [t \in Threads |-> at[t]] /\ \A t \in Threads : FrameOK(Inner(at[t]))

IInv ==
  /\ work \in Workloads /\ pc \in [Threads -> Nat \ {0}]
  /\ FramesInv /\ PoolInv

\* Thread t goes on with the frame `then`, perhaps after a wait.
Lands(t, then) ==
  \/ at' = [at EXCEPT ![t] = then]
  \/ \E m : at' = [at EXCEPT ![t] = Waiting(m, then)]

LEMMA LandsFacts ==
  ASSUME FramesInv, NEW t \in Threads, NEW then, FrameOK(then), Lands(t, then)
  PROVE  /\ FramesInv' /\ HeldBy' = [HeldBy EXCEPT ![t] = HeldIn(then)]
         /\ \A u \in Threads : Inner(at'[u]) = IF u = t THEN then ELSE Inner(at[u])
<1>1. PICK a : at' = [at EXCEPT ![t] = a] /\ Inner(a) = then
  <2>1. CASE at' = [at EXCEPT ![t] = then]
    <3>1. Inner(then) = then
      BY DEF FrameOK, Inner, ReadDos, OtherDos
    <3> QED BY <2>1, <3>1
  <2>2. CASE \E m : at' = [at EXCEPT ![t] = Waiting(m, then)]
    <3>1. PICK m : at' = [at EXCEPT ![t] = Waiting(m, then)]
      BY <2>2
    <3>2. Inner(Waiting(m, then)) = then
      BY DEF Inner, Waiting
    <3> QED BY <3>1, <3>2
  <2> QED BY <2>1, <2>2 DEF Lands
<1>2. at' = [u \in Threads |-> IF u = t THEN a ELSE at[u]]
  BY <1>1 DEF FramesInv
<1>3. \A u \in Threads : at'[u] = IF u = t THEN a ELSE at[u]
  BY <1>2
<1>4. FramesInv'
  <2>1. at' = [u \in Threads |-> at'[u]]
    BY <1>2
  <2>2. ASSUME NEW u \in Threads PROVE FrameOK(Inner(at'[u]))
    BY <1>1, <1>3 DEF FramesInv
  <2> QED BY <2>1, <2>2 DEF FramesInv, FrameOK, Inner
<1>5. \A u \in Threads : Inner(at'[u]) = IF u = t THEN then ELSE Inner(at[u])
  BY <1>1, <1>3
<1>6. HeldBy' = [HeldBy EXCEPT ![t] = HeldIn(then)]
  <2>1. HeldBy' = [u \in Threads |-> HeldIn(Inner(at'[u]))]
    BY DEF HeldBy, HeldIn, Inner
  <2>2. [HeldBy EXCEPT ![t] = HeldIn(then)]
          = [u \in Threads |-> IF u = t THEN HeldIn(then) ELSE HeldIn(Inner(at[u]))]
    BY DEF HeldBy
  <2> QED BY <1>5, <2>1, <2>2
<1> QED BY <1>4, <1>5, <1>6

\* A step that leaves the pool and what its thread holds alone.
LEMMA LandsStep ==
  ASSUME FramesInv, PoolInv, NEW t \in Threads, NEW then, FrameOK(then), Lands(t, then),
         then.do \in ReadDos => Inner(at[t]).do \in ReadDos,
         HeldIn(then) = HeldIn(Inner(at[t])), pinned' = pinned
  PROVE  FramesInv' /\ PoolInv'
<1>1. FramesInv' /\ HeldBy' = [HeldBy EXCEPT ![t] = HeldIn(then)]
  BY LandsFacts
<1>2. \A u \in Threads : Inner(at'[u]) = IF u = t THEN then ELSE Inner(at[u])
  BY LandsFacts
<1>3. HeldBy' = HeldBy
  BY <1>1 DEF HeldBy
<1>4. PoolInv'
  <2>1. CASE pinned = None
    <3>1. \A u \in Threads : Inner(at'[u]).do \notin ReadDos
      BY <1>2, <2>1 DEF PoolInv
    <3> QED BY <2>1, <3>1 DEF PoolInv, Inner
  <2>2. CASE pinned # None
    <3>1. Kept(pinned, HeldBy) /\ pinned' # None
      BY <2>2 DEF PoolInv
    <3>2. Kept(pinned', HeldBy')
      BY <1>3, <3>1
    <3> QED BY <3>1, <3>2 DEF PoolInv
  <2> QED BY <2>1, <2>2
<1> QED BY <1>1, <1>4

\* A step of a thread that reads no shapes.
LEMMA PlainStep ==
  ASSUME FramesInv, PoolInv, NEW t \in Threads, NEW then, FrameOK(then), Lands(t, then),
         then.do \notin ReadDos, Inner(at[t]).do \notin ReadDos, pinned' = pinned
  PROVE  FramesInv' /\ PoolInv'
<1>1. HeldIn(then) = <<>> /\ HeldIn(Inner(at[t])) = <<>>
  BY DEF HeldIn
<1> QED BY <1>1, LandsStep

LEMMA IdleOK ==
  FrameOK(Idle) /\ HeldIn(Idle) = <<>> /\ Inner(Idle) = Idle /\ Idle.do \notin ReadDos
<1> QED BY DEF FrameOK, HeldIn, Inner, Idle, ReadDos, OtherDos

LEMMA ContinueLands ==
  ASSUME NEW t, NEW then, Continue(t, then)
  PROVE  Lands(t, then)
<1> QED BY DEF Continue, Return, Goto, Lands

LEMMA SubmitsLands ==
  ASSUME NEW t, NEW q, NEW command, NEW async, NEW size, NEW then,
         Submits(t, q, command, async, size, then)
  PROVE  Lands(t, then)
<1>1. \/ Continue(t, then)
      \/ \E m : Goto(t, Waiting(m, then))
  BY DEF Submits
<1> QED BY <1>1, ContinueLands DEF Goto, Lands

LEMMA ReturnLands ==
  ASSUME NEW t, Return(t)
  PROVE  Lands(t, Idle)
<1> QED BY DEF Return, Lands

\* A call of the executor begins without a pinned buffer and goes on without.
LEMMA ExecutorStep ==
  ASSUME FramesInv, PoolInv, NEW t \in Threads, ExecutorCall(t), UNCHANGED feedVars
  PROVE  FramesInv' /\ PoolInv'
<1>1. pinned' = pinned
  BY DEF feedVars
<1>2. FrameOK(Inner(at[t]))
  BY DEF FramesInv
<1>3. CASE WaitReturns(t)
  <2>1. Lands(t, at[t].then) /\ at[t].do = "wait"
    BY <1>3, ContinueLands DEF WaitReturns, In
  <2>2. Inner(at[t]) = at[t].then
    BY <2>1 DEF Inner
  <2> QED BY <1>1, <1>2, <2>1, <2>2, LandsStep
<1>4. CASE SynchronizeContext(t)
  <2>1. at[t].do \in {"idle", "sync"}
    BY <1>4 DEF SynchronizeContext, Calls, In, Idle
  <2>2. Inner(at[t]).do \notin ReadDos
    BY <2>1 DEF Inner, ReadDos
  <2>3. PICK d, i : Continue(t, SyncNext(d, i)) \/ Goto(t, SyncNext(d, i))
    BY <1>4 DEF SynchronizeContext
  <2>4. Lands(t, SyncNext(d, i))
    BY <2>3, ContinueLands DEF Goto, Lands
  <2>5. PICK then : Lands(t, then) /\ FrameOK(then) /\ then.do \notin ReadDos
    <3>1. CASE SyncNext(d, i) = Idle
      BY <2>4, <3>1, IdleOK
    <3>2. CASE SyncNext(d, i) # Idle
      <4>1. PICK m, then : SyncNext(d, i) = Waiting(m, then) /\ then = [do |-> "sync", dev |-> d, i |-> i + 1]
        BY <3>2 DEF SyncNext
      <4>2. FrameOK(then) /\ then.do \notin ReadDos
        BY <4>1 DEF FrameOK, ReadDos, OtherDos
      <4>3. Goto(t, Waiting(m, then))
        BY <2>3, <3>2, <4>1 DEF Continue
      <4> QED BY <4>2, <4>3 DEF Goto, Lands
    <3> QED BY <3>1, <3>2
  <2> QED BY <1>1, <2>2, <2>5, PlainStep
<1>5. CASE /\ ~WaitReturns(t) /\ ~SynchronizeContext(t)
  <2>1. at[t] = Idle
    BY <1>5 DEF ExecutorCall, AllocateStream, DeallocateStream, Launch, MemcpyHostToDevice,
       MemcpyDeviceToHost, MemcpyDeviceToDevice, MemZero, SynchronousMemcpy, SynchronousMemSet,
       RecordEvent, WaitForEvent, CreateStreamDependency, PollForStatus, BlockHostUntilDone,
       Allocate, Deallocate, HostStep, Calls
  <2>2. Lands(t, Idle)
    <3>1. CASE Launch(t) \/ MemcpyHostToDevice(t) \/ MemcpyDeviceToHost(t) \/ MemcpyDeviceToDevice(t)
      BY <3>1, SubmitsLands DEF Launch, MemcpyHostToDevice, MemcpyDeviceToHost, MemcpyDeviceToDevice
    <3>2. CASE MemZero(t) \/ SynchronousMemcpy(t) \/ SynchronousMemSet(t)
      BY <3>2, SubmitsLands DEF MemZero, SynchronousMemcpy, SynchronousMemSet
    <3>3. CASE WaitForEvent(t) \/ CreateStreamDependency(t) \/ BlockHostUntilDone(t)
      <4>1. Return(t) \/ \E m : Goto(t, Waiting(m, Idle))
        BY <3>3 DEF WaitForEvent, CreateStreamDependency, BlockHostUntilDone, WaitStreamOnEvent
      <4> QED BY <4>1, ReturnLands DEF Goto, Lands
    <3>4. CASE \/ AllocateStream(t) \/ DeallocateStream(t) \/ RecordEvent(t) \/ PollForStatus(t)
               \/ Allocate(t) \/ Deallocate(t) \/ HostStep(t)
      BY <3>4, ReturnLands DEF AllocateStream, DeallocateStream, RecordEvent, PollForStatus,
         Allocate, Deallocate, HostStep
    <3> QED BY <1>5, <3>1, <3>2, <3>3, <3>4 DEF ExecutorCall
  <2> QED BY <1>1, <2>1, <2>2, IdleOK, PlainStep
<1> QED BY <1>3, <1>4, <1>5

\* The feeds do not touch the pool either.
LEMMA FeedStep ==
  ASSUME FramesInv, PoolInv, NEW t \in Threads, pinned' = pinned,
         \/ TransferLiteralToInfeed(t) \/ TransferLiteralFromOutfeed(t)
         \/ InfeedBegins(t) \/ InfeedCopies(t) \/ InfeedBlocks(t) \/ InfeedEnds(t)
         \/ OutfeedBegins(t) \/ OutfeedCopies(t) \/ OutfeedDone(t) \/ OutfeedEnds(t)
  PROVE  FramesInv' /\ PoolInv'
<1>1. at[t].do \in OtherDos
  <2>1. \/ at[t] = Idle \/ In(t, "fetch") \/ In(t, "infeed") \/ In(t, "infeed_end")
        \/ In(t, "outfeed") \/ In(t, "outfeed_done") \/ In(t, "outfeed_end")
    BY DEF TransferLiteralToInfeed, TransferLiteralFromOutfeed, InfeedBegins, InfeedCopies,
       InfeedBlocks, InfeedEnds, OutfeedBegins, OutfeedCopies, OutfeedDone, OutfeedEnds, Calls
  <2> QED BY <2>1 DEF In, Idle, OtherDos
<1>2. Inner(at[t]).do \notin ReadDos /\ Inner(at[t]) = at[t] /\ FrameOK(at[t])
  BY <1>1 DEF Inner, ReadDos, OtherDos, FramesInv
<1>3. SUFFICES \E then : Lands(t, then) /\ FrameOK(then) /\ then.do \notin ReadDos
  BY <1>2, PlainStep
<1>4. \A source, i : /\ FrameOK(InfeedLeaf(source, i)) /\ InfeedLeaf(source, i).do \notin ReadDos
                     /\ FrameOK(InfeedReturns(t, source)) /\ InfeedReturns(t, source).do \notin ReadDos
                     /\ FrameOK(OutfeedLeaf(source, i)) /\ OutfeedLeaf(source, i).do \notin ReadDos
  BY DEF FrameOK, InfeedLeaf, InfeedReturns, OutfeedLeaf, ReadDos, OtherDos
<1>5. /\ FrameOK([do |-> "fetch"]) /\ [do |-> "fetch"].do \notin ReadDos
      /\ FrameOK([do |-> "outfeed_end"]) /\ [do |-> "outfeed_end"].do \notin ReadDos
  BY DEF FrameOK, ReadDos, OtherDos
<1>6. CASE TransferLiteralToInfeed(t)
  BY <1>6, ReturnLands, IdleOK DEF TransferLiteralToInfeed
<1>7. CASE TransferLiteralFromOutfeed(t)
  <2>1. Return(t) \/ Goto(t, [do |-> "fetch"])
    BY <1>7 DEF TransferLiteralFromOutfeed
  <2> QED BY <2>1, <1>5, ReturnLands, IdleOK DEF Goto, Lands
<1>8. CASE InfeedBegins(t)
  BY <1>4, <1>8 DEF InfeedBegins, Goto, Lands
<1>9. CASE InfeedCopies(t)
  BY <1>4, <1>9, SubmitsLands DEF InfeedCopies
<1>10. CASE InfeedBlocks(t)
  BY <1>4, <1>10 DEF InfeedBlocks, Goto, Lands
<1>11. CASE InfeedEnds(t) \/ OutfeedEnds(t)
  <2>1. \/ Lands(t, Idle) \/ Return(t) \/ \E m : Goto(t, Waiting(m, Idle))
    BY <1>11 DEF InfeedEnds, OutfeedEnds, Lands
  <2> QED BY <2>1, ReturnLands, IdleOK DEF Goto, Lands
<1>12. CASE OutfeedBegins(t)
  <2>1. Return(t) \/ \E k : Goto(t, OutfeedLeaf(k, 1))
    BY <1>12 DEF OutfeedBegins
  <2> QED BY <1>4, <2>1, ReturnLands, IdleOK DEF Goto, Lands
<1>13. CASE OutfeedCopies(t)
  <2>1. PICK then : then = [at[t] EXCEPT !.do = "outfeed_done"] /\ Lands(t, then)
    BY <1>13, SubmitsLands DEF OutfeedCopies
  <2>2. at[t] = OutfeedLeaf(at[t].tree, at[t].i)
    BY <1>2, <1>13 DEF OutfeedCopies, In, FrameOK
  <2>3. then.do = "outfeed_done"
    BY <2>1, <2>2 DEF OutfeedLeaf
  <2>4. FrameOK(then) /\ then.do \notin ReadDos
    BY <2>3 DEF FrameOK, ReadDos, OtherDos
  <2> QED BY <2>1, <2>4
<1>14. CASE OutfeedDone(t)
  <2>1. \/ Goto(t, [do |-> "outfeed_end"]) \/ \E k, i : Goto(t, OutfeedLeaf(k, i))
    BY <1>14 DEF OutfeedDone, AfterDone
  <2> QED BY <1>4, <1>5, <2>1 DEF Goto, Lands
<1> QED BY <1>6, <1>7, <1>8, <1>9, <1>10, <1>11, <1>12, <1>13, <1>14

-----------------------------------------------------------------------------
(* ReadDynamicShapes.                                                      *)

LEMMA PinnedFacts ==
  PinnedChunk \in Seq(Buffers) /\ None \notin Seq(Buffers)
<1>1. PinnedChunk \in Seq(Usm) /\ DOMAIN PinnedChunk = 1 .. Len(PinnedChunk) /\ Len(PinnedChunk) \in Nat
  BY FeedsAssumption
<1>2. \A i \in 1 .. Len(PinnedChunk) : PinnedChunk[i] \in Buffers
  BY <1>1 DEF Buffers, Range
<1>3. PinnedChunk \in Seq(Buffers)
  BY <1>1, <1>2
<1>4. Buffers \subseteq Usm
  BY <1>1 DEF Buffers, Range
<1>5. Seq(Buffers) \subseteq Seq(Usm)
  BY <1>4
<1> QED BY <1>3, <1>5, FeedsAssumption

LEMMA ReadBeginsStep ==
  ASSUME IInv, NEW t \in Threads, ReadBegins(t)
  PROVE  FramesInv' /\ PoolInv'
<1>1. at[t] = Idle /\ HeldIn(Inner(at[t])) = <<>> /\ Inner(at[t]).do \notin ReadDos
  BY IdleOK DEF ReadBegins, Calls
<1>2. CASE Return(t) /\ UNCHANGED pinned
  BY <1>1, <1>2, ReturnLands, IdleOK, PlainStep DEF IInv
<1>3. CASE ~(Return(t) /\ UNCHANGED pinned)
  <2>1. PICK leaves, p, out : /\ leaves = Call(t).leaves /\ p = EnsurePinnedBuffersAllocated
                              /\ out = AllCheckedOut(leaves)
    OBVIOUS
  <2>2. pinned' = out.free /\ Goto(t, [do |-> "read", dsts |-> out.dsts, checked_out |-> out.checked_out, i |-> 1])
    BY <1>3, <2>1 DEF ReadBegins
  <2>3. leaves \in Seq(Range(leaves))
    <3>1. pc[t] \in Nat \ {0} /\ work \in Workloads
      BY DEF IInv
    <3>2. work \in Seq(Range(work)) /\ \A i \in DOMAIN work :
             work[i].op = "read_shapes" => work[i].leaves \in Seq(Range(work[i].leaves))
      BY <3>1, FeedsAssumption
    <3>3. pc[t] <= Len(work) /\ work[pc[t]].op = "read_shapes"
      BY DEF ReadBegins, Calls, Call
    <3>4. pc[t] \in DOMAIN work
      <4>1. DOMAIN work = 1 .. Len(work) /\ Len(work) \in Nat
        BY <3>2
      <4> QED BY <3>1, <3>3, <4>1
    <3> QED BY <2>1, <3>2, <3>3, <3>4 DEF Call
  <2>4. Kept(p, HeldBy)
    <3>1. CASE pinned = None
      <4>1. p = PinnedChunk /\ \A u \in Threads : HeldBy[u] = <<>>
        BY <2>1, <3>1 DEF EnsurePinnedBuffersAllocated, IInv, PoolInv, HeldBy, HeldIn
      <4>2. HeldBy \in [Threads -> Seq(Buffers)] /\ \A u \in Threads : 1 .. Len(HeldBy[u]) = {}
        <5>1. HeldBy = [u \in Threads |-> HeldBy[u]]
          BY DEF HeldBy
        <5>2. PICK e : e = <<>> /\ e \in Seq(Buffers) /\ 1 .. Len(e) = {}
          <6>1. <<>> \in Seq(Buffers) /\ Len(<<>>) = 0 /\ 1 .. 0 = {}
            OBVIOUS
          <6> QED BY <6>1
        <5>3. \A u \in Threads : HeldBy[u] = e
          BY <4>1, <5>2
        <5>4. \A u \in Threads : HeldBy[u] \in Seq(Buffers) /\ 1 .. Len(HeldBy[u]) = {}
          BY <5>2, <5>3
        <5> QED BY <5>1, <5>4
      <4>3. DOMAIN PinnedChunk = 1 .. Len(PinnedChunk)
        BY PinnedFacts
      <4>4. \A i, j \in 1 .. Len(PinnedChunk) : PinnedChunk[i] = PinnedChunk[j] => i = j
        BY <4>3, FeedsAssumption DEF IsInjective
      <4>5. \A b \in Buffers : \E i \in 1 .. Len(PinnedChunk) : PinnedChunk[i] = b
        BY <4>3 DEF Buffers, Range
      <4> QED BY <4>1, <4>2, <4>4, <4>5, PinnedFacts DEF Kept
    <3>2. CASE pinned # None
      BY <2>1, <3>2 DEF EnsurePinnedBuffersAllocated, IInv, PoolInv
    <3> QED BY <3>1, <3>2
  <2>5. Splits(out, p)
    <3>1. PICK base : base = [free |-> p, dsts |-> <<>>, checked_out |-> <<>>]
      OBVIOUS
    <3>2. out = FoldLeft(CheckOut, base, leaves)
      BY <2>1, <3>1 DEF AllCheckedOut
    <3>3. p \in Seq(Buffers)
      BY <2>4 DEF Kept
    <3> QED BY <2>3, <3>1, <3>2, <3>3, FoldSplits
  <2>6. PICK then : then = [do |-> "read", dsts |-> out.dsts, checked_out |-> out.checked_out, i |-> 1]
    OBVIOUS
  <2>7. FrameOK(then) /\ HeldIn(then) = out.checked_out /\ Lands(t, then)
    BY <2>2, <2>6 DEF FrameOK, HeldIn, ReadDos, OtherDos, Goto, Lands
  <2>8. FramesInv' /\ HeldBy' = [HeldBy EXCEPT ![t] = out.checked_out]
    BY <2>7, LandsFacts DEF IInv
  <2>9. HeldBy[t] = <<>>
    BY <1>1 DEF HeldBy
  <2>10. Kept(pinned', HeldBy')
    BY <2>2, <2>4, <2>5, <2>8, <2>9, TakeKeeps
  <2>11. pinned' # None
    BY <2>10, PinnedFacts DEF Kept
  <2> QED BY <2>8, <2>10, <2>11 DEF PoolInv
<1> QED BY <1>2, <1>3

LEMMA ReadEndsStep ==
  ASSUME IInv, NEW t \in Threads, ReadEnds(t)
  PROVE  FramesInv' /\ PoolInv'
<1>1. at[t].do = "read_end" /\ pinned' = pinned \o at[t].checked_out /\ Lands(t, Idle)
  BY ReturnLands DEF ReadEnds, In, Returned
<1>2. HeldBy[t] = at[t].checked_out /\ HeldIn(Inner(at[t])) = at[t].checked_out
  BY <1>1 DEF HeldBy, HeldIn, Inner, ReadDos
<1>3. FramesInv' /\ HeldBy' = [HeldBy EXCEPT ![t] = <<>>]
  BY <1>1, IdleOK, LandsFacts DEF IInv
<1>4. CASE pinned # None
  <2>1. Kept(pinned, HeldBy)
    BY <1>4 DEF IInv, PoolInv
  <2>2. Kept(pinned', HeldBy')
    BY <1>1, <1>2, <1>3, <2>1, GiveKeeps
  <2>3. pinned' # None
    BY <2>2, PinnedFacts DEF Kept
  <2> QED BY <1>3, <2>2, <2>3 DEF PoolInv
<1>5. CASE pinned = None
  BY <1>1, <1>5 DEF IInv, PoolInv, Inner, ReadDos
<1> QED BY <1>4, <1>5

LEMMA ReadStep ==
  ASSUME IInv, NEW t \in Threads, ReadCopies(t) \/ ReadBlocks(t) \/ ReadWrites(t)
  PROVE  FramesInv' /\ PoolInv'
<1>1. pinned' = pinned
  BY DEF ReadCopies, ReadBlocks, ReadWrites, feedVars
<1>2. at[t].do \in ReadDos
  BY DEF ReadCopies, ReadBlocks, ReadWrites, In, ReadDos
<1>3. Inner(at[t]) = at[t] /\ FrameOK(at[t]) /\ HeldIn(Inner(at[t])) = at[t].checked_out
  BY <1>2 DEF IInv, FramesInv, Inner, HeldIn, ReadDos
<1>4. PICK d, x, c, i : /\ d \in ReadDos /\ c = at[t].checked_out
                        /\ at[t] = [do |-> d, dsts |-> x, checked_out |-> c, i |-> i]
  BY <1>2, <1>3 DEF FrameOK
<1>5. ASSUME NEW e, NEW j, e \in ReadDos,
             Lands(t, [do |-> e, dsts |-> x, checked_out |-> c, i |-> j])
      PROVE  FramesInv' /\ PoolInv'
  <2>1. PICK then : then = [do |-> e, dsts |-> x, checked_out |-> c, i |-> j]
    OBVIOUS
  <2>2. FrameOK(then) /\ HeldIn(then) = c
    BY <1>5, <2>1 DEF FrameOK, HeldIn, ReadDos, OtherDos
  <2> QED BY <1>1, <1>2, <1>3, <1>4, <1>5, <2>1, <2>2, LandsStep DEF IInv
<1>6. CASE ReadCopies(t)
  <2>1. PICK j : j = i + 1
    OBVIOUS
  <2>2. Lands(t, [at[t] EXCEPT !.i = @ + 1])
    BY <1>6, SubmitsLands DEF ReadCopies
  <2>3. [at[t] EXCEPT !.i = @ + 1] = [do |-> d, dsts |-> x, checked_out |-> c, i |-> j]
    BY <1>4, <2>1
  <2> QED BY <1>4, <1>5, <2>2, <2>3
<1>7. CASE ReadBlocks(t) \/ ReadWrites(t)
  <2>1. PICK e \in {"read_write", "read_end"} : Lands(t, [at[t] EXCEPT !.do = e])
    <3>1. CASE ReadBlocks(t)
      <4>1. Lands(t, [at[t] EXCEPT !.do = "read_write"])
        BY <3>1 DEF ReadBlocks, Goto, Lands
      <4> QED BY <4>1
    <3>2. CASE ReadWrites(t)
      <4>1. Lands(t, [at[t] EXCEPT !.do = "read_end"])
        BY <3>2 DEF ReadWrites, Goto, Lands
      <4> QED BY <4>1
    <3> QED BY <1>7, <3>1, <3>2
  <2>2. [at[t] EXCEPT !.do = e] = [do |-> e, dsts |-> x, checked_out |-> c, i |-> i]
    BY <1>4
  <2>3. e \in ReadDos
    BY DEF ReadDos
  <2> QED BY <1>5, <2>1, <2>2, <2>3
<1> QED BY <1>6, <1>7

-----------------------------------------------------------------------------
(* The places of the calls.                                                *)

LEMMA NextCallIs ==
  ASSUME work \in Workloads, NEW t, NEW i \in Nat
  PROVE  NextCall(t, i) \in Nat \ {0}
<1>1. Len(work) \in Nat
  BY FeedsAssumption
<1>2. PICK S : S = {j \in i + 1 .. Len(work) : work[j].t = t} \cup {Len(work) + 1}
  OBVIOUS
<1>3. S \in SUBSET (Nat \ {0}) /\ S # {}
  BY <1>1, <1>2
<1>4. PICK m \in S : \A n \in S : ~(n < m)
  BY <1>3, LeastIn
<1>5. \A n \in S : m <= n
  BY <1>3, <1>4
<1>6. Min(S) \in S
  BY <1>5 DEF Min
<1> QED BY <1>2, <1>3, <1>6 DEF NextCall

LEMMA PlacesStep ==
  ASSUME IInv, NEW t \in Threads, ThreadStep(t)
  PROVE  work' \in Workloads /\ pc' \in [Threads -> Nat \ {0}]
<1>1. work' = work /\ work \in Workloads /\ pc \in [Threads -> Nat \ {0}] /\ Len(work) \in Nat
  <2>1. work' = work
    <3>1. CASE ExecutorCall(t)
      BY <3>1 DEF ExecutorCall, AllocateStream, DeallocateStream, Launch, MemcpyHostToDevice,
         MemcpyDeviceToHost, MemcpyDeviceToDevice, MemZero, SynchronousMemcpy, SynchronousMemSet,
         RecordEvent, WaitForEvent, CreateStreamDependency, PollForStatus, BlockHostUntilDone,
         SynchronizeContext, WaitReturns, Allocate, Deallocate, HostStep
    <3>2. CASE FeedCall(t)
      BY <3>2 DEF FeedCall, TransferLiteralToInfeed, TransferLiteralFromOutfeed, InfeedBegins,
         InfeedCopies, InfeedBlocks, InfeedEnds, OutfeedBegins, OutfeedCopies, OutfeedDone,
         OutfeedEnds, ReadBegins, ReadCopies, ReadBlocks, ReadWrites, ReadEnds
    <3> QED BY <3>1, <3>2 DEF ThreadStep
  <2>2. work \in Workloads /\ pc \in [Threads -> Nat \ {0}]
    BY DEF IInv
  <2> QED BY <2>1, <2>2, FeedsAssumption
<1>2. \/ Return(t) \/ pc' = pc \/ pc' = [pc EXCEPT ![t] = Len(work) + 1]
  <2>1. CASE ExecutorCall(t)
    BY <2>1 DEF ExecutorCall, AllocateStream, DeallocateStream, Launch, MemcpyHostToDevice,
       MemcpyDeviceToHost, MemcpyDeviceToDevice, MemZero, SynchronousMemcpy, SynchronousMemSet,
       RecordEvent, WaitForEvent, CreateStreamDependency, PollForStatus, BlockHostUntilDone,
       SynchronizeContext, WaitReturns, Allocate, Deallocate, HostStep, WaitStreamOnEvent,
       Submits, Continue, Goto
  <2>2. CASE FeedCall(t)
    BY <2>2 DEF FeedCall, TransferLiteralToInfeed, TransferLiteralFromOutfeed, InfeedBegins,
       InfeedCopies, InfeedBlocks, InfeedEnds, OutfeedBegins, OutfeedCopies, OutfeedDone,
       OutfeedEnds, ReadBegins, ReadCopies, ReadBlocks, ReadWrites, ReadEnds, Submits, Continue, Goto
  <2> QED BY <2>1, <2>2 DEF ThreadStep
<1>3. CASE Return(t)
  <2>1. PICK n : n = NextCall(t, pc[t]) /\ pc' = [pc EXCEPT ![t] = n]
    BY <1>3 DEF Return
  <2>2. n \in Nat \ {0}
    BY <1>1, <2>1, NextCallIs
  <2> QED BY <1>1, <2>1, <2>2
<1>4. CASE pc' = pc \/ pc' = [pc EXCEPT ![t] = Len(work) + 1]
  BY <1>1, <1>4
<1> QED BY <1>2, <1>3, <1>4

-----------------------------------------------------------------------------
(* The theorems.                                                           *)

\* The inductive invariant: the pool and the frames of the calls of
\* ReadDynamicShapes together hold every pinned buffer once.
THEOREM InvariantHolds == Spec => []IInv
<1>1. Init => IInv
  <2> SUFFICES ASSUME Init PROVE IInv
    OBVIOUS
  <2>1. work \in Workloads /\ pc = [t \in Threads |-> NextCall(t, 0)]
        /\ at = [t \in Threads |-> Idle] /\ pinned = None
    BY DEF Init, RuntimeInit
  <2>2. pc \in [Threads -> Nat \ {0}]
    <3>1. \A t \in Threads : NextCall(t, 0) \in Nat \ {0}
      BY <2>1, NextCallIs
    <3> QED BY <2>1, <3>1
  <2>3. \A t \in Threads : Inner(at[t]) = Idle
    BY <2>1, IdleOK
  <2>4. FramesInv /\ PoolInv
    BY <2>1, <2>3, IdleOK DEF FramesInv, PoolInv
  <2> QED BY <2>1, <2>2, <2>4 DEF IInv
<1>2. IInv /\ [Next]_vars => IInv'
  <2> SUFFICES ASSUME IInv, [Next]_vars PROVE IInv'
    OBVIOUS
  <2>1. ASSUME NEW t \in Threads, ThreadStep(t) PROVE IInv'
    <3>1. CASE ExecutorCall(t) /\ UNCHANGED feedVars
      BY <2>1, <3>1, ExecutorStep, PlacesStep DEF IInv
    <3>2. CASE ReadBegins(t)
      BY <2>1, <3>2, ReadBeginsStep, PlacesStep DEF IInv
    <3>3. CASE ReadEnds(t)
      BY <2>1, <3>3, ReadEndsStep, PlacesStep DEF IInv
    <3>4. CASE ReadCopies(t) \/ ReadBlocks(t) \/ ReadWrites(t)
      BY <2>1, <3>4, ReadStep, PlacesStep DEF IInv
    <3>5. CASE \/ TransferLiteralToInfeed(t) \/ TransferLiteralFromOutfeed(t)
               \/ InfeedBegins(t) \/ InfeedCopies(t) \/ InfeedBlocks(t) \/ InfeedEnds(t)
               \/ OutfeedBegins(t) \/ OutfeedCopies(t) \/ OutfeedDone(t) \/ OutfeedEnds(t)
      <4>1. pinned' = pinned
        BY <3>5 DEF TransferLiteralToInfeed, TransferLiteralFromOutfeed, InfeedBegins,
           InfeedCopies, InfeedBlocks, InfeedEnds, OutfeedBegins, OutfeedCopies, OutfeedDone,
           OutfeedEnds, feedVars
      <4> QED BY <2>1, <3>5, <4>1, FeedStep, PlacesStep DEF IInv
    <3> QED BY <2>1, <3>1, <3>2, <3>3, <3>4, <3>5 DEF ThreadStep, FeedCall
  <2>2. ASSUME UNCHANGED <<work, pc, at, pinned>> PROVE IInv'
    BY <2>2 DEF IInv, FramesInv, PoolInv, HeldBy
  <2>3. ASSUME NEW q \in Queues, DeviceStep(q) PROVE IInv'
    BY <2>2, <2>3 DEF DeviceStep, Finishes
  <2>4. CASE UNCHANGED vars
    BY <2>2, <2>4 DEF vars, runtimeVars, feedVars
  <2> QED BY <2>1, <2>3, <2>4 DEF Next
<1> QED BY <1>1, <1>2, PTL DEF Spec

\* Every pinned buffer is at exactly one place, of the pool or of one caller
\* of ReadDynamicShapes, however many threads read shapes of however many
\* leaves while the feeds and the streams go on.
THEOREM PinnedBuffersAreKeptHolds == Spec => []PinnedBuffersAreKept
<1>1. IInv => PinnedBuffersAreKept
  <2> SUFFICES ASSUME IInv, pinned # None, NEW b \in Buffers PROVE Cardinality(Places(b)) = 1
    BY DEF PinnedBuffersAreKept, Buffers
  <2>1. Kept(pinned, HeldBy)
    BY DEF IInv, PoolInv
  <2>2. /\ DOMAIN pinned = 1 .. Len(pinned)
        /\ \A t \in Threads : HeldBy[t] = Held(t) /\ DOMAIN Held(t) = 1 .. Len(HeldBy[t])
    <3>1. \A t \in Threads : HeldBy[t] = Held(t)
      BY DEF HeldBy, HeldIn, Inner, Held, Frame, In, ReadDos
    <3>2. pinned \in Seq(Buffers) /\ \A t \in Threads : HeldBy[t] \in Seq(Buffers)
      BY <2>1 DEF Kept
    <3> QED BY <3>1, <3>2
  <2>3. /\ \A i, j \in DOMAIN pinned : pinned[i] = b /\ pinned[j] = b => i = j
        /\ \A t, u \in Threads : \A i \in DOMAIN Held(t), j \in DOMAIN Held(u) :
             Held(t)[i] = b /\ Held(u)[j] = b => t = u /\ i = j
        /\ \A t \in Threads : \A i \in DOMAIN pinned, j \in DOMAIN Held(t) :
             ~(pinned[i] = b /\ Held(t)[j] = b)
        /\ \/ \E i \in DOMAIN pinned : pinned[i] = b
           \/ \E t \in Threads : \E j \in DOMAIN Held(t) : Held(t)[j] = b
    <3>1. \A i, j \in DOMAIN pinned : pinned[i] = b /\ pinned[j] = b => i = j
      BY <2>1, <2>2 DEF Kept
    <3>2. ASSUME NEW t \in Threads, NEW u \in Threads, NEW i \in DOMAIN Held(t),
                 NEW j \in DOMAIN Held(u), Held(t)[i] = b, Held(u)[j] = b
          PROVE  t = u /\ i = j
      <4>1. /\ i \in 1 .. Len(HeldBy[t]) /\ j \in 1 .. Len(HeldBy[u])
            /\ HeldBy[t][i] = HeldBy[u][j]
        BY <2>2, <3>2
      <4> QED BY <2>1, <4>1 DEF Kept
    <3>3. ASSUME NEW t \in Threads, NEW i \in DOMAIN pinned, NEW j \in DOMAIN Held(t)
          PROVE  ~(pinned[i] = b /\ Held(t)[j] = b)
      <4>1. i \in 1 .. Len(pinned) /\ j \in 1 .. Len(HeldBy[t]) /\ HeldBy[t][j] = Held(t)[j]
        BY <2>2
      <4>2. pinned[i] # HeldBy[t][j]
        BY <2>1, <4>1 DEF Kept
      <4> QED BY <4>1, <4>2
    <3>4. CASE \E i \in 1 .. Len(pinned) : pinned[i] = b
      BY <2>2, <3>1, <3>2, <3>3, <3>4
    <3>5. CASE \E t \in Threads : \E j \in 1 .. Len(HeldBy[t]) : HeldBy[t][j] = b
      <4>1. PICK t \in Threads : \E j \in 1 .. Len(HeldBy[t]) : HeldBy[t][j] = b
        BY <3>5
      <4>2. \E j \in DOMAIN Held(t) : Held(t)[j] = b
        BY <2>2, <4>1
      <4> QED BY <3>1, <3>2, <3>3, <4>2
    <3>6. \/ \E i \in 1 .. Len(pinned) : pinned[i] = b
          \/ \E t \in Threads : \E j \in 1 .. Len(HeldBy[t]) : HeldBy[t][j] = b
      BY <2>1 DEF Kept
    <3> QED BY <3>4, <3>5, <3>6
  <2>4. \E p : Places(b) = {p}
    <3>1. CASE \E i \in DOMAIN pinned : pinned[i] = b
      <4>1. PICK i \in DOMAIN pinned : pinned[i] = b
        BY <3>1
      <4>2. Places(b) = {<<None, i>>}
        BY <2>3, <4>1 DEF Places
      <4> QED BY <4>2
    <3>2. CASE \E t \in Threads : \E j \in DOMAIN Held(t) : Held(t)[j] = b
      <4>1. PICK t \in Threads : \E j \in DOMAIN Held(t) : Held(t)[j] = b
        BY <3>2
      <4>2. PICK j \in DOMAIN Held(t) : Held(t)[j] = b
        BY <4>1
      <4>3. Places(b) = {<<t, j>>}
        BY <2>3, <4>2 DEF Places
      <4> QED BY <4>3
    <3> QED BY <2>3, <3>1, <3>2
  <2> QED BY <2>4, FS_Singleton
<1> QED BY <1>1, InvariantHolds, PTL
=============================================================================
