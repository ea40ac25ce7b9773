---------------------------- MODULE FusedAttention ----------------------------
(***************************************************************************)
(* The fused attention call: EmitFusedMHAThunk, fused_mha_thunk.cc,        *)
(* gpu_fused_mha_runner.cc, and the XeTLA kernel that it launches          *)
(* (xetla/sdp).                                                            *)
(*                                                                         *)
(* The kernel goes through the keys tile by tile and keeps, for a row of   *)
(* queries, the largest score m so far and the sum l of the exponentials   *)
(* relative to m; the output so far is corrected when they change.  The    *)
(* subgroups of a work-group that share a row each take a part of the keys *)
(* of a tile and a part of the columns of the output.  They exchange rows  *)
(* of Q, largest scores, sums and the tile of probabilities through local  *)
(* memory, ordered by one named barrier.  Rows do not depend on each       *)
(* other: a behaviour is one row of one work-group.                        *)
(*                                                                         *)
(* The exponential has base 2, so that numbers are exact.  An output is    *)
(* the weight that every row of V has in it.                               *)
(***************************************************************************)
EXTENDS Integers, Sequences, FiniteSets, FiniteSetsExt

CONSTANTS Attentions,   \* the calls
          TileOf        \* policy -> [br, bc, sg]: queries, keys of a tile and of a subgroup

VARIABLES attention,    \* the call and the row: [kind, type, B, N, F, T, H, scale, gid, group, row]
          att_pc,       \* "launch", "run", "done" or "failed"
          policy,       \* the kernel's tile sizes
          sg_pc,        \* subgroup -> [step, startT]
          arrived,      \* subgroup -> its arrivals at the named barrier
          regs,         \* subgroup -> [m, l, m_new, p, o]
          Qi_slm, softmax_slm, Pij_slm,   \* local memory, subgroup -> what it stored
          out           \* rows of the output in global memory

attVars == <<attention, att_pc, policy, sg_pc, arrived, regs, Qi_slm, softmax_slm, Pij_slm, out>>

-----------------------------------------------------------------------------
(* Exact numbers: quotients <<n, d>> in lowest terms.                      *)

Divides(k, n) == n % k = 0
Lowest(n, d) ==
  LET g == Max({k \in 1 .. d : Divides(k, n) /\ Divides(k, d)}) IN <<n \div g, d \div g>>
Zero == <<0, 1>>
Plus(x, y) == Lowest(x[1] * y[2] + y[1] * x[2], x[2] * y[2])
Times(x, y) == Lowest(x[1] * y[1], x[2] * y[2])
Over(x, y) == Lowest(x[1] * y[2], x[2] * y[1])
SumOver(f, S) == FoldSet(LAMBDA i, acc : Plus(acc, f[i]), Zero, S)
kNegInfinity == -1000
\* exp of a difference that is not positive.
Exp(x) == IF x <= kNegInfinity + 100 THEN Zero ELSE <<1, 2 ^ (-x)>>

-----------------------------------------------------------------------------
(* The tensors: dense, a row for each [batch, head, query or key]; the     *)
(* bias has the shape of the scores.                                       *)

\* A row of Q as subgroup s holds it, times a row of K: even, and not the same
\* for two rows that could be taken for each other.
PartialScore(s, q, k, n) == IF s = (q + k) % n THEN 2 * ((q + 2 * k) % 3) ELSE 0
NoRow == -1      \* zeros
BiasAt(a, r, t) == ((r % a.F) + t) % 2

-----------------------------------------------------------------------------
(* Host: what becomes of a call.                                           *)

HasScale(kind) == kind \notin {"BmmBmm", "Softmax", "SoftmaxDropout"}
WithBias(kind) == kind \in {"ScaleBiasSoftmax", "ScaleBiasSoftmaxDropout",
                            "ScaleBiasMaskSoftmax", "ScaleBiasMaskSoftmaxDropout"}
RunnableKinds == {"Softmax", "ScaleSoftmax", "ScaleBiasSoftmax", "ScaleBiasSoftmaxDropout"}

\* In halves.  A scale above one is taken for an inaccurate 1 / sqrt(H).
SmScale(a) ==
  LET scale == IF HasScale(a.kind) THEN a.scale ELSE 2
  IN IF scale > 2 THEN 1 ELSE scale

SelectPolicy(head_size, num_keys) ==
  CASE head_size <= 64 -> "64x128x64"
    [] head_size \in 65 .. 128 -> "64x128x128"
    [] head_size \in 129 .. 256 /\ num_keys < 64 -> "8x256x256"
    [] head_size \in 129 .. 256 /\ num_keys \in 64 .. 127 -> "64x128x256"
    [] head_size \in 129 .. 256 /\ num_keys >= 128 -> "64x256x256"
    [] OTHER -> "none"

\* The local range along the keys.
Subgroups == 0 .. policy.bc \div policy.sg - 1
gid == attention.gid
\* The queries of the work-group end with those of its head.
start_y == gid * attention.F + attention.group * policy.br
boundary_y == (gid + 1) * attention.F
end_y == Min({start_y + policy.br, boundary_y})
QueryRow == start_y + attention.row
InRange == QueryRow < end_y

\* get_nd_range: a group for each head and tile of queries; a row of its tile.
QueryRows(a, p) == {[gid |-> g, group |-> q, row |-> r] : g \in 0 .. a.B * a.N - 1,
                 q \in 0 .. (a.F + p.br - 1) \div p.br - 1, r \in 0 .. p.br - 1}

FailAttention ==
  /\ att_pc' = "failed"
  /\ UNCHANGED <<attention, policy, sg_pc, arrived, regs, Qi_slm, softmax_slm, Pij_slm, out>>

\* RunGpuFMHA: the types and the kinds that have a kernel, and its policy.
LaunchAttention ==
  LET name == SelectPolicy(attention.H, attention.T)
  IN /\ att_pc = "launch"
     /\ IF attention.type \notin {"F16", "BF16"} \/ attention.kind \notin RunnableKinds THEN FailAttention
        ELSE /\ name # "none"
             /\ policy' = TileOf[name]
             /\ LET S == Subgroups' IN
                /\ sg_pc' = [s \in S |-> [step |-> "preload", startT |-> 0]]
                /\ arrived' = [s \in S |-> 0]
                /\ regs' = [s \in S |-> [m |-> kNegInfinity, l |-> Zero, m_new |-> kNegInfinity,
                                         p |-> <<>>, o |-> <<>>]]
                /\ Qi_slm' = [s \in S |-> NoRow]
                /\ softmax_slm' = [s \in S |-> "none"]
                /\ Pij_slm' = [s \in S |-> <<>>]
             /\ \E r \in QueryRows(attention, policy') :
                  attention' = [f \in DOMAIN attention \cup DOMAIN r |->
                                  IF f \in DOMAIN r THEN r[f] ELSE attention[f]]
             /\ att_pc' = "run"
             /\ UNCHANGED out

-----------------------------------------------------------------------------
(* Device.                                                                 *)

At(s, step) == att_pc = "run" /\ sg_pc[s].step = step
Step(s, step) == sg_pc' = [sg_pc EXCEPT ![s].step = step]
Arrive(s) == arrived' = [arrived EXCEPT ![s] = @ + 1]
\* xetla_nbarrier_t::wait: all subgroups have arrived as often.
Waited(s) == \A r \in Subgroups : arrived[r] >= arrived[s]
Reg(s, r) == regs' = [regs EXCEPT ![s] = r]

\* preload_Qi: a part of the columns each.  Beyond the range a load gives 0.
PreloadQi(s) ==
  /\ At(s, "preload")
  /\ Qi_slm' = [Qi_slm EXCEPT ![s] = IF InRange THEN QueryRow ELSE NoRow]
  /\ Arrive(s) /\ Step(s, "scores")
  /\ UNCHANGED <<attention, att_pc, policy, regs, softmax_slm, Pij_slm, out>>

\* The keys of a subgroup, as offsets of its tile; the ones beyond the last
\* key are masked.
KeysOf(s) == {s * policy.sg + x : x \in 0 .. policy.sg - 1}
Remaining(s, startT) == Max({attention.T - (startT + s * policy.sg), 0})
Kept(s, startT, c) == c - s * policy.sg < Remaining(s, startT)
Sij(startT, c) ==
  LET k == gid * attention.T + startT + c
      Slice(r) == IF Qi_slm[r] = NoRow THEN 0
                  ELSE PartialScore(r, Qi_slm[r], k, Cardinality(Subgroups))
      score == MapThenSumSet(Slice, Subgroups)
      batch_id == gid \div attention.N
      bias_row == batch_id * attention.F + attention.group * policy.br + attention.row
  IN (score * SmScale(attention)) \div 2 +
     (IF WithBias(attention.kind) THEN BiasAt(attention, bias_row, startT + c) ELSE 0)

\* gemm_Sij, apply_mask, and the first half of the row's maximum.
ScoresAndMax(s) ==
  LET startT == sg_pc[s].startT
      S == [c \in KeysOf(s) |-> IF Kept(s, startT, c) THEN Sij(startT, c) ELSE kNegInfinity]
  IN /\ At(s, "scores") /\ Waited(s)
     /\ Reg(s, [regs[s] EXCEPT !.p = S])
     /\ softmax_slm' = [softmax_slm EXCEPT ![s] = Max({S[c] : c \in DOMAIN S})]
     /\ Arrive(s) /\ Step(s, "max")
     /\ UNCHANGED <<attention, att_pc, policy, Qi_slm, Pij_slm, out>>

\* The row's maximum; the old sum is corrected; the exponentials.
NewMax(s) ==
  LET r == regs[s]
      m_new == Max({softmax_slm[x] : x \in Subgroups} \cup {r.m})
  IN /\ At(s, "max") /\ Waited(s)
     /\ Reg(s, [r EXCEPT !.m_new = m_new,
                         !.l = Times(@, Exp(r.m - m_new)),
                         !.p = [c \in DOMAIN r.p |-> Exp(r.p[c] - m_new)]])
     /\ Arrive(s) /\ Step(s, "sum_store")
     /\ UNCHANGED <<attention, att_pc, policy, Qi_slm, softmax_slm, Pij_slm, out>>

\* The first half of the row's sum, once everyone has read the maxima.
StoreSum(s) ==
  /\ At(s, "sum_store") /\ Waited(s)
  /\ softmax_slm' = [softmax_slm EXCEPT ![s] = SumOver(regs[s].p, DOMAIN regs[s].p)]
  /\ Arrive(s) /\ Step(s, "sum")
  /\ UNCHANGED <<attention, att_pc, policy, regs, Qi_slm, Pij_slm, out>>

\* Mutant: the output so far is not corrected for the new sum.
Rescaled_NotAtAll(o, l_old, l_new) == o
\* Before the first tile the output is 0, and its correction is by infinity.
Rescaled(o, l_old, l_new) ==
  IF l_old = Zero THEN [v \in DOMAIN o |-> Zero]
  ELSE [v \in DOMAIN o |-> Over(o[v], Over(l_new, l_old))]

\* The row's sum; the tile of probabilities and the output so far are divided.
NewSum(s) ==
  LET r == regs[s]
      l_new == Plus(SumOver(softmax_slm, Subgroups), r.l)
      P == [c \in DOMAIN r.p |-> Over(r.p[c], l_new)]
  IN /\ At(s, "sum") /\ Waited(s)
     /\ Reg(s, [r EXCEPT !.p = P, !.o = Rescaled(@, r.l, l_new), !.m = r.m_new, !.l = l_new])
     /\ Pij_slm' = [Pij_slm EXCEPT ![s] = P]
     /\ Arrive(s) /\ Step(s, "gemm_Oi")
     /\ UNCHANGED <<attention, att_pc, policy, Qi_slm, softmax_slm, out>>

\* The tile times the rows of V that exist, and the next tile.
GemmOi(s) ==
  LET startT == sg_pc[s].startT
      end_x == Min({gid * attention.T + startT + policy.bc, (gid + 1) * attention.T})
      V == (gid * attention.T + startT) .. (end_x - 1)
      P(v) == LET c == v - gid * attention.T - startT IN Pij_slm[c \div policy.sg][c]
      o == regs[s].o
  IN /\ At(s, "gemm_Oi") /\ Waited(s)
     /\ Reg(s, [regs[s] EXCEPT !.o = [v \in DOMAIN o \cup V |->
                  Plus(IF v \in DOMAIN o THEN o[v] ELSE Zero, IF v \in V THEN P(v) ELSE Zero)]])
     /\ sg_pc' = [sg_pc EXCEPT ![s] =
                    [step |-> IF startT + policy.bc < attention.T THEN "scores" ELSE "store",
                     startT |-> startT + policy.bc]]
     /\ UNCHANGED <<attention, att_pc, policy, arrived, Qi_slm, softmax_slm, Pij_slm, out>>

\* raw_store_Oi: the part of the columns; a store beyond the range is dropped.
RawStoreOi(s) ==
  /\ At(s, "store")
  /\ out' = IF InRange THEN [x \in DOMAIN out \cup {<<QueryRow, s>>} |->
                               IF x = <<QueryRow, s>> THEN regs[s].o ELSE out[x]]
            ELSE out
  /\ Step(s, "done")
  /\ att_pc' = IF \A r \in Subgroups \ {s} : sg_pc[r].step = "done" THEN "done" ELSE "run"
  /\ UNCHANGED <<attention, policy, arrived, regs, Qi_slm, softmax_slm, Pij_slm>>

AttentionInit ==
  /\ attention \in Attentions
  /\ att_pc = "launch"
  /\ policy = <<>> /\ sg_pc = <<>> /\ arrived = <<>> /\ regs = <<>>
  /\ Qi_slm = <<>> /\ softmax_slm = <<>> /\ Pij_slm = <<>> /\ out = <<>>

AttentionNext ==
  \/ LaunchAttention
  \/ /\ att_pc = "run"
     /\ \E s \in Subgroups : \/ PreloadQi(s) \/ ScoresAndMax(s) \/ NewMax(s) \/ StoreSum(s)
                             \/ NewSum(s) \/ GemmOi(s) \/ RawStoreOi(s)

AttentionDone == att_pc \in {"done", "failed"}

-----------------------------------------------------------------------------

\* softmax of the scaled scores plus the bias, over the keys of the query's head.
ExpectedWeights(a, n) ==
  LET f == a.group * policy.br + a.row
      q == a.gid * a.F + f
      keys == 0 .. a.T - 1
      Row(t) == a.gid * a.T + t
      S(t) == (MapThenSumSet(LAMBDA s : PartialScore(s, q, Row(t), n), 0 .. n - 1)
                 * (IF HasScale(a.kind) THEN a.scale ELSE 2)) \div 2
              + (IF WithBias(a.kind) THEN BiasAt(a, q, t) ELSE 0)
      top == Max({S(t) : t \in keys})
      total == SumOver([t \in keys |-> Exp(S(t) - top)], keys)
  IN [v \in {Row(t) : t \in keys} |-> Over(Exp(S(v - a.gid * a.T) - top), total)]

\* A call that succeeds leaves in every row of its output the softmax of the
\* whole row of scores times V, whatever the order in which the subgroups of the
\* kernel run, and touches no other row; a call that fails has a type or a kind
\* for which there is no kernel (RunGpuFMHA, fmha_forward_t::operator()).
AttentionIsExact ==
  /\ att_pc = "done" =>
       out = IF attention.group * policy.br + attention.row < attention.F
             THEN [x \in {QueryRow} \X Subgroups |-> ExpectedWeights(attention, Cardinality(Subgroups))]
             ELSE <<>>
  /\ att_pc = "failed" =>
       \/ attention.type \notin {"F16", "BF16"}
       \/ attention.kind \notin RunnableKinds
=============================================================================
