----------------------------- MODULE MhaRewriter -----------------------------
(***************************************************************************)
(* fused_mha_rewriter.cc: two batched products with a softmax, a bias, a   *)
(* factor or a mask between them become one attention call.  The layouts   *)
(* are row-major: the last dimension moves fastest.                        *)
(***************************************************************************)
EXTENDS HloValues

IsBatchedMatmul(g, i) == Op(g, i) = "gemm" /\ (At(g, i).n.lb # <<>> \/ At(g, i).n.rb # <<>>)
IsSupportedPrimitiveType(g, bmm) == Type(g, bmm) \in {"BF16", "F16"}
IsReduce(g, i, by) == Op(g, i) = "reduce" /\ At(g, i).by = by
ScalarConst(g, i) == Op(g, i) = "const" /\ Dims(g, i) = <<>>

\* Optional instructions are passed over, one of each in this order.
Under(g, i, ops) ==
  FoldLeft(LAMBDA j, op : IF Op(g, j) = op THEN Args(g, j)[1] ELSE j, i, ops)

-----------------------------------------------------------------------------
(* What lies before bmm_2.  A match is [bmm, bias, scale, mask, softmax];  *)
(* 0 stands for what is absent.                                            *)

Match(bmm) == [bmm |-> bmm, bias |-> 0, scale |-> 0, mask |-> 0, softmax |-> FALSE]

\* exp(x - broadcast(max(input))): the input, when e has this form.
ShiftedInput(g, e) ==
  LET sub == Args(g, e)[1]
      b == Args(g, sub)[2]
      max == Under(g, Args(g, b)[1], <<"convert", "convert">>)
  IN IF /\ Op(g, e) = "exponential" /\ Op(g, sub) = "subtract"
        /\ Op(g, b) = "broadcast" /\ IsReduce(g, max, "maximum")
     THEN {Under(g, Args(g, max)[1], <<"bitcast", "convert">>)} ELSE {}
\* The quotient of such a term and a broadcast sum; the input is the sum's.
GetUnfusedReduceMaxSumSoftmaxPattern(g, d) ==
  LET b == Args(g, d)[2]
      sum == Under(g, Args(g, b)[1], <<"bitcast", "convert", "bitcast", "convert">>)
  IN IF /\ Op(g, d) = "divide" /\ ShiftedInput(g, Args(g, d)[1]) # {}
        /\ Op(g, b) = "broadcast" /\ WithOneUse(g, b)
        /\ IsReduce(g, sum, "add") /\ WithOneUse(g, sum)
     THEN ShiftedInput(g, Under(g, Args(g, sum)[1], <<"bitcast", "convert">>)) ELSE {}

MatchDefaultBmmBmm(g, bmm2, pos) ==
  LET a == Args(g, bmm2)[pos]
  IN IF IsBatchedMatmul(g, a) /\ WithOneUse(g, a) THEN {Match(a)} ELSE {}

\* The input of the softmax before bmm_2.
MatchSoftmaxDropoutBmm(g, bmm2, pos) ==
  IF IsSupportedPrimitiveType(g, bmm2)
  THEN GetUnfusedReduceMaxSumSoftmaxPattern(
         g, Under(g, Args(g, bmm2)[pos], <<"bitcast", "convert", "bitcast">>))
  ELSE {}

\* A bias that is fused with the product is its third operand.
FusedBias(g, bmm) == IF Len(Args(g, bmm)) > 2 THEN Args(g, bmm)[3] ELSE 0
MatchBmm1FusedBiasSoftmaxBmm2(g, x) ==
  IF IsBatchedMatmul(g, x) THEN {[Match(x) EXCEPT !.bias = FusedBias(g, x)]} ELSE {}

\* A factor, a bias, or both, between the product and x.
Bmm1(g, i) == IsBatchedMatmul(g, i) /\ WithOneUse(g, i)
ScaledBmm(g, x, casts) ==
  LET found == Matches(g, x, LAMBDA a, b :
                 /\ Bmm1(g, Under(g, a, <<"convert">>))
                 /\ Op(g, b) = "broadcast" /\ ScalarConst(g, Under(g, Args(g, b)[1], casts)))
  IN IF Op(g, x) = "multiply" /\ found # <<>>
     THEN {[Match(Under(g, found[1][1], <<"convert">>)) EXCEPT
              !.scale = Under(g, Args(g, found[1][2])[1], casts)]}
     ELSE {}
BiasedBmm(g, x, between, casts) ==
  LET Scores(a) == IF Bmm1(g, Under(g, a, between)) THEN {Match(Under(g, a, between))}
                   ELSE ScaledBmm(g, a, casts)
      found == Matches(g, x, LAMBDA b, a : Scores(a) # {})
  IN IF Op(g, x) = "add" /\ found # <<>>
     THEN {[m EXCEPT !.bias = found[1][1]] : m \in Scores(found[1][2])} ELSE {}
UnfusedScores(g, x, between, casts) ==
  LET y == Under(g, x, <<"convert">>)
  IN CASE Bmm1(g, x) -> {Match(x)}
       [] Op(g, y) = "add" -> BiasedBmm(g, y, between, casts)
       [] OTHER -> ScaledBmm(g, y, casts)
MatchBmm1UnfusedBiasSoftmaxBmm2(g, x) ==
  UnfusedScores(g, x, <<"bitcast", "convert">>, <<"convert">>)

\* select(mask, scores, _); a bias that is fused with the product wins.
MaskedScores(g, x) ==
  LET s == Under(g, x, <<"convert">>)
      mask == Args(g, s)[1]
  IN IF Op(g, s) = "select" /\ Type(g, mask) = "PRED"
     THEN {[m EXCEPT !.mask = mask, !.bias = IF FusedBias(g, m.bmm) # 0 THEN FusedBias(g, m.bmm) ELSE @] :
             m \in UnfusedScores(g, Args(g, s)[2], <<"convert">>, <<>>)}
     ELSE {}
MatchBmm1ScaleBiasMaskSoftmaxDropoutBmm2(g, x) ==
  {m \in MaskedScores(g, x) : IsSupportedPrimitiveType(g, m.bmm)}

\* The first pattern that fits at one operand of bmm_2.
FirstOf(matches, otherwise) == IF matches # {} THEN matches ELSE otherwise
MatchAt(g, bmm2, pos) ==
  LET Before(x) == FirstOf(MatchBmm1FusedBiasSoftmaxBmm2(g, x),
                           FirstOf(MatchBmm1UnfusedBiasSoftmaxBmm2(g, x),
                                   MatchBmm1ScaleBiasMaskSoftmaxDropoutBmm2(g, x)))
  IN FirstOf(MatchDefaultBmmBmm(g, bmm2, pos),
             {[m EXCEPT !.softmax = TRUE] :
                m \in UNION {Before(x) : x \in MatchSoftmaxDropoutBmm(g, bmm2, pos)}})

IsMHABlockSupported(g, bmm1, bmm2) ==
  \A b \in {bmm1, bmm2} :
    /\ IsSupportedPrimitiveType(g, b)
    /\ Len(Dims(g, Args(g, b)[1])) = Len(Dims(g, Args(g, b)[2]))
    /\ Len(At(g, b).n.lb) = Len(At(g, b).n.rb)

-----------------------------------------------------------------------------
(* The rewriting. *)

\* bmm(v, p) becomes transpose(bmm(p, v)).
CanonicalizeBatchedGemmForcuDNNFMHA(g, bmm2) ==
  LET n == At(g, bmm2).n
      new == [g.ins[bmm2] EXCEPT
                !.args = <<@[2], @[1]>>,
                !.at.n = [lb |-> n.rb, lc |-> n.rc, rb |-> n.lb, rc |-> n.lc],
                !.at.epilogue = "DEFAULT",
                !.dims = SwapLast(@)]
  IN ReplaceWithNewInstruction(AddInstruction(g, new), bmm2,
       Instr("transpose", <<NextId(g)>>, NoAttr, Type(g, bmm2), Dims(g, bmm2)))

\* An operand of the call is an instruction there is, or a new one.
Given(i) == [id |-> i, new |-> <<>>]
New(ins) == [id |-> 0, new |-> <<ins>>]
AddOperand(s, o) ==
  IF o.new = <<>> THEN [s EXCEPT !.ids = Append(@, o.id)]
  ELSE [g |-> AddInstructions(s.g, o.new), ids |-> Append(s.ids, NextId(s.g))]

\* Dimension k is made the fastest one.
MakeFastest(g, a, k, type) ==
  IF k = Len(Dims(g, a)) THEN Given(a)
  ELSE New(Instr("transpose", <<a>>, NoAttr, type, SwapLast(Dims(g, a))))
OtherDim(dims, batch, k) == CHOOSE d \in Free(dims, batch, k) : TRUE

\* A bias that was widened is broadcast as it was, along dimensions its rank stands for.
BiasDims(rank) == CASE rank = 1 -> <<4>> [] rank = 2 -> <<1, 4>> [] rank = 3 -> <<1, 3, 4>> [] OTHER -> <<>>
OriginalBias(g, bias, bmm1) ==
  LET wide == Args(g, bias)[1]
      narrow == Args(g, wide)[1]
  IN IF /\ Op(g, bias) = "broadcast" /\ Op(g, wide) = "convert"
        /\ Type(g, wide) \in {"F32", "F64"} /\ Type(g, narrow) \in {"F16", "BF16"}
     THEN New(Instr("broadcast", <<narrow>>, [dims |-> BiasDims(Len(Dims(g, narrow)))],
                    Type(g, bmm1), Dims(g, bmm1)))
     ELSE Given(bias)

\* The operands were made in the order rhs, lhs of bmm_1, rhs of bmm_2.
ReplaceByCall(g, bmm2, ids, config) ==
  LET fmha_call == Instr("fmha", <<ids[2], ids[1]>> \o SubSeq(ids, 3, Len(ids)), config,
                         Type(g, bmm2), Dims(g, bmm2))
  IN ReplaceWithNewInstruction(AddInstruction(g, fmha_call), bmm2,
       Instr("get-tuple-element", <<NextId(g)>>, [k |-> 1], Type(g, bmm2), Dims(g, bmm2)))
FuseMultiHeadedAttentionBlock(g, bmm2, m) ==
  LET bmm1 == m.bmm
      n1 == At(g, bmm1).n
      n2 == At(g, bmm2).n
      a == Args(g, bmm1)
      v == Args(g, bmm2)[2]
      rank == Len(Dims(g, bmm1))
      type == Type(g, bmm1)
      Fast(dims, batch, k) == IF k = Len(dims) THEN k ELSE OtherDim(dims, batch, k)
      vfree == OtherDim(Dims(g, v), n2.rb, n2.rc)
      mask == New(Instr("convert", <<m.mask>>, NoAttr, type, Dims(g, bmm1)))
      operands == FoldLeft(AddOperand, [g |-> g, ids |-> <<>>],
                    <<MakeFastest(g, a[2], n1.rc, type), MakeFastest(g, a[1], n1.lc, type),
                      MakeFastest(g, v, vfree, Type(g, bmm2))>>
                    \o (IF m.mask = 0 THEN <<>> ELSE <<mask>>)
                    \o (IF m.bias = 0 THEN <<>> ELSE <<OriginalBias(g, m.bias, bmm1)>>))
      config == [n1 |-> [n1 EXCEPT !.rc = Fast(Dims(g, a[2]), n1.rb, @), !.lc = Fast(Dims(g, a[1]), n1.lb, @)],
                 n2 |-> [n2 EXCEPT !.rc = IF vfree = Len(Dims(g, v)) THEN @ ELSE vfree],
                 scale |-> IF m.scale = 0 THEN "1" ELSE At(g, m.scale).c,
                 bias |-> m.bias # 0, mask |-> m.mask # 0, softmax |-> m.softmax,
                 rows |-> [k \in 1..(rank - 1) |-> k], probs |-> Dims(g, bmm1)]
  IN ReplaceByCall(operands.g, bmm2, operands.ids, config)

\* When a softmax of something else than scores precedes bmm_2, the matcher
\* reaches its end without a return: what follows is undefined.
EndsWithoutReturn(g, bmm2, pos) ==
  \E x \in MatchSoftmaxDropoutBmm(g, bmm2, pos) : MaskedScores(g, x) = {}
\* For a match at operand 2 bmm_2 is turned around.
FuseMatch(g, bmm2, pos, m) ==
  IF ~IsMHABlockSupported(g, m.bmm, bmm2) THEN g
  ELSE FuseMultiHeadedAttentionBlock(
         IF pos = 1 THEN g ELSE CanonicalizeBatchedGemmForcuDNNFMHA(g, bmm2),
         IF pos = 1 THEN bmm2 ELSE NextId(g), m)
VisitOperand(g, bmm2, pos, matches, otherwise) ==
  CASE matches # {} -> {FuseMatch(g, bmm2, pos, m) : m \in matches}
    [] matches = {} /\ EndsWithoutReturn(g, bmm2, pos) -> {g, Failed(g)}
    [] OTHER -> otherwise
\* Operand 1 of bmm_2 first, then operand 2.
MhaVisit(g, i) ==
  IF IsBatchedMatmul(g, i)
  THEN VisitOperand(g, i, 1, MatchAt(g, i, 1), VisitOperand(g, i, 2, MatchAt(g, i, 2), {g}))
  ELSE {g}
=============================================================================
