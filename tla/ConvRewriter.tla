---------------------------- MODULE ConvRewriter ----------------------------
(***************************************************************************)
(* onednn_fused_conv_rewriter.cc: what follows a convolution call (a       *)
(* conversion, a factor, a bias, another tensor, an activation) moves into *)
(* the call, from the inside out.                                          *)
(***************************************************************************)
EXTENDS HloValues

\* A call as GpuConvRewriter leaves it.  alias is output_to_operand_aliasing: the
\* operand whose buffer the result takes, 0 for none.
ConvAttr(depthwise, even) ==
  [fused |-> FALSE, depthwise |-> depthwise, even |-> even, scale |-> "1",
   side_scale |-> "0", activation |-> "none", alias |-> 0]

IsConvCustomCall(g, i) == Op(g, i) = "conv"
IsNonDepthwiseConvCustomCall(g, i) == IsConvCustomCall(g, i) /\ ~At(g, i).depthwise
\* The result of a call, and the call.
IsResult(g, i, Conv(_, _)) == Op(g, i) = "get-tuple-element" /\ Conv(g, Args(g, i)[1])
ConvOf(g, gte) == Args(g, gte)[1]
ResultOf(conv, ins) == Instr("get-tuple-element", <<conv>>, [k |-> 1], ins.type, ins.dims)

\* No digit is lost in a conversion of i to type t.
RECURSIVE IsLosslesslyConvertibleTo(_, _, _)
IsLosslesslyConvertibleTo(g, i, t) ==
  \/ Type(g, i) = t
  \/ /\ Op(g, i) = "convert" /\ Type(g, Args(g, i)[1]) = t
     /\ CastPreservesValues(t, Type(g, i))
  \/ Op(g, i) = "const" /\ ConstantFits(At(g, i).c, t)
  \/ /\ Op(g, i) \in {"broadcast", "reshape", "transpose"}
     /\ IsLosslesslyConvertibleTo(g, Args(g, i)[1], t)

\* MakeConvertToHlo: nothing is added when the type is right.
ConvertTo(g, i, t) ==
  IF Type(g, i) = t THEN [g |-> g, id |-> i]
  ELSE [g |-> AddInstruction(g, Instr("convert", <<i>>, NoAttr, t, Dims(g, i))), id |-> NextId(g)]
ConvertOperands(g, conv, to) ==
  FoldLeft(LAMBDA s, k : LET c == ConvertTo(s.g, Args(g, conv)[k], to[k])
                         IN [g |-> c.g, args |-> Append(s.args, c.id)],
           [g |-> g, args |-> <<>>], [k \in DOMAIN Args(g, conv) |-> k])

\* A plain call gets a bias of zeros.
EnsureIsConvBiasActivation(g, conv) ==
  IF At(g, conv).fused THEN [g |-> g, conv |-> conv]
  ELSE LET id == NextId(g)
           type == IF Type(g, conv) \in Integral THEN "F32" ELSE Type(g, conv)
           features == <<Last(Dims(g, conv))>>
           zero == Instr("const", <<>>, [c |-> "0"], type, <<>>)
           zeros == Instr("broadcast", <<id>>, [dims |-> <<>>], type, features)
           new == [g.ins[conv] EXCEPT !.args = Append(@, id + 1), !.at.fused = TRUE]
       IN [g |-> ReplaceInstruction(AddInstructions(g, <<zero, zeros, new>>), conv, id + 2),
           conv |-> id + 2]
\* The call is given another attribute and takes the place of what followed it.
Absorb(g, i, gte, at) ==
  LET e == EnsureIsConvBiasActivation(g, ConvOf(g, gte))
      h == [e.g EXCEPT !.ins[e.conv].at = [at EXCEPT !.fused = TRUE]]
  IN ReplaceInstruction(h, i, gte)
ReplaceByNewConv(g, i, conv) ==
  ReplaceWithNewInstruction(AddInstruction(g, conv), i, ResultOf(NextId(g), conv))

-----------------------------------------------------------------------------
(* The passes; each is what the pass does at instruction i. *)

\* Instruction i converts a result of one type to another.
ConvertsBack(g, i, from, to) == Type(g, i) = from /\ Type(g, Args(g, i)[1]) = to
Converts(g, i, from, to) == Type(g, Args(g, i)[1]) = from /\ Type(g, i) = to
FuseConvertTypeIntoConv(g, i, conv_type, cvt_type) ==
  LET gte == Args(g, i)[1]
  IN IF /\ Op(g, i) = "convert" /\ IsResult(g, gte, IsConvCustomCall)
        /\ Converts(g, i, conv_type, cvt_type)
        /\ WithOneUser(g, gte)
     THEN ReplaceByNewConv(g, i, [g.ins[ConvOf(g, gte)] EXCEPT !.type = cvt_type])
     ELSE g

FuseConvAlpha(g, i) ==
  LET found == Matches(g, i, LAMBDA x, b :
                 /\ IsResult(g, x, IsNonDepthwiseConvCustomCall) /\ WithOneUse(g, x)
                 /\ BroadcastScalar(g, b))
      gte == found[1][1]
      alpha == Args(g, found[1][2])[1]
      at == At(g, ConvOf(g, gte))
      type == IF Type(g, gte) = "F64" THEN "F64" ELSE "F32"
  IN IF /\ Op(g, i) = "multiply" /\ found # <<>>
        /\ IsLosslesslyConvertibleTo(g, alpha, type)
        /\ at.scale = "1"
     THEN Absorb(g, i, gte, [at EXCEPT !.scale = At(g, alpha).c])
     ELSE g

\* A broadcast along the features is a bias, anything else a side input.  A call
\* that could take a side input has its last operand aliased, whichever it took.
FuseBiasOrSideInput(g, i) ==
  LET found == Matches(g, i, LAMBDA x, b :
                 /\ IsResult(g, x, IsNonDepthwiseConvCustomCall)
                 /\ WithOneUse(g, x) /\ WithOneUse(g, ConvOf(g, x)))
      gte == found[1][1]
      addend == found[1][2]
      e == EnsureIsConvBiasActivation(g, ConvOf(g, gte))
      conv == e.g.ins[e.conv]
      can_accept_bias == BroadcastOf(e.g, conv.args[3], "0")
      can_accept_side_input == Len(conv.args) < 4
      bias_ty == IF Type(g, gte) \in Integral THEN "F32" ELSE Type(g, gte)
      MayBeBias(dims) == /\ Op(g, addend) = "broadcast" /\ At(g, addend).dims = dims
                         /\ IsLosslesslyConvertibleTo(g, addend, bias_ty)
      bias == ConvertTo(e.g, Args(g, addend)[1], bias_ty)
      spread == Instr("broadcast", <<bias.id>>, [dims |-> <<>>], bias_ty, <<Last(Dims(g, gte))>>)
      Fused(call) == IF can_accept_side_input THEN [call EXCEPT !.at.alias = Len(call.args)] ELSE call
  IN CASE Op(g, i) # "add" \/ found = <<>> -> g
       [] conv.at.activation # "none" -> e.g
       [] can_accept_bias /\ MayBeBias(<<Len(Dims(g, gte))>>) ->
            ReplaceByNewConv(bias.g, i, Fused([conv EXCEPT !.args[3] = bias.id]))
       [] can_accept_bias /\ MayBeBias(<<>>) ->
            ReplaceByNewConv(AddInstruction(bias.g, spread), i,
                             Fused([conv EXCEPT !.args[3] = NextId(bias.g)]))
       [] can_accept_side_input ->
            ReplaceByNewConv(e.g, i, Fused([conv EXCEPT !.args = Append(@, addend),
                                                        !.at.side_scale = "1"]))
       [] OTHER -> e.g

\* The side input under its reshapes and transposes, and the same without the factor.
RECURSIVE BeforeReshape(_, _)
BeforeReshape(g, i) ==
  IF Op(g, i) \in {"reshape", "transpose"} THEN BeforeReshape(g, Args(g, i)[1]) ELSE i
RECURSIVE CloneWithout(_, _, _, _)
CloneWithout(g, i, before, base) ==
  IF i = before THEN [g |-> g, id |-> base]
  ELSE LET c == CloneWithout(g, Args(g, i)[1], before, base)
       IN [g |-> AddInstruction(c.g, [g.ins[i] EXCEPT !.args = <<c.id>>]), id |-> NextId(c.g)]

FuseSideInputAlpha(g, i) ==
  LET before == BeforeReshape(g, Args(g, i)[4])
      type == IF Type(g, i) = "F64" THEN "F64" ELSE "F32"
      found == Matches(g, before, LAMBDA x, b :
                 BroadcastScalar(g, b) /\ IsLosslesslyConvertibleTo(g, Args(g, b)[1], type))
      c == CloneWithout(g, Args(g, i)[4], before, found[1][1])
      alpha == At(g, Args(g, found[1][2])[1]).c
  IN IF /\ IsConvCustomCall(g, i) /\ Len(Args(g, i)) > 3
        /\ At(g, i).side_scale = "1"
        /\ Op(g, before) = "multiply" /\ found # <<>>
     THEN ReplaceWithNewInstruction(c.g, i, [g.ins[i] EXCEPT !.args[4] = c.id, !.at.side_scale = alpha])
     ELSE g

FuseRelu(g, i) ==
  LET found == Matches(g, i, LAMBDA z, x :
                 /\ BroadcastOf(g, z, "0")
                 /\ IsResult(g, x, IsNonDepthwiseConvCustomCall)
                 /\ WithOneUse(g, x) /\ WithOneUse(g, ConvOf(g, x)))
      gte == found[1][2]
      at == At(g, ConvOf(g, gte))
  IN IF Op(g, i) = "maximum" /\ found # <<>> /\ at.activation = "none"
     THEN Absorb(g, i, gte, [at EXCEPT !.activation = "relu"])
     ELSE g

\* select(x > 0, x, expm1(x)) of an F16 result that has no other use.
FuseElu(g, i) ==
  LET compare == Args(g, i)[1]
      gte == Args(g, i)[2]
      expm1 == Args(g, i)[3]
      at == At(g, ConvOf(g, gte))
  IN IF /\ Op(g, i) = "select"
        /\ Op(g, compare) = "compare" /\ WithOneUse(g, compare)
        /\ Args(g, compare)[1] = gte /\ BroadcastOf(g, Args(g, compare)[2], "0")
        /\ Op(g, expm1) = "expm1" /\ WithOneUse(g, expm1) /\ Args(g, expm1)[1] = gte
        /\ IsResult(g, gte, IsNonDepthwiseConvCustomCall)
        /\ WithOneUse(g, ConvOf(g, gte)) /\ UserCount(g, gte) = 3
        /\ Type(g, gte) = "F16"
        /\ Len(Args(g, ConvOf(g, gte))) <= 3
        /\ at.even
        /\ at.activation = "none"
     THEN Absorb(g, i, gte, [at EXCEPT !.activation = "elu"])
     ELSE g

FuseConvertToF16(g, i) ==
  LET gte == Args(g, i)[1]
      conv == ConvOf(g, gte)
      c == ConvertOperands(g, conv, [k \in DOMAIN Args(g, conv) |-> "F16"])
  IN IF /\ Op(g, i) = "convert" /\ Type(g, i) = "F16"
        /\ IsResult(g, gte, IsConvCustomCall) /\ WithOneUse(g, gte)
        /\ \A a \in ToSet(Args(g, conv)) : Type(g, a) = "F32" /\ IsLosslesslyConvertibleTo(g, a, "F16")
     THEN ReplaceByNewConv(c.g, i, [g.ins[conv] EXCEPT !.args = c.args, !.type = "F16"])
     ELSE g

\* S8 operands; the bias keeps its type and the side input has the type of the result.
OperandTypes(g, conv, out) ==
  [k \in DOMAIN Args(g, conv) |-> CASE k <= 2 -> "S8" [] k = 3 -> Type(g, Args(g, conv)[3]) [] k = 4 -> out]
FuseConvertToS8(g, i) ==
  LET Clamped == /\ Op(g, i) = "convert" /\ Type(g, i) = "S8"
                 /\ Op(g, Args(g, i)[1]) = "clamp"
                 /\ WithOneUse(g, Args(g, Args(g, i)[1])[2])
      gte == IF Op(g, i) = "get-tuple-element" THEN i ELSE Args(g, Args(g, i)[1])[2]
      conv == ConvOf(g, gte)
      out == IF Op(g, i) = "get-tuple-element" THEN "F32" ELSE "S8"
      SideFits == Len(Args(g, conv)) > 3 =>
                    IF out = "S8" THEN IsLosslesslyConvertibleTo(g, Args(g, conv)[4], "S8")
                                  ELSE Type(g, Args(g, conv)[4]) = "F32"
      c == ConvertOperands(g, conv, OperandTypes(g, conv, out))
  IN IF /\ Clamped \/ (Op(g, i) = "get-tuple-element" /\ Type(g, i) = "F32")
        /\ IsResult(g, gte, IsConvCustomCall)
        /\ \A k \in 1..2 : IsLosslesslyConvertibleTo(g, Args(g, conv)[k], "S8")
        /\ SideFits
     THEN ReplaceByNewConv(c.g, i, [g.ins[conv] EXCEPT !.args = c.args, !.type = out])
     ELSE g

\* The library has no integer convolutions but those on S8.
CheckNoIllegalIntegerConvs(g) ==
  LET Bad(t) == t \in Integral \ {"S8"}
      bad == {i \in Ids(g) : IsConvCustomCall(g, i) /\
                \/ Bad(Type(g, i))
                \/ \E k \in {1, 2, 4} \cap DOMAIN Args(g, i) : Bad(Type(g, Args(g, i)[k]))}
  IN IF bad = {} THEN g ELSE Failed(g)

\* The passes of Run, in their order.
ConvPasses == <<"FuseRemoveConvertInConv1", "FuseRemoveConvertInConv2", "FuseRemoveConvertInConv3",
                "FuseConvAlpha", "FuseBiasOrSideInput", "FuseBiasOrSideInput",
                "FuseSideInputAlpha", "FuseRelu", "FuseElu", "FuseConvertToF16", "FuseConvertToS8",
                "FuseBiasOrSideInput", "FuseBiasOrSideInput", "FuseSideInputAlpha", "FuseRelu", "FuseElu">>
ConvVisit(pass, g, i) ==
  CASE pass = "FuseRemoveConvertInConv1" -> FuseConvertTypeIntoConv(g, i, "S32", "F32")
    [] pass = "FuseRemoveConvertInConv2" -> FuseConvertTypeIntoConv(g, i, "S8", "F32")
    [] pass = "FuseRemoveConvertInConv3" -> FuseConvertTypeIntoConv(g, i, "F32", "S8")
    [] pass = "FuseConvAlpha" -> FuseConvAlpha(g, i)
    [] pass = "FuseBiasOrSideInput" -> FuseBiasOrSideInput(g, i)
    [] pass = "FuseSideInputAlpha" -> FuseSideInputAlpha(g, i)
    [] pass = "FuseRelu" -> FuseRelu(g, i)
    [] pass = "FuseElu" -> FuseElu(g, i)
    [] pass = "FuseConvertToF16" -> FuseConvertToF16(g, i)
    [] pass = "FuseConvertToS8" -> FuseConvertToS8(g, i)
=============================================================================
