---------------------------- MODULE GemmRewriter ----------------------------
(***************************************************************************)
(* gemm_rewriter.cc: matrix products become calls of the library, and what *)
(* follows a product (a bias, a matrix that is added, an activation) moves *)
(* into the call.  FP8 calls need CUDA, so this build never creates one:   *)
(* an FP8 product becomes an F16 product.                                  *)
(***************************************************************************)
EXTENDS HloValues

GemmAttr(target, n) ==
  [target |-> target, n |-> n, beta |-> 0, epilogue |-> "DEFAULT", alias |-> 0]

IsGemm(g, i, targets) == Op(g, i) = "gemm" /\ At(g, i).target \in targets
LtMatmul == {"lt"}
AnyGemm == {"lt", "legacy"}

SupportsEpilogueFusion(type) == type \in {"F8", "F16", "BF16", "F32", "F64"}

\* The types of lhs, rhs and result, at the default compute precision.
TypesAreSupportedByCublasLt(a, b, out) ==
  <<a, b, out>> \in ({"F8"} \X {"F8"} \X {"F8", "BF16", "F16", "F32"})
              \cup {<<"F16", "F16", "F16">>, <<"F16", "F16", "F32">>,
                    <<"BF16", "BF16", "BF16">>, <<"BF16", "BF16", "F32">>,
                    <<"S8", "S8", "S32">>, <<"S8", "S8", "F32">>,
                    <<"F32", "F32", "F32">>, <<"F64", "F64", "F64">>, <<"C64", "C64", "C64">>}

kMaxBatchCount == 65535
BatchCount(n, dims) ==
  IF n.lb = <<>> THEN 0 ELSE FoldLeft(LAMBDA c, d : c * dims[d], 1, n.lb)
GemmIsSupportedByCublasLt(g, dot) ==
  LET a == Args(g, dot)[1] b == Args(g, dot)[2]
  IN /\ TypesAreSupportedByCublasLt(Type(g, a), Type(g, b), Type(g, dot))
     /\ BatchCount(At(g, dot).n, Dims(g, a)) <= kMaxBatchCount

GetNonFp8GemmCustomCallTarget(g, dot) ==
  IF \E k \in 1..2 : Type(g, Args(g, dot)[k]) = "S8" THEN "legacy"
  ELSE IF GemmIsSupportedByCublasLt(g, dot) THEN "lt" ELSE "legacy"

\* Both operands are converted to F16, and the result back.
TurnF8DotIntoF16Dot(g, i) ==
  LET id == NextId(g)
      Operand(k) == Instr("convert", <<Args(g, i)[k]>>, NoAttr, "F16", Dims(g, Args(g, i)[k]))
      dot == [g.ins[i] EXCEPT !.args = <<id, id + 1>>, !.type = "F16"]
      back == Instr("convert", <<id + 2>>, NoAttr, Type(g, i), Dims(g, i))
  IN ReplaceInstruction(AddInstructions(g, <<Operand(1), Operand(2), dot, back>>), i, id + 3)

\* A product with two free dimensions, one on either side.
IsMatrixMultiplication(g, i) ==
  LET n == At(g, i).n
  IN /\ Cardinality(Free(Dims(g, Args(g, i)[1]), n.lb, n.lc)) = 1
     /\ Cardinality(Free(Dims(g, Args(g, i)[2]), n.rb, n.rc)) = 1

HandleDot(g, i) ==
  LET f8 == Type(g, Args(g, i)[1]) = "F8"
      h == IF f8 THEN TurnF8DotIntoF16Dot(g, i) ELSE g
      dot == IF f8 THEN NextId(g) + 2 ELSE i
      call == [h.ins[dot] EXCEPT !.op = "gemm",
                 !.at = GemmAttr(GetNonFp8GemmCustomCallTarget(h, dot), @.n)]
      transposed == \E k \in 1..2 : LET a == Args(g, i)[k] IN Op(g, a) = "transpose" /\ Len(Dims(g, a)) = 2
  IN CASE ~IsMatrixMultiplication(g, i) -> g
       [] transposed -> Failed(g)
       [] OTHER -> ReplaceWithNewInstruction(h, dot, call)

-----------------------------------------------------------------------------
(* The sum of a call and a matrix.  The library overwrites the matrix.     *)

\* Mutant: another reader of the matrix does not matter.
AnyReader(g, bias) == Op(g, bias) = "param" => At(g, bias).donated
\* Nobody else reads the matrix, and it is not a caller's that was not donated.
CanOverwriteBias(g, bias) ==
  /\ UserCount(g, bias) <= 1
  /\ Op(g, bias) = "param" => At(g, bias).donated

\* A broadcast of a vector of constants is computed now.
MaybeConstantFoldBias(g, bias) ==
  LET under == IF Op(g, bias) \in {"reshape", "transpose", "bitcast"} THEN Args(g, bias)[1] ELSE bias
  IN IF /\ Op(g, under) = "broadcast"
        /\ Op(g, Args(g, under)[1]) = "const" /\ Dims(g, Args(g, under)[1]) # <<>>
     THEN Instr("literal", <<>>, [value |-> Value(g, bias)], Type(g, bias), Dims(g, bias))
     ELSE g.ins[bias]

\* The matrix is added before the epilogue; only a vector that is added commutes with it.
AnyEpilogueCommutes(at) == TRUE
MatrixBiasCommutes(at) == at.epilogue \in {"DEFAULT", "BIAS"}

FuseMatrixBiasAdd(g, i, bias, gemm) ==
  LET at == At(g, gemm)
      folded == MaybeConstantFoldBias(g, bias)
      h == IF folded = g.ins[bias] THEN g ELSE AddInstruction(g, folded)
      matrix == IF folded = g.ins[bias] THEN bias ELSE NextId(g)
      call == [g.ins[gemm] EXCEPT !.args = InsertAt(@, 3, matrix),
                                  !.at.beta = 1, !.at.alias = 3]
  IN CASE Dims(g, bias) # Dims(g, gemm) -> Failed(g)
       [] \/ Type(g, gemm) = "S32"
          \/ at.beta # 0
          \/ ~CanOverwriteBias(g, bias)
          \/ UserCount(g, gemm) # 1
          \/ ~MatrixBiasCommutes(at) -> g
       [] OTHER -> ReplaceWithNewInstruction(h, i, call)

-----------------------------------------------------------------------------
(* Epilogues. *)

\* The result of a call, perhaps sliced or cast, becomes the result of another call.
ReplaceThrough(g, i, via, call) ==
  IF via = {} THEN ReplaceWithNewInstruction(g, i, call)
  ELSE LET v == CHOOSE v \in via : TRUE
       IN ReplaceWithNewInstruction(AddInstruction(g, call), i,
                                    [g.ins[v] EXCEPT !.args = <<NextId(g)>>])

\* The vector has one element per column, in the order of the columns.
FuseVectorBiasAdd(g, i, broadcast, gemm, slice) ==
  LET vector == Args(g, broadcast)[1]
      call == [g.ins[gemm] EXCEPT !.args = Append(@, vector), !.at.epilogue = "BIAS"]
  IN IF /\ SupportsEpilogueFusion(Type(g, gemm))
        /\ UserCount(g, gemm) = 1
        /\ At(g, gemm).epilogue = "DEFAULT"
        /\ Len(Dims(g, vector)) = 1
        /\ At(g, broadcast).dims = <<Len(Dims(g, gemm))>>
     THEN ReplaceThrough(g, i, slice, call)
     ELSE g

FuseReluActivation(g, i, gemm, via) ==
  LET at == At(g, gemm)
      to == [DEFAULT |-> "RELU", BIAS |-> "BIAS_RELU"]
  IN IF /\ SupportsEpilogueFusion(Type(g, gemm))
        /\ UserCount(g, gemm) = 1
        /\ at.epilogue \in DOMAIN to
     THEN ReplaceThrough(g, i, via, [g.ins[gemm] EXCEPT !.at.epilogue = to[at.epilogue]])
     ELSE g

\* With more than the four users inside GELU, the call also returns its argument.
FuseGeluActivation(g, i, gemm) ==
  LET at == At(g, gemm)
      aux == UserCount(g, gemm) > 4
      to == IF aux THEN [DEFAULT |-> "GELU_AUX", BIAS |-> "BIAS_GELU_AUX"]
                   ELSE [DEFAULT |-> "GELU", BIAS |-> "BIAS_GELU"]
      call == [g.ins[gemm] EXCEPT !.at.epilogue = to[at.epilogue]]
      id == NextId(g)
      Element(k) == Instr("get-tuple-element", <<id>>, [k |-> k], Type(g, gemm), Dims(g, gemm))
      h == ReplaceAllUsesWith(AddInstructions(g, <<call, Element(2), Element(1)>>), gemm, id + 1)
  IN CASE ~SupportsEpilogueFusion(Type(g, gemm)) \/ at.epilogue \notin DOMAIN to -> g
       [] aux -> ReplaceInstruction(h, i, id + 2)
       [] OTHER -> ReplaceWithNewInstruction(g, i, call)

-----------------------------------------------------------------------------
(* The patterns. *)

\* 0.5 * (1 + tanh(sqrt(2/pi) * (x + 0.044715 * x^3))), each part used once.
IsCdf(g, cdf, x) ==
  LET X(i) == x \in Optional(g, i, "bitcast")
      Product(i, Fits(_, _)) == Op(g, i) = "multiply" /\ Matches(g, i, Fits) # <<>>
      Sum(i, Fits(_, _)) == Op(g, i) = "add" /\ Matches(g, i, Fits) # <<>>
      Square(i) == WithOneUser(g, i) /\ Product(i, LAMBDA a, b : X(a) /\ X(b))
      Cube(i) == WithOneUser(g, i) /\ Product(i, LAMBDA a, b : X(a) /\ Square(b))
      Third(i) == WithOneUser(g, i) /\ Product(i, LAMBDA a, b : BroadcastOf(g, a, "gelu_3") /\ Cube(b))
      Inner(i) == WithOneUser(g, i) /\ Sum(i, LAMBDA a, b : X(a) /\ Third(b))
      Scaled(i) == WithOneUser(g, i) /\ Product(i, LAMBDA a, b : BroadcastOf(g, a, "sqrt_2_pi") /\ Inner(b))
      Tan(i) == WithOneUser(g, i) /\ Op(g, i) = "tanh" /\ Scaled(Args(g, i)[1])
      OnePlus(i) == Sum(i, LAMBDA a, b : BroadcastOf(g, a, "1") /\ Tan(b))
  IN WithOneUser(g, cdf) /\ Product(cdf, LAMBDA a, b : BroadcastOf(g, a, "half") /\ OnePlus(b))

HandleMultiply(g, i) ==
  LET Gemms(a) == {x \in Optional(g, a, "bitcast") : IsGemm(g, x, LtMatmul)}
      found == Matches(g, i, LAMBDA a, b : \E x \in Gemms(a) : IsCdf(g, b, x))
  IN IF found = <<>> THEN g
     ELSE LET gemm == CHOOSE x \in Gemms(found[1][1]) : TRUE
              back == {u \in Users(g, i) : Op(g, u) = "bitcast" /\ Dims(g, u) = Dims(g, gemm)}
          IN IF UserCount(g, i) = 1 /\ back # {}
             THEN FuseGeluActivation(g, CHOOSE u \in back : TRUE, gemm)
             ELSE FuseGeluActivation(g, i, gemm)

\* add(bitcast(gemm), bias) becomes bitcast(add(gemm, bitcast(bias))); the new sum.
MoveBitcastDown(g, i, gemm, bias) ==
  LET id == NextId(g)
      cast == Instr("bitcast", <<bias>>, NoAttr, Type(g, bias), Dims(g, gemm))
      sum == Instr("add", <<gemm, id>>, NoAttr, Type(g, gemm), Dims(g, gemm))
      out == Instr("bitcast", <<id + 1>>, NoAttr, Type(g, i), Dims(g, i))
  IN ReplaceInstruction(AddInstructions(g, <<cast, sum, out>>), i, id + 2)

HandleAdd(g, i) ==
  LET Gemm(h, x, targets) == IsGemm(h, x, targets) /\ WithOneUser(h, x)
      Cast(h, x, targets) == Op(h, x) = "bitcast" /\ WithOneUser(h, x) /\ Gemm(h, Args(h, x)[1], targets)
      \* a vector bias, also of a slice
      Sliced(x) == Op(g, x) = "slice" /\ WithOneUser(g, x) /\ Gemm(g, Args(g, x)[1], LtMatmul)
      rows == Matches(g, i, LAMBDA x, b : (Sliced(x) \/ Gemm(g, x, LtMatmul)) /\ Op(g, b) = "broadcast")
      x1 == rows[1][1]
      g1 == IF rows = <<>> THEN g
            ELSE IF Sliced(x1) THEN FuseVectorBiasAdd(g, i, rows[1][2], Args(g, x1)[1], {x1})
            ELSE FuseVectorBiasAdd(g, i, rows[1][2], x1, {})
      \* a bias of a cast result: a broadcast used once, or not a broadcast
      casts == Matches(g, i, LAMBDA x, b :
                 \/ Cast(g, x, LtMatmul) /\ Op(g, b) = "broadcast" /\ WithOneUser(g, b)
                 \/ Cast(g, x, AnyGemm) /\ Op(g, b) # "broadcast")
      g2 == IF casts = <<>> THEN g ELSE MoveBitcastDown(g, i, Args(g, casts[1][1])[1], casts[1][2])
      i2 == IF casts = <<>> THEN i ELSE NextId(g) + 1
      \* a matrix
      sums == Matches(g2, i2, LAMBDA x, b : Gemm(g2, x, AnyGemm) /\ Op(g2, b) # "broadcast")
  IN CASE g1 # g -> g1
       [] g2.status # "ok" -> g2
       [] sums = <<>> -> g2
       [] OTHER -> FuseMatrixBiasAdd(g2, i2, sums[1][2], sums[1][1])

HandleMaximum(g, i) ==
  LET Gemm(x) == IsGemm(g, x, LtMatmul) /\ WithOneUser(g, x)
      Via(x) == Op(g, x) \in {"slice", "bitcast"} /\ WithOneUser(g, x) /\ Gemm(Args(g, x)[1])
      found == Matches(g, i, LAMBDA x, z : (Via(x) \/ Gemm(x)) /\ BroadcastOf(g, z, "0"))
      x1 == found[1][1]
  IN CASE found = <<>> -> g
       [] Via(x1) -> FuseReluActivation(g, i, Args(g, x1)[1], {x1})
       [] OTHER -> FuseReluActivation(g, i, x1, {})

\* What the visitor does at instruction i.
GemmRewriterVisit(g, i) ==
  CASE Op(g, i) = "dot" -> HandleDot(g, i)
    [] Op(g, i) = "multiply" -> HandleMultiply(g, i)
    [] Op(g, i) = "add" -> HandleAdd(g, i)
    [] Op(g, i) = "maximum" -> HandleMaximum(g, i)
    [] OTHER -> g
=============================================================================
