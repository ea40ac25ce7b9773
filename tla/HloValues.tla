----------------------------- MODULE HloValues ------------------------------
(***************************************************************************)
(* What every instruction of a graph computes, the library calls the       *)
(* rewriters create included.                                              *)
(***************************************************************************)
EXTENDS HloGraph

(* A gemm call: operands a, b, then the matrix C when beta is not 0, then  *)
(* the vector of the epilogue; the epilogue is applied last.               *)
HasVector(at) == at.epilogue \in {"BIAS", "BIAS_RELU", "BIAS_GELU", "BIAS_GELU_AUX"}
GemmSum(at, ldims, rdims, rank, v) ==
  LET product == DotTerm(at.n, ldims, rdims, v[1], v[2])
      matrix == IF at.beta = 1 THEN v[3] ELSE Const("0")
      vector == IF HasVector(at) THEN Broadcast(Last(v), <<rank>>) ELSE Const("0")
  IN Add(product, Add(matrix, vector))
Epilogue(e, x) ==
  CASE e \in {"DEFAULT", "BIAS"} -> <<x>>
    [] e \in {"RELU", "BIAS_RELU"} -> <<Relu(x)>>
    [] e \in {"GELU", "BIAS_GELU"} -> <<Gelu(x)>>
    [] e \in {"GELU_AUX", "BIAS_GELU_AUX"} -> <<Gelu(x), x>>

(* A convolution call: operands x, w, then bias, then side input.  The     *)
(* result is saturated when its type is S8.                                *)
Activation(mode, x) == CASE mode = "none" -> x [] mode = "relu" -> Relu(x) [] mode = "elu" -> Elu(x)
ConvTerm(at, type, dims, v) ==
  LET product == Mul(Const(at.scale), <<"conv", v[1], v[2]>>)
      bias == IF Len(v) > 2 THEN Broadcast(v[3], <<Len(dims)>>) ELSE Const("0")
      side == IF Len(v) > 3 THEN Mul(Const(at.side_scale), v[4]) ELSE Const("0")
      y == Activation(at.activation, Add(product, Add(bias, side)))
  IN IF type = "S8" THEN Saturated(y) ELSE y

(* A fused attention call: operands q, k, v, then mask, then bias.         *)
FmhaTerm(at, qdims, kdims, vdims, v) ==
  LET scores == Mul(Const(at.scale), DotTerm(at.n1, qdims, kdims, v[1], v[2]))
      bias == IF at.bias THEN Last(v) ELSE Const("0")
      biased == Add(scores, bias)
      masked == IF at.mask THEN <<"select", v[4], biased, Const("lowest")>> ELSE biased
      probabilities == IF at.softmax THEN Softmax(masked, at.rows) ELSE masked
  IN DotTerm(at.n2, at.probs, vdims, probabilities, v[3])

RECURSIVE Value(_, _)
\* The results of instruction i; all but a few have one.
Results(g, i) ==
  LET at == At(g, i)
      v == [k \in DOMAIN Args(g, i) |-> Value(g, Args(g, i)[k])]
      d(k) == Dims(g, Args(g, i)[k])
      op == Op(g, i)
  IN CASE op = "param" -> <<<<"param", at.name, Type(g, i)>>>>
       [] op = "const" -> <<Const(at.c)>>
       [] op = "literal" -> <<at.value>>
       [] op \in {"bitcast", "reshape", "copy"} -> <<v[1]>>
       [] op = "transpose" -> <<Transposed(v[1])>>
       [] op = "broadcast" -> <<Broadcast(v[1], at.dims)>>
       [] op = "convert" -> <<ConvertTerm(Type(g, i), v[1])>>
       [] op = "add" -> <<Add(v[1], v[2])>>
       [] op = "multiply" -> <<Mul(v[1], v[2])>>
       [] op = "maximum" -> <<<<"maximum", {v[1], v[2]}>>>>
       [] op = "clamp" -> <<Saturated(v[2])>>
       [] op = "slice" -> <<SliceTerm(at.part, v[1])>>
       [] op = "reduce" -> <<<<"reduce", at.by, v[1]>>>>
       [] op = "dot" -> <<DotTerm(at.n, d(1), d(2), v[1], v[2])>>
       [] op = "gemm" -> Epilogue(at.epilogue, GemmSum(at, d(1), d(2), Len(Dims(g, i)), v))
       [] op = "conv" -> <<ConvTerm(at, Type(g, i), Dims(g, i), v)>>
       [] op = "fmha" -> <<FmhaTerm(at, d(1), d(2), d(3), v)>>
       [] op = "potrf" -> <<<<"cholesky">> \o v, Const("workspace"), Const("info")>>
       [] op = "trsm" -> <<<<"triangular-solve">> \o v, Const("temp")>>
       [] op = "tuple" -> v
       [] OTHER -> <<<<op>> \o v>>      \* tanh, exponential, subtract, select, solvers, ...
Value(g, i) == IF Op(g, i) = "get-tuple-element"
               THEN Results(g, Args(g, i)[1])[At(g, i).k]
               ELSE Results(g, i)[1]

\* What the computation returns.
Meaning(g) == IF Op(g, g.root) = "tuple" THEN Results(g, g.root) ELSE <<Value(g, g.root)>>
=============================================================================
