--------------------------- MODULE MCGpuCompiler ---------------------------
(* Small programs around one product, one convolution or one attention      *)
(* block, and programs with traits only.                                     *)
EXTENDS GpuCompiler

CONSTANT Family     \* which programs: "sound" or "two_biases"

-----------------------------------------------------------------------------
(* Programs are built by layers on a current value. *)

Add1(p, ins) == [p EXCEPT !.ins = Append(@, ins), !.cur = Len(p.ins) + 1]
Cur(p) == p.ins[p.cur]
AddAll(p, seq) == FoldLeft(Add1, p, seq)
NewId(p, k) == Len(p.ins) + k
Param(p, type, dims, donated) ==
  Instr("param", <<>>, [name |-> NewId(p, 1), donated |-> donated], type, dims)
Constant(c, type) == Instr("const", <<>>, [c |-> c], type, <<>>)
Spread(a, dims, type, to) == Instr("broadcast", <<a>>, [dims |-> dims], type, to)
Like(p, op, args) == Instr(op, args, NoAttr, Cur(p).type, Cur(p).dims)
Keep(p) == [p EXCEPT !.kept = Append(@, p.cur)]
Program(p) == Graph(IF p.kept = <<>> THEN p.ins
                    ELSE Append(p.ins, Instr("tuple", <<p.cur>> \o p.kept, NoAttr, "F32", <<>>)))
Empty == [ins |-> <<>>, cur |-> 0, kept |-> <<>>]

\* The current value and another one, in either order.
Binary(p, op, other, first) ==
  Add1(p, Like(p, op, IF first THEN <<other, p.cur>> ELSE <<p.cur, other>>))
\* ... with a constant, a vector along dimension d, a matrix.
WithConstant(p, op, c) ==
  LET q == AddAll(p, <<Constant(c, Cur(p).type), Spread(NewId(p, 1), <<>>, Cur(p).type, Cur(p).dims)>>)
  IN Binary([q EXCEPT !.cur = p.cur], op, q.cur, FALSE)
WithVector(p, d, first) ==
  LET q == AddAll(p, <<Param(p, Cur(p).type, <<Cur(p).dims[d]>>, FALSE),
                       Spread(NewId(p, 1), <<d>>, Cur(p).type, Cur(p).dims)>>)
  IN Binary([q EXCEPT !.cur = p.cur], "add", q.cur, first)
\* ... with a vector of constants whose broadcast is cast or transposed.
WithFoldable(p) ==
  LET to == <<1>> \o Cur(p).dims
      q == AddAll(p, <<Instr("const", <<>>, [c |-> "row_of_constants"], Cur(p).type, <<Last(Cur(p).dims)>>),
                       Spread(NewId(p, 1), <<Len(to)>>, Cur(p).type, to),
                       Instr("bitcast", <<NewId(p, 2)>>, NoAttr, Cur(p).type, Cur(p).dims)>>)
  IN Binary([q EXCEPT !.cur = p.cur], "add", q.cur, FALSE)
WithMatrix(p, donated) ==
  LET q == Add1(p, Param(p, Cur(p).type, Cur(p).dims, donated))
  IN Binary([q EXCEPT !.cur = p.cur], "add", q.cur, FALSE)
Computed(p) ==
  AddAll(p, <<Param(p, Cur(p).type, Cur(p).dims, FALSE),
              Instr("tanh", <<NewId(p, 1)>>, NoAttr, Cur(p).type, Cur(p).dims)>>)
WithValue(p, twice) ==
  LET q == Computed(p)
      r == Binary([q EXCEPT !.cur = p.cur], "add", q.cur, FALSE)
  IN IF twice THEN [r EXCEPT !.kept = Append(@, q.cur)] ELSE r
\* x, op, the current value.
Joined(p, x, op) == Binary([p EXCEPT !.cur = x], op, p.cur, FALSE)
TanhLayer(p) == Add1(p, Like(p, "tanh", <<p.cur>>))
Cubed(p, x) == Joined(Joined(p, x, "multiply"), x, "multiply")
GeluLayer(p) ==
  LET inner == WithConstant(Joined(WithConstant(Cubed(p, p.cur), "multiply", "gelu_3"), p.cur, "add"),
                            "multiply", "sqrt_2_pi")
      cdf == WithConstant(WithConstant(TanhLayer(inner), "add", "1"), "multiply", "half")
  IN Joined(cdf, p.cur, "multiply")

Layer(p, l) ==
  CASE l = "row" -> WithVector(p, Len(Cur(p).dims), FALSE)
    [] l = "row_first" -> WithVector(p, Len(Cur(p).dims), TRUE)
    [] l = "column" -> WithVector(p, 1, FALSE)
    [] l = "constants" -> WithFoldable(p)
    [] l = "donated" -> WithMatrix(p, TRUE)
    [] l = "matrix" -> WithMatrix(p, FALSE)
    [] l = "value" -> WithValue(p, FALSE)
    [] l = "value_twice" -> WithValue(p, TRUE)
    [] l = "scalar" -> WithConstant(p, "add", "c")
    [] l = "relu" -> WithConstant(p, "maximum", "0")
    [] l = "gelu" -> GeluLayer(p)
    [] l = "keep" -> Keep(p)
    [] l = "rows" -> Add1(p, Instr("slice", <<p.cur>>, [part |-> "rows"], Cur(p).type, [Cur(p).dims EXCEPT ![1] = 1]))
    [] l = "flat" -> Add1(p, Instr("bitcast", <<p.cur>>, NoAttr, Cur(p).type, <<1>> \o Cur(p).dims))
    [] l = "unflat" -> Add1(p, Instr("bitcast", <<p.cur>>, NoAttr, Cur(p).type, Tail(Cur(p).dims)))
    [] l = "scale" -> WithConstant(p, "multiply", "c")
    [] l = "scale_fine" -> WithConstant(p, "multiply", "fine")
    [] l = "side_scaled" ->
         LET q == WithConstant(Add1(p, Param(p, Cur(p).type, Cur(p).dims, FALSE)), "multiply", "c")
         IN Binary([q EXCEPT !.cur = p.cur], "add", q.cur, FALSE)
    [] l = "elu" ->
         LET q == AddAll(p, <<Constant("0", Cur(p).type), Spread(NewId(p, 1), <<>>, Cur(p).type, Cur(p).dims),
                              Like(p, "compare", <<p.cur, NewId(p, 2)>>), Like(p, "expm1", <<p.cur>>)>>)
         IN Add1(q, Like(p, "select", <<q.cur - 1, p.cur, q.cur>>))
    [] l \in {"F16", "F32"} -> Add1(p, Instr("convert", <<p.cur>>, NoAttr, l, Cur(p).dims))
    [] l = "S8" ->
         LET q == AddAll(p, <<Constant("lowest", Cur(p).type), Constant("highest", Cur(p).type)>>)
         IN AddAll(q, <<Like(p, "clamp", <<q.cur - 1, p.cur, q.cur>>),
                        Instr("convert", <<q.cur + 1>>, NoAttr, "S8", Cur(p).dims)>>)
    [] l = "sideS8" ->      \* a tensor that was widened from S8
         LET q == AddAll(p, <<Param(p, "S8", Cur(p).dims, FALSE),
                              Instr("convert", <<NewId(p, 1)>>, NoAttr, Cur(p).type, Cur(p).dims)>>)
         IN Binary([q EXCEPT !.cur = p.cur], "add", q.cur, FALSE)
Layers(p, ls) == FoldLeft(Layer, p, ls)

UpTo(S, n) == UNION {[1..k -> S] : k \in 0..n}
Then(As, Bs) == {a \o b : a \in As, b \in Bs}

-----------------------------------------------------------------------------
(* Products. *)

Num(lb, lc, rb, rc) == [n |-> [lb |-> lb, lc |-> lc, rb |-> rb, rc |-> rc]]
Dot(type, out) ==
  LET a == Add1(Empty, Param(Empty, type, <<2, 3>>, FALSE))
      b == Add1(a, Param(a, type, <<3, 4>>, FALSE))
  IN Add1(b, Instr("dot", <<1, 2>>, Num(<<>>, 2, <<>>, 1), out, <<2, 4>>))
\* The right operand is a transpose; a product of a matrix and a vector; a batch.
DotOfTranspose ==
  LET a == AddAll(Empty, <<Param(Empty, "F32", <<2, 3>>, FALSE),
                           Instr("param", <<>>, [name |-> 2, donated |-> FALSE], "F32", <<4, 3>>),
                           Instr("transpose", <<2>>, NoAttr, "F32", <<3, 4>>)>>)
  IN Add1(a, Instr("dot", <<1, 3>>, Num(<<>>, 2, <<>>, 1), "F32", <<2, 4>>))
DotOfVector(left) ==
  LET a == AddAll(Empty, <<Param(Empty, "F16", IF left THEN <<5, 3>> ELSE <<5, 2, 3>>, FALSE),
                           Instr("param", <<>>, [name |-> 2, donated |-> FALSE], "F16",
                                 IF left THEN <<5, 3, 4>> ELSE <<5, 3>>)>>)
  IN Add1(a, Instr("dot", <<1, 2>>, Num(<<1>>, IF left THEN 2 ELSE 3, <<1>>, 2), "F16",
                   IF left THEN <<5, 4>> ELSE <<5, 2>>))
Batched ==
  LET a == AddAll(Empty, <<Param(Empty, "F16", <<5, 2, 3>>, FALSE),
                           Instr("param", <<>>, [name |-> 2, donated |-> FALSE], "F16", <<5, 3, 4>>)>>)
  IN Add1(a, Instr("dot", <<1, 2>>, Num(<<1>>, 3, <<1>>, 2), "F16", <<5, 2, 4>>))

ProductBase(b) ==
  CASE b = "F32" -> Dot("F32", "F32")
    [] b = "F8" -> Dot("F8", "F32")
    [] b = "S8" -> Dot("S8", "S32")
    [] b = "C64" -> Dot("C64", "C64")
    [] b = "batch" -> Batched
    [] b = "transpose" -> DotOfTranspose
    [] b = "left_vector" -> DotOfVector(TRUE)
    [] b = "right_vector" -> DotOfVector(FALSE)
GemmLayers == {"row", "row_first", "column", "donated", "matrix", "value", "value_twice", "scalar",
               "constants", "relu", "gelu", "keep", "rows", "flat"}
OnProduct(b, Ls) == {[kind |-> "product", base |-> b, layers |-> ls] : ls \in Ls}
\* GELU of a cast result compiles only when it is cast back.
CastBack(ls) == \A j \in DOMAIN ls : ls[j] = "gelu" =>
                  \/ \A k \in 1..j - 1 : ls[k] # "flat"
                  \/ j < Len(ls) /\ ls[j + 1] = "unflat"
Products ==
  OnProduct("F32", {ls \in UpTo(GemmLayers, 2) : CastBack(ls)} \cup
                   Then({<<"flat", "gelu", "unflat">>, <<"row", "flat", "gelu", "unflat">>}, UpTo(GemmLayers, 1)) \cup
                   {ls \in {l \o <<m>> : l \in {<<"row", "value">>, <<"row", "flat">>, <<"value", "row">>, <<"value", "keep">>,
                                       <<"flat", "value">>, <<"rows", "row">>, <<"gelu", "keep">>, <<"row", "keep">>}, m \in GemmLayers} : CastBack(ls)})
  \cup UNION {OnProduct(b, UpTo(GemmLayers, 1)) :
                b \in {"F8", "S8", "C64", "batch", "transpose"}}
VectorProducts ==      \* the result of these is a cast one
  OnProduct("F32", UpTo(GemmLayers, 1)) \cup
  UNION {OnProduct(b, UpTo(GemmLayers \ {"gelu"}, 2)) : b \in {"left_vector", "right_vector"}}

-----------------------------------------------------------------------------
(* Convolutions. *)

ConvDims == <<2, 4, 4, 8>>
Conv(x, out, depthwise, even) ==
  LET p == Add1(Empty, Param(Empty, x, ConvDims, FALSE))
      q == Add1(p, Param(p, x, <<8, 3, 3, 8>>, FALSE))
  IN AddAll(q, <<Instr("conv", <<1, 2>>, ConvAttr(depthwise, even), out, ConvDims),
                 Instr("get-tuple-element", <<3>>, [k |-> 1], out, ConvDims)>>)
\* Operands that were widened from a narrower type.
WideConv(narrow) ==
  LET p == AddAll(Empty, <<Param(Empty, narrow, ConvDims, FALSE),
                           Instr("convert", <<1>>, NoAttr, "F32", ConvDims),
                           Instr("param", <<>>, [name |-> 3, donated |-> FALSE], narrow, <<8, 3, 3, 8>>),
                           Instr("convert", <<3>>, NoAttr, "F32", <<8, 3, 3, 8>>)>>)
  IN AddAll(p, <<Instr("conv", <<2, 4>>, ConvAttr(FALSE, TRUE), "F32", ConvDims),
                 Instr("get-tuple-element", <<5>>, [k |-> 1], "F32", ConvDims)>>)
ConvBase(b) ==
  CASE b = "F32" -> Conv("F32", "F32", FALSE, TRUE)
    [] b = "F16" -> Conv("F16", "F16", FALSE, TRUE)
    [] b = "odd" -> Conv("F16", "F16", FALSE, FALSE)
    [] b = "depthwise" -> Conv("F32", "F32", TRUE, TRUE)
    [] b = "wideF16" -> WideConv("F16")
    [] b = "wideS8" -> WideConv("S8")
    [] b = "integer" -> Conv("S8", "S32", FALSE, TRUE)
OnConv(b, Ls) == {[kind |-> "conv", base |-> b, layers |-> ls] : ls \in Ls}
ConvLayers == {"scale", "row", "scalar", "matrix", "side_scaled", "relu", "keep"}
MaybeS8 == {<<>>, <<"S8">>}
Convolutions ==
  OnConv("F32", UpTo(ConvLayers, 3))
  \cup UNION {OnConv(b, UpTo(ConvLayers \cup {"elu", "scale_fine"}, 2)) : b \in {"F16", "odd", "depthwise"}}
  \cup OnConv("wideF16", Then(Then(UpTo({"scale", "scalar", "relu"}, 2), {<<"F16">>}),
                              UpTo({"row", "matrix", "relu", "elu"}, 1)))
  \cup OnConv("wideS8", Then(UpTo({"scale", "row", "scalar", "sideS8", "matrix", "relu"}, 2), MaybeS8))
  \cup OnConv("integer", Then({<<"F32">>}, Then(UpTo({"scale", "row", "sideS8", "relu"}, 2), MaybeS8)))

-----------------------------------------------------------------------------
(* Attention: q k', then a factor, a bias and a mask, softmax, and v. *)

Heads == <<5, 6>>
Four(m, n) == Heads \o <<m, n>>
BatchDims == <<1, 2>>
Scores(type, turned) ==
  LET q == Add1(Empty, Param(Empty, type, Four(2, 3), FALSE))
      k == Add1(q, Param(q, type, IF turned THEN Four(4, 3) ELSE Four(3, 4), FALSE))
  IN Add1(k, Instr("dot", <<1, 2>>, Num(BatchDims, 4, BatchDims, IF turned THEN 4 ELSE 3), type, Four(2, 4)))
\* A bias that is widened like the scores, broadcast along dims.
WidenedBias(p, dims) ==
  LET sizes == [k \in DOMAIN dims |-> Cur(p).dims[dims[k]]]
      q == AddAll(p, <<Param(p, "F16", sizes, FALSE),
                       Instr("convert", <<NewId(p, 1)>>, NoAttr, "F32", sizes),
                       Spread(NewId(p, 2), dims, "F32", Cur(p).dims)>>)
  IN Binary([q EXCEPT !.cur = p.cur], "add", q.cur, FALSE)
Masked(p) ==
  LET q == AddAll(p, <<Param(p, "PRED", Cur(p).dims, FALSE), Constant("lowest", Cur(p).type),
                       Spread(NewId(p, 2), <<>>, Cur(p).type, Cur(p).dims)>>)
  IN Add1(q, Like(p, "select", <<q.cur - 2, p.cur, q.cur>>))
SoftmaxLayer(p) ==
  LET rows == <<1, 2, 3>>
      type == Cur(p).type
      Reduce(by, a) == Instr("reduce", <<a>>, [by |-> by], type, Four(2, 4))
      q == AddAll(p, <<Reduce("maximum", p.cur), Spread(NewId(p, 1), rows, type, Cur(p).dims),
                       Like(p, "subtract", <<p.cur, NewId(p, 2)>>), Like(p, "exponential", <<NewId(p, 3)>>),
                       Reduce("add", NewId(p, 4)), Spread(NewId(p, 5), rows, type, Cur(p).dims)>>)
  IN Add1(q, Like(p, "divide", <<q.cur - 2, q.cur>>))
Narrowed(p, type) == IF Cur(p).type = type THEN p ELSE Add1(p, Instr("convert", <<p.cur>>, NoAttr, type, Cur(p).dims))
\* Operand 1 or 2 of the second product; v may lie transposed.
Second(p, pos, turned) ==
  LET type == Cur(p).type
      v == Add1(p, Param(p, type, IF turned THEN Four(3, 4) ELSE Four(4, 3), FALSE))
      k == IF turned THEN 4 ELSE 3
  IN IF pos = 1
     THEN Add1(v, Instr("dot", <<p.cur, v.cur>>, Num(BatchDims, 4, BatchDims, k), type, Four(2, 3)))
     ELSE Add1(v, Instr("dot", <<v.cur, p.cur>>, Num(BatchDims, k, BatchDims, 4), type, Four(3, 2)))
\* What lies between the products.
Widened == {"rank1", "rank2", "rank3"}
Between(p, l) ==
  CASE l = "rank1" -> WidenedBias(p, <<4>>)
    [] l = "rank2" -> WidenedBias(p, <<1, 4>>)
    [] l = "rank3" -> WidenedBias(p, <<1, 3, 4>>)
    [] l = "mask" -> Masked(p)
    [] l = "softmax" -> SoftmaxLayer(p)
    [] OTHER -> Layer(p, l)
Maybe(l, yes) == IF yes THEN <<l>> ELSE <<>>
Attention(c) ==
  Second(Narrowed(FoldLeft(Between, Scores(c.type, c.turned),
                           Maybe("F32", c.bias \in Widened) \o Maybe("scale", c.scale)
                           \o Maybe(c.bias, c.bias # "none") \o Maybe("mask", c.mask)
                           \o Maybe("softmax", c.softmax)),
                  c.type), c.pos, c.vturned)
AttentionChoices ==
  {c \in [type : {"F16", "F32"}, turned : BOOLEAN, scale : BOOLEAN,
          bias : {"none", "donated", "matrix", "value", "rank1", "rank2", "rank3"},
          mask : BOOLEAN, softmax : BOOLEAN, pos : {1, 2}, vturned : BOOLEAN] :
     /\ ~c.softmax => ~c.scale /\ c.bias = "none" /\ ~c.mask     \* then a bias is dropped
     /\ c.type = "F32" => c.bias \notin Widened}
AttentionPrograms == {[kind |-> "attention", choice |-> c] : c \in AttentionChoices}

\* Two biases before the softmax: the first is fused with the product.
TwoBiases == Second(SoftmaxLayer(Layers(Scores("F16", FALSE), <<"value", "matrix">>)), 1, FALSE)

-----------------------------------------------------------------------------
(* Solvers, conversions that undo each other. *)

Solver(op, t, d) ==
  IF op = "cholesky"
  THEN AddAll(Empty, <<Param(Empty, t, d, FALSE), Instr(op, <<1>>, NoAttr, t, d)>>)
  ELSE AddAll(Empty, <<Param(Empty, t, d, FALSE), Instr("param", <<>>, [name |-> 2, donated |-> FALSE], t, d),
                       Instr(op, <<1, 2>>, NoAttr, t, d)>>)
Solvers == {[kind |-> "solver", op |-> op, type |-> t, dims |-> d] :
              op \in {"cholesky", "triangular-solve"}, t \in {"F32", "C64"}, d \in {<<3, 3>>, <<2, 3, 3>>}}
\* F16 to F32 and back, perhaps through a bitcast.
BackAndForth(cast) ==
  AddAll(Empty, <<Param(Empty, "F16", <<2, 3>>, FALSE), Instr("convert", <<1>>, NoAttr, "F32", <<2, 3>>)>>
                \o (IF cast THEN <<Instr("bitcast", <<2>>, NoAttr, "F32", <<6>>)>> ELSE <<>>)
                \o <<Instr("convert", <<IF cast THEN 3 ELSE 2>>, NoAttr, "F16", <<2, 3>>),
                     Instr("tanh", <<IF cast THEN 4 ELSE 3>>, NoAttr, "F16", <<2, 3>>)>>)

-----------------------------------------------------------------------------
MCGraphOf(p) ==
  CASE p.kind = "product" -> Program(Layers(ProductBase(p.base), p.layers))
    [] p.kind = "conv" -> Program(Layers(ConvBase(p.base), p.layers))
    [] p.kind = "attention" -> Program(Attention(p.choice))
    [] p.kind = "two_biases" -> Program(TwoBiases)
    [] p.kind = "solver" -> Program(Solver(p.op, p.type, p.dims))
    [] p.kind = "conversions" -> Program(BackAndForth(p.cast))
    [] p.kind = "trivial" -> Graph(<<Param(Empty, "F32", <<2>>, FALSE)>>)

On(programs, flags) ==
  {[program |-> p, traits |-> {}, flags |-> flags, partitions |-> 1] : p \in programs}
InputTraits == {"call", "zero_sized", "sort_and_slice", "sharding", "rng", "qr", "batch_norm", "dynamic",
                "all_reduce_16", "shared_computation", "barrier", "dead"}
TraitJobs ==
  [program : {[kind |-> "trivial"]},
   traits : {t \in SUBSET InputTraits : Cardinality(t) \in {1, 2}} \cup {InputTraits},
   flags : {{}, {"spmd", "priority_fusion"}, {"spmd", "deterministic", "normalize_layouts", "no_mha"}},
   partitions : 1..2]
MCJobs ==
  IF Family = "sound"
  THEN On(Products, {"xetla"}) \cup On(VectorProducts, {"xetla", "LLM"})
       \cup On(Convolutions \cup AttentionPrograms \cup Solvers
              \cup [kind : {"conversions"}, cast : BOOLEAN], {"xetla"})
       \cup TraitJobs
  ELSE On({[kind |-> "two_biases"]}, {"xetla"})
=============================================================================
