---------------------------- MODULE LibraryCalls ----------------------------
(***************************************************************************)
(* The thunks that call a library: convolution_thunk.cc and                *)
(* gpu_conv_runner.cc, gemm_thunk.cc and onednn_matmul_utils.cc with       *)
(* XeTLA's gemm.h and gemm.cc, and their emitters in                       *)
(* ir_emitter_unnested.cc.                                                 *)
(*                                                                         *)
(* A thunk describes buffers to the library by dimensions, strides and a   *)
(* type, and what is added to the result by a list of post-operations.     *)
(* Memory is a function from addresses to elements, an element is named    *)
(* for its tensor and its index, and the library reads what the            *)
(* descriptions say.  A sum of products is the set of its products.        *)
(***************************************************************************)
EXTENDS Integers, Sequences, FiniteSets, SequencesExt, FiniteSetsExt

H == INSTANCE HloGraph      \* terms: sums and products

CONSTANTS LibraryCallsTried

VARIABLES call,        \* the call, as its instruction describes it
          memory,      \* buffer -> address -> element
          primitive,   \* what the thunk created
          call_pc      \* the next step of the thunks of the call

callVars == <<call, memory, primitive, call_pc>>

-----------------------------------------------------------------------------
(* Memory. *)

ProductOf(s) == FoldLeft(LAMBDA p, n : p * n, 1, s)
Indices(dims) == FoldLeft(LAMBDA S, n : {Append(i, j) : i \in S, j \in 0 .. n - 1}, {<<>>}, dims)
PlaceIn(order, d) == CHOOSE k \in DOMAIN order : order[k] = d
\* The dimensions in an order, the first one major.
DenseStrides(dims, order) ==
  [d \in DOMAIN dims |->
     ProductOf([k \in 1 .. Len(order) - PlaceIn(order, d) |-> dims[order[PlaceIn(order, d) + k]]])]
MemoryDesc(data, dims, strides) == [data |-> data, dims |-> dims, strides |-> strides]
Address(md, i) == FoldLeft(LAMBDA a, d : a + md.strides[d] * i[d], 0, [d \in DOMAIN i |-> d])

\* A tensor in memory: an element for every index.
Stored(dims, strides, Element(_)) ==
  LET md == MemoryDesc("", dims, strides)
  IN [a \in {Address(md, i) : i \in Indices(dims)} |->
        Element(CHOOSE i \in Indices(dims) : Address(md, i) = a)]
Read(m, md, i) == m[md.data][Address(md, i)]
Overwritten(m, md, Element(_)) ==
  [m EXCEPT ![md.data] = Stored(md.dims, md.strides, Element) @@ @]

Fail == call_pc' = "failed" /\ UNCHANGED <<call, memory, primitive>>

-----------------------------------------------------------------------------
(* Post-operations, in their order; old is what the result held.           *)

ApplyPostOp(x, p, old, bias) ==
  CASE p.op = "linear" -> H!Mul(H!Const(p.by), x)
    [] p.op = "sum" -> H!Add(x, H!Mul(H!Const(p.by), old))
    [] p.op = "binary_add" -> H!Add(x, bias)
    [] OTHER -> <<p.op, x>>
Post(op, by) == <<[op |-> op, by |-> by]>>
ApplyPostOps(x, ops, old, bias) == FoldLeft(LAMBDA y, p : ApplyPostOp(y, p, old, bias), x, ops)
Nothing == H!Const("0")

-----------------------------------------------------------------------------
(* Convolutions.  A call is [kind, op, spatial, window, groups, in, filter,*)
(* out, type, scale, side_scale, activation, side_shared, plain].          *)

IsConv == call.kind = "conv"
HasBias(c) == c.op \in {"fused", "fused_side"}
HasSideInput(c) == c.op = "fused_side"
Batch == 1
Features == 2

WindowSizes(c) == [d \in DOMAIN c.window |-> c.window[d].size]
OutSizes(c) ==
  [d \in DOMAIN c.window |->
     LET w == c.window[d]
     IN (c.spatial[d] + 2 * w.pad - (w.size - 1) * w.dilation - 1) \div w.stride + 1]
InputDims(c) == <<Batch, Features>> \o c.spatial
FilterDims(c) == <<Features, Features \div c.groups>> \o WindowSizes(c)
OutputDims(c) == <<Batch, Features>> \o OutSizes(c)

\* The dimensions from major to minor: batch or output feature, feature, space.
Spatial(n, first) == [d \in 1 .. n |-> first + d - 1]
LayoutOrder(layout, n) ==
  CASE layout \in {"BatchDepthYX", "OutputInputYX"} -> <<1, 2>> \o Spatial(n, 3)
    [] layout \in {"BatchYXDepth", "OutputYXInput"} -> <<1>> \o Spatial(n, 3) \o <<2>>
    [] layout = "YXInputOutput" -> Spatial(n, 3) \o <<2, 1>>
    [] OTHER -> <<1, 2>> \o Spatial(n, 3)      \* BatchDepthYX4: the features in fours
StridesIn(layout, dims) == DenseStrides(dims, LayoutOrder(layout, Len(dims) - 2))

\* The buffers that are read and written: the operands of each kind of call.
InputBuffer(c) == IF c.op = "backward_input" THEN "result" ELSE "operand0"
FilterBuffer(c) == CASE c.op = "backward_filter" -> "result" [] OTHER -> "operand1"
OutputBuffer(c) == CASE c.op = "backward_input" -> "operand0"
                     [] c.op = "backward_filter" -> "operand1"
                     [] OTHER -> "result"
\* The side input may be in the result's buffer already.
ConvMemory(c) ==
  LET Tensor(name, dims, layout) == Stored(dims, StridesIn(layout, dims), LAMBDA i : <<name>> \o i)
      Of(buffer, name) ==
        CASE buffer = InputBuffer(c) -> Tensor(name, InputDims(c), c.in)
          [] buffer = FilterBuffer(c) -> Tensor(name, FilterDims(c), c.filter)
          [] OTHER -> Tensor(name, OutputDims(c), c.out)
  IN [operand0 |-> Of("operand0", "a"),
      operand1 |-> Of("operand1", "b"),
      operand2 |-> Stored(<<Features>>, <<1>>, LAMBDA i : <<"bias">> \o i),
      operand3 |-> Tensor("side", OutputDims(c), c.out),
      internal_filter |-> <<>>,
      result |-> Of("result", IF HasSideInput(c) /\ c.side_shared THEN "side" ELSE "none")]

\* The first thunk of a call with a side input, unless the buffers are shared.
CopySideInput ==
  /\ IsConv /\ call_pc = "copy"
  /\ memory' = [memory EXCEPT !.result = memory.operand3]
  /\ call_pc' = "create"
  /\ UNCHANGED <<call, primitive>>

\* A convolution in one dimension is one in two; so is one in none.
AsTwo(s, one) == [d \in 1 .. Max({2 - Len(s), 0}) |-> one] \o s
WindowField(c, field) == [d \in DOMAIN c.window |-> c.window[d][field]]
IsConv3d(c) == Len(c.window) = 3
SrcDims(c) == <<Batch, Features>> \o AsTwo(c.spatial, 1)
DstDims(c) == <<Batch, Features>> \o AsTwo(OutSizes(c), 1)

\* The features of the input over those of the filter are the groups.
FilterGroups(c) == Features \div FilterDims(c)[2]
WeightDims(c) ==
  LET k == AsTwo(WindowSizes(c), 1)
      ki == FilterDims(c)[2]
      ko == FilterDims(c)[1] \div FilterGroups(c)
  IN IF ki # Features THEN <<FilterGroups(c), ko, ki>> \o k ELSE <<ko, ki>> \o k

\* The format tags, as an order of the dimensions; <<>> when there is none.
DataFormat(layout, n) ==
  CASE layout = "BatchDepthYX" -> <<1, 2>> \o Spatial(n, 3)
    [] layout = "BatchYXDepth" -> <<1>> \o Spatial(n, 3) \o <<2>>
    [] OTHER -> <<>>
WeightFormat(layout, grouped, n) ==
  CASE layout = "OutputInputYX" /\ grouped -> <<1, 2, 3>> \o Spatial(n, 4)         \* goihw
    [] layout = "OutputInputYX" -> <<1, 2>> \o Spatial(n, 3)                       \* oihw
    [] layout = "OutputYXInput" /\ grouped -> <<1, 2>> \o Spatial(n, 4) \o <<3>>   \* gohwi
    [] layout = "OutputYXInput" -> <<1>> \o Spatial(n, 3) \o <<2>>                 \* ohwi
    [] layout = "YXInputOutput" /\ n = 2 /\ grouped -> Spatial(n, 4) \o <<3, 1, 2>>  \* hwigo
    [] layout = "YXInputOutput" /\ n = 2 -> Spatial(n, 3) \o <<2, 1>>              \* hwio
    [] OTHER -> <<>>

DataTypes == {"BF16", "F32", "F16", "F64", "S8", "S32"}
\* The factor, the side input, the bias when it cannot be the convolution's,
\* and the activation; "error" when there is no such activation.
ScaleIsOne(c) == c.scale = "1"
ActivationOp == [sigmoid |-> Post("logistic", "1"), relu |-> Post("relu", "0"),
                 relu6 |-> Post("clip", "6"), tanh |-> Post("tanh", "0"), none |-> <<>>]
\* Mutant: the bias is added before the result is scaled.
ConvPostOps_BiasFirst(c) ==
  (IF HasBias(c) /\ ~ScaleIsOne(c) THEN Post("binary_add", "1") ELSE <<>>) \o
  (IF ~ScaleIsOne(c) THEN Post("linear", c.scale) ELSE <<>>) \o
  (IF HasSideInput(c) /\ c.side_scale # "0" THEN Post("sum", c.side_scale) ELSE <<>>) \o
  (IF HasBias(c) THEN ActivationOp[c.activation] ELSE <<>>)
ConvPostOps(c) ==
  (IF ~ScaleIsOne(c) THEN Post("linear", c.scale) ELSE <<>>) \o
  (IF HasSideInput(c) /\ c.side_scale # "0" THEN Post("sum", c.side_scale) ELSE <<>>) \o
  (IF HasBias(c) /\ ~ScaleIsOne(c) THEN Post("binary_add", "1") ELSE <<>>) \o
  (IF HasBias(c) THEN ActivationOp[c.activation] ELSE <<>>)
KnownActivation(c) == HasBias(c) => c.activation \in DOMAIN ActivationOp

\* The library may prefer another order of the weights, unless it is told not to.
PreferredWeights(c, md) ==
  {md} \cup IF c.plain THEN {}
            ELSE {[md EXCEPT !.strides = DenseStrides(md.dims, Reverse([d \in DOMAIN md.dims |-> d]))]}

CreateOneDnnPrimitive ==
  LET n == IF IsConv3d(call) THEN 3 ELSE 2
      wdims == WeightDims(call)
      grouped == Len(wdims) > n + 2
      src_fmt == DataFormat(call.in, n)
      weight_fmt == WeightFormat(call.filter, grouped, n)
      dst_fmt == DataFormat(call.out, n)
      Data(buffer, dims, fmt) == MemoryDesc(buffer, dims, DenseStrides(dims, fmt))
      filter_md == Data(FilterBuffer(call), wdims, weight_fmt)
      dilation == AsTwo(WindowField(call, "dilation"), 1)
  IN /\ IsConv /\ call_pc = "create"
     /\ IF \/ <<>> \in {src_fmt, weight_fmt, dst_fmt}
           \/ call.type \notin DataTypes
           \/ ~KnownActivation(call)
           \/ call.op = "backward_filter" /\ call.type = "F16"
        THEN Fail
        ELSE /\ \E prefer \in PreferredWeights(call, filter_md) :
                  primitive' =
                    [src |-> Data(InputBuffer(call), SrcDims(call), src_fmt),
                     weights |-> IF prefer = filter_md THEN filter_md
                                 ELSE [prefer EXCEPT !.data = "internal_filter"],
                     filter |-> filter_md,
                     has_reorder |-> prefer # filter_md,
                     dst |-> Data(OutputBuffer(call), DstDims(call), dst_fmt),
                     bias |-> MemoryDesc("operand2", <<Features>>, <<1>>),
                     grouped |-> grouped,
                     stride |-> AsTwo(WindowField(call, "stride"), 1),
                     padding |-> AsTwo(WindowField(call, "pad"), 0),
                     dilation |-> [d \in DOMAIN dilation |-> dilation[d] - 1],
                     conv_bias |-> HasBias(call) /\ ScaleIsOne(call),
                     post_ops |-> IF call.op \in {"forward", "fused", "fused_side"}
                                  THEN ConvPostOps(call) ELSE <<>>]
             /\ call_pc' = IF call.op = "backward_filter" THEN "execute" ELSE "reorder"
             /\ UNCHANGED <<call, memory>>

\* RunGpuConv: the filter is brought into the order the library prefers.
ReorderFilter ==
  /\ IsConv /\ call_pc = "reorder"
  /\ memory' = IF primitive.has_reorder
               THEN Overwritten(memory, primitive.weights, LAMBDA i : Read(memory, primitive.filter, i))
               ELSE memory
  /\ call_pc' = "execute"
  /\ UNCHANGED <<call, primitive>>

\* What the library multiplies: positions of src, weights and dst.
LibraryTaps(p) ==
  LET G == IF p.grouped THEN p.weights.dims[1] ELSE 1
      lead == IF p.grouped THEN 3 ELSE 2
      O == p.weights.dims[lead - 1]
      I == p.weights.dims[lead]
      K == SubSeq(p.weights.dims, lead + 1, Len(p.weights.dims))
      S == SubSeq(p.src.dims, 3, Len(p.src.dims))
      Pos(q, k) == [d \in DOMAIN k |-> q[d] * p.stride[d] - p.padding[d] + k[d] * (p.dilation[d] + 1)]
      all == {<<b, g, o, i, k, q>> : b \in 0 .. p.src.dims[1] - 1, g \in 0 .. G - 1, o \in 0 .. O - 1,
                i \in 0 .. I - 1, k \in Indices(K), q \in Indices(SubSeq(p.dst.dims, 3, Len(p.dst.dims)))}
  IN {[src |-> <<t[1], t[2] * I + t[4]>> \o Pos(t[6], t[5]),
       weights |-> (IF p.grouped THEN <<t[2]>> ELSE <<>>) \o <<t[3], t[4]>> \o t[5],
       dst |-> <<t[1], t[2] * O + t[3]>> \o t[6]] :
        t \in {u \in all : \A d \in DOMAIN S : Pos(u[6], u[5])[d] \in 0 .. S[d] - 1}}

ExecuteConv ==
  LET p == primitive
      taps == LibraryTaps(p)
      Sum(At(_), i, Pair(_)) == <<"products", {Pair(t) : t \in {u \in taps : At(u) = i}}>>
      x(t) == Read(memory, p.src, t.src)
      w(t) == Read(memory, p.weights, t.weights)
      y(t) == Read(memory, p.dst, t.dst)
      bias(i) == Read(memory, p.bias, <<i[2]>>)
      Forward(i) == LET s == Sum(LAMBDA t : t.dst, i, LAMBDA t : {x(t), w(t)})
                    IN ApplyPostOps(IF p.conv_bias THEN H!Add(s, bias(i)) ELSE s, p.post_ops,
                                    Read(memory, p.dst, i), bias(i))
  IN /\ IsConv /\ call_pc = "execute"
     /\ memory' =
          CASE call.op = "backward_input" ->
                 Overwritten(memory, p.src, LAMBDA i : Sum(LAMBDA t : t.src, i, LAMBDA t : {y(t), w(t)}))
            [] call.op = "backward_filter" ->
                 Overwritten(memory, p.weights, LAMBDA i : Sum(LAMBDA t : t.weights, i, LAMBDA t : {x(t), y(t)}))
            [] OTHER -> Overwritten(memory, p.dst, Forward)
     /\ call_pc' = IF call.op = "backward_filter" THEN "reorder_back" ELSE "done"
     /\ UNCHANGED <<call, primitive>>

\* The gradient of the filter is brought into the order of the result.
ReorderBack ==
  /\ IsConv /\ call_pc = "reorder_back"
  /\ memory' = IF primitive.has_reorder
               THEN Overwritten(memory, primitive.filter, LAMBDA i : Read(memory, primitive.weights, i))
               ELSE memory
  /\ call_pc' = "done"
  /\ UNCHANGED <<call, primitive>>

\* The convolution of the instruction: what is multiplied for an index of the
\* result, and what becomes of the sum.
ConvTaps(c) ==
  LET per == Features \div c.groups
      Pos(q, k) == [d \in DOMAIN k |->
                      q[d] * c.window[d].stride - c.window[d].pad + k[d] * c.window[d].dilation]
      all == {[x |-> <<b, g * per + i>> \o Pos(q, k), w |-> <<g * per + o, i>> \o k,
               y |-> <<b, g * per + o>> \o q] :
                b \in 0 .. Batch - 1, g \in 0 .. c.groups - 1, o \in 0 .. per - 1, i \in 0 .. per - 1,
                k \in Indices(WindowSizes(c)), q \in Indices(OutSizes(c))}
  IN {t \in all : \A d \in DOMAIN c.spatial : t.x[d + 2] \in 0 .. c.spatial[d] - 1}

ExpectedConv(c) ==
  LET taps == ConvTaps(c)
      a(i) == <<"a">> \o i
      b(i) == <<"b">> \o i
      Sum(pairs) == <<"products", pairs>>
      Activated(x) == IF HasBias(c) THEN ApplyPostOps(x, ActivationOp[c.activation], Nothing, Nothing) ELSE x
      Forward(i) ==
        Activated(H!Add(H!Mul(H!Const(c.scale), Sum({{a(t.x), b(t.w)} : t \in {u \in taps : u.y = i}})),
                  H!Add(IF HasBias(c) THEN <<"bias", i[2]>> ELSE Nothing,
                        IF HasSideInput(c) /\ c.side_scale # "0"
                        THEN H!Mul(H!Const(c.side_scale), <<"side">> \o i) ELSE Nothing)))
  IN CASE c.op = "backward_input" ->
            Stored(InputDims(c), StridesIn(c.in, InputDims(c)),
                   LAMBDA i : Sum({{a(t.y), b(t.w)} : t \in {u \in taps : u.x = i}}))
       [] c.op = "backward_filter" ->
            Stored(FilterDims(c), StridesIn(c.filter, FilterDims(c)),
                   LAMBDA i : Sum({{a(t.x), b(t.y)} : t \in {u \in taps : u.w = i}}))
       [] OTHER -> Stored(OutputDims(c), StridesIn(c.out, OutputDims(c)), Forward)

UnsupportedConv(c) ==
  \/ c.op = "backward_filter" /\ c.type = "F16"
  \/ c.activation \notin DOMAIN ActivationOp
  \/ "BatchDepthYX4" \in {c.in, c.out}
  \/ c.filter = "YXInputOutput" /\ IsConv3d(c)
  \/ c.type \notin DataTypes

-----------------------------------------------------------------------------
(* Matrix products.  A call is [kind, lt, types, batch, orders, beta,      *)
(* epilogue, xetla]; types and orders are those of lhs, rhs and out.       *)

IsGemm == call.kind = "gemm"
GemmM == 2
GemmN == 3
GemmK == 2
GemmHasBias(c) == c.epilogue \in {"Bias", "BiasThenReLU", "BiasThenGELU", "BiasThenGELUWithAux"}

\* MatrixLayout: dense, and no stride for one batch.
MatrixLayout(order, rows, cols, batch) ==
  [order |-> order, num_rows |-> rows, num_cols |-> cols,
   leading_dim_stride |-> IF order = "row" THEN cols ELSE rows,
   batch_stride |-> IF batch = 1 THEN 0 ELSE rows * cols]
lhs_layout(c) == MatrixLayout(c.orders[1], GemmM, GemmK, c.batch)
rhs_layout(c) == MatrixLayout(c.orders[2], GemmK, GemmN, c.batch)
output_layout(c) == MatrixLayout(c.orders[3], GemmM, GemmN, c.batch)
LayoutStrides(l) ==
  IF l.order = "row" THEN <<l.batch_stride, l.leading_dim_stride, 1>>
  ELSE <<l.batch_stride, 1, l.leading_dim_stride>>

\* The matrix that is added is in the buffer of the result.
GemmMemory(c) ==
  LET Tensor(name, l) == Stored(<<c.batch, l.num_rows, l.num_cols>>, LayoutStrides(l),
                                LAMBDA i : <<name>> \o i)
      minor == IF c.orders[3] = "row" THEN GemmN ELSE GemmM
  IN [a |-> Tensor("a", lhs_layout(c)), b |-> Tensor("b", rhs_layout(c)),
      d |-> Tensor(IF c.beta = "0" THEN "none" ELSE "c", output_layout(c)),
      bias |-> Stored(<<minor>>, <<1>>, LAMBDA i : <<"bias">> \o i)]

GetMatrixDesc(layout, data) ==
  LET transpose == layout.order = "column"
  IN [data |-> data, transpose |-> transpose,
      num_rows |-> IF transpose THEN layout.num_cols ELSE layout.num_rows,
      num_cols |-> IF transpose THEN layout.num_rows ELSE layout.num_cols,
      batch_stride |-> layout.batch_stride, leading_dim_stride |-> layout.leading_dim_stride]
TransposeMatrixDesc(d) == [d EXCEPT !.transpose = ~@]

\* The transposed result is the product of the transposed operands in the other order.
MakeBlasGemmCompatible(lhs, rhs, output) ==
  IF output.transpose
  THEN <<TransposeMatrixDesc(rhs), TransposeMatrixDesc(lhs), TransposeMatrixDesc(output)>>
  ELSE <<lhs, rhs, output>>

\* CreateMatMulParams: dimensions and strides, those of a transposed matrix exchanged.
MatMulMemory(batch_size, d) ==
  LET Swapped(s) == IF d.transpose THEN <<s[1], s[3], s[2]>> ELSE s
  IN MemoryDesc(d.data, Swapped(<<batch_size, d.num_rows, d.num_cols>>),
                Swapped(<<d.batch_stride, d.leading_dim_stride, 1>>))

\* The legacy thunk has neither a matrix to add nor a bias.
Descs(c) == MakeBlasGemmCompatible(GetMatrixDesc(lhs_layout(c), "a"), GetMatrixDesc(rhs_layout(c), "b"),
                                   GetMatrixDesc(output_layout(c), "d"))
CData(c) == c.lt
BiasData(c) == c.lt /\ GemmHasBias(c)

ActivationOf ==
  [Default |-> <<>>, Bias |-> <<>>, ReLU |-> Post("relu", "0"), BiasThenReLU |-> Post("relu", "0"),
   GELU |-> Post("gelu_tanh", "0"), BiasThenGELU |-> Post("gelu_tanh", "0")]

Sums(x, y, i) == <<"products", {{x[<<i[1], i[2], k>>], y[<<i[1], k, i[3]>>]} : k \in 0 .. GemmK - 1}>>
AsMatrix(md) == [i \in Indices(md.dims) |-> Read(memory, md, i)]

\* The tiles XeTLA's kernels are compiled for, and those selectXetlaGemmConfig
\* gives: from a table by m, n and k, or by rules.
GemmPolicies ==
  {<<8, 64, 8, 16, 32, 8>>, <<8, 128, 8, 16, 16, 2>>, <<8, 128, 8, 16, 32, 4>>, <<8, 256, 8, 16, 16, 2>>,
   <<8, 512, 8, 16, 16, 1>>, <<16, 64, 16, 16, 16, 8>>, <<16, 256, 8, 16, 16, 1>>,
   <<16, 256, 16, 16, 16, 2>>, <<16, 512, 16, 16, 16, 1>>, <<32, 64, 32, 16, 16, 8>>,
   <<32, 64, 8, 16, 16, 2>>, <<32, 128, 32, 16, 16, 4>>, <<32, 256, 32, 16, 16, 2>>,
   <<32, 512, 32, 16, 16, 1>>, <<64, 128, 64, 16, 16, 4>>, <<64, 256, 64, 16, 16, 2>>,
   <<64, 512, 64, 16, 16, 1>>, <<128, 128, 32, 32, 32, 2>>, <<128, 256, 64, 16, 16, 1>>,
   <<128, 512, 64, 32, 16, 1>>, <<256, 256, 64, 32, 16, 1>>, <<256, 256, 32, 64, 16, 1>>,
   <<256, 256, 32, 64, 32, 1>>, <<128, 64, 16, 16, 64, 1>>, <<128, 128, 16, 32, 64, 1>>,
   <<128, 256, 32, 32, 16, 1>>}
XetlaGemmConfigs ==
  {<<8, 64, 8, 16, 32, 8>>, <<8, 128, 8, 16, 16, 2>>, <<8, 256, 8, 16, 16, 2>>,
   <<8, 512, 8, 16, 16, 1>>, <<16, 64, 16, 16, 16, 8>>, <<16, 256, 8, 16, 16, 1>>,
   <<32, 64, 8, 16, 16, 2>>, <<32, 64, 32, 16, 16, 8>>, <<32, 128, 32, 16, 16, 4>>,
   <<32, 256, 32, 16, 16, 2>>, <<32, 512, 32, 16, 16, 1>>, <<64, 256, 64, 16, 16, 2>>,
   <<128, 64, 16, 16, 64, 1>>, <<128, 128, 16, 32, 64, 1>>, <<128, 128, 32, 32, 32, 2>>,
   <<128, 256, 32, 32, 16, 1>>, <<128, 256, 64, 16, 16, 1>>, <<128, 512, 64, 32, 16, 1>>,
   <<256, 256, 32, 64, 16, 1>>, <<256, 256, 32, 64, 32, 1>>, <<256, 256, 64, 32, 16, 1>>}
\* XetlaGemmKernel: the epilogues there is a kernel for; without a kernel for
\* the epilogues or the tile nothing runs.
XetlaEpilogues(c) ==
  LET res == IF c.beta = "0" THEN <<>> ELSE <<"RES_ADD">>
  IN CASE c.epilogue = "Default" -> res
       [] c.epilogue = "Bias" -> <<"BIAS">> \o res
       [] c.epilogue = "GELU" -> <<"GELU">>
       [] c.epilogue = "BiasThenGELU" -> <<"BIAS", "GELU">>
XetlaKernels == {<<>>, <<"RES_ADD">>, <<"BIAS">>, <<"BIAS", "RES_ADD">>, <<"BIAS", "GELU">>}
ApplyXetla(x, es, old, bias) ==
  FoldLeft(LAMBDA y, e : CASE e = "RES_ADD" -> H!Add(y, old)
                           [] e = "BIAS" -> H!Add(y, bias)
                           [] OTHER -> <<"gelu_tanh", y>>, x, es)

\* build: it falls back when the first operand is column-major.
XetlaTakes(c) ==
  /\ c.xetla /\ c.batch = 1 /\ c.types[3] \in {"F16", "BF16"}
  /\ c.epilogue \notin {"ReLU", "BiasThenReLU"}
  /\ ~Descs(c)[1].transpose

GemmTypes == {"F16", "BF16", "F32"}
NoAux(c) == c.epilogue \in DOMAIN ActivationOf

\* The kernel reads all of its operands row by row without gaps.
RunXetla ==
  LET d == Descs(call)
      Dense(x, rows, cols) == MemoryDesc(x.data, <<1, rows, cols>>, <<0, cols, 1>>)
      lhs == AsMatrix(Dense(d[1], d[1].num_rows, d[1].num_cols))
      n == IF d[2].transpose THEN d[2].num_rows ELSE d[2].num_cols
      rhs == AsMatrix(Dense(d[2], d[1].num_cols, n))
      dst == Dense(d[3], d[1].num_rows, n)
      es == XetlaEpilogues(call)
      Element(i) == ApplyXetla(Sums(lhs, rhs, i), es, Read(memory, dst, i),
                               IF BiasData(call) THEN memory.bias[i[3]] ELSE Nothing)
  IN \E config \in XetlaGemmConfigs :
       memory' = IF config \in GemmPolicies /\ es \in XetlaKernels
                 THEN Overwritten(memory, dst, Element) ELSE memory

RunMatMul ==
  LET d == Descs(call)
      src == AsMatrix(MatMulMemory(call.batch, d[1]))
      weights == AsMatrix(MatMulMemory(call.batch, d[2]))
      dst == MatMulMemory(call.batch, d[3])
      ops == (IF CData(call) /\ call.beta # "0" THEN Post("sum", call.beta) ELSE <<>>)
               \o ActivationOf[call.epilogue]
      Element(i) == ApplyPostOps(H!Add(Sums(src, weights, i),
                                       IF BiasData(call) THEN memory.bias[i[3]] ELSE Nothing),
                                 ops, Read(memory, dst, i), Nothing)
  IN memory' = Overwritten(memory, dst, Element)

\* RunGemm and DoGemm.
RunGemm ==
  /\ IsGemm /\ call_pc = "create"
  /\ IF \/ call.types[1] # call.types[3] \/ call.types[2] # call.types[3]
        \/ call.types[3] \notin GemmTypes
        \/ ~NoAux(call)
     THEN Fail
     ELSE /\ IF XetlaTakes(call) THEN RunXetla ELSE RunMatMul
          /\ call_pc' = "done"
          /\ UNCHANGED <<call, primitive>>

\* The product, the matrix, the bias along the minor dimension, and the activation.
ExpectedGemm(c) ==
  LET out == output_layout(c)
      Products(i) == <<"products", {{<<"a", i[1], i[2], k>>, <<"b", i[1], k, i[3]>>} : k \in 0 .. GemmK - 1}>>
      minor(i) == IF c.orders[3] = "row" THEN i[3] ELSE i[2]
      Element(i) ==
        ApplyPostOps(H!Add(Products(i),
                       H!Add(IF c.beta = "0" THEN Nothing ELSE H!Mul(H!Const(c.beta), <<"c">> \o i),
                             IF GemmHasBias(c) THEN <<"bias", minor(i)>> ELSE Nothing)),
                     ActivationOf[c.epilogue], Nothing, Nothing)
  IN Stored(<<c.batch, GemmM, GemmN>>, LayoutStrides(out), Element)

UnsupportedGemm(c) ==
  \/ Cardinality(ToSet(c.types)) > 1
  \/ c.types[3] \notin GemmTypes
  \/ c.epilogue \in {"GELUWithAux", "BiasThenGELUWithAux"}

-----------------------------------------------------------------------------

CallInit ==
  /\ call \in LibraryCallsTried
  /\ memory = IF IsConv THEN ConvMemory(call) ELSE GemmMemory(call)
  /\ primitive = <<>>
  /\ call_pc = IF IsConv /\ HasSideInput(call) /\ ~call.side_shared THEN "copy" ELSE "create"

CallNext ==
  \/ CopySideInput \/ CreateOneDnnPrimitive \/ ReorderFilter \/ ExecuteConv \/ ReorderBack
  \/ RunGemm

CallDone == call_pc \in {"done", "failed"}

\* When the thunks of a library call succeed, every element of the result's
\* buffer is what the instruction means, in the result's layout, whatever order
\* the library prefers for its weights; they fail only for a call that the code
\* says it does not support (CreateOneDnnPrimitive, RunGpuConv, RunGemm).
CallsAreExact ==
  /\ call_pc = "done" =>
       IF IsConv THEN memory.result = ExpectedConv(call) ELSE memory.d = ExpectedGemm(call)
  /\ call_pc = "failed" => IF IsConv THEN UnsupportedConv(call) ELSE UnsupportedGemm(call)
=============================================================================
