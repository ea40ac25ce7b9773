--------------------------- MODULE MCEmittedKernels ---------------------------
EXTENDS EmittedKernels

\* Row reductions: rows that share a warp (1, 2), do not divide it (3), need
\* part of a block's tile (7) or more than one (20), and rows that several
\* blocks share (38); one or more in a batch; one or two outputs of the fusion.
Rows ==
  [kind : {"reduction"}, is_row : {TRUE},
   dims : {1, 3} \X {1, 3} \X {1, 2, 3, 7, 20, 38},
   fan_out : {1, 2}, bits : {32}, vectorize : BOOLEAN, unroll : {8}, crossed : {"low"}]

\* Column reductions: with and without vectors, columns shorter and longer than
\* a block's tile and columns that several blocks share.
Columns ==
  [kind : {"reduction"}, is_row : {FALSE},
   dims : {1, 2} \X {3, 9} \X {5, 8},
   fan_out : {1}, bits : {16}, vectorize : BOOLEAN, unroll : {1, 2, 8},
   crossed : {"low", "high"}]

MCReductions == Rows \cup Columns

\* Views smaller than a tile, of full tiles, and with an incomplete last tile.
MCTransposes ==
  [kind : {"transpose"}, dims : {1, 2, 5} \X {1, 4, 7} \X {3, 4, 6},
   order : {<<1, 3, 2>>, <<3, 2, 1>>}, other : BOOLEAN]

MCSortBounds == 2 .. 9

\* Convolutions in one, two and three dimensions, with padding, strides and
\* dilation, in every layout there is a format for and one there is none for.
Window(size, stride, pad, dilation) ==
  [size |-> size, stride |-> stride, pad |-> pad, dilation |-> dilation]
ConvShapes ==
  {<<<<3>>, <<Window(2, 2, 1, 1)>>>>,
   <<<<2, 3>>, <<Window(2, 1, 0, 1), Window(2, 1, 1, 2)>>>>,
   <<<<2, 1, 2>>, <<Window(2, 1, 0, 1), Window(1, 1, 0, 1), Window(2, 1, 0, 1)>>>>}
Convs(ops, shapes, groups, data, filters, types, scales, activations, shared_side, plain) ==
  {[kind |-> "conv", op |-> o, spatial |-> s[1], window |-> s[2], groups |-> g, in |-> l[1],
    filter |-> f, out |-> l[2], type |-> t, scale |-> k[1], side_scale |-> k[2],
    activation |-> a, side_shared |-> z, plain |-> p] :
     o \in ops, s \in shapes, g \in groups, l \in data, f \in filters, t \in types,
     k \in scales, a \in activations, z \in shared_side, p \in plain}
DataLayouts == {"BatchDepthYX", "BatchYXDepth"}
FilterLayouts == {"OutputInputYX", "OutputYXInput", "YXInputOutput"}
MCConvs ==
  Convs({"forward", "backward_input", "backward_filter"}, ConvShapes, {1, 2},
        {<<l, l>> : l \in DataLayouts} \cup {<<"BatchDepthYX", "BatchYXDepth">>}, FilterLayouts,
        {"F32"}, {<<"1", "0">>}, {"none"}, {TRUE}, {FALSE})
  \cup Convs({"forward", "fused", "fused_side"}, {<<<<2>>, <<Window(1, 1, 0, 1)>>>>}, {1},
             {<<"BatchYXDepth", "BatchYXDepth">>}, {"OutputInputYX"}, {"F16"},
             {"1", "alpha"} \X {"0", "1", "beta"}, {"none", "relu", "elu"}, BOOLEAN, BOOLEAN)
  \cup Convs({"forward", "backward_filter"}, {<<<<>>, <<>>>>, <<<<2>>, <<Window(1, 1, 0, 1)>>>>}, {1},
             {<<"BatchYXDepth", "BatchYXDepth">>, <<"BatchDepthYX4", "BatchYXDepth">>},
             {"OutputInputYX"}, {"F16", "U8"}, {<<"1", "0">>}, {"none"}, {TRUE}, {TRUE})

\* Products of all orders, with and without XeTLA.  Three calls that XeTLA does
\* not compute are left out: a GELU without a bias, a GELU with a bias and a
\* matrix, and a second operand that is column-major.
Gemms(lts, types, batches, betas, epilogues, xetla) ==
  [kind : {"gemm"}, lt : lts, types : types, batch : batches, beta : betas, epilogue : epilogues,
   xetla : xetla, orders : {"row", "column"} \X {"row", "column"} \X {"row", "column"}]
Same(t) == <<t, t, t>>
Epilogues == {"Default", "Bias", "ReLU", "BiasThenReLU", "GELU", "BiasThenGELU"}
LeftOut(c) ==
  /\ XetlaTakes(c)
  /\ \/ c.epilogue = "GELU"
     \/ c.epilogue = "BiasThenGELU" /\ c.beta # "0"
     \/ Descs(c)[2].transpose
MCGemms ==
  {c \in Gemms({TRUE}, {Same("F16"), Same("F32")}, {1, 2}, {"0", "1"}, Epilogues, BOOLEAN)
         \cup Gemms({FALSE}, {Same("BF16")}, {2}, {"0"}, {"Default"}, {FALSE})
         \cup Gemms({TRUE}, {Same("F64"), <<"F32", "F16", "F32">>, Same("F16")}, {1}, {"1"},
                    {"Default", "GELUWithAux", "BiasThenGELUWithAux"}, BOOLEAN) : ~LeftOut(c)}

MCLibraryCalls == MCConvs \cup MCGemms

\* The tile sizes, scaled down: two, three and four subgroups of a row.
MCTileOf ==
  "64x128x64" :> [br |-> 2, bc |-> 4, sg |-> 2]
  @@ "64x128x128" :> [br |-> 2, bc |-> 3, sg |-> 1]
  @@ "8x256x256" :> [br |-> 1, bc |-> 4, sg |-> 1]

\* One key, less than a tile, a tile and a part, two tiles; queries that do not
\* fill their tile; two heads and two batches.
MCAttentions ==
  [kind : {"Softmax", "ScaleSoftmax"}, type : {"F16"}, B : {1}, N : {2}, F : {3}, T : {1, 3, 5, 6},
   H : {64, 128}, scale : {1, 2}]
  \cup [kind : {"ScaleBiasSoftmax"}, type : {"BF16"}, B : {2}, N : {2}, F : {2, 3}, T : {5},
        H : {64}, scale : {1}]
  \cup [kind : {"ScaleBiasSoftmax", "BmmBmm"}, type : {"F32", "F16"}, B : {1}, N : {1}, F : {1},
        T : {5}, H : {192}, scale : {1}]
=============================================================================
