------------------------------ MODULE HloGraph ------------------------------
(***************************************************************************)
(* The graph of an HLO computation as the rewriters see it, and the value  *)
(* an instruction stands for.                                              *)
(*                                                                         *)
(* A graph is [ins, root, status]; an instruction has an opcode, operands  *)
(* (ids), attributes that depend on the opcode, an element type and the    *)
(* dimensions of its result.  The operations on graphs are those of XLA    *)
(* that the rewriters call (HloComputation, DfsHloRewriteVisitor).         *)
(*                                                                         *)
(* A value is a symbolic term.  Two graphs that compute the same elements  *)
(* in the same memory order have the same term: a bitcast is the identity, *)
(* sums and products are unordered, and rounding a computed number to      *)
(* another floating-point type is ignored.  Converting to an integer type  *)
(* is not, and neither is narrowing an input or a constant.                *)
(***************************************************************************)
EXTENDS Naturals, Sequences, FiniteSets, Bags, BagsExt, SequencesExt, FiniteSetsExt

NoAttr == [none |-> TRUE]
Instr(op, args, at, type, dims) ==
  [op |-> op, args |-> args, at |-> at, type |-> type, dims |-> dims]

\* A graph from a sequence of instructions; the last one is the root.
Graph(seq) == [ins |-> seq, root |-> Len(seq), status |-> "ok"]
Failed(g) == [g EXCEPT !.status = "error"]

Ids(g) == DOMAIN g.ins
Op(g, i) == g.ins[i].op
At(g, i) == g.ins[i].at
Args(g, i) == g.ins[i].args
Type(g, i) == g.ins[i].type
Dims(g, i) == g.ins[i].dims

Users(g, i) == {u \in Ids(g) : i \in ToSet(Args(g, u))}
UserCount(g, i) == Cardinality(Users(g, i))
WithOneUser(g, i) == UserCount(g, i) = 1
WithOneUse(g, i) ==
  MapThenSumSet(LAMBDA u : Cardinality({k \in DOMAIN Args(g, u) : Args(g, u)[k] = i}), Users(g, i)) = 1

\* The operands of a binary instruction in both orders; the first order that fits.
AnyOrder(g, i) == <<Args(g, i), Reverse(Args(g, i))>>
Matches(g, i, Fits(_, _)) == SelectSeq(AnyOrder(g, i), LAMBDA p : Fits(p[1], p[2]))

\* The instructions an optional op may leave in the place of i.
Optional(g, i, op) == IF Op(g, i) = op THEN {Args(g, i)[1], i} ELSE {i}

BroadcastOf(g, i, c) == /\ Op(g, i) = "broadcast"
                        /\ Op(g, Args(g, i)[1]) = "const"
                        /\ At(g, Args(g, i)[1]).c = c
BroadcastScalar(g, i) == Op(g, i) = "broadcast" /\ Op(g, Args(g, i)[1]) = "const"

SwapLast(dims) == LET n == Len(dims) IN [dims EXCEPT ![n] = dims[n - 1], ![n - 1] = dims[n]]

-----------------------------------------------------------------------------
(* Rewriting. *)

NextId(g) == Max(Ids(g)) + 1
AddInstruction(g, ins) ==
  [g EXCEPT !.ins = [i \in Ids(g) \cup {NextId(g)} |-> IF i \in Ids(g) THEN g.ins[i] ELSE ins]]
AddInstructions(g, seq) == FoldLeft(AddInstruction, g, seq)

RECURSIVE Reachable(_, _)
Reachable(g, i) == {i} \cup UNION {Reachable(g, a) : a \in ToSet(Args(g, i))}
\* HloDCE, and what ReplaceInstruction removes.
RemoveUnused(g) == [g EXCEPT !.ins = [i \in Reachable(g, g.root) |-> g.ins[i]]]

ReplaceOperandWith(g, u, k, new) == [g EXCEPT !.ins[u].args[k] = new]

\* Every user of old uses new instead.
ReplaceAllUsesWith(g, old, new) ==
  LET To(a) == IF a = old THEN new ELSE a
  IN [g EXCEPT !.root = To(@),
               !.ins = [i \in Ids(g) |-> [g.ins[i] EXCEPT !.args =
                          IF i = new THEN @ ELSE [k \in DOMAIN @ |-> To(@[k])]]]]
\* It is an error for the new instruction to have another shape.
ReplaceInstruction(g, old, new) ==
  IF Dims(g, old) # Dims(g, new) THEN Failed(g)
  ELSE RemoveUnused(ReplaceAllUsesWith(g, old, new))
ReplaceWithNewInstruction(g, old, ins) ==
  ReplaceInstruction(AddInstruction(g, ins), old, NextId(g))

\* MakeInstructionPostOrder: operands first.
RECURSIVE VisitFrom(_, _, _)
VisitFrom(g, seen, i) ==
  IF i \in ToSet(seen) THEN seen
  ELSE Append(FoldLeft(LAMBDA s, a : VisitFrom(g, s, a), seen, Args(g, i)), i)
PostOrder(g) == VisitFrom(g, <<>>, g.root)

\* HloCSE: one of several equal instructions stays.
RECURSIVE MergeEqual(_)
MergeEqual(g) ==
  LET same == {p \in Ids(g) \X Ids(g) : p[1] < p[2] /\ g.ins[p[1]] = g.ins[p[2]]}
  IN IF same = {} THEN g
     ELSE LET p == CHOOSE p \in same : TRUE
          IN MergeEqual(RemoveUnused(ReplaceAllUsesWith(g, p[2], p[1])))

-----------------------------------------------------------------------------
(* Types. *)

Integral == {"S8", "S32", "PRED"}
\* CastPreservesValues
Wider == [PRED |-> {"PRED", "S8", "S32", "F16", "BF16", "F32", "F64"},
          S8   |-> {"S8", "S32", "F16", "BF16", "F32", "F64"},
          S32  |-> {"S32", "F64"},
          F8   |-> {"F8", "F16", "BF16", "F32", "F64"},
          F16  |-> {"F16", "F32", "F64"},
          BF16 |-> {"BF16", "F32", "F64"},
          F32  |-> {"F32", "F64"},
          F64  |-> {"F64"},
          C64  |-> {"C64"}]
CastPreservesValues(from, to) == to \in Wider[from]
\* The constant "fine" needs all the digits of F32; the others fit any type.
ConstantFits(c, t) == c = "fine" => t \in {"F32", "F64"}

-----------------------------------------------------------------------------
(* Values. *)

Const(c) == <<"const", c>>

Parts(tag, unit, x) == CASE x[1] = tag -> x[2]
                         [] x = Const(unit) -> EmptyBag
                         [] OTHER -> SetToBag({x})
\* A sum of one term is the term.
Collect(tag, unit, bag) == CASE BagToSet(bag) = {} -> Const(unit)
                             [] BagCardinality(bag) = 1 -> CHOOSE x \in BagToSet(bag) : TRUE
                             [] OTHER -> <<tag, bag>>
Add(x, y) == Collect("sum", "0", Parts("sum", "0", x) (+) Parts("sum", "0", y))
Mul(x, y) == Collect("product", "1", Parts("product", "1", x) (+) Parts("product", "1", y))

Broadcast(x, dims) == IF x[1] = "const" THEN x ELSE <<"broadcast", x, dims>>
Relu(x) == <<"maximum", {x, Const("0")}>>
Tanh(x) == <<"tanh", x>>
Gelu(x) == Mul(x, Mul(Const("half"), Add(Const("1"), Tanh(Mul(Const("sqrt_2_pi"),
             Add(x, Mul(Const("gelu_3"), Mul(x, Mul(x, x)))))))))
Elu(x) == <<"select", <<"compare", x, Const("0")>>, x, <<"expm1", x>>>>
Softmax(x, dims) ==
  LET e == <<"exponential", <<"subtract", x, Broadcast(<<"reduce", "maximum", x>>, dims)>>>>
  IN <<"divide", e, Broadcast(<<"reduce", "add", e>>, dims)>>

Saturated(x) == IF x[1] = "S8" THEN x ELSE <<"S8", x>>
ConvertTerm(t, x) ==
  CASE x[1] = "param" -> IF CastPreservesValues(x[3], t) THEN x ELSE <<"narrow", x, t>>
    [] x[1] = "const" -> IF ConstantFits(x[2], t) THEN x ELSE <<"narrow", x, t>>
    [] x[1] = "broadcast" /\ x[2][1] = "param" ->
         IF CastPreservesValues(x[2][3], t) THEN x ELSE <<"narrow", x, t>>
    [] t = "S8" -> Saturated(x)
    [] t = "S32" -> <<"truncate", x>>
    [] OTHER -> x

RECURSIVE Transposed(_)
Transposed(x) == CASE x[1] = "transpose" -> x[2]
                   [] x[1] = "dot" -> <<"dot", Transposed(x[3]), Transposed(x[2])>>
                   [] OTHER -> <<"transpose", x>>

\* A product of matrices: the dimension numbers say which operand is read transposed.
Free(dims, batch, k) == DOMAIN dims \ (ToSet(batch) \cup {k})
DotTerm(n, ldims, rdims, x, y) ==
  LET lfree == Free(ldims, n.lb, n.lc)
      rfree == Free(rdims, n.rb, n.rc)
  IN <<"dot", IF \E d \in lfree : d > n.lc THEN Transposed(x) ELSE x,
              IF \E d \in rfree : d < n.rc THEN Transposed(y) ELSE y>>

\* A slice, moved to the terms of a sum.  A row vector added to the columns
\* from the first one on is not disturbed by a slice of rows or of the first
\* columns.
RECURSIVE SliceTerm(_, _)
SliceTerm(part, x) ==
  CASE x[1] = "const" -> x
    [] x[1] = "sum" -> MapThenFoldBag(Add, Const("0"), LAMBDA e : SliceTerm(part, e),
                                      LAMBDA S : CHOOSE e \in S : TRUE, x[2])
    [] x[1] = "maximum" -> <<"maximum", {SliceTerm(part, e) : e \in x[2]}>>
    [] x[1] = "broadcast" /\ part \in {"rows", "first"} -> x
    [] OTHER -> <<"slice", x, part>>
=============================================================================
