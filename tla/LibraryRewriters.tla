-------------------------- MODULE LibraryRewriters --------------------------
(***************************************************************************)
(* The small rewriters: dot_expand_dims.cc, mkl_rewriter.cc,               *)
(* triangular_solve_rewriter.cc and redundant_convert_mover.cc.            *)
(***************************************************************************)
EXTENDS HloValues

\* A product of a vector gets a dimension of size 1 for the vector's missing
\* one: after the contracted dimension on the right, before it on the left.
NonContractingSize(dims, batch, k) ==
  FoldSet(LAMBDA d, s : dims[d] * s, 1, Free(dims, batch, k))
ExpandOperand(g, a, batch, k, right) ==
  LET dims == Dims(g, a)
      sizes == [b \in DOMAIN batch |-> dims[batch[b]]]
      pair == IF right THEN <<dims[k], 1>> ELSE <<1, dims[k]>>
      behind == k = Len(batch) + 1
      new == [dims |-> IF behind THEN sizes \o pair ELSE pair \o sizes,
              batch |-> IF behind THEN batch ELSE [b \in DOMAIN batch |-> batch[b] + 1],
              k |-> IF behind THEN (IF right THEN k ELSE k + 1) ELSE (IF right THEN 1 ELSE 2)]
  IN CASE NonContractingSize(dims, batch, k) # 1 -> [g |-> g, id |-> a, batch |-> batch, k |-> k]
       [] ~behind /\ k # 1 -> [g |-> Failed(g), id |-> a, batch |-> batch, k |-> k]
       [] OTHER -> [g |-> AddInstruction(g, Instr("reshape", <<a>>, NoAttr, Type(g, a), new.dims)),
                    id |-> NextId(g), batch |-> new.batch, k |-> new.k]
ExpandDotDims(g, i) ==
  LET n == At(g, i).n
      a == Args(g, i)
      lhs == ExpandOperand(g, a[1], n.lb, n.lc, FALSE)
      rhs == ExpandOperand(lhs.g, a[2], n.rb, n.rc, TRUE)
      dims == [b \in DOMAIN n.lb |-> Dims(g, a[1])[n.lb[b]]]
                \o <<NonContractingSize(Dims(g, a[1]), n.lb, n.lc), NonContractingSize(Dims(g, a[2]), n.rb, n.rc)>>
      dot == Instr("dot", <<lhs.id, rhs.id>>,
                   [n |-> [lb |-> lhs.batch, lc |-> lhs.k, rb |-> rhs.batch, rc |-> rhs.k]], Type(g, i), dims)
  IN CASE Op(g, i) # "dot" -> g
       [] rhs.g.status # "ok" -> Failed(g)
       [] OTHER -> ReplaceWithNewInstruction(AddInstruction(rhs.g, dot), i,
                     Instr("reshape", <<NextId(rhs.g)>>, NoAttr, Type(g, i), Dims(g, i)))

\* A solver becomes a call with scratch space; the first element is its result.
ReplaceByFirstElement(g, i, call) ==
  ReplaceWithNewInstruction(AddInstruction(g, call), i,
    Instr("get-tuple-element", <<NextId(g)>>, [k |-> 1], Type(g, i), Dims(g, i)))
CreateCholesky(g, i) ==
  IF Op(g, i) # "cholesky" THEN g
  ELSE IF Type(g, i) \notin {"F32", "F64", "C64"} THEN Failed(g)
  ELSE ReplaceByFirstElement(g, i, [g.ins[i] EXCEPT !.op = "potrf"])

\* Pointers to a and b for every solve of a batch; a single solve needs none.
TempBytes(dims) ==
  LET batch_size == FoldLeft(LAMBDA s, d : s * d, 1, SubSeq(dims, 1, Len(dims) - 2))
  IN IF batch_size = 1 THEN 0 ELSE 2 * 8 * batch_size
TriangularSolve(g, i) ==
  IF Op(g, i) # "triangular-solve" THEN g
  ELSE ReplaceByFirstElement(g, i, [g.ins[i] EXCEPT !.op = "trsm",
                                      !.at = [temp |-> TempBytes(Dims(g, Args(g, i)[2]))]])

\* convert(convert(x)) back to the type and shape of x reads x instead.
RemoveRedundantConversion(g, i) ==
  LET Skip(j) == IF Op(g, j) = "bitcast" THEN Args(g, j)[1] ELSE j
      inner == Skip(Args(g, i)[1])
      input == Skip(Args(g, inner)[1])
  IN IF /\ Op(g, i) = "convert" /\ WithOneUse(g, i)
        /\ Op(g, inner) = "convert" /\ WithOneUse(g, inner)
        /\ Type(g, i) = Type(g, input) /\ Dims(g, i) = Dims(g, input)
     THEN ReplaceOperandWith(g, i, 1, input)
     ELSE g
=============================================================================
