---------------------------- MODULE ThunkSemantics ----------------------------
(***************************************************************************)
(* What a thunk sequence computes: Eval is its meaning on a store that     *)
(* gives every allocation a value, with no host, no stream and no device   *)
(* memory.  The results of GpuExecutable are checked against it.           *)
(***************************************************************************)
EXTENDS GpuExecutable

RECURSIVE Eval(_, _), Repeat(_, _, _)

\* The semantics of HLO: kCase with an index out of range runs the last branch.
Taken(thunk, value) ==
  IF thunk.is_bool THEN (IF value = 1 THEN 1 ELSE 2)
  ELSE CHOOSE b \in DOMAIN thunk.branches :
         b = value + 1 \/ (value + 1 > Len(thunk.branches) /\ b = Len(thunk.branches))

Eval(thunks, store) ==
  IF thunks = <<>> THEN store
  ELSE LET t == Head(thunks) IN
       CASE t.op = "kernel" ->
              Eval(Tail(thunks),
                   [store EXCEPT ![t.out] =
                      Apply(t.fn, [i \in DOMAIN t.args |-> store[t.args[i]]])])
         [] t.op = "for" -> Eval(Tail(thunks), Repeat(t.limit, t.body, store))
         [] t.op = "while" ->
              LET tested == Eval(t.cond, store) IN
              IF tested[t.pred] = 1 THEN Eval(thunks, Eval(t.body, tested))
              ELSE Eval(Tail(thunks), tested)
         [] t.op = "conditional" ->
              Eval(Tail(thunks), Eval(t.branches[Taken(t, store[t.index])], store))

Repeat(n, body, store) ==
  IF n = 0 THEN store ELSE Repeat(n - 1, body, Eval(body, store))

\* The meaning of run r's program on the arguments it was given.
Expected(r) ==
  Eval(Job(r).program.thunks,
       [i \in DOMAIN allocations(r) |->
          LET a == allocations(r)[i] IN
          CASE a.kind = "param"    -> InitialMem[Job(r).args[a.param]]
            [] a.kind = "constant" -> InitialMem[a.cell]
            [] OTHER               -> 0])

Pending(r) == \E s \in DOMAIN stream : \E o \in Range(stream[s]) : o.run = r

\* Once the device has executed what a successful run enqueued, and until the
\* client deallocates it, the result holds what the program means: whichever
\* arguments were donated or copied, whichever memory was reused, and whatever
\* the other runs did meanwhile.
ResultsAreExact ==
  \A r \in Runs : pc[r] \in {"returned", "consumed"} /\ ~Pending(r) =>
    \A o \in DOMAIN result[r] :
      mem[result[r][o]] = Expected(r)[output_info(r)[o].alloc]
=============================================================================
