------------------------------- MODULE MCCclOps -------------------------------
(* Instances of CclOps: the threads' programs for the runs.                *)
EXTENDS CclOps

\* The communicators of the cliques D, under the ids of the second argument:
\* rank is the position in the list of devices, here the order of the names.
CommsOf(cliques, id) ==
  [t \in Threads |->
    LET d == CHOOSE d \in cliques : t \in d IN
    [id |-> id[d], devices |-> d, rank |-> Cardinality({u \in d : u < t})]]

\* One operation over n buffers: the loop of RunAllReduce and its siblings.
Operation(kind, reduction, dtype, n, comm) ==
  [i \in 1 .. n |->
    [kind |-> kind, reduction |-> reduction, dtype |-> dtype,
     current_call |-> i - 1, max_call |-> n, comm |-> comm]]

\* All devices in one clique, all operations under the run's id.
World == CommsOf({Threads}, [d \in {Threads} |-> "run"])

\* An all-reduce of three buffers, an all-to-all, a reduce-scatter of two, and
\* a permute of a type without a kernel.
OneCliqueProgram ==
  Operation("allreduce", "SUM", "F32", 3, World)
    \o Operation("alltoall", NoReduction, "S32", 1, World)
    \o Operation("reduce_scatter", "MAX", "F64", 2, World)
    \o Operation("permute", NoReduction, "U8", 1, World)

\* Two cliques (replica_groups = {{1,2},{3,4}}), each with an id of its own.
Halves ==
  LET d1 == {1, 2}  d2 == {3, 4} IN
  CommsOf({d1, d2}, [d \in {d1, d2} |-> IF d = d1 THEN "run.1" ELSE "run.3"])

TwoCliquesTwoBuffers == Operation("allreduce", "SUM", "F32", 2, Halves)
=============================================================================
