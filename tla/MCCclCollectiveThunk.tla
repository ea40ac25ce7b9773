------------------------- MODULE MCCclCollectiveThunk -------------------------
(* Instances of CclCollectiveThunk: programs and schedules for the runs.   *)
EXTENDS CclCollectiveThunk

CommsOf(cliques, id) ==
  [t \in Threads |->
    LET d == CHOOSE d \in cliques : t \in d IN
    [id |-> id[d], devices |-> d, rank |-> Cardinality({u \in d : u < t})]]

Operation(kind, reduction, n, comm) ==
  [i \in 1 .. n |->
    [kind |-> kind, reduction |-> reduction, dtype |-> "F32",
     current_call |-> i - 1, max_call |-> n, comm |-> comm]]

World == CommsOf({Threads}, [d \in {Threads} |-> "run"])

Thunk(kind, o) == [thunk |-> kind, op |-> o]

\* An all-reduce of two buffers (operation 1) and an all-to-all (operation 3).
TwoOps == Operation("allreduce", "SUM", 2, World)
            \o Operation("alltoall", "NONE", 1, World)

\* Both operations in flight at once: the second starts before the first is
\* awaited.  A done thunk is dropped when its operation is synchronous.
Overlapped ==
  <<Thunk("input", 1), Thunk("start", 1), Thunk("input", 3), Thunk("start", 3),
    Thunk("done", 1), Thunk("output", 1), Thunk("done", 3), Thunk("output", 3)>>

\* Every setting: which operations are asynchronous, one stream or several,
\* first run of the executable or a later one.
AllConfigs ==
  [async : SUBSET {1, 3}, multiple_streams : BOOLEAN, first_run : BOOLEAN]
=============================================================================
