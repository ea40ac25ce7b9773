---------------------------- MODULE MCGpuExecutor ----------------------------
(***************************************************************************)
(* Two executables that share a constant and the name of one kernel, the   *)
(* second with a constant of its own, so that memory is used again.  The   *)
(* first is run twice on one executor and once on another, the second on   *)
(* the first executor.  Two addresses, so that the second binary may lie   *)
(* beside the first or, once that is gone, in its place.                   *)
(***************************************************************************)
EXTENDS GpuExecutor

MCJob == [r1 |-> [exe |-> "e1", on |-> "x"],
          r2 |-> [exe |-> "e1", on |-> "x"],
          r3 |-> [exe |-> "e1", on |-> "y"],
          r4 |-> [exe |-> "e2", on |-> "x"]]

MCKernels == [e1 |-> <<"fusion">>, e2 |-> <<"fusion", "reduce">>]

MCConstants ==
  [e1 |-> << [name |-> "c0", symbol |-> TRUE,  content |-> "bytes"],
             [name |-> "c1", symbol |-> FALSE, content |-> "weights"] >>,
   e2 |-> << [name |-> "c3", symbol |-> FALSE, content |-> "biases"],
             [name |-> "c1", symbol |-> FALSE, content |-> "weights"],
             [name |-> "c2", symbol |-> FALSE, content |-> "empty"] >>]
=============================================================================
