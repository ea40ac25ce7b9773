----------------------------- MODULE MCCclClique -----------------------------
(* Instances of CclClique: the operations of the runs.                     *)
EXTENDS CclClique

\* replica_groups = {{1,2},{3}}, then all devices: the runs may meet at the
\* cliques in different orders.
SplitThenAll ==
  <<[groups |-> {<<1, 2>>, <<3>>}, replica_groups |-> 2, stream_id |-> 0],
    [groups |-> {<<1, 2, 3>>}, replica_groups |-> 1, stream_id |-> 0]>>
=============================================================================
