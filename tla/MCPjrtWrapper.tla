---------------------------- MODULE MCPjrtWrapper ----------------------------
(***************************************************************************)
(* Three devices, two of them addressable, and four workloads that share   *)
(* the calls between them: executions on both devices with callbacks and   *)
(* events; executables and their cost analysis from two threads; transfers *)
(* and their events from two threads, with an event awaited once more than *)
(* its future may be; executions whose outputs are copied, with a client   *)
(* that is destroyed and created again.                                    *)
(***************************************************************************)
EXTENDS PjrtWrapper

MCWorkloads ==
  { [threads |-> {"t1"}, clients |-> 1, handles |-> 3, futures |-> 2, executables |-> 1, outputs |-> 0,
     awaits |-> 0, calls |-> {"compile", "execute", "destroy"}],
    [threads |-> Threads, clients |-> 1, handles |-> 3, futures |-> 1, executables |-> 2, outputs |-> 1,
     awaits |-> 0, calls |-> {"compile", "topology", "get_executable", "serialize", "cost", "destroy"}],
    [threads |-> Threads, clients |-> 1, handles |-> 3, futures |-> 2, executables |-> 1, outputs |-> 1,
     awaits |-> 1, calls |-> {"from_host", "to_host", "ready", "on_ready", "await", "error", "destroy"}],
    [threads |-> {"t1"}, clients |-> 2, handles |-> 3, futures |-> 1, executables |-> 1, outputs |-> 1,
     awaits |-> 0, calls |-> {"compile", "execute", "copy", "delete", "destroy", "client"}] }
=============================================================================
