------------------------------ MODULE Collective ------------------------------
(***************************************************************************)
(* What the collectives promise to the program around them, device side:   *)
(* a collective operation of a clique takes effect once, after every       *)
(* member's inputs have been computed and before any member's result is    *)
(* used.  CclCollectiveThunk implements it.                                *)
(***************************************************************************)
CONSTANTS
  Threads,        \* the devices
  Operations,     \* the collective operations of the program
  Clique(_, _)    \* Clique(t, o): the devices t performs operation o with

VARIABLES
  inputs,     \* the pairs <<t, o>> whose inputs have been computed
  performed,  \* the pairs <<clique, o>> that have taken effect
  outputs     \* the pairs <<t, o>> whose results have been used

vars == <<inputs, performed, outputs>>

Init == inputs = {} /\ performed = {} /\ outputs = {}

Compute(t, o) ==
  /\ <<t, o>> \notin inputs
  /\ inputs' = inputs \cup {<<t, o>>}
  /\ UNCHANGED <<performed, outputs>>

Perform(d, o) ==
  /\ <<d, o>> \notin performed
  /\ \A t \in d : <<t, o>> \in inputs
  /\ performed' = performed \cup {<<d, o>>}
  /\ UNCHANGED <<inputs, outputs>>

Use(t, o) ==
  /\ <<t, o>> \notin outputs
  /\ <<Clique(t, o), o>> \in performed
  /\ outputs' = outputs \cup {<<t, o>>}
  /\ UNCHANGED <<inputs, performed>>

Next ==
  \E t \in Threads, o \in Operations :
    Compute(t, o) \/ Perform(Clique(t, o), o) \/ Use(t, o)

Spec == Init /\ [][Next]_vars
=============================================================================
