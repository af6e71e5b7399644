---------------------------- MODULE LeadDelivery ----------------------------
(***************************************************************************)
(* What confirming leads promises, with the handlers, the lock and the      *)
(* table's columns left out: a lead reaches its destination only after it   *)
(* was captured, at most once while nobody has lost track of it, and never  *)
(* again once the table has recorded it.  A delivery can be lost track of,  *)
(* because the destination and the table are two systems with no common     *)
(* transaction; then, and only then, the lead may be delivered again.       *)
(***************************************************************************)
EXTENDS Integers

CONSTANT Lead

VARIABLES
  captured,   \* the leads in the table
  recorded,   \* those whose delivery the table has recorded
  landed,     \* how often each lead was delivered
  lost        \* how many of those deliveries nobody remembers

vars == <<captured, recorded, landed, lost>>

Init ==
  /\ captured = {} /\ recorded = {}
  /\ landed = [i \in Lead |-> 0]
  /\ lost = [i \in Lead |-> 0]

Due(i) == i \in captured \ recorded /\ landed[i] = lost[i]

InDoubt(i) == i \in captured \ recorded /\ landed[i] = lost[i] + 1

Capture(i) ==
  /\ i \notin captured
  /\ captured' = captured \cup {i}
  /\ UNCHANGED <<recorded, landed, lost>>

Deliver(i) ==
  /\ Due(i)
  /\ landed' = [landed EXCEPT ![i] = @ + 1]
  /\ UNCHANGED <<captured, recorded, lost>>

DeliverUnheard(i) ==
  /\ Due(i)
  /\ landed' = [landed EXCEPT ![i] = @ + 1]
  /\ lost' = [lost EXCEPT ![i] = @ + 1]
  /\ UNCHANGED <<captured, recorded>>

Record(i) ==
  /\ InDoubt(i)
  /\ recorded' = recorded \cup {i}
  /\ UNCHANGED <<captured, landed, lost>>

Forget(i) ==
  /\ InDoubt(i)
  /\ lost' = [lost EXCEPT ![i] = @ + 1]
  /\ UNCHANGED <<captured, recorded, landed>>

Next ==
  \E i \in Lead :
    Capture(i) \/ Deliver(i) \/ DeliverUnheard(i) \/ Record(i) \/ Forget(i)

Spec == Init /\ [][Next]_vars
=============================================================================
