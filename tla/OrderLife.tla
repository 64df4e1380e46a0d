------------------------------ MODULE OrderLife ------------------------------
(***************************************************************************)
(* What a broker in a replay promises to do with the orders it is given:   *)
(* each is filled at once, or waits until it is filled, or is refused.  It *)
(* is filled once, unless a round of fills it was due in was interrupted.  *)
(***************************************************************************)
EXTENDS Naturals, Sequences

VARIABLES
  fills,    (* order -> 0, 1, or 2 for a second fill; orders come in numbered *)
  waiting,  (* the orders that wait for a price                               *)
  suspect   (* those that were due in a round that was interrupted            *)

vars == <<fills, waiting, suspect>>

Init == fills = <<>> /\ waiting = {} /\ suspect = {}

Arrive ==
  /\ \/ fills' = Append(fills, 1) /\ waiting' = waiting
     \/ /\ fills' = Append(fills, 0)
        /\ waiting' \in {waiting, waiting \cup {Len(fills) + 1}}
  /\ UNCHANGED suspect

Filled(orders) ==
  fills' = [o \in DOMAIN fills |->
              IF o \notin orders THEN fills[o] ELSE IF fills[o] = 0 THEN 1 ELSE 2]

(* A round of fills.                                                       *)
Round(orders) ==
  /\ Filled(orders)
  /\ waiting' = waiting \ orders
  /\ UNCHANGED suspect

(* A round that ends early: those filled may be found waiting again.       *)
Interrupted(due, orders) ==
  /\ orders # due
  /\ Filled(orders)
  /\ \E again \in SUBSET orders : waiting' = (waiting \ orders) \cup again
  /\ suspect' = suspect \cup due

(* The broker closes.                                                      *)
Forget == waiting' = {} /\ UNCHANGED <<fills, suspect>>

Next ==
  \/ Arrive
  \/ \E due \in SUBSET waiting :
       Round(due) \/ \E orders \in SUBSET due : Interrupted(due, orders)
  \/ Forget

Spec == Init /\ [][Next]_vars
=============================================================================
