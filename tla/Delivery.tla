------------------------------- MODULE Delivery -------------------------------
(***************************************************************************)
(* What the event bus promises, with neither its waits nor its counters:   *)
(* accepted events wait in the lane of their priority and leave it in the  *)
(* order they came in; one event at a time is in hand, and everyone it is  *)
(* due to sees it once before it is settled.  Only the event in hand can   *)
(* be lost.                                                                *)
(***************************************************************************)
EXTENDS Naturals, Sequences

CONSTANTS Events, Handlers, Lanes,
          Lane,       (* event -> its lane                                    *)
          None

VARIABLES
  pending,   (* lane -> accepted events, oldest first                          *)
  hand,      (* the event in hand, or None                                     *)
  due,       (* the handlers that have yet to see it                           *)
  calls,     (* handler -> event -> how often it has seen it                   *)
  settled,   (* events everyone has seen                                       *)
  lost       (* events given up in hand                                        *)

vars == <<pending, hand, due, calls, settled, lost>>

Init ==
  /\ pending = [l \in Lanes |-> <<>>]
  /\ hand = None
  /\ due = {}
  /\ calls = [h \in Handlers |-> [e \in Events |-> 0]]
  /\ settled = {}
  /\ lost = {}

IsPending(e) == \E l \in Lanes : \E i \in DOMAIN pending[l] : pending[l][i] = e

Accept(e) ==
  /\ e \notin settled \cup lost \cup {hand}
  /\ ~IsPending(e)
  /\ pending' = [pending EXCEPT ![Lane[e]] = Append(@, e)]
  /\ UNCHANGED <<hand, due, calls, settled, lost>>

Take(l) ==
  /\ hand = None
  /\ pending[l] # <<>>
  /\ hand' = Head(pending[l])
  /\ pending' = [pending EXCEPT ![l] = Tail(@)]
  /\ due' \in SUBSET Handlers
  /\ UNCHANGED <<calls, settled, lost>>

Show(h) ==
  /\ h \in due
  /\ due' = due \ {h}
  /\ calls' = [calls EXCEPT ![h][hand] = @ + 1]
  /\ UNCHANGED <<pending, hand, settled, lost>>

Settle ==
  /\ hand # None
  /\ due = {}
  /\ settled' = settled \cup {hand}
  /\ hand' = None
  /\ UNCHANGED <<pending, due, calls, lost>>

Lose ==
  /\ hand # None
  /\ lost' = lost \cup {hand}
  /\ hand' = None
  /\ due' = {}
  /\ UNCHANGED <<pending, calls, settled>>

Next ==
  \/ \E e \in Events : Accept(e)
  \/ \E l \in Lanes : Take(l)
  \/ \E h \in Handlers : Show(h)
  \/ Settle \/ Lose

Spec == Init /\ [][Next]_vars
=============================================================================
