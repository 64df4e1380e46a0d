--------------------------- MODULE ReplayOrderFlow ---------------------------
(***************************************************************************)
(* The order path of a replay: ExecutionEngine and SimulatedBroker on one  *)
(* bus, in sync_mode or not, driven by approvals and by prices.  Requests *)
(* may also reach the broker directly, as the tests and any other client   *)
(* of the bus send them (limit orders among them).  Every script that runs *)
(* a replay sets max_retries to 0, so there are no retry tasks.            *)
(***************************************************************************)
EXTENDS ExecutionEngine, SimulatedBroker

CONSTANTS Direct,     (* intents requested without the engine                  *)
          MaxRestart  (* bound: whether the broker may be stopped and restarted *)

ASSUME ReplayAssumption ==
  Direct \subseteq Intents /\ MaxRestart \in 0..1 /\ MaxRetries = 0

vars == <<busVars, engineVars, simVars>>

Init == BusInit /\ EngineInit /\ SimInit

(* A request of intent i from elsewhere.                                   *)
DirectRequest(i) ==
  /\ i \in fresh \cap Direct
  /\ fresh' = fresh \ {i}
  /\ Post(Requested(i))
  /\ requests' = [requests EXCEPT ![i] = @ + 1]
  /\ UNCHANGED <<engineRunning, lastOrderTime, activeOrders, pendingRetries,
                 retryTasks, reported, session, madeIn, late>>

HandlerStep ==
  \/ \E i \in Intents, o \in DOMAIN simBook \cup {None} :
       EngineHandler(i, o) /\ UNCHANGED simVars
  \/ \E i \in Intents : SimHandler(i) /\ UNCHANGED engineVars

Next ==
  \/ HandlerStep
  \/ SimPrice /\ UNCHANGED engineVars
  \/ \E i \in Intents \ Direct : Approve(i) /\ UNCHANGED simVars
  \/ \E i \in Intents : DirectRequest(i) /\ UNCHANGED simVars
  \/ EngineControl /\ UNCHANGED simVars
  \/ MaxRestart = 1 /\ SimControl /\ UNCHANGED engineVars

Spec == Init /\ [][Next]_vars

-----------------------------------------------------------------------------
(* Properties.                                                             *)

Waiting == Elements(held) \cup Elements(pending)

(* Between two events of the replay every market order whose symbol has a  *)
(* price is filled, and every limit order the last price crosses, but for  *)
(* those of an update that was cut off.                                    *)
NothingDueWaits ==
  bus = <<>> =>
    /\ \A n \in DOMAIN held :
         MarketPrice(IntentOf(held[n])) = None \/ held[n] \in cutOff
    /\ \A n \in DOMAIN pending :
         LET i == IntentOf(pending[n]) IN
           \/ MarketPrice(i) = None
           \/ ~Crossed(i, MarketPrice(i))
           \/ pending[n] \in cutOff

(* Orders run their course: one that waited for a price is not filled     *)
(* again by the next, and goes on waiting until it is filled, even when    *)
(* full queues time the broker out in the middle of a round of fills; only *)
(* stop() forgets it.  Orders due in a round cut off may be filled twice.  *)
Course == INSTANCE OrderLife WITH
  fills <- [o \in DOMAIN simBook |-> simBook[o].fills],
  waiting <- Waiting, suspect <- cutOff
OrdersRunTheirCourse == Course!Spec
=============================================================================
