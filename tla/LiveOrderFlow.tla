---------------------------- MODULE LiveOrderFlow ----------------------------
(***************************************************************************)
(* The live order path: ExecutionEngine and BrokerAdapter on one bus, with *)
(* the broker behind the adapter and the risk engine's approvals as input. *)
(***************************************************************************)
EXTENDS ExecutionEngine, BrokerAdapter

vars == <<busVars, engineVars, adapterVars>>

Init == BusInit /\ EngineInit /\ AdapterInit

HandlerStep ==
  \/ \E i \in Intents, o \in DOMAIN book \cup {None} :
       EngineHandler(i, o) /\ UNCHANGED adapterVars
  \/ \E i \in Intents : AdapterHandler(i) /\ UNCHANGED engineVars

RetryStep == \E i \in Intents : RetryTask(i) /\ UNCHANGED adapterVars
TaskStep == AdapterTask /\ UNCHANGED engineVars

(* Bound: stops, of the engine or, with orders, of the adapter.            *)
MayStop == session < MaxStops /\ forgotten = {}

Next ==
  \/ HandlerStep
  \/ RetryStep
  \/ TaskStep
  \/ Broker /\ UNCHANGED engineVars
  \/ \E i \in Intents : Approve(i) /\ UNCHANGED adapterVars
  \/ EngineControl /\ (session' # session => MayStop) /\ UNCHANGED adapterVars
  \/ AdapterStop /\ MayStop /\ UNCHANGED engineVars
  \/ AdapterStart /\ UNCHANGED engineVars

Spec == Init /\ [][Next]_vars

-----------------------------------------------------------------------------
(* Properties.                                                             *)

(* A signal's request is repeated at most once, by the retry of the engine *)
(* session that first sent it, and never once the engine has been told the *)
(* order id ("if key not in _pending_retries: return (order was            *)
(* submitted/filled)"), whatever is delayed, lost, stopped or restarted.   *)
OneRetryUntilReported ==
  [][\A i \in Intents :
       requests[i] >= 1 /\ requests'[i] > requests[i]
         => /\ requests'[i] = 2
            /\ madeIn[i] = session /\ engineRunning
            /\ i \notin reported]_vars

(* An approved signal reaches the broker once, unless its retry overtook   *)
(* events still queued or the report of its order was lost.                *)
RetriesAvoidDuplicates ==
  \A i \in Intents :
    Cardinality(OrdersFor(i)) <= 1 \/ i \in late \/ OrdersFor(i) \cap untold # {}

(* When nothing is in flight and the engine was never stopped, its active  *)
(* orders are those working at the broker that have no fill yet, but for   *)
(* orders nobody was told of or whose callbacks a stopped adapter ignored. *)
Quiet == bus = <<>> /\ tasks = <<>>
Unfilled == {o \in DOMAIN book : Working(o) /\ book[o].left = Size[book[o].intent]}
ActiveOrdersExact ==
  session = 0 /\ Quiet =>
    activeOrders \ forgotten = (Unfilled \ untold) \ forgotten

(* The adapter knows every working order it has not been stopped with.     *)
WorkingOrdersTracked ==
  \A o \in DOMAIN book : Working(o) => o \in trades \cup forgotten

(* Engine and adapter know the orders there are: the engine none too many  *)
(* and none too few, the adapter every one that works.                     *)
OrdersTracked == ActiveOrdersExact /\ WorkingOrdersTracked
=============================================================================
