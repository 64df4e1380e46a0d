---------------------------- MODULE BrokerAdapter ----------------------------
(***************************************************************************)
(* BrokerAdapter of src/edrader/broker/order_management.py, and the broker *)
(* behind ib_async as the adapter uses it: placeOrder answers at once with *)
(* a trade, with nothing, or with an exception; order status and execution *)
(* callbacks arrive later, and each becomes a task that publishes.         *)
(***************************************************************************)
EXTENDS OrderBus, FiniteSets

CONSTANTS MayReject,  (* whether placeOrder may fail                          *)
          Answered    (* bound: the order ids the broker may fill or cancel  *)

ASSUME AdapterAssumption == MayReject \in BOOLEAN /\ Answered \subseteq Nat

VARIABLES
  adapterRunning,  (* BrokerAdapter._running                                *)
  trades,          (* order ids in _trades                                  *)
  tasks,           (* callback tasks created and not run, oldest first      *)
  book,            (* the broker: order id -> intent, quantity left, state  *)
  untold,          (* history: orders whose OrderSubmitted was never queued *)
  forgotten        (* history: orders whose trade a stop() dropped          *)

adapterHistory == <<untold, forgotten>>
adapterVars == <<adapterRunning, trades, tasks, book, adapterHistory>>

AdapterInit ==
  /\ adapterRunning = TRUE
  /\ trades = {}
  /\ tasks = <<>>
  /\ book = <<>>
  /\ untold = {}
  /\ forgotten = {}

Working(o) == o \in DOMAIN book /\ book[o].state = "working"
OrdersFor(i) == {o \in DOMAIN book : book[o].intent = i}

StatusTask(o, status) == [kind |-> "status", order |-> o, status |-> status]
ExecTask(o) == [kind |-> "exec", order |-> o, status |-> "Filled"]

-----------------------------------------------------------------------------
(* on_request -> place_order                                               *)

(* Mutant: the trade is only noted when a status of it arrives.            *)
AcceptUntracked(i) ==
  /\ adapterRunning
  /\ book' = Append(book, [intent |-> i, left |-> Size[i], state |-> "working"])
  /\ UNCHANGED <<adapterRunning, trades, tasks, forgotten>>

(* The broker accepts: it has the order from here on.                      *)
Accept(i) ==
  LET o == Len(book) + 1 IN
    /\ adapterRunning
    /\ book' = Append(book, [intent |-> i, left |-> Size[i], state |-> "working"])
    /\ trades' = trades \cup {o}
    /\ UNCHANGED <<adapterRunning, tasks, forgotten>>

PlaceOrder(i) ==
  /\ Accept(i)
  /\ Handle(Requested(i), <<Submitted(i, Len(book) + 1)>>)
  /\ UNCHANGED untold

(* The order is placed, and the full queue times the handler out before it *)
(* can say so.                                                             *)
PlaceOrderTimedOut(i) ==
  /\ MayOverflow /\ ~syncMode
  /\ Accept(i)
  /\ Handle(Requested(i), <<>>)
  /\ untold' = untold \cup {Len(book) + 1}

(* placeOrder raises or answers incompletely, or the adapter is stopped:   *)
(* nothing is published.                                                   *)
PlaceOrderFailed(i) ==
  /\ MayReject \/ ~adapterRunning
  /\ Handle(Requested(i), <<>>)
  /\ UNCHANGED adapterVars

-----------------------------------------------------------------------------
(* The broker's callbacks.                                                 *)

Callback(new) == tasks' = IF adapterRunning THEN tasks \o new ELSE tasks

(* q more units of order o are executed: execDetailsEvent, and then        *)
(* orderStatusEvent when nothing is left.                                  *)
BrokerFill(o, q) ==
  /\ MayPublish
  /\ Working(o)
  /\ q <= book[o].left
  /\ IF q = book[o].left
     THEN /\ book' = [book EXCEPT ![o].left = 0, ![o].state = "filled"]
          /\ Callback(<<ExecTask(o), StatusTask(o, "Filled")>>)
     ELSE /\ book' = [book EXCEPT ![o].left = @ - q]
          /\ Callback(<<ExecTask(o)>>)
  /\ UNCHANGED <<busVars, adapterRunning, trades, adapterHistory>>

(* The order is cancelled, by cancel_order or by the broker itself.        *)
BrokerCancel(o) ==
  /\ MayPublish
  /\ Working(o)
  /\ book' = [book EXCEPT ![o].state = "cancelled"]
  /\ Callback(<<StatusTask(o, "Cancelled")>>)
  /\ UNCHANGED <<busVars, adapterRunning, trades, adapterHistory>>

(* _handle_order_status (its OrderStatusChanged event has no subscriber    *)
(* here).                                                                  *)
RunStatusTask ==
  /\ tasks # <<>> /\ Head(tasks).kind = "status"
  /\ LET o == Head(tasks).order IN
       IF Head(tasks).status = "Cancelled"
       THEN /\ Post(Cancelled(book[o].intent, o))
            /\ trades' = trades \ {o}
       ELSE /\ MayPublish
            /\ trades' = trades \cup {o}
            /\ UNCHANGED busVars
  /\ tasks' = Tail(tasks)
  /\ UNCHANGED <<adapterRunning, book, adapterHistory>>

(* _handle_exec_details                                                    *)
RunExecTask ==
  /\ tasks # <<>> /\ Head(tasks).kind = "exec"
  /\ LET o == Head(tasks).order IN Post(Filled(book[o].intent, o))
  /\ tasks' = Tail(tasks)
  /\ UNCHANGED <<adapterRunning, trades, book, adapterHistory>>

AdapterStart ==
  /\ MayPublish
  /\ ~adapterRunning
  /\ adapterRunning' = TRUE
  /\ UNCHANGED <<busVars, trades, tasks, book, adapterHistory>>

(* stop() forgets the trades; tasks already created still run.             *)
AdapterStop ==
  /\ MayPublish
  /\ adapterRunning
  /\ adapterRunning' = FALSE
  /\ trades' = {}
  /\ forgotten' = forgotten \cup trades
  /\ UNCHANGED <<busVars, tasks, book, untold>>

AdapterHandler(i) ==
  PlaceOrder(i) \/ PlaceOrderTimedOut(i) \/ PlaceOrderFailed(i)
AdapterTask == RunStatusTask \/ RunExecTask
Broker ==
  \E o \in DOMAIN book \cap Answered :
    BrokerCancel(o) \/ \E q \in 1..book[o].left : BrokerFill(o, q)
=============================================================================
