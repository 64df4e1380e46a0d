--------------------------- MODULE ExecutionEngine ---------------------------
(***************************************************************************)
(* ExecutionEngine of src/edrader/execution/engine.py: it turns approved   *)
(* signals into order requests, throttles them per symbol, and re-sends a  *)
(* request nobody reported as submitted.                                   *)
(***************************************************************************)
EXTENDS OrderBus, FiniteSets

CONSTANTS MaxRetries,  (* max_retries                                            *)
          Throttling,  (* throttle_delay > 0                                     *)
          MaxStops     (* bound: how often the engine may be stopped             *)

ASSUME EngineAssumption ==
  /\ MaxRetries \in Nat
  /\ Throttling \in BOOLEAN
  /\ MaxStops \in Nat

VARIABLES
  engineRunning,   (* ExecutionEngine._running                              *)
  lastOrderTime,   (* symbols ordered less than throttle_delay ago          *)
  activeOrders,    (* order ids in _active_orders                           *)
  pendingRetries,  (* key -> retries left, 0 when the key is absent         *)
  retryTasks,      (* intents whose retry task sleeps                       *)
  fresh,           (* history: signals not approved yet                     *)
  requests,        (* history: intent -> OrderRequested events published    *)
  reported,        (* history: intents whose order id the engine has seen   *)
  session,         (* history: number of stop() calls                       *)
  madeIn,          (* history: intent -> the session of its first request   *)
  late             (* history: intents re-sent with events still queued     *)

engineHistory == <<fresh, requests, reported, session, madeIn, late>>
engineVars == <<engineRunning, lastOrderTime, activeOrders, pendingRetries,
                retryTasks, engineHistory>>

EngineInit ==
  /\ engineRunning = TRUE
  /\ lastOrderTime = {}
  /\ activeOrders = {}
  /\ pendingRetries = [k \in Keys |-> 0]
  /\ retryTasks = {}
  /\ fresh = Intents
  /\ requests = [i \in Intents |-> 0]
  /\ reported = {}
  /\ session = 0
  /\ madeIn = [i \in Intents |-> 0]
  /\ late = {}

-----------------------------------------------------------------------------
(* _on_approved_signal                                                     *)

(* Not running, or sized to nothing: the signal is dropped.                *)
ApprovedIgnored(i) ==
  /\ ~engineRunning \/ (Size[i] = 0 /\ ~(Throttling /\ Symbol[i] \in lastOrderTime))
  /\ Handle(Approved(i), <<>>)
  /\ UNCHANGED engineVars

(* Within the throttle delay: an OrderSubmitted without an order id.       *)
ApprovedThrottled(i) ==
  /\ engineRunning
  /\ Throttling /\ Symbol[i] \in lastOrderTime
  /\ Handle(Approved(i), <<Submitted(i, None)>>)
  /\ UNCHANGED engineVars

MayRequest(i) ==
  /\ engineRunning
  /\ ~(Throttling /\ Symbol[i] \in lastOrderTime)
  /\ Size[i] > 0

CountRequest(i) ==
  /\ requests' = [requests EXCEPT ![i] = @ + 1]
  /\ madeIn' = [madeIn EXCEPT ![i] = session]
  /\ UNCHANGED <<fresh, reported, session, late>>

(* The code after publish(OrderRequested): start the throttle delay, allow *)
(* max_retries for the key and create the retry task.                      *)
AfterRequest(i) ==
  /\ lastOrderTime' =
       IF Throttling THEN lastOrderTime \cup {Symbol[i]} ELSE lastOrderTime
  /\ IF MaxRetries > 0
     THEN /\ pendingRetries' = [pendingRetries EXCEPT ![Key(i)] = MaxRetries]
          /\ retryTasks' = retryTasks \cup {i}
     ELSE UNCHANGED <<pendingRetries, retryTasks>>

(* Asynchronously publish() only queues the request, so that the handler   *)
(* ends before the broker sees it.                                         *)
ApprovedRequested(i) ==
  /\ ~syncMode
  /\ MayRequest(i)
  /\ Handle(Approved(i), <<Requested(i)>>)
  /\ CountRequest(i)
  /\ AfterRequest(i)
  /\ UNCHANGED <<engineRunning, activeOrders>>

(* In sync_mode publish() returns when the broker, and everybody it tells, *)
(* are done with the request.                                              *)
ApprovedRequestedSync(i) ==
  /\ syncMode
  /\ MayRequest(i)
  /\ Handle(Approved(i), <<Requested(i), Return(i)>>)
  /\ CountRequest(i)
  /\ UNCHANGED <<engineRunning, lastOrderTime, activeOrders, pendingRetries,
                 retryTasks>>

ReturnFromRequest(i) ==
  /\ Handle(Return(i), <<>>)
  /\ AfterRequest(i)
  /\ UNCHANGED <<engineRunning, activeOrders, engineHistory>>

(* The queue stays full until the subscriber timeout cancels the handler   *)
(* inside publish(): nothing is published and nothing after it runs.       *)
ApprovedTimedOut(i) ==
  /\ MayOverflow /\ ~syncMode
  /\ engineRunning
  /\ Handle(Approved(i), <<>>)
  /\ UNCHANGED engineVars

-----------------------------------------------------------------------------
(* _retry_pending_order, after its sleep                                   *)

RetryDue(i) ==
  /\ i \in retryTasks
  /\ retryTasks' = retryTasks \ {i}

Retry(i) ==
  /\ RetryDue(i)
  /\ engineRunning
  /\ pendingRetries[Key(i)] > 0
  /\ pendingRetries' = [pendingRetries EXCEPT ![Key(i)] = @ - 1]
  /\ Post(Requested(i))
  /\ requests' = [requests EXCEPT ![i] = @ + 1]
  /\ late' = IF bus = <<>> THEN late ELSE late \cup {i}
  /\ UNCHANGED <<engineRunning, lastOrderTime, activeOrders, fresh, reported,
                 session, madeIn>>

RetryNotNeeded(i) ==
  /\ RetryDue(i)
  /\ MayPublish
  /\ ~engineRunning \/ pendingRetries[Key(i)] = 0
  /\ UNCHANGED <<busVars, engineRunning, lastOrderTime, activeOrders,
                 pendingRetries, engineHistory>>

-----------------------------------------------------------------------------
(* The other subscriptions.                                                *)

(* Mutant: a throttled or rejected order, which has no id, counts too, and *)
(* the pending retry of its key survives the report of an order id.        *)
OnSubmittedKeepsRetry(i, o) ==
  /\ Handle(Submitted(i, o), <<>>)
  /\ IF engineRunning /\ o # None
     THEN /\ activeOrders' = activeOrders \cup {o}
          /\ reported' = reported \cup {i}
     ELSE UNCHANGED <<activeOrders, reported>>
  /\ UNCHANGED <<engineRunning, lastOrderTime, pendingRetries, retryTasks,
                 fresh, requests, session, madeIn, late>>

(* _on_submitted: the order becomes active, its key's retries are dropped. *)
OnSubmitted(i, o) ==
  /\ Handle(Submitted(i, o), <<>>)
  /\ IF engineRunning /\ o # None
     THEN /\ activeOrders' = activeOrders \cup {o}
          /\ pendingRetries' = [pendingRetries EXCEPT ![Key(i)] = 0]
          /\ reported' = reported \cup {i}
     ELSE UNCHANGED <<activeOrders, pendingRetries, reported>>
  /\ UNCHANGED <<engineRunning, lastOrderTime, retryTasks, fresh, requests,
                 session, madeIn, late>>

(* Mutant: only a cancellation takes the order out of the active ones.     *)
OnOrderCancelledOnly(i, o) ==
  /\ \/ Handle(Filled(i, o), <<>>) /\ UNCHANGED activeOrders
     \/ /\ Handle(Cancelled(i, o), <<>>)
        /\ activeOrders' = IF engineRunning THEN activeOrders \ {o} ELSE activeOrders
  /\ UNCHANGED <<engineRunning, lastOrderTime, pendingRetries, retryTasks,
                 engineHistory>>

(* _on_filled, for the first fill and every later one, and _on_cancelled.  *)
OnOrderOver(i, o) ==
  /\ Handle(Filled(i, o), <<>>) \/ Handle(Cancelled(i, o), <<>>)
  /\ activeOrders' = IF engineRunning THEN activeOrders \ {o} ELSE activeOrders
  /\ UNCHANGED <<engineRunning, lastOrderTime, pendingRetries, retryTasks,
                 engineHistory>>

(* The throttle delay of symbol s is over.                                 *)
ThrottleElapsed(s) ==
  /\ MayPublish
  /\ s \in lastOrderTime
  /\ lastOrderTime' = lastOrderTime \ {s}
  /\ UNCHANGED <<busVars, engineRunning, activeOrders, pendingRetries, retryTasks,
                 engineHistory>>

EngineStart ==
  /\ MayPublish
  /\ ~engineRunning
  /\ engineRunning' = TRUE
  /\ UNCHANGED <<busVars, lastOrderTime, activeOrders, pendingRetries, retryTasks,
                 engineHistory>>

(* Mutant: stop() only unsubscribes.                                       *)
EngineStopUnsubscribes ==
  /\ MayPublish
  /\ engineRunning
  /\ session < MaxStops
  /\ engineRunning' = FALSE
  /\ session' = session + 1
  /\ UNCHANGED <<busVars, lastOrderTime, activeOrders, pendingRetries, retryTasks,
                 fresh, requests, reported, madeIn, late>>

(* stop() cancels the retry tasks, awaits them and forgets everything.     *)
EngineStop ==
  /\ MayPublish
  /\ engineRunning
  /\ session < MaxStops
  /\ engineRunning' = FALSE
  /\ lastOrderTime' = {}
  /\ activeOrders' = {}
  /\ pendingRetries' = [k \in Keys |-> 0]
  /\ retryTasks' = {}
  /\ session' = session + 1
  /\ UNCHANGED <<busVars, fresh, requests, reported, madeIn, late>>

(* The risk engine approves a signal (module RiskEngine's SignalApproved). *)
Approve(i) ==
  /\ i \in fresh
  /\ fresh' = fresh \ {i}
  /\ Post(Approved(i))
  /\ UNCHANGED <<engineRunning, lastOrderTime, activeOrders, pendingRetries,
                 retryTasks, requests, reported, session, madeIn, late>>

-----------------------------------------------------------------------------
OnApproved(i) ==
  \/ ApprovedIgnored(i) \/ ApprovedThrottled(i)
  \/ ApprovedRequested(i) \/ ApprovedRequestedSync(i) \/ ApprovedTimedOut(i)

EngineHandler(i, o) ==
  \/ OnApproved(i) \/ ReturnFromRequest(i)
  \/ OnSubmitted(i, o) \/ OnOrderOver(i, o)

RetryTask(i) == Retry(i) \/ RetryNotNeeded(i)

EngineControl ==
  \/ EngineStart \/ EngineStop
  \/ \E s \in Symbols : ThrottleElapsed(s)
=============================================================================
