------------------------------- MODULE RiskFlow -------------------------------
(***************************************************************************)
(* From a signal to the position it makes: RiskEngine and PositionManager  *)
(* on one bus, with the execution engine and the broker between them.      *)
(* Verdicts are taken from the positions, and orders are in flight for a   *)
(* while before they show up there. The execution engine requests an order *)
(* again when nobody has reported it after a while, without another look   *)
(* at the limits or the kill switch.                                       *)
(***************************************************************************)
EXTENDS RiskEngine

CONSTANTS
  MaxRetries, (* max_retries of the execution engine                          *)
  TickPrices, (* bound: prices of ticks                                       *)
  MaxQueue,   (* bound: events in the queue                                   *)
  MaxOrders,  (* bound: orders the broker takes                               *)
  MaxEvents   (* bound: ticks, disconnects and times the switch is turned on  *)

ASSUME FlowAssumption ==
  /\ MaxRetries \in Nat
  /\ TickPrices \subseteq Prices
  /\ MaxQueue \in Nat /\ MaxOrders \in Nat
  /\ MaxEvents \in Nat

VARIABLES
  bus,       (* events published and not dispatched yet                *)
  fresh,     (* signals not generated yet                              *)
  pending,   (* key -> retries left in _pending_retries, 0 for none    *)
  asleep,    (* signals whose retry task sleeps                        *)
  working,   (* signal -> its orders at the broker                     *)
  placed,    (* history: signal -> orders the broker has taken for it  *)
  untold,    (* signal -> orders placed that the engine has not been   *)
             (* told of                                                *)
  events,    (* history: ticks, disconnects, switch turned on          *)
  queued,    (* history: approvals that could still become requests    *)
             (* when the kill switch tripped                           *)
  late,      (* history: requests made while the kill switch was on    *)
  crowded    (* history: an approval was given with another in flight  *)

orderVars == <<pending, asleep, working, placed, untold>>
flowVars == <<vars, riskVars, bus, fresh, orderVars, events, queued, late, crowded>>

(* Retries are counted by symbol and side.                                 *)
Key(i) == <<Symbol[i], Side[i]>>
Keys   == Symbols \X {"BUY", "SELL"}

Signal(i)    == [type |-> "signal", of |-> i]
Approved(i)  == [type |-> "approved", of |-> i]
Fill(i, p)   == [type |-> "fill", of |-> i, price |-> p]
Tick(s, p)   == [type |-> "tick", of |-> s, price |-> p]
Disconnected == [type |-> "disconnected"]

FlowInit ==
  /\ Init
  /\ RiskInit
  /\ bus = <<>>
  /\ fresh = Signals
  /\ pending = [k \in Keys |-> 0]
  /\ asleep = {}
  /\ working = [i \in Signals |-> 0]
  /\ placed = [i \in Signals |-> 0]
  /\ untold = [i \in Signals |-> 0]
  /\ events = 0
  /\ queued = {}
  /\ late = {}
  /\ crowded = FALSE

Post(e) == Len(bus) < MaxQueue /\ bus' = Append(bus, e)
Dispatch(e, out) == bus # <<>> /\ Head(bus) = e /\ bus' = Tail(bus) \o out

Queued(e) == \E k \in DOMAIN bus : bus[k] = e
ApprovalsQueued == {i \in Signals : Queued(Approved(i))}

(* A sleeping retry task requests its order again if its key has retries   *)
(* left then, or gets some by an approval that is still to be handled.     *)
MayRepeat ==
  {i \in asleep : pending[Key(i)] > 0 \/ \E j \in ApprovalsQueued : Key(j) = Key(i)}
Waiting == ApprovalsQueued \cup MayRepeat

(* Approved signals that may still change a position.                      *)
Filling(i) == \E k \in DOMAIN bus : bus[k].type = "fill" /\ bus[k].of = i
InFlight == Waiting \cup {i \in Signals : working[i] > 0 \/ Filling(i)}

(* What an approval of signal i could meet on its way.                     *)
Crowds(i) == InFlight # {} \/ \E j \in asleep : Key(j) = Key(i)

NoteTrip == queued' = IF killSwitch' /\ ~killSwitch THEN Waiting ELSE queued

(* An order is requested for signal i: the broker takes it, or it is lost  *)
(* or refused. Nobody looks at the kill switch.                            *)
Request(i) ==
  /\ late' = IF killSwitch THEN late \cup {i} ELSE late
  /\ \/ /\ MapThenSumSet(LAMBDA j : placed[j], Signals) < MaxOrders
        /\ working' = [working EXCEPT ![i] = @ + 1]
        /\ placed' = [placed EXCEPT ![i] = @ + 1]
        /\ untold' = [untold EXCEPT ![i] = @ + 1]
     \/ UNCHANGED <<working, placed, untold>>

-----------------------------------------------------------------------------
Generate(i) ==
  /\ i \in fresh
  /\ fresh' = fresh \ {i}
  /\ Post(Signal(i))
  /\ UNCHANGED <<vars, riskVars, orderVars, events, queued, late, crowded>>

(* _on_signal, whose verdict is lost when a full queue times it out.       *)
OnSignal(i) ==
  /\ \/ /\ Dispatch(Signal(i), <<Approved(i)>>)
        /\ Approves(i)
        /\ crowded' = (crowded \/ Crowds(i))
     \/ /\ Dispatch(Signal(i), <<>>)
        /\ Rejects(i) \/ ~riskRunning \/ MayOverflow
        /\ UNCHANGED crowded
  /\ UNCHANGED <<vars, riskVars, fresh, orderVars, events, queued, late>>

(* ExecutionEngine._on_approved_signal: the approval becomes a request,    *)
(* with retries for its key and a task that will see to them, unless it is *)
(* throttled, sized to nothing or cut off, or the engine is stopped.       *)
OnApproved(i) ==
  /\ Dispatch(Approved(i), <<>>)
  /\ \/ /\ Request(i)
        /\ IF MaxRetries > 0
           THEN /\ pending' = [pending EXCEPT ![Key(i)] = MaxRetries]
                /\ asleep' = asleep \cup {i}
           ELSE UNCHANGED <<pending, asleep>>
     \/ UNCHANGED <<orderVars, late>>
  /\ UNCHANGED <<vars, riskVars, fresh, events, queued, crowded>>

(* _retry_pending_order wakes, once, whatever halted or changed meanwhile. *)
RetryFires(i) ==
  /\ i \in asleep
  /\ asleep' = asleep \ {i}
  /\ IF pending[Key(i)] > 0
     THEN /\ pending' = [pending EXCEPT ![Key(i)] = @ - 1]
          /\ Request(i)
     ELSE UNCHANGED <<pending, working, placed, untold, late>>
  /\ UNCHANGED <<vars, riskVars, bus, fresh, events, queued, crowded>>

(* _on_submitted: the engine is told of an order placed for signal i, if   *)
(* the report is not lost; the retries of its key are dropped. (A report   *)
(* that finds none to drop changes nothing here.)                          *)
OnSubmitted(i) ==
  /\ untold[i] > 0 /\ pending[Key(i)] > 0
  /\ untold' = [untold EXCEPT ![i] = @ - 1]
  /\ pending' = [pending EXCEPT ![Key(i)] = 0]
  /\ UNCHANGED <<vars, riskVars, bus, fresh, asleep, working, placed, events,
                 queued, late, crowded>>

BrokerFills(i, p) ==
  /\ working[i] > 0
  /\ working' = [working EXCEPT ![i] = @ - 1]
  /\ Post(Fill(i, p))
  /\ UNCHANGED <<vars, riskVars, fresh, pending, asleep, placed, untold, events,
                 queued, late, crowded>>

DispatchFill(i, p) ==
  /\ Dispatch(Fill(i, p), <<>>)
  /\ \E done \in Stages : OnFill(Symbol[i], Side[i], Size[i], p, done)
  /\ UNCHANGED <<riskVars, fresh, orderVars, events, queued, late, crowded>>

Count == events < MaxEvents /\ events' = events + 1

PublishTick(s, p) ==
  /\ p \in TickPrices
  /\ Count
  /\ Post(Tick(s, p))
  /\ UNCHANGED <<vars, riskVars, fresh, orderVars, queued, late, crowded>>

DispatchTick(s, p) ==
  /\ Dispatch(Tick(s, p), <<>>)
  /\ NoteTick(s)
  /\ \E heard \in BOOLEAN : OnTick(s, p, heard)
  /\ UNCHANGED <<fresh, orderVars, events, queued, late, crowded>>

Elapse(s) ==
  /\ GoesStale(s)
  /\ UNCHANGED <<vars, bus, fresh, orderVars, events, queued, late, crowded>>

BrokerDisconnects ==
  /\ Count
  /\ Post(Disconnected)
  /\ UNCHANGED <<vars, riskVars, fresh, orderVars, queued, late, crowded>>

OnDisconnect ==
  /\ Dispatch(Disconnected, <<>>)
  /\ NoteDisconnect
  /\ NoteTrip
  /\ UNCHANGED <<vars, fresh, orderVars, events, late, crowded>>

(* The switch is turned by hand, the risk engine stopped and started.      *)
Operate ==
  /\ \/ ActivateKillSwitch /\ Count
     \/ (DeactivateKillSwitch \/ RiskStop \/ RiskStart) /\ UNCHANGED events
  /\ NoteTrip
  /\ late' = IF killSwitch' THEN late ELSE {}
  /\ UNCHANGED <<vars, bus, fresh, orderVars, crowded>>

FlowNext ==
  \/ \E i \in Signals :
       \/ Generate(i) \/ OnSignal(i) \/ OnApproved(i) \/ RetryFires(i) \/ OnSubmitted(i)
       \/ \E p \in Prices : BrokerFills(i, p) \/ DispatchFill(i, p)
  \/ \E s \in Symbols :
       \/ Elapse(s)
       \/ \E p \in Prices : PublishTick(s, p) \/ DispatchTick(s, p)
  \/ BrokerDisconnects \/ OnDisconnect \/ Operate

FlowSpec == FlowInit /\ [][FlowNext]_flowVars

-----------------------------------------------------------------------------
(* Properties.                                                             *)

(* As long as no signal was approved while another one was approved and    *)
(* could still change a position, no more than max_concurrent_positions    *)
(* are open, also when an order is requested, and filled, more than once.  *)
ConcurrentWithinLimit == crowded \/ Cardinality(OpenPositions) <= MaxConcurrent

(* Under the same condition, once the day's realized result has reached    *)
(* max_daily_loss, no position is opened, and one there is only changes    *)
(* against its side, whatever its signals ask for: a larger order turns it *)
(* round, though. It is left open what happens to a symbol for whose       *)
(* signal two orders were placed, the second after a lost or late report:  *)
(* the verdict was about one.                                              *)
PlacedTwice(s) == \E i \in InFlight : Symbol[i] = s /\ placed[i] > 1
AgainstPosition(m, n) ==
  /\ m >= 0 => n <= m
  /\ m <= 0 => n >= m
DailyLossStopsIncrease ==
  [][~crowded /\ Abs(Total(realized)) >= MaxDailyLoss
       => \A s \in Symbols : PlacedTwice(s) \/ AgainstPosition(qty[s], qty'[s])]_flowVars

(* While the kill switch stays on, the only orders requested are for       *)
(* signals whose approval was queued, or whose request could be repeated,  *)
(* when it tripped: a signal in the queue then, or generated later, leads  *)
(* to none, across restarts of the engine.                                 *)
HaltLetsOnlyQueuedThrough == killSwitch => late \subseteq queued
=============================================================================
