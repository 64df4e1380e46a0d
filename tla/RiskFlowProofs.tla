---------------------------- MODULE RiskFlowProofs ----------------------------
(***************************************************************************)
(* Proofs about RiskFlow: the kill switch (HaltIsHalt), the two limits     *)
(* (LimitHolds, LossLimitHolds), and the positions and what is told and    *)
(* written of them (OpeningsMatch, RowsFollow), which the limits rest on;  *)
(* and about Backtest: the money (MoneyKept), the report (ReportTrue) and  *)
(* the sizes of orders (SharesAffordable).                                 *)
(*                                                                         *)
(* HaltInv relates the switch to what may still become a request: neither  *)
(* an approval nor a retry is added while it is on, so whatever waits then *)
(* waited when it tripped. FlightInv follows one signal on its way: what   *)
(* its verdict was taken from stays as it was until its first fill, which  *)
(* OnceInv ties to the orders placed for it. LedgerInv follows the money:  *)
(* what a symbol's fills cost is in its position or in its profit.         *)
(***************************************************************************)
EXTENDS RiskFlow, Backtest, WellFoundedInduction, FiniteSetTheorems, TLAPS

Messages ==
  [type : {"signal", "approved"}, of : Signals]
    \cup [type : {"fill"}, of : Signals, price : Prices]
    \cup [type : {"tick"}, of : Symbols, price : Prices]
    \cup [type : {"disconnected"}]

OrderTypes ==
  /\ pending \in [Keys -> Nat]
  /\ asleep \subseteq Signals
  /\ working \in [Signals -> Nat]
  /\ placed \in [Signals -> Nat]
  /\ untold \in [Signals -> Nat]

LEMMA KeyIsKey == \A i \in Signals : Key(i) \in Keys
  BY RiskAssumption DEF Key, Keys

LEMMA RequestTyped ==
  ASSUME OrderTypes, NEW i \in Signals, Request(i)
  PROVE  /\ working' \in [Signals -> Nat]
         /\ placed' \in [Signals -> Nat]
         /\ untold' \in [Signals -> Nat]
  BY DEF Request, OrderTypes

LEMMA OrdersTyped ==
  ASSUME OrderTypes, [FlowNext]_flowVars
  PROVE  OrderTypes'
<1>1. CASE UNCHANGED orderVars
  BY <1>1 DEF orderVars, OrderTypes
<1>2. ASSUME NEW i \in Signals, OnApproved(i) PROVE OrderTypes'
  <2>1. CASE Request(i) /\ pending' = [pending EXCEPT ![Key(i)] = MaxRetries]
                        /\ asleep' = asleep \cup {i}
    BY <2>1, RequestTyped, FlowAssumption DEF OrderTypes
  <2>2. CASE Request(i) /\ UNCHANGED <<pending, asleep>>
    BY <2>2, RequestTyped DEF OrderTypes
  <2> QED
    BY <1>1, <1>2, <2>1, <2>2 DEF OnApproved
<1>3. ASSUME NEW i \in Signals, RetryFires(i) PROVE OrderTypes'
  <2>1. asleep' \subseteq Signals
    BY <1>3 DEF RetryFires, OrderTypes
  <2>2. CASE pending[Key(i)] > 0
    <3>1. Request(i) /\ pending' = [pending EXCEPT ![Key(i)] = @ - 1]
      BY <1>3, <2>2 DEF RetryFires
    <3>2. pending' \in [Keys -> Nat]
      BY <2>2, <3>1, KeyIsKey DEF OrderTypes
    <3> QED
      BY <2>1, <3>1, <3>2, RequestTyped DEF OrderTypes
  <2>3. CASE ~(pending[Key(i)] > 0)
    BY <1>3, <2>1, <2>3 DEF RetryFires, OrderTypes
  <2> QED
    BY <2>2, <2>3
<1>4. ASSUME NEW i \in Signals, OnSubmitted(i) PROVE OrderTypes'
  <2>1. /\ untold[i] > 0 /\ UNCHANGED <<asleep, working, placed>>
        /\ untold' = [untold EXCEPT ![i] = @ - 1]
        /\ pending' = [pending EXCEPT ![Key(i)] = 0]
    BY <1>4 DEF OnSubmitted
  <2>2. untold' \in [Signals -> Nat]
    BY <2>1 DEF OrderTypes
  <2>3. pending' \in [Keys -> Nat]
    BY <2>1 DEF OrderTypes
  <2> QED
    BY <2>1, <2>2, <2>3 DEF OrderTypes
<1>5. ASSUME NEW i \in Signals, NEW p \in Prices, BrokerFills(i, p) PROVE OrderTypes'
  BY <1>5 DEF BrokerFills, OrderTypes
<1>6. ASSUME NEW i \in Signals, NEW p \in Prices,
             DispatchFill(i, p)
      PROVE  OrderTypes'
  BY <1>1, <1>6 DEF DispatchFill
<1>7. ASSUME NEW s \in Symbols, NEW p \in Prices,
             PublishTick(s, p) \/ DispatchTick(s, p)
      PROVE  OrderTypes'
  BY <1>1, <1>7 DEF PublishTick, DispatchTick
<1>8. CASE BrokerDisconnects \/ OnDisconnect \/ Operate
  BY <1>1, <1>8 DEF BrokerDisconnects, OnDisconnect, Operate
<1>9. ASSUME NEW i \in Signals, Generate(i) \/ OnSignal(i) PROVE OrderTypes'
  BY <1>1, <1>9 DEF Generate, OnSignal
<1>10. ASSUME NEW s \in Symbols, Elapse(s) PROVE OrderTypes'
  BY <1>1, <1>10 DEF Elapse
<1>11. CASE UNCHANGED flowVars
  BY <1>1, <1>11 DEF flowVars
<1> QED
  BY <1>2, <1>3, <1>4, <1>5, <1>6, <1>7, <1>8, <1>9, <1>10, <1>11 DEF FlowNext

-----------------------------------------------------------------------------
(* The queue. Events of the types T move up, by one place or by none, and  *)
(* none is added.                                                          *)
Carried(T) ==
  \E d \in {0, 1} : \A k \in DOMAIN bus' :
    bus'[k].type \in T => k + d \in DOMAIN bus /\ bus'[k] = bus[k + d]

LEMMA DispatchCarries ==
  ASSUME bus \in Seq(Messages), NEW e, Dispatch(e, <<>>), NEW T
  PROVE  bus' \in Seq(Messages) /\ 1 \in DOMAIN bus /\ bus[1] = e /\ Carried(T)
<1>1. bus # <<>> /\ e = Head(bus) /\ bus' = Tail(bus)
  BY DEF Dispatch
<1>2. Len(bus) \in Nat \ {0} /\ Len(bus') = Len(bus) - 1
  BY <1>1
<1>3. \A k \in 1..Len(bus') : k + 1 \in 1..Len(bus) /\ bus'[k] = bus[k + 1]
  BY <1>1, <1>2
<1>4. Carried(T)
  BY <1>1, <1>3 DEF Carried
<1> QED
  BY <1>1, <1>2, <1>4

LEMMA AnswerCarries ==
  ASSUME bus \in Seq(Messages), NEW e, NEW x \in Messages, Dispatch(e, <<x>>),
         NEW T, x.type \notin T
  PROVE  /\ bus' \in Seq(Messages) /\ Carried(T)
         /\ \A k \in DOMAIN bus' : bus'[k] = x \/ \E l \in DOMAIN bus : bus'[k] = bus[l]
<1> DEFINE t == Tail(bus)
<1>1. bus # <<>> /\ t \in Seq(Messages) /\ bus' = Append(t, x)
  BY DEF Dispatch
<1>2. \A k \in 1..Len(t) : k + 1 \in 1..Len(bus) /\ t[k] = bus[k + 1]
  BY <1>1
<1> HIDE DEF t
<1>3. bus' \in Seq(Messages) /\ DOMAIN bus' = 1..Len(t) + 1 /\ bus'[Len(t) + 1] = x
  BY <1>1
<1>4. \A k \in 1..Len(t) : bus'[k] = t[k]
  BY <1>1
<1>5. \A k \in DOMAIN bus' : bus'[k] = x \/ (k + 1 \in DOMAIN bus /\ bus'[k] = bus[k + 1])
  BY <1>1, <1>2, <1>3, <1>4
<1> QED
  BY <1>3, <1>5 DEF Carried

LEMMA PostCarries ==
  ASSUME bus \in Seq(Messages), NEW e \in Messages, Post(e), NEW T, e.type \notin T
  PROVE  bus' \in Seq(Messages) /\ Carried(T)
<1>1. bus' = Append(bus, e)
  BY DEF Post
<1>2. bus' \in Seq(Messages)
  BY <1>1
<1>3. \A k \in DOMAIN bus' : bus'[k] = e \/ (k + 0 \in DOMAIN bus /\ bus'[k] = bus[k + 0])
  BY <1>1
<1> QED
  BY <1>2, <1>3 DEF Carried

LEMMA StillCarries ==
  ASSUME bus \in Seq(Messages), UNCHANGED bus, NEW T
  PROVE  bus' \in Seq(Messages) /\ Carried(T)
<1>1. \A k \in DOMAIN bus' : k + 0 \in DOMAIN bus /\ bus'[k] = bus[k + 0]
  OBVIOUS
<1> QED
  BY <1>1 DEF Carried

LEMMA ApprovalsCarried ==
  ASSUME NEW T, "approved" \in T, Carried(T)
  PROVE  ApprovalsQueued' \subseteq ApprovalsQueued
  BY DEF Carried, ApprovalsQueued, Queued, Approved

(* An approval or a fill in the queue, of a signal there is.               *)
OnlyFill(i) ==
  \A k, l \in DOMAIN bus :
    /\ bus[k].type = "fill" /\ bus[k].of = i
    /\ bus[l].type = "fill" /\ bus[l].of = i
    => k = l

LEMMA FillsCarried ==
  ASSUME bus' \in Seq(Messages), NEW T, "fill" \in T, Carried(T)
  PROVE  /\ \A i : Filling(i)' => Filling(i)
         /\ \A i : OnlyFill(i) => OnlyFill(i)'
<1>1. PICK d \in {0, 1} : \A k \in DOMAIN bus' :
        bus'[k].type \in T => k + d \in DOMAIN bus /\ bus'[k] = bus[k + d]
  BY DEF Carried
<1>2. \A i : Filling(i)' => Filling(i)
  BY <1>1 DEF Filling
<1>3. ASSUME NEW i, OnlyFill(i),
             NEW k \in DOMAIN bus', NEW l \in DOMAIN bus',
             bus'[k].type = "fill", bus'[k].of = i, bus'[l].type = "fill", bus'[l].of = i
      PROVE  k = l
  <2>1. k + d = l + d
    BY <1>1, <1>3 DEF OnlyFill
  <2>2. k \in Nat /\ l \in Nat /\ d \in Nat
    OBVIOUS
  <2> QED
    BY <2>1, <2>2
<1> QED
  BY <1>2, <1>3 DEF OnlyFill

(* What may still become a request: an approval that is handled becomes    *)
(* one, and it gives retries to tasks that were among these already.       *)
LEMMA WaitingShrinks ==
  ASSUME ApprovalsQueued' \subseteq ApprovalsQueued, asleep' \subseteq asleep,
         \A i \in asleep' : pending'[Key(i)] > 0 => pending[Key(i)] > 0
  PROVE  Waiting' \subseteq Waiting
<1>1. MayRepeat' \subseteq MayRepeat
  BY DEF MayRepeat, Key
<1> QED
  BY <1>1 DEF Waiting

LEMMA ApprovalWaits ==
  ASSUME OrderTypes, NEW i \in Signals, OnApproved(i), bus \in Seq(Messages)
  PROVE  /\ i \in Waiting /\ Waiting' \subseteq Waiting
         /\ Request(i) \/ UNCHANGED <<orderVars, late>>
<1>1. 1 \in DOMAIN bus /\ bus[1] = Approved(i) /\ Carried({"approved"})
  BY DispatchCarries DEF OnApproved
<1>2. ApprovalsQueued' \subseteq ApprovalsQueued
  BY <1>1, ApprovalsCarried
<1>3. i \in ApprovalsQueued
  BY <1>1 DEF ApprovalsQueued, Queued
<1>4. CASE UNCHANGED <<pending, asleep>>
  BY <1>2, <1>3, <1>4, WaitingShrinks DEF OnApproved, Waiting, orderVars
<1>5. CASE pending' = [pending EXCEPT ![Key(i)] = MaxRetries] /\ asleep' = asleep \cup {i}
  <2>1. ASSUME NEW j \in MayRepeat', j # i PROVE j \in MayRepeat
    <3>1. j \in asleep /\ j \in Signals
      BY <1>5, <2>1 DEF MayRepeat, OrderTypes
    <3>2. CASE Key(j) = Key(i)
      BY <1>3, <3>1, <3>2 DEF MayRepeat
    <3>3. CASE Key(j) # Key(i)
      <4>1. pending'[Key(j)] = pending[Key(j)]
        BY <1>5, <3>1, <3>3, KeyIsKey DEF OrderTypes
      <4> QED
        BY <1>2, <2>1, <3>1, <4>1 DEF MayRepeat, Key
    <3> QED
      BY <3>2, <3>3
  <2> QED
    BY <1>2, <1>3, <2>1 DEF Waiting, OnApproved
<1> QED
  BY <1>4, <1>5 DEF OnApproved, orderVars

LEMMA RetryWaits ==
  ASSUME OrderTypes, NEW i \in Signals, RetryFires(i)
  PROVE  /\ Waiting' \subseteq Waiting
         /\ (i \in Waiting /\ Request(i)) \/ UNCHANGED <<working, placed, untold, late>>
<1>1. ApprovalsQueued' = ApprovalsQueued /\ asleep' \subseteq asleep
  BY DEF RetryFires, ApprovalsQueued, Queued
<1>2. \A k \in Keys : pending'[k] > 0 => pending[k] > 0
  BY KeyIsKey DEF RetryFires, OrderTypes
<1>3. \A j \in asleep' : Key(j) \in Keys
  BY <1>1, KeyIsKey DEF OrderTypes
<1>4. Waiting' \subseteq Waiting
  BY <1>1, <1>2, <1>3, WaitingShrinks
<1>5. pending[Key(i)] > 0 => i \in Waiting
  BY DEF RetryFires, MayRepeat, Waiting
<1> QED
  BY <1>4, <1>5 DEF RetryFires

LEMMA ReportWaits ==
  ASSUME OrderTypes, NEW i \in Signals, OnSubmitted(i)
  PROVE  Waiting' \subseteq Waiting
<1>1. ApprovalsQueued' = ApprovalsQueued /\ asleep' = asleep
  BY DEF OnSubmitted, ApprovalsQueued, Queued
<1>2. \A k \in Keys : pending'[k] > 0 => pending[k] > 0
  BY KeyIsKey DEF OnSubmitted, OrderTypes
<1>3. \A j \in asleep' : Key(j) \in Keys
  BY <1>1, KeyIsKey DEF OrderTypes
<1> QED
  BY <1>1, <1>2, <1>3, WaitingShrinks

LEMMA StillWaits ==
  ASSUME ApprovalsQueued' \subseteq ApprovalsQueued, UNCHANGED <<pending, asleep>>
  PROVE  Waiting' \subseteq Waiting
  BY WaitingShrinks
-----------------------------------------------------------------------------
(* The kill switch. While it is on, whatever may become a request could do *)
(* so when it tripped; while it is off, no request counts as made under it. *)
HaltInv ==
  /\ bus \in Seq(Messages)
  /\ OrderTypes
  /\ killSwitch \in BOOLEAN
  /\ killSwitch => Waiting \subseteq queued /\ late \subseteq queued
  /\ ~killSwitch => late = {}

LEMMA StepKeeps == HaltInv /\ [FlowNext]_flowVars => HaltInv'
<1> SUFFICES ASSUME HaltInv, [FlowNext]_flowVars PROVE HaltInv'
  OBVIOUS
<1> USE DEF HaltInv
<1>0. OrderTypes'
  BY OrdersTyped
(* Nothing is requested, nothing turned, and no approval given.            *)
<1>1. ASSUME bus' \in Seq(Messages), Carried({"approved"}),
             UNCHANGED <<orderVars, killSwitch, late, queued>>
      PROVE  HaltInv'
  <2>1. Waiting' \subseteq Waiting
    BY <1>1, ApprovalsCarried, StillWaits DEF orderVars
  <2> QED
    BY <1>0, <1>1, <2>1
<1>2. ASSUME NEW i \in Signals, Generate(i) PROVE HaltInv'
  <2>1. Signal(i) \in Messages /\ Signal(i).type \notin {"approved"}
    BY DEF Signal, Messages
  <2> QED
    BY <1>1, <1>2, <2>1, PostCarries DEF Generate, riskVars
<1>3. ASSUME NEW i \in Signals, OnSignal(i) PROVE HaltInv'
  <2>1. Approved(i) \in Messages /\ Approved(i).type \notin {"signal"}
    BY DEF Approved, Messages
  <2>2. UNCHANGED <<orderVars, killSwitch, late, queued>>
    BY <1>3 DEF OnSignal, riskVars
  <2>3. CASE Approves(i) /\ Dispatch(Signal(i), <<Approved(i)>>)
    <3>1. ~killSwitch
      BY <2>3 DEF Approves
    <3>2. bus' \in Seq(Messages)
      BY <2>1, <2>3, AnswerCarries
    <3> QED
      BY <1>0, <2>2, <3>1, <3>2
  <2>4. CASE Dispatch(Signal(i), <<>>)
    BY <1>1, <2>2, <2>4, DispatchCarries
  <2> QED
    BY <1>3, <2>3, <2>4 DEF OnSignal
<1>4. ASSUME NEW i \in Signals, OnApproved(i) PROVE HaltInv'
  <2>1. i \in Waiting /\ Waiting' \subseteq Waiting
    BY <1>4, ApprovalWaits
  <2>2. bus' \in Seq(Messages) /\ UNCHANGED <<killSwitch, queued>>
    BY <1>4, DispatchCarries DEF OnApproved, riskVars
  <2>3. late' = late \/ (killSwitch /\ late' = late \cup {i})
    BY <1>4 DEF OnApproved, Request
  <2> QED
    BY <1>0, <2>1, <2>2, <2>3
<1>5. ASSUME NEW i \in Signals, RetryFires(i) PROVE HaltInv'
  <2>1. Waiting' \subseteq Waiting /\ ((i \in Waiting /\ Request(i)) \/ UNCHANGED late)
    BY <1>5, RetryWaits
  <2>2. UNCHANGED <<bus, killSwitch, queued>>
    BY <1>5 DEF RetryFires, riskVars
  <2>3. late' = late \/ (i \in Waiting /\ killSwitch /\ late' = late \cup {i})
    BY <2>1 DEF Request
  <2> QED
    BY <1>0, <2>1, <2>2, <2>3
<1>6. ASSUME NEW i \in Signals, OnSubmitted(i) PROVE HaltInv'
  <2>1. Waiting' \subseteq Waiting
    BY <1>6, ReportWaits
  <2> QED
    BY <1>0, <1>6, <2>1 DEF OnSubmitted, riskVars
<1>7. ASSUME NEW i \in Signals, NEW p \in Prices, BrokerFills(i, p) PROVE HaltInv'
  <2>1. Fill(i, p) \in Messages /\ Fill(i, p).type \notin {"approved"}
    BY DEF Fill, Messages
  <2>2. bus' \in Seq(Messages) /\ ApprovalsQueued' \subseteq ApprovalsQueued
    BY <1>7, <2>1, PostCarries, ApprovalsCarried DEF BrokerFills
  <2>3. Waiting' \subseteq Waiting
    BY <1>7, <2>2, StillWaits DEF BrokerFills
  <2> QED
    BY <1>0, <1>7, <2>2, <2>3 DEF BrokerFills, riskVars
<1>8. ASSUME NEW i \in Signals, NEW p \in Prices, DispatchFill(i, p) PROVE HaltInv'
  BY <1>1, <1>8, DispatchCarries DEF DispatchFill, riskVars
<1>9. ASSUME NEW s \in Symbols, NEW p \in Prices, PublishTick(s, p) \/ DispatchTick(s, p)
      PROVE  HaltInv'
  <2>1. Tick(s, p) \in Messages /\ Tick(s, p).type \notin {"approved"}
    BY DEF Tick, Messages
  <2>2. UNCHANGED <<orderVars, killSwitch, late, queued>>
    BY <1>9 DEF PublishTick, DispatchTick, NoteTick, riskVars
  <2> QED
    BY <1>1, <1>9, <2>1, <2>2, PostCarries, DispatchCarries DEF PublishTick, DispatchTick
<1>10. ASSUME NEW s \in Symbols, Elapse(s) PROVE HaltInv'
  BY <1>1, <1>10, StillCarries DEF Elapse, GoesStale
<1>11. CASE BrokerDisconnects
  <2>1. Disconnected \in Messages /\ Disconnected.type \notin {"approved"}
    BY DEF Disconnected, Messages
  <2> QED
    BY <1>1, <1>11, <2>1, PostCarries DEF BrokerDisconnects, riskVars
(* The switch trips: what may become a request now is what could then.     *)
<1>12. CASE OnDisconnect
  <2>1. bus' \in Seq(Messages) /\ ApprovalsQueued' \subseteq ApprovalsQueued
    BY <1>12, DispatchCarries, ApprovalsCarried DEF OnDisconnect
  <2>2. Waiting' \subseteq Waiting
    BY <1>12, <2>1, StillWaits DEF OnDisconnect, orderVars
  <2>3. killSwitch' \in BOOLEAN /\ (killSwitch => killSwitch') /\ UNCHANGED late
    BY <1>12 DEF OnDisconnect, NoteDisconnect
  <2>4. queued' = IF killSwitch' /\ ~killSwitch THEN Waiting ELSE queued
    BY <1>12 DEF OnDisconnect, NoteTrip
  <2> QED
    BY <1>0, <2>1, <2>2, <2>3, <2>4
<1>13. CASE Operate
  <2>1. UNCHANGED bus /\ Waiting' \subseteq Waiting
    BY <1>13, StillWaits DEF Operate, orderVars, ApprovalsQueued, Queued
  <2>2. killSwitch' \in BOOLEAN /\ late' = IF killSwitch' THEN late ELSE {}
    BY <1>13 DEF Operate, ActivateKillSwitch, DeactivateKillSwitch, RiskStop, RiskStart
  <2>3. queued' = IF killSwitch' /\ ~killSwitch THEN Waiting ELSE queued
    BY <1>13 DEF Operate, NoteTrip
  <2> QED
    BY <1>0, <2>1, <2>2, <2>3
<1>14. CASE UNCHANGED flowVars
  BY <1>1, <1>14, StillCarries DEF flowVars, riskVars
<1> QED
  BY <1>2, <1>3, <1>4, <1>5, <1>6, <1>7, <1>8, <1>9, <1>10, <1>11, <1>12, <1>13, <1>14
     DEF FlowNext

LEMMA OrdersStart ==
  ASSUME FlowInit
  PROVE  bus = <<>> /\ bus \in Seq(Messages) /\ DOMAIN bus = {} /\ OrderTypes
<1>1. bus = <<>>
  BY DEF FlowInit
<1>2. /\ pending = [k \in Keys |-> 0] /\ asleep = {}
      /\ working = [i \in Signals |-> 0] /\ placed = [i \in Signals |-> 0]
      /\ untold = [i \in Signals |-> 0]
  BY DEF FlowInit
<1> QED
  BY <1>1, <1>2 DEF OrderTypes

(* While the kill switch is on, no orders are requested, for the first     *)
(* time or again, but for signals whose approval was in the queue or whose *)
(* request could be repeated when it tripped: for any signals, positions,  *)
(* limits, prices and numbers of retries, and whatever stops and starts.   *)
THEOREM HaltIsHalt == FlowSpec => []HaltLetsOnlyQueuedThrough
<1>1. ASSUME FlowInit PROVE HaltInv
  <2>1. killSwitch = FALSE
    BY <1>1 DEF FlowInit, RiskInit
  <2>2. late = {}
    BY <1>1 DEF FlowInit
  <2> QED
    BY <1>1, <2>1, <2>2, OrdersStart DEF HaltInv
<1>2. HaltInv => HaltLetsOnlyQueuedThrough
  BY DEF HaltInv, HaltLetsOnlyQueuedThrough
<1> QED
  BY <1>1, <1>2, StepKeeps, PTL DEF FlowSpec
-----------------------------------------------------------------------------
(* Positions.  The position manager by itself, for any fills and ticks:    *)
(* what it tells and what it writes follows its quantities.                *)
PositionTypes ==
  /\ known \subseteq Symbols
  /\ qty \in [Symbols -> Int]
  /\ DOMAIN avgCost = Symbols /\ DOMAIN rows = Symbols
  /\ balance \in [Symbols -> Int]
  /\ cut \in BOOLEAN

(* What a fill leaves in the quantity and adds to the balance.             *)
LEMMA FillTypes ==
  ASSUME PositionTypes, NEW s \in Symbols, NEW n \in Int
  PROVE  NewQty(s, n) \in Int /\ Announce(s, n) \in Int
<1>1. qty[s] \in Int
  BY DEF PositionTypes
<1>2. NewQty(s, n) \in Int
  BY <1>1 DEF NewQty, Left, Covered, Adds, Abs, Sign, Least
<1> QED
  BY <1>2 DEF Announce

LEMMA SignedInt ==
  ASSUME NEW side, NEW q \in Nat
  PROVE  Signed(side, q) \in Int
<1>1. CASE side = "BUY"
  BY <1>1 DEF Signed
<1>2. CASE side = "SELL"
  BY <1>2 DEF Signed
<1>3. CASE side # "BUY" /\ side # "SELL"
  BY <1>3 DEF Signed
<1> QED
  BY <1>1, <1>2, <1>3

(* The quantities after a fill of the signed quantity n.                   *)
After(s, n) == IF n = 0 THEN qty[s] ELSE NewQty(s, n)

LEMMA FillMoves ==
  ASSUME PositionTypes, NEW s \in Symbols, NEW side, NEW q \in Nat, NEW p,
         NEW done, OnFill(s, side, q, p, done)
  PROVE  /\ qty' = [qty EXCEPT ![s] = After(s, Signed(side, q))]
         /\ After(s, Signed(side, q)) \in Int
         /\ DOMAIN avgCost' = Symbols
         /\ \A t \in Symbols \ {s} : avgCost'[t] = avgCost[t]
         /\ known' = known \cup {s}
<1> DEFINE n == Signed(side, q)
<1>1. n \in Int
  BY SignedInt
<1>2. UpdatePosition(s, n, p)
  BY DEF OnFill
<1> HIDE DEF n
<1>3. After(s, n) \in Int
  BY <1>1, FillTypes DEF After, PositionTypes
<1>4. CASE n = 0
  BY <1>2, <1>3, <1>4 DEF UpdatePosition, After, PositionTypes, n
<1>5. CASE n # 0
  BY <1>2, <1>3, <1>5 DEF UpdatePosition, After, PositionTypes, n
<1> QED
  BY <1>4, <1>5
(* What the manager told and what it wrote, after each of its steps.       *)
PositionInv == PositionTypes /\ OpenedClosedMatch /\ RowsUnlessUnsaved

LEMMA PositionInit ==
  ASSUME Init
  PROVE  PositionInv
<1>1. /\ known = {} /\ cut = FALSE /\ unsaved = {}
      /\ qty = [s \in Symbols |-> 0] /\ avgCost = [s \in Symbols |-> 0]
      /\ balance = [s \in Symbols |-> 0]
      /\ rows = [s \in Symbols |-> [qty |-> 0, avgCost |-> 0]]
  BY DEF Init
<1>2. known \subseteq Symbols /\ cut \in BOOLEAN
  BY <1>1
<1>3. PositionTypes
  BY <1>1, <1>2 DEF PositionTypes
<1> QED
  BY <1>1, <1>3 DEF PositionInv, OpenedClosedMatch, RowsUnlessUnsaved

LEMMA FillKeepsPositions ==
  ASSUME PositionInv, NEW s \in Symbols, NEW side, NEW q \in Nat, NEW p,
         NEW done \in Stages, OnFill(s, side, q, p, done)
  PROVE  PositionInv'
<1> DEFINE n == Signed(side, q)
<1>1. /\ PositionTypes /\ n \in Int
      /\ qty' = [qty EXCEPT ![s] = After(s, n)] /\ After(s, n) \in Int
      /\ DOMAIN avgCost' = Symbols
      /\ \A t \in Symbols \ {s} : avgCost'[t] = avgCost[t]
      /\ known' = known \cup {s}
  BY FillMoves, SignedInt DEF PositionInv
<1>2. /\ balance' = IF done >= 1 THEN [balance EXCEPT ![s] = @ + Announce(s, n)] ELSE balance
      /\ \/ /\ rows' = [rows EXCEPT ![s] = [qty |-> qty'[s], avgCost |-> avgCost'[s]]]
            /\ unsaved' = unsaved \ {s}
         \/ unsaved' = unsaved \cup {s} /\ UNCHANGED rows
      /\ cut' = (cut \/ done < 3)
  BY DEF OnFill, Persist, AllDone
<1>3. Announce(s, n) \in Int
  BY <1>1, FillTypes
<1> HIDE DEF n
<1>4. PositionTypes'
  <2>1. balance' \in [Symbols -> Int]
    BY <1>1, <1>2, <1>3 DEF PositionTypes
  <2>2. cut' \in BOOLEAN
    BY <1>2
  <2>3. qty' \in [Symbols -> Int] /\ known' \subseteq Symbols
    BY <1>1 DEF PositionTypes
  <2>4. DOMAIN rows' = Symbols
    BY <1>1, <1>2 DEF PositionTypes
  <2> QED
    BY <1>1, <2>1, <2>2, <2>3, <2>4 DEF PositionTypes
<1>5. OpenedClosedMatch'
  <2>1. SUFFICES ASSUME ~cut', NEW t \in Symbols
                 PROVE  balance'[t] = IF qty'[t] = 0 THEN 0 ELSE 1
    BY DEF OpenedClosedMatch
  <2>2. ~cut /\ done >= 1
    <3>1. ~cut /\ ~(done < 3)
      BY <1>2, <2>1
    <3>2. done \in Nat
      BY DEF Stages, AllDone
    <3> QED
      BY <3>1, <3>2
  <2>3. balance[t] = IF qty[t] = 0 THEN 0 ELSE 1
    BY <2>2 DEF PositionInv, OpenedClosedMatch
  <2>4. balance' = [balance EXCEPT ![s] = @ + Announce(s, n)]
    BY <1>2, <2>2
  <2>5. CASE t # s
    BY <1>1, <2>3, <2>4, <2>5 DEF PositionTypes
  <2>6. CASE t = s
    <3>1. balance'[s] = balance[s] + Announce(s, n) /\ qty'[s] = After(s, n)
      BY <1>1, <2>4 DEF PositionTypes
    <3> QED
      BY <1>1, <2>3, <2>6, <3>1 DEF PositionTypes, Announce, After
  <2> QED
    BY <2>5, <2>6
<1>6. RowsUnlessUnsaved'
  <2>1. SUFFICES ASSUME NEW t \in Symbols \ unsaved'
                 PROVE  rows'[t] = [qty |-> qty'[t], avgCost |-> avgCost'[t]]
    BY DEF RowsUnlessUnsaved
  <2>2. CASE t # s
    <3>1. t \in Symbols \ unsaved /\ rows'[t] = rows[t]
      BY <1>1, <1>2, <2>1, <2>2 DEF PositionTypes
    <3>2. qty'[t] = qty[t] /\ avgCost'[t] = avgCost[t]
      BY <1>1, <2>2 DEF PositionTypes
    <3> QED
      BY <3>1, <3>2 DEF PositionInv, RowsUnlessUnsaved
  <2>3. CASE t = s
    BY <1>1, <1>2, <2>1, <2>3 DEF PositionTypes
  <2> QED
    BY <2>2, <2>3
<1> QED
  BY <1>4, <1>5, <1>6 DEF PositionInv

LEMMA OthersKeepPositions ==
  ASSUME PositionInv,
         \/ \E s \in Symbols, p \in Prices, heard \in BOOLEAN : OnTick(s, p, heard)
         \/ Start \/ Stop \/ UNCHANGED vars
  PROVE  PositionInv'
<1>1. UNCHANGED <<known, qty, avgCost, rows, balance, unsaved>>
  BY DEF OnTick, Start, Stop, vars, ledger, outputs
<1>2. cut' \in BOOLEAN /\ (cut => cut')
  BY DEF OnTick, Start, Stop, vars, ledger, outputs, PositionInv, PositionTypes
<1> QED
  BY <1>1, <1>2 DEF PositionInv, PositionTypes, OpenedClosedMatch, RowsUnlessUnsaved

LEMMA PositionsHold == Spec => []PositionInv
<1>1. Init => PositionInv
  BY PositionInit
<1>2. PositionInv /\ [Next]_vars => PositionInv'
  <2>1. SUFFICES ASSUME PositionInv, [Next]_vars
                 PROVE  PositionInv'
    OBVIOUS
  <2>2. Quantities \subseteq Nat
    BY PositionAssumption
  <2>3. ASSUME NEW s \in Symbols, NEW side \in Sides, NEW q \in Quantities, NEW p \in Prices,
               NEW done \in Stages, OnFill(s, side, q, p, done)
        PROVE  PositionInv'
    BY <2>1, <2>2, <2>3, FillKeepsPositions
  <2> QED
    BY <2>1, <2>3, OthersKeepPositions DEF Next
<1> QED
  BY <1>1, <1>2, PTL DEF Spec

(* PositionOpened and PositionClosed alternate and the last one says       *)
(* whether there is a position, for all fills, reversals and sides, as     *)
(* long as no timeout cut a handler off.                                   *)
THEOREM OpeningsMatch == Spec => []OpenedClosedMatch
<1>1. PositionInv => OpenedClosedMatch
  BY DEF PositionInv
<1> QED
  BY <1>1, PositionsHold, PTL

(* Each position's row is the position, but for symbols whose last fill    *)
(* was not written: a failed write is made up for by the next one.         *)
THEOREM RowsFollow == Spec => []RowsUnlessUnsaved
<1>1. PositionInv => RowsUnlessUnsaved
  BY DEF PositionInv
<1> QED
  BY <1>1, PositionsHold, PTL
-----------------------------------------------------------------------------
(* Limits. The positions there are or will be, and the signals whose first *)
(* order is still on its way.                                              *)
Spoken == OpenPositions \cup {Symbol[i] : i \in InFlight}
Due(i) == placed[i] = 0 \/ (placed[i] = 1 /\ (working[i] > 0 \/ Filling(i)))

(* Of a signal with one order, there is one order or one fill at most.     *)
OnceInv ==
  \A i \in Signals :
    /\ placed[i] = 0 => working[i] = 0 /\ ~Filling(i)
    /\ placed[i] = 1 => /\ working[i] <= 1
                        /\ Filling(i) => working[i] = 0
                        /\ OnlyFill(i)

(* While nothing was approved too early, one signal is on its way at most, *)
(* and what its verdict said stays true until its first fill. The open     *)
(* positions, together with the one to come, are within limits.            *)
AloneInv == \A i, j \in InFlight : i = j
VerdictInv == \A i \in InFlight : Due(i) => ~DailyLossReached(i)
SpokenInv == IsFiniteSet(Spoken) /\ Cardinality(Spoken) <= MaxConcurrent

FlightInv ==
  /\ bus \in Seq(Messages) /\ OrderTypes /\ crowded \in BOOLEAN
  /\ PositionInv
  /\ OnceInv
  /\ ~crowded => AloneInv /\ VerdictInv /\ SpokenInv

LEMMA SpokenShrinks ==
  ASSUME SpokenInv, Spoken' \subseteq Spoken
  PROVE  SpokenInv'
<1>1. IsFiniteSet(Spoken') /\ Cardinality(Spoken') <= Cardinality(Spoken)
  BY FS_Subset DEF SpokenInv
<1>2. Cardinality(Spoken) \in Nat /\ Cardinality(Spoken') \in Nat
  BY <1>1, FS_CardinalityType DEF SpokenInv
<1> QED
  BY <1>1, <1>2, RiskAssumption DEF SpokenInv

(* As signals arrive at their positions, what is open does not change.     *)
LEMMA Settles ==
  ASSUME AloneInv, VerdictInv, SpokenInv, InFlight' \subseteq InFlight,
         \A i \in InFlight : Due(i)' => Due(i), UNCHANGED <<known, qty, realized>>
  PROVE  AloneInv' /\ VerdictInv' /\ SpokenInv'
<1>1. \A i \in InFlight : DailyLossReached(i)' <=> DailyLossReached(i)
  BY DEF DailyLossReached, Reducing
<1>2. VerdictInv' /\ AloneInv'
  BY <1>1 DEF VerdictInv, AloneInv
<1>3. Spoken' \subseteq Spoken
  BY DEF Spoken, OpenPositions, Holding
<1> QED
  BY <1>2, <1>3, SpokenShrinks

LEMMA FlightShrinks ==
  ASSUME Waiting' \subseteq Waiting, bus' \in Seq(Messages), Carried({"fill"}),
         UNCHANGED <<working, placed>>
  PROVE  /\ InFlight' \subseteq InFlight
         /\ \A i : Due(i)' => Due(i)
         /\ OnceInv => OnceInv'
<1>1. /\ \A i : Filling(i)' => Filling(i)
      /\ \A i : OnlyFill(i) => OnlyFill(i)'
  BY FillsCarried
<1> QED
  BY <1>1 DEF InFlight, Due, OnceInv

(* Steps that neither request nor fill.                                    *)
LEMMA QuietKeepsFlight ==
  ASSUME FlightInv, [FlowNext]_flowVars, Waiting' \subseteq Waiting,
         bus' \in Seq(Messages), Carried({"fill"}), UNCHANGED <<working, placed, crowded>>,
         UNCHANGED vars \/ \E s \in Symbols, p \in Prices, heard \in BOOLEAN : OnTick(s, p, heard)
  PROVE  FlightInv'
<1>1. UNCHANGED <<known, qty, realized>>
  BY DEF vars, OnTick, ledger
<1>2. PositionInv' /\ OrderTypes'
  BY OthersKeepPositions, OrdersTyped DEF FlightInv
<1> QED
  BY <1>1, <1>2, FlightShrinks, Settles DEF FlightInv

LEMMA BusKeepsFlight ==
  ASSUME FlightInv, [FlowNext]_flowVars,
         bus' \in Seq(Messages), Carried({"approved", "fill"}), UNCHANGED <<orderVars, crowded>>,
         UNCHANGED vars \/ \E s \in Symbols, p \in Prices, heard \in BOOLEAN : OnTick(s, p, heard)
  PROVE  FlightInv'
<1>1. Waiting' \subseteq Waiting
  BY ApprovalsCarried, StillWaits DEF orderVars
<1>2. Carried({"fill"})
  BY DEF Carried
<1> QED
  BY <1>1, <1>2, QuietKeepsFlight DEF orderVars

LEMMA ApprovalFlies ==
  ASSUME FlightInv, [FlowNext]_flowVars, NEW i \in Signals,
         Dispatch(Signal(i), <<Approved(i)>>), Approves(i),
         crowded' = (crowded \/ Crowds(i)), UNCHANGED <<orderVars, vars>>
  PROVE  FlightInv'
<1>1. Approved(i) \in Messages /\ Approved(i).type \notin {"fill"}
  BY DEF Approved, Messages
<1>2. bus \in Seq(Messages) /\ OrderTypes /\ crowded \in BOOLEAN /\ OnceInv
  BY DEF FlightInv
<1>3. /\ bus' \in Seq(Messages) /\ Carried({"fill"})
      /\ \A k \in DOMAIN bus' : bus'[k] = Approved(i) \/ \E l \in DOMAIN bus : bus'[k] = bus[l]
  BY <1>1, <1>2, AnswerCarries
<1>4. PositionInv' /\ OrderTypes' /\ UNCHANGED <<known, qty, realized>>
  BY OthersKeepPositions, OrdersTyped DEF FlightInv, vars, ledger
<1>5. /\ \A j : Filling(j)' => Filling(j)
      /\ \A j : OnlyFill(j) => OnlyFill(j)'
  BY <1>3, FillsCarried
<1>6. OnceInv'
  BY <1>2, <1>5 DEF OnceInv, orderVars
<1>7. ASSUME ~crowded' PROVE AloneInv' /\ VerdictInv' /\ SpokenInv'
  <2>1. /\ ~crowded /\ InFlight = {} /\ SpokenInv
        /\ \A j \in asleep : Key(j) # Key(i)
    BY <1>2, <1>7 DEF FlightInv, Crowds
  <2>2. ApprovalsQueued' \subseteq {i}
    <3>1. ApprovalsQueued = {}
      BY <2>1 DEF InFlight, Waiting
    <3>2. \A j : Approved(j) = Approved(i) => j = i
      BY DEF Approved
    <3> QED
      BY <1>3, <3>1, <3>2 DEF ApprovalsQueued, Queued, Approved
  <2>3. MayRepeat' = {}
    <3>1. \A j \in asleep : ~(pending[Key(j)] > 0)
      BY <2>1 DEF InFlight, Waiting, MayRepeat
    <3> QED
      BY <2>1, <2>2, <3>1 DEF MayRepeat, orderVars, Key
  <2>4. InFlight' \subseteq {i}
    BY <1>5, <2>1, <2>2, <2>3 DEF InFlight, Waiting, orderVars
  <2>5. AloneInv'
    BY <2>4 DEF AloneInv
  <2>6. VerdictInv'
    <3>1. ~DailyLossReached(i)
      BY DEF Approves, Fails
    <3>2. ~DailyLossReached(i)'
      BY <1>4, <3>1 DEF DailyLossReached, Reducing
    <3> QED
      BY <2>4, <3>2 DEF VerdictInv
  <2>7. /\ OpenPositions = Spoken /\ OpenPositions' = OpenPositions
        /\ Spoken' \subseteq OpenPositions \cup {Symbol[i]}
    BY <1>4, <2>1, <2>4 DEF Spoken, OpenPositions, Holding
  <2>8. IsFiniteSet(OpenPositions) /\ Cardinality(OpenPositions) <= MaxConcurrent
    BY <2>1, <2>7 DEF SpokenInv
  <2>9. IsFiniteSet(OpenPositions \cup {Symbol[i]})
        /\ Cardinality(OpenPositions \cup {Symbol[i]}) <= MaxConcurrent
    <3>1. CASE Symbol[i] \in OpenPositions
      <4>1. OpenPositions \cup {Symbol[i]} = OpenPositions
        BY <3>1
      <4> QED
        BY <2>8, <4>1
    <3>2. CASE Symbol[i] \notin OpenPositions
      <4>1. ~Holding(Symbol[i])
        BY <3>2, RiskAssumption DEF OpenPositions
      <4>2. ~(Cardinality(OpenPositions) >= MaxConcurrent)
        BY <4>1 DEF Approves, Fails, TooManyOpen
      <4>3. /\ IsFiniteSet(OpenPositions \cup {Symbol[i]})
            /\ Cardinality(OpenPositions \cup {Symbol[i]}) = Cardinality(OpenPositions) + 1
        BY <2>8, <3>2, FS_AddElement
      <4>4. Cardinality(OpenPositions) \in Nat
        BY <2>8, FS_CardinalityType
      <4> QED
        BY <4>2, <4>3, <4>4, RiskAssumption
    <3> QED
      BY <3>1, <3>2
  <2>10. SpokenInv'
    <3>1. /\ IsFiniteSet(Spoken')
          /\ Cardinality(Spoken') <= Cardinality(OpenPositions \cup {Symbol[i]})
      BY <2>7, <2>9, FS_Subset
    <3>2. Cardinality(Spoken') \in Nat /\ Cardinality(OpenPositions \cup {Symbol[i]}) \in Nat
      BY <2>9, <3>1, FS_CardinalityType
    <3> QED
      BY <2>9, <3>1, <3>2, RiskAssumption DEF SpokenInv
  <2> QED
    BY <2>5, <2>6, <2>10
<1>8. crowded' \in BOOLEAN
  BY <1>2 DEF Crowds
<1> QED
  BY <1>3, <1>4, <1>6, <1>7, <1>8 DEF FlightInv

(* An order is requested of a signal that could be: its first order is on  *)
(* its way now, or its second.                                             *)
LEMMA RequestFlies ==
  ASSUME FlightInv, [FlowNext]_flowVars, NEW i \in Waiting, i \in Signals, Request(i),
         Waiting' \subseteq Waiting, bus' \in Seq(Messages), Carried({"fill"}),
         UNCHANGED <<vars, crowded>>
  PROVE  FlightInv'
<1>1. OrderTypes /\ OnceInv /\ crowded \in BOOLEAN /\ i \in InFlight
  BY DEF FlightInv, InFlight
<1>2. PositionInv' /\ OrderTypes' /\ UNCHANGED <<known, qty, realized>>
  BY OthersKeepPositions, OrdersTyped DEF FlightInv, vars, ledger
<1>3. /\ \A j : Filling(j)' => Filling(j)
      /\ \A j : OnlyFill(j) => OnlyFill(j)'
  BY FillsCarried
<1>4. CASE UNCHANGED <<working, placed>>
  BY <1>2, <1>4, FlightShrinks, Settles DEF FlightInv
<1>5. CASE /\ working' = [working EXCEPT ![i] = @ + 1]
           /\ placed' = [placed EXCEPT ![i] = @ + 1]
  <2>1. /\ placed'[i] = placed[i] + 1 /\ working'[i] = working[i] + 1
        /\ placed[i] \in Nat /\ working[i] \in Nat
        /\ \A j \in Signals \ {i} : placed'[j] = placed[j] /\ working'[j] = working[j]
    BY <1>1, <1>5 DEF OrderTypes
  <2>2. InFlight' \subseteq InFlight
    BY <1>1, <1>3, <2>1 DEF InFlight
  <2>3. InFlight \subseteq Signals
    BY <1>1 DEF InFlight, Waiting, ApprovalsQueued, MayRepeat, OrderTypes
  <2>4. Due(i)' => Due(i)
    BY <2>1 DEF Due
  <2>5. \A j \in Signals \ {i} : Due(j)' => Due(j)
    BY <1>3, <2>1 DEF Due
  <2>6. OnceInv'
    <3>1. ASSUME placed[i] = 0
          PROVE  working'[i] <= 1 /\ ~Filling(i)' /\ OnlyFill(i)'
      BY <1>1, <1>3, <2>1, <3>1 DEF OnceInv, OnlyFill, Filling
    <3>2. /\ placed'[i] # 0
          /\ placed'[i] = 1 => placed[i] = 0
      BY <2>1
    <3> QED
      BY <1>1, <1>3, <2>1, <3>1, <3>2 DEF OnceInv
  <2>7. ASSUME ~crowded PROVE AloneInv' /\ VerdictInv' /\ SpokenInv'
    <3>1. AloneInv /\ VerdictInv /\ SpokenInv
      BY <2>7 DEF FlightInv
    <3>2. \A j \in InFlight : Due(j)' => Due(j)
      BY <2>3, <2>4, <2>5
    <3> QED
      BY <1>2, <2>2, <3>1, <3>2, Settles
  <2> QED
    BY <1>1, <1>2, <2>6, <2>7 DEF FlightInv
<1> QED
  BY <1>4, <1>5 DEF Request

LEMMA BrokerFillFlies ==
  ASSUME FlightInv, [FlowNext]_flowVars, NEW i \in Signals, NEW p \in Prices, BrokerFills(i, p)
  PROVE  FlightInv'
<1>1. bus \in Seq(Messages) /\ OrderTypes /\ OnceInv /\ crowded \in BOOLEAN
  BY DEF FlightInv
<1>2. Fill(i, p) \in Messages /\ Fill(i, p).type = "fill" /\ Fill(i, p).of = i
  BY DEF Fill, Messages
<1>3. /\ working[i] > 0 /\ working' = [working EXCEPT ![i] = @ - 1]
      /\ bus' = Append(bus, Fill(i, p))
      /\ UNCHANGED <<vars, crowded, placed, pending, asleep>>
  BY DEF BrokerFills, Post
<1>4. bus' \in Seq(Messages) /\ ApprovalsQueued' \subseteq ApprovalsQueued
  <2>1. Post(Fill(i, p)) /\ Fill(i, p).type \notin {"approved"}
    BY <1>2 DEF BrokerFills
  <2> QED
    BY <1>1, <1>2, <2>1, PostCarries, ApprovalsCarried
<1>5. Waiting' \subseteq Waiting
  BY <1>3, <1>4, StillWaits
<1>6. /\ DOMAIN bus' = DOMAIN bus \cup {Len(bus) + 1} /\ bus'[Len(bus) + 1] = Fill(i, p)
      /\ \A k \in DOMAIN bus : bus'[k] = bus[k]
  BY <1>1, <1>2, <1>3
<1>7. /\ working'[i] = working[i] - 1 /\ working[i] \in Nat /\ placed[i] \in Nat
      /\ \A j \in Signals \ {i} : working'[j] = working[j]
  BY <1>1, <1>3 DEF OrderTypes
<1>8. \A j \in Signals \ {i} : Filling(j)' => Filling(j)
  BY <1>2, <1>6 DEF Filling
<1>9. \A j \in Signals \ {i} : OnlyFill(j) => OnlyFill(j)'
  BY <1>2, <1>6 DEF OnlyFill
<1>10. InFlight' \subseteq InFlight
  <2>1. i \in InFlight
    BY <1>3 DEF InFlight
  <2> QED
    BY <1>5, <1>7, <1>8, <2>1 DEF InFlight
<1>11. \A j \in Signals : Due(j)' => Due(j)
  <2>1. Due(i)' => Due(i)
    BY <1>3 DEF Due
  <2> QED
    BY <1>3, <1>7, <1>8, <2>1 DEF Due
<1>12. InFlight \subseteq Signals
  BY <1>1 DEF InFlight, Waiting, ApprovalsQueued, MayRepeat, OrderTypes
<1>13. OnceInv'
  <2>1. placed[i] # 0
    BY <1>1, <1>3 DEF OnceInv
  <2>2. ASSUME placed[i] = 1
        PROVE  working'[i] = 0 /\ OnlyFill(i)'
    <3>1. working[i] = 1 /\ ~Filling(i)
      BY <1>1, <1>3, <1>7, <2>2 DEF OnceInv
    <3>2. \A k \in DOMAIN bus' : bus'[k].type = "fill" /\ bus'[k].of = i => k = Len(bus) + 1
      BY <1>6, <3>1 DEF Filling
    <3> QED
      BY <1>7, <3>1, <3>2 DEF OnlyFill
  <2> QED
    BY <1>1, <1>3, <1>7, <1>8, <1>9, <2>1, <2>2 DEF OnceInv
<1>14. PositionInv' /\ OrderTypes' /\ UNCHANGED <<known, qty, realized>>
  BY <1>3, OthersKeepPositions, OrdersTyped DEF FlightInv, vars, ledger
<1>15. ASSUME ~crowded PROVE AloneInv' /\ VerdictInv' /\ SpokenInv'
  <2>1. AloneInv /\ VerdictInv /\ SpokenInv
    BY <1>15 DEF FlightInv
  <2>2. \A j \in InFlight : Due(j)' => Due(j)
    BY <1>11, <1>12
  <2> QED
    BY <1>10, <1>14, <2>1, <2>2, Settles
<1> QED
  BY <1>1, <1>3, <1>4, <1>13, <1>14, <1>15 DEF FlightInv

LEMMA FillLands ==
  ASSUME FlightInv, [FlowNext]_flowVars, NEW i \in Signals, NEW p \in Prices, DispatchFill(i, p)
  PROVE  FlightInv'
<1>1. /\ bus \in Seq(Messages) /\ OrderTypes /\ OnceInv /\ crowded \in BOOLEAN
      /\ PositionInv
  BY DEF FlightInv
<1>2. Dispatch(Fill(i, p), <<>>) /\ UNCHANGED <<orderVars, crowded>>
  BY DEF DispatchFill
<1>3. PICK done \in Stages : OnFill(Symbol[i], Side[i], Size[i], p, done)
  BY DEF DispatchFill
<1>4. Symbol[i] \in Symbols /\ Size[i] \in Nat
  BY RiskAssumption
<1>5. PositionInv' /\ OrderTypes'
  BY <1>1, <1>3, <1>4, FillKeepsPositions, OrdersTyped
<1>6. /\ 1 \in DOMAIN bus /\ bus[1] = Fill(i, p)
      /\ bus' \in Seq(Messages) /\ Carried({"fill"})
      /\ ApprovalsQueued' \subseteq ApprovalsQueued
  BY <1>1, <1>2, DispatchCarries, ApprovalsCarried
<1>7. bus[1].type = "fill" /\ bus[1].of = i
  BY <1>6 DEF Fill
<1>8. Filling(i) /\ i \in InFlight
  BY <1>6, <1>7 DEF Filling, InFlight
<1>9. Waiting' \subseteq Waiting
  BY <1>2, <1>6, StillWaits DEF orderVars
<1>10. InFlight' \subseteq InFlight /\ OnceInv'
  BY <1>1, <1>2, <1>6, <1>9, FlightShrinks DEF orderVars
(* The one fill of a signal with one order has been the first event.       *)
<1>11. ~Due(i)'
  <2>1. placed'[i] = placed[i] /\ working'[i] = working[i] /\ placed[i] \in Nat
    BY <1>1, <1>2 DEF orderVars, OrderTypes
  <2>2. placed[i] # 0
    BY <1>1, <1>8 DEF OnceInv
  <2>3. ASSUME placed[i] = 1
        PROVE  working[i] = 0 /\ ~Filling(i)'
    <3>1. working[i] = 0 /\ OnlyFill(i)
      BY <1>1, <1>8, <2>3 DEF OnceInv
    <3>2. \A k \in DOMAIN bus : bus[k].type = "fill" /\ bus[k].of = i => k = 1
      BY <1>6, <1>7, <3>1 DEF OnlyFill
    <3>3. \A k \in DOMAIN bus' : k + 1 \in DOMAIN bus /\ bus'[k] = bus[k + 1] /\ k + 1 # 1
      BY <1>1, <1>2 DEF Dispatch
    <3> QED
      BY <3>1, <3>2, <3>3 DEF Filling
  <2> QED
    BY <2>1, <2>2, <2>3 DEF Due
<1>12. ASSUME ~crowded PROVE AloneInv' /\ VerdictInv' /\ SpokenInv'
  <2>1. AloneInv /\ SpokenInv
    BY <1>12 DEF FlightInv
  <2>2. AloneInv' /\ VerdictInv'
    BY <1>8, <1>10, <1>11, <2>1 DEF AloneInv, VerdictInv
  <2>3. Symbol[i] \in Spoken
    BY <1>8 DEF Spoken
  <2>4. Spoken' \subseteq Spoken
    <3>1. /\ qty' = [qty EXCEPT ![Symbol[i]] = After(Symbol[i], Signed(Side[i], Size[i]))]
          /\ known' = known \cup {Symbol[i]}
      <4>1. PositionTypes
        BY <1>1 DEF PositionInv
      <4>2. \A s \in Symbols, q \in Nat : \A side : OnFill(s, side, q, p, done) =>
              /\ qty' = [qty EXCEPT ![s] = After(s, Signed(side, q))]
              /\ known' = known \cup {s}
        BY <4>1, FillMoves
      <4> QED
        BY <1>3, <1>4, <4>2
    <3>2. qty \in [Symbols -> Int]
      BY <1>1 DEF PositionInv, PositionTypes
    <3>3. \A s \in Symbols \ {Symbol[i]} : Holding(s)' <=> Holding(s)
      BY <3>1, <3>2 DEF Holding
    <3>4. OpenPositions' \subseteq OpenPositions \cup {Symbol[i]}
      BY <3>3 DEF OpenPositions
    <3> QED
      BY <1>10, <2>3, <3>4 DEF Spoken
  <2> QED
    BY <2>1, <2>2, <2>4, SpokenShrinks
<1> QED
  BY <1>1, <1>2, <1>5, <1>6, <1>10, <1>12 DEF FlightInv

LEMMA FlightStep == FlightInv /\ [FlowNext]_flowVars => FlightInv'
<1> SUFFICES ASSUME FlightInv, [FlowNext]_flowVars PROVE FlightInv'
  OBVIOUS
<1>0. bus \in Seq(Messages) /\ OrderTypes
  BY DEF FlightInv
<1>1. ASSUME NEW i \in Signals, Generate(i) PROVE FlightInv'
  <2>1. Signal(i) \in Messages /\ Signal(i).type \notin {"approved", "fill"}
    BY DEF Signal, Messages
  <2> QED
    BY <1>0, <1>1, <2>1, PostCarries, BusKeepsFlight DEF Generate
<1>2. ASSUME NEW i \in Signals, OnSignal(i) PROVE FlightInv'
  <2>1. UNCHANGED <<vars, orderVars>>
    BY <1>2 DEF OnSignal
  <2>2. CASE /\ Dispatch(Signal(i), <<Approved(i)>>) /\ Approves(i)
             /\ crowded' = (crowded \/ Crowds(i))
    BY <2>1, <2>2, ApprovalFlies
  <2>3. CASE Dispatch(Signal(i), <<>>) /\ UNCHANGED crowded
    BY <1>0, <2>1, <2>3, DispatchCarries, BusKeepsFlight
  <2> QED
    BY <1>2, <2>2, <2>3 DEF OnSignal
<1>3. ASSUME NEW i \in Signals, OnApproved(i) PROVE FlightInv'
  <2>1. bus' \in Seq(Messages) /\ Carried({"fill"}) /\ UNCHANGED <<vars, crowded>>
    BY <1>0, <1>3, DispatchCarries DEF OnApproved
  <2>2. /\ i \in Waiting /\ Waiting' \subseteq Waiting
        /\ Request(i) \/ UNCHANGED <<orderVars, late>>
    BY <1>0, <1>3, ApprovalWaits
  <2>3. CASE Request(i)
    BY <2>1, <2>2, <2>3, RequestFlies
  <2>4. CASE UNCHANGED orderVars
    BY <2>1, <2>2, <2>4, QuietKeepsFlight DEF orderVars
  <2> QED
    BY <2>2, <2>3, <2>4
<1>4. ASSUME NEW i \in Signals, RetryFires(i) PROVE FlightInv'
  <2>1. bus' \in Seq(Messages) /\ Carried({"fill"}) /\ UNCHANGED <<vars, crowded>>
    BY <1>0, <1>4, StillCarries DEF RetryFires
  <2>2. /\ Waiting' \subseteq Waiting
        /\ (i \in Waiting /\ Request(i)) \/ UNCHANGED <<working, placed, untold, late>>
    BY <1>0, <1>4, RetryWaits
  <2>3. CASE i \in Waiting /\ Request(i)
    BY <2>1, <2>2, <2>3, RequestFlies
  <2>4. CASE UNCHANGED <<working, placed>>
    BY <2>1, <2>2, <2>4, QuietKeepsFlight
  <2> QED
    BY <2>2, <2>3, <2>4
<1>5. ASSUME NEW i \in Signals, OnSubmitted(i) PROVE FlightInv'
  <2>1. Waiting' \subseteq Waiting
    BY <1>0, <1>5, ReportWaits
  <2> QED
    BY <1>0, <1>5, <2>1, StillCarries, QuietKeepsFlight DEF OnSubmitted
<1>6. ASSUME NEW i \in Signals, NEW p \in Prices, BrokerFills(i, p) \/ DispatchFill(i, p)
      PROVE  FlightInv'
  BY <1>6, BrokerFillFlies, FillLands
<1>7. ASSUME NEW s \in Symbols, NEW p \in Prices, PublishTick(s, p)
      PROVE  FlightInv'
  <2>1. Tick(s, p) \in Messages /\ Tick(s, p).type \notin {"approved", "fill"}
    BY DEF Tick, Messages
  <2> QED
    BY <1>0, <1>7, <2>1, PostCarries, BusKeepsFlight DEF PublishTick
<1>8. ASSUME NEW s \in Symbols, NEW p \in Prices, DispatchTick(s, p)
      PROVE  FlightInv'
  <2>1. Dispatch(Tick(s, p), <<>>) /\ UNCHANGED <<orderVars, crowded>>
    BY <1>8 DEF DispatchTick
  <2>2. \E heard \in BOOLEAN : OnTick(s, p, heard)
    BY <1>8 DEF DispatchTick
  <2> QED
    BY <1>0, <2>1, <2>2, DispatchCarries, BusKeepsFlight
<1>9. CASE BrokerDisconnects
  <2>1. Disconnected \in Messages /\ Disconnected.type \notin {"approved", "fill"}
    BY DEF Disconnected, Messages
  <2> QED
    BY <1>0, <1>9, <2>1, PostCarries, BusKeepsFlight DEF BrokerDisconnects
<1>10. CASE OnDisconnect
  BY <1>0, <1>10, DispatchCarries, BusKeepsFlight DEF OnDisconnect
<1>11. ASSUME UNCHANGED <<bus, orderVars, crowded, vars>>
       PROVE  FlightInv'
  BY <1>0, <1>11, StillCarries, BusKeepsFlight
<1>12. ASSUME NEW s \in Symbols, Elapse(s) PROVE FlightInv'
  BY <1>11, <1>12 DEF Elapse
<1>13. CASE Operate
  BY <1>11, <1>13 DEF Operate
<1>14. CASE UNCHANGED flowVars
  BY <1>11, <1>14 DEF flowVars
<1> QED
  BY <1>1, <1>2, <1>3, <1>4, <1>5, <1>6, <1>7, <1>8, <1>9, <1>10, <1>12, <1>13, <1>14 DEF FlowNext

LEMMA FlightInit == FlowInit => FlightInv
<1> SUFFICES ASSUME FlowInit PROVE FlightInv
  OBVIOUS
<1>1. Init /\ crowded = FALSE /\ asleep = {} /\ working = [i \in Signals |-> 0]
  BY DEF FlowInit
<1>2. PositionInv
  BY <1>1, PositionInit
<1>3. bus \in Seq(Messages) /\ DOMAIN bus = {} /\ OrderTypes
  BY OrdersStart
<1>4. \A i : ~Filling(i) /\ OnlyFill(i)
  BY <1>3 DEF Filling, OnlyFill
<1>5. InFlight = {} /\ AloneInv /\ VerdictInv
  BY <1>1, <1>3, <1>4 DEF InFlight, Waiting, MayRepeat, ApprovalsQueued, Queued,
                          AloneInv, VerdictInv
<1>6. OnceInv
  BY <1>1, <1>4 DEF OnceInv
<1>7. OpenPositions = {}
  BY <1>1 DEF Init, OpenPositions, Holding
<1>8. Spoken = {} /\ IsFiniteSet(Spoken) /\ Cardinality(Spoken) = 0
  BY <1>5, <1>7, FS_EmptySet DEF Spoken
<1>9. SpokenInv
  BY <1>8, RiskAssumption DEF SpokenInv
<1> QED
  BY <1>1, <1>2, <1>3, <1>5, <1>6, <1>9 DEF FlightInv

(* No more than max_concurrent_positions are open, for any signals, limits *)
(* and prices, and however often orders are requested again, as long as no *)
(* signal is approved while another is on its way from the risk engine to  *)
(* its position, or may still ask for it.                                  *)
THEOREM LimitHolds == FlowSpec => []ConcurrentWithinLimit
<1>1. FlightInv => ConcurrentWithinLimit
  <2>1. SUFFICES ASSUME FlightInv, ~crowded
                 PROVE  Cardinality(OpenPositions) <= MaxConcurrent
    BY DEF FlightInv, ConcurrentWithinLimit
  <2>2. SpokenInv /\ OpenPositions \subseteq Spoken
    BY <2>1 DEF FlightInv, Spoken
  <2>3. /\ IsFiniteSet(OpenPositions) /\ IsFiniteSet(Spoken)
        /\ Cardinality(OpenPositions) <= Cardinality(Spoken)
    BY <2>2, FS_Subset DEF SpokenInv
  <2>4. Cardinality(OpenPositions) \in Nat /\ Cardinality(Spoken) \in Nat
    BY <2>3, FS_CardinalityType
  <2> QED
    BY <2>2, <2>3, <2>4, RiskAssumption DEF SpokenInv
<1> QED
  BY <1>1, FlightInit, FlightStep, PTL DEF FlowSpec

(* Shares against a position change it against its side.                   *)
LEMMA ReducingOpposes ==
  ASSUME PositionTypes, NEW i \in Signals, Reducing(i)
  PROVE  AgainstPosition(qty[Symbol[i]], After(Symbol[i], Signed(Side[i], Size[i])))
<1>1. qty[Symbol[i]] \in Int /\ Side[i] \in {"BUY", "SELL"} /\ Size[i] \in Nat \ {0}
  BY RiskAssumption DEF PositionTypes
<1>2. CASE qty[Symbol[i]] > 0 /\ Side[i] = "SELL"
  <2>1. Signed(Side[i], Size[i]) = -Size[i]
    BY <1>2 DEF Signed
  <2>2. NewQty(Symbol[i], -Size[i]) <= qty[Symbol[i]]
    BY <1>1, <1>2 DEF NewQty, Adds, Left, Covered, Abs, Sign, Least
  <2> QED
    BY <1>1, <1>2, <2>1, <2>2 DEF After, AgainstPosition
<1>3. CASE qty[Symbol[i]] < 0 /\ Side[i] = "BUY"
  <2>1. Signed(Side[i], Size[i]) = Size[i]
    BY <1>3 DEF Signed
  <2>2. NewQty(Symbol[i], Size[i]) >= qty[Symbol[i]]
    BY <1>1, <1>3 DEF NewQty, Adds, Left, Covered, Abs, Sign, Least
  <2> QED
    BY <1>1, <1>3, <2>1, <2>2 DEF After, AgainstPosition
<1> QED
  BY <1>2, <1>3 DEF Reducing

LEMMA FillReduces ==
  ASSUME FlightInv, ~crowded, Abs(Total(realized)) >= MaxDailyLoss,
         NEW i \in Signals, NEW p \in Prices, DispatchFill(i, p),
         NEW s \in Symbols, ~PlacedTwice(s)
  PROVE  AgainstPosition(qty[s], qty'[s])
<1>1. bus \in Seq(Messages) /\ OrderTypes /\ OnceInv /\ VerdictInv /\ PositionTypes
  BY DEF FlightInv, PositionInv
<1>2. 1 \in DOMAIN bus /\ bus[1] = Fill(i, p)
  BY <1>1, DispatchCarries DEF DispatchFill
<1>3. Filling(i) /\ i \in InFlight
  BY <1>2 DEF InFlight, Filling, Fill
<1>4. PICK done \in Stages : OnFill(Symbol[i], Side[i], Size[i], p, done)
  BY DEF DispatchFill
<1>5. Symbol[i] \in Symbols /\ Size[i] \in Nat
  BY RiskAssumption
<1>6. qty' = [qty EXCEPT ![Symbol[i]] = After(Symbol[i], Signed(Side[i], Size[i]))]
  <2>1. \A t \in Symbols, q \in Nat : \A side : OnFill(t, side, q, p, done) =>
          qty' = [qty EXCEPT ![t] = After(t, Signed(side, q))]
    BY <1>1, FillMoves
  <2> QED
    BY <1>4, <1>5, <2>1
<1>7. CASE s # Symbol[i]
  <2>1. qty'[s] = qty[s] /\ qty[s] \in Int
    BY <1>1, <1>6, <1>7 DEF PositionTypes
  <2> QED
    BY <2>1 DEF AgainstPosition
<1>8. CASE s = Symbol[i]
  <2>1. placed[i] \in Nat /\ placed[i] # 0 /\ ~(placed[i] > 1)
    BY <1>1, <1>3, <1>8 DEF OrderTypes, OnceInv, PlacedTwice
  <2>2. Due(i)
    BY <1>3, <2>1 DEF Due
  <2>3. Reducing(i)
    BY <1>1, <1>3, <2>2 DEF VerdictInv, DailyLossReached
  <2>4. qty'[s] = After(Symbol[i], Signed(Side[i], Size[i]))
    BY <1>1, <1>5, <1>6, <1>8 DEF PositionTypes
  <2> QED
    BY <1>1, <1>8, <2>3, <2>4, ReducingOpposes
<1> QED
  BY <1>7, <1>8

(* Once the day's realized result has reached max_daily_loss, fills only   *)
(* change positions against their side, whatever the signals' sizes, under *)
(* the same condition and unless two orders were placed for the signal.    *)
THEOREM LossLimitHolds == FlowSpec => DailyLossStopsIncrease
<1>1. FlightInv /\ [FlowNext]_flowVars =>
        (~crowded /\ Abs(Total(realized)) >= MaxDailyLoss
           => \A s \in Symbols : PlacedTwice(s) \/ AgainstPosition(qty[s], qty'[s]))
  <2>1. SUFFICES ASSUME FlightInv, [FlowNext]_flowVars, ~crowded,
                        Abs(Total(realized)) >= MaxDailyLoss, NEW s \in Symbols, ~PlacedTwice(s)
                 PROVE  AgainstPosition(qty[s], qty'[s])
    OBVIOUS
  <2>2. CASE \E i \in Signals, p \in Prices : DispatchFill(i, p)
    BY <2>1, <2>2, FillReduces
  <2>3. CASE UNCHANGED qty
    <3>1. qty[s] \in Int
      BY <2>1 DEF FlightInv, PositionInv, PositionTypes
    <3> QED
      BY <2>3, <3>1 DEF AgainstPosition
  <2>4. (\E i \in Signals, p \in Prices : DispatchFill(i, p)) \/ UNCHANGED qty
    BY <2>1 DEF FlowNext, flowVars, vars, Generate, OnSignal, OnApproved, RetryFires,
                OnSubmitted, BrokerFills, PublishTick, DispatchTick, OnTick, ledger, Elapse,
                BrokerDisconnects, OnDisconnect, Operate
  <2> QED
    BY <2>2, <2>3, <2>4
<1> QED
  BY <1>1, FlightInit, FlightStep, PTL DEF FlowSpec, DailyLossStopsIncrease

-----------------------------------------------------------------------------
(* Sums and folds. MapThenSumSet and FoldLeft choose a recursive function; *)
(* that there is one, and what it is for every set, takes induction, which *)
(* is had from the well-foundedness of inclusion among finite sets.        *)

(* What has a set whenever it has all sets with one element less has all.  *)
LEMMA SubsetInduction ==
  ASSUME NEW D, IsFiniteSet(D), NEW A,
         \A S \in SUBSET D : (\A x \in S : S \ {x} \in A) => S \in A
  PROVE  SUBSET D \subseteq A
<1> SUFFICES ASSUME NEW T \in SUBSET D, T \notin A PROVE FALSE
  OBVIOUS
<1> DEFINE R == StrictSubsetOrdering(D)
           Outside == {S \in SUBSET D : S \notin A}
<1>1. Outside \subseteq FiniteSubsetsOf(D) /\ Outside # {}
  <2>1. \A S \in SUBSET D : IsFiniteSet(S)
    BY FS_Subset
  <2> QED
    BY <2>1 DEF FiniteSubsetsOf
<1>2. \E S \in Outside : \A U \in Outside : ~(<<U, S>> \in R)
  BY <1>1, FS_StrictSubsetOrderingWellFounded, WFMin
<1>3. PICK S \in Outside : \A U \in Outside : ~(<<U, S>> \in R)
  BY <1>2
<1>4. ASSUME NEW x \in S PROVE S \ {x} \in A
  <2>1. S \ {x} \subseteq S /\ S \ {x} # S /\ S \ {x} \in SUBSET D /\ S \in SUBSET D
    BY <1>4
  <2> QED
    BY <1>3, <2>1 DEF StrictSubsetOrdering
<1> QED
  BY <1>3, <1>4

(* What has 0, and with a number the next, has all numbers.                *)
LEMMA UpFromZero ==
  ASSUME NEW A, 0 \in A, \A n \in Nat : n \in A => n + 1 \in A
  PROVE  Nat \subseteq A
<1>1. ASSUME NEW n \in Nat PROVE n \in A
  <2> DEFINE N == 1..n
             C == {T \in SUBSET N : Cardinality(T) \in A}
  <2>1. IsFiniteSet(N) /\ Cardinality(N) = n
    BY FS_Interval
  <2> HIDE DEF N
  <2>2. ASSUME NEW S \in SUBSET N, \A x \in S : S \ {x} \in C PROVE S \in C
    <3>1. IsFiniteSet(S) /\ Cardinality(S) \in Nat
      BY <2>1, FS_Subset, FS_CardinalityType
    <3>2. CASE S = {}
      BY <3>2, FS_EmptySet
    <3>3. CASE S # {}
      <4>1. PICK x \in S : TRUE
        BY <3>3
      <4>2. Cardinality(S \ {x}) \in A /\ Cardinality(S \ {x}) = Cardinality(S) - 1
        BY <2>2, <3>1, <4>1, FS_RemoveElement
      <4>3. Cardinality(S) # 0
        BY <3>1, <3>3, FS_EmptySet
      <4>4. Cardinality(S) - 1 \in Nat /\ (Cardinality(S) - 1) + 1 = Cardinality(S)
        BY <3>1, <4>3
      <4> QED
        BY <4>2, <4>4
    <3> QED
      BY <3>2, <3>3
  <2> HIDE DEF C
  <2>3. SUBSET N \subseteq C
    BY <2>1, <2>2, SubsetInduction
  <2> QED
    BY <2>1, <2>3 DEF C
<1> QED
  BY <1>1

(* A function given by what it is on a set from what it is on that set     *)
(* without one of its elements exists.                                     *)
Foldable(D, V, base, pick, step) ==
  /\ IsFiniteSet(D)
  /\ base \in V
  /\ \A S \in SUBSET D : S # {} => pick[S] \in S
  /\ step \in [D \X V -> V]

Folds(g, D, V, base, pick, step) ==
  /\ g \in [SUBSET D -> V]
  /\ \A S \in SUBSET D :
       g[S] = IF S = {} THEN base ELSE step[<<pick[S], g[S \ {pick[S]}]>>]

LEMMA FoldExists ==
  ASSUME NEW D, NEW V, NEW base, NEW pick, NEW step, Foldable(D, V, base, pick, step)
  PROVE  \E g : Folds(g, D, V, base, pick, step)
<1> USE DEF Foldable
<1> DEFINE Right(g, S) ==
             g[S] = IF S = {} THEN base ELSE step[<<pick[S], g[S \ {pick[S]}]>>]
           Upto(k) == {S \in SUBSET D : Cardinality(S) <= k}
           A == {k \in Nat : \E g \in [SUBSET D -> V] : \A S \in Upto(k) : Right(g, S)}
<1>1. \A S \in SUBSET D : IsFiniteSet(S) /\ Cardinality(S) \in Nat
  BY FS_Subset, FS_CardinalityType
<1>2. 0 \in A
  <2> DEFINE g == [S \in SUBSET D |-> base]
  <2>1. g \in [SUBSET D -> V] /\ g[{}] = base
    OBVIOUS
  <2>2. \A S \in Upto(0) : S = {}
    BY <1>1, FS_EmptySet
  <2> HIDE DEF g
  <2> QED
    BY <2>1, <2>2
<1>3. ASSUME NEW k \in Nat, k \in A PROVE k + 1 \in A
  <2>1. PICK g \in [SUBSET D -> V] : \A S \in Upto(k) : Right(g, S)
    BY <1>3
  <2> DEFINE h == [S \in SUBSET D |-> IF S = {} THEN base
                                      ELSE step[<<pick[S], g[S \ {pick[S]}]>>]]
  <2>2. h \in [SUBSET D -> V]
    <3>1. ASSUME NEW S \in SUBSET D, S # {}
          PROVE  step[<<pick[S], g[S \ {pick[S]}]>>] \in V
      <4>1. pick[S] \in D /\ S \ {pick[S]} \in SUBSET D
        BY <3>1
      <4>2. g[S \ {pick[S]}] \in V
        BY <4>1
      <4> QED
        BY <4>1, <4>2
    <3> QED
      BY <3>1
  <2>3. \A S \in SUBSET D : h[S] = IF S = {} THEN base
                                   ELSE step[<<pick[S], g[S \ {pick[S]}]>>]
    OBVIOUS
  <2> HIDE DEF h
  <2>4. \A S \in Upto(k) : h[S] = g[S]
    BY <2>1, <2>3
  <2>5. ASSUME NEW S \in Upto(k + 1) PROVE Right(h, S)
    <3>1. CASE S = {}
      BY <2>3, <2>5, <3>1
    <3>2. CASE S # {}
      <4> DEFINE rest == S \ {pick[S]}
      <4>1. pick[S] \in S /\ S \in SUBSET D /\ Cardinality(S) <= k + 1
        BY <2>5, <3>2
      <4>2. Cardinality(rest) = Cardinality(S) - 1
        BY <1>1, <4>1, FS_RemoveElement
      <4>3. rest \in Upto(k)
        BY <1>1, <4>1, <4>2
      <4> QED
        BY <2>3, <2>4, <3>2, <4>1, <4>3
    <3> QED
      BY <3>1, <3>2
  <2>6. \E f \in [SUBSET D -> V] : \A S \in Upto(k + 1) : Right(f, S)
    <3> HIDE DEF Right, Upto
    <3> QED
      BY <2>2, <2>5
  <2> HIDE DEF Right, Upto
  <2> QED
    BY <2>6
<1> HIDE DEF A
<1>4. Nat \subseteq A
  BY <1>2, <1>3, UpFromZero
<1>5. Cardinality(D) \in A
  BY <1>1, <1>4
<1>6. \A S \in SUBSET D : Cardinality(S) <= Cardinality(D)
  BY FS_Subset
<1> QED
  BY <1>5, <1>6 DEF A, Folds

One(S) == CHOOSE x \in S : TRUE

(* What Total sums up to, set by set.                                      *)
Sums(g, f) ==
  /\ g \in [SUBSET Symbols -> Int]
  /\ \A S \in SUBSET Symbols : g[S] = IF S = {} THEN 0 ELSE f[One(S)] + g[S \ {One(S)}]

LEMMA TotalIs ==
  ASSUME IsFiniteSet(Symbols), NEW f \in [Symbols -> Int]
  PROVE  \E g : Sums(g, f) /\ Total(f) = g[Symbols]
<1> DEFINE step == [x \in Symbols \X Int |-> f[x[1]] + x[2]]
           pick == [S \in SUBSET Symbols |-> One(S)]
           IsIt(h) == h = [S \in SUBSET Symbols |->
                             IF S = {} THEN 0
                             ELSE LET s == CHOOSE x \in S : TRUE IN f[s] + h[S \ {s}]]
           total == CHOOSE h : IsIt(h)
<1>1. \A S \in SUBSET Symbols : S # {} => One(S) \in S /\ pick[S] = One(S)
  BY DEF One
<1>2. step \in [Symbols \X Int -> Int] /\ \A s \in Symbols, n \in Int : step[<<s, n>>] = f[s] + n
  OBVIOUS
<1>3. \E g : Folds(g, Symbols, Int, 0, pick, step)
  <2> HIDE DEF pick, step
  <2>1. Foldable(Symbols, Int, 0, pick, step)
    BY <1>1, <1>2 DEF Foldable
  <2> QED
    BY <2>1, FoldExists
<1>4. PICK g : Sums(g, f)
  <2>1. PICK g \in [SUBSET Symbols -> Int] : \A S \in SUBSET Symbols :
          g[S] = IF S = {} THEN 0 ELSE step[<<pick[S], g[S \ {pick[S]}]>>]
    BY <1>3 DEF Folds
  <2> HIDE DEF pick, step
  <2>2. ASSUME NEW S \in SUBSET Symbols, S # {} PROVE g[S] = f[One(S)] + g[S \ {One(S)}]
    <3>1. One(S) \in Symbols /\ g[S \ {One(S)}] \in Int /\ pick[S] = One(S)
      BY <1>1, <2>1, <2>2
    <3> QED
      BY <1>2, <2>1, <2>2, <3>1
  <2>3. g[{}] = 0
    BY <2>1
  <2> QED
    BY <2>1, <2>2, <2>3 DEF Sums
<1>5. IsIt(total)
  <2>1. g = [S \in SUBSET Symbols |-> IF S = {} THEN 0 ELSE f[One(S)] + g[S \ {One(S)}]]
    BY <1>4 DEF Sums
  <2>2. IsIt(g)
    BY <2>1 DEF One
  <2> HIDE DEF IsIt
  <2> QED
    BY <2>2
<1>6. Total(f) = total[Symbols]
  BY DEF Total, MapThenSumSet, MapThenFoldSet
<1> HIDE DEF total
<1>7. \A S \in SUBSET Symbols : total[S] = IF S = {} THEN 0 ELSE f[One(S)] + total[S \ {One(S)}]
  BY <1>5 DEF One
<1> DEFINE A == {S \in SUBSET Symbols : total[S] = g[S]}
<1>8. ASSUME NEW S \in SUBSET Symbols, \A x \in S : S \ {x} \in A PROVE S \in A
  <2>1. CASE S = {}
    BY <1>4, <1>7, <2>1 DEF Sums
  <2>2. CASE S # {}
    <3>1. One(S) \in S
      BY <1>1, <2>2
    <3>2. total[S \ {One(S)}] = g[S \ {One(S)}]
      BY <1>8, <3>1
    <3> QED
      BY <1>4, <1>7, <2>2, <3>2 DEF Sums
  <2> QED
    BY <2>1, <2>2
<1> HIDE DEF A
<1>9. SUBSET Symbols \subseteq A
  BY <1>8, SubsetInduction
<1> QED
  BY <1>4, <1>6, <1>9 DEF A

LEMMA TotalInt ==
  ASSUME IsFiniteSet(Symbols), NEW f \in [Symbols -> Int]
  PROVE  Total(f) \in Int
<1>1. PICK g : Sums(g, f) /\ Total(f) = g[Symbols]
  BY TotalIs
<1>2. Symbols \in SUBSET Symbols
  OBVIOUS
<1> QED
  BY <1>1, <1>2 DEF Sums

Even(a, b, c, d, x) == a[x] + b[x] = c[x] + d[x]
Grows(p, S, T, a, x) == p[S] = a[x] + p[T] /\ a[x] \in Int /\ p[T] \in Int

LEMMA PairsAdd ==
  ASSUME NEW a, NEW b, NEW c, NEW d, NEW p, NEW q, NEW u, NEW v, NEW S, NEW T, NEW x,
         Even(a, b, c, d, x), Even(p, q, u, v, T),
         Grows(p, S, T, a, x), Grows(q, S, T, b, x), Grows(u, S, T, c, x), Grows(v, S, T, d, x)
  PROVE  Even(p, q, u, v, S)
BY DEF Even, Grows

(* Sums that agree symbol by symbol agree.                                 *)
LEMMA TotalsAgree ==
  ASSUME IsFiniteSet(Symbols),
         NEW a \in [Symbols -> Int], NEW b \in [Symbols -> Int],
         NEW c \in [Symbols -> Int], NEW d \in [Symbols -> Int],
         \A s \in Symbols : Even(a, b, c, d, s)
  PROVE  Total(a) + Total(b) = Total(c) + Total(d)
<1>1. PICK p : Sums(p, a) /\ Total(a) = p[Symbols]
  BY TotalIs
<1>2. PICK q : Sums(q, b) /\ Total(b) = q[Symbols]
  BY TotalIs
<1>3. PICK u : Sums(u, c) /\ Total(c) = u[Symbols]
  BY TotalIs
<1>4. PICK v : Sums(v, d) /\ Total(d) = v[Symbols]
  BY TotalIs
<1> DEFINE A == {S \in SUBSET Symbols : Even(p, q, u, v, S)}
<1>5. ASSUME NEW S \in SUBSET Symbols, \A x \in S : S \ {x} \in A PROVE S \in A
  <2>1. CASE S = {}
    BY <1>1, <1>2, <1>3, <1>4, <2>1 DEF Sums, Even
  <2>2. CASE S # {}
    <3>1. PICK o, rest : o = One(S) /\ rest = S \ {o}
      OBVIOUS
    <3>2. o \in S /\ rest \in SUBSET Symbols
      BY <2>2, <3>1 DEF One
    <3>3. Even(p, q, u, v, rest) /\ Even(a, b, c, d, o)
      BY <1>5, <3>1, <3>2
    <3>4. /\ Grows(p, S, rest, a, o) /\ Grows(q, S, rest, b, o)
          /\ Grows(u, S, rest, c, o) /\ Grows(v, S, rest, d, o)
      BY <1>1, <1>2, <1>3, <1>4, <2>2, <3>1, <3>2 DEF Sums, Grows
    <3> QED
      BY <3>3, <3>4, PairsAdd
  <2> QED
    BY <2>1, <2>2
<1> HIDE DEF A
<1>6. SUBSET Symbols \subseteq A
  BY <1>5, SubsetInduction
<1> QED
  BY <1>1, <1>2, <1>3, <1>4, <1>6 DEF A, Even

-----------------------------------------------------------------------------
(* Money.                                                                  *)

(* What a fill may ask to average comes out even in the unit of money: no  *)
(* average cost that the fills to come can make has to be rounded.         *)
AveragesExact ==
  fills < MaxFills =>
    \A s \in Symbols, side \in Sides, q \in Quantities, p \in Prices :
      LET n == Signed(side, q) IN
        n # 0 /\ Adds(s, n) =>
          NewAvgCost(s, n, p) * Abs(NewQty(s, n)) = avgCost[s] * Abs(qty[s]) + p * Abs(n)

LedgerTypes ==
  /\ known \subseteq Symbols
  /\ qty \in [Symbols -> Int] /\ avgCost \in [Symbols -> Int]
  /\ realized \in [Symbols -> Int] /\ cash \in [Symbols -> Int]
  /\ marks \in [Symbols -> Nat]

(* What a symbol's fills cost is in its position or in its profit.         *)
Booked == \A s \in Symbols : realized[s] - avgCost[s] * qty[s] = cash[s]

LedgerInv == LedgerTypes /\ Booked /\ \A s \in Symbols \ known : qty[s] = 0

LEMMA AddingBooks ==
  ASSUME NEW Q \in Int, NEW N \in Int, NEW a \in Int, NEW b \in Int, NEW p \in Int,
         NEW r \in Int, NEW c \in Int, N # 0, Q = 0 \/ (Q > 0) = (N > 0),
         b * Abs(Q + N) = a * Abs(Q) + p * Abs(N), r - a * Q = c
  PROVE  r - b * (Q + N) = c - N * p
<1>1. b * (Q + N) = a * Q + p * N
  <2>1. CASE N > 0
    <3>1. Abs(Q + N) = Q + N /\ Abs(Q) = Q /\ Abs(N) = N
      BY <2>1 DEF Abs
    <3> QED
      BY <3>1
  <2>2. CASE N < 0
    <3>1. Abs(Q + N) = -(Q + N) /\ Abs(Q) = -Q /\ Abs(N) = -N
      BY <2>2 DEF Abs
    <3>2. b * (-(Q + N)) = -(b * (Q + N)) /\ a * (-Q) = -(a * Q) /\ p * (-N) = -(p * N)
      OBVIOUS
    <3> QED
      BY <3>1, <3>2
  <2> QED
    BY <2>1, <2>2
<1> QED
  BY <1>1

LEMMA CoveringBooks ==
  ASSUME NEW Q \in Int, NEW N \in Int, NEW a \in Int, NEW p \in Int,
         NEW r \in Int, NEW c \in Int, r - a * Q = c
  PROVE  /\ (r + (p - a) * Q) - p * (Q + N) = c - N * p
         /\ (r + (p - a) * (-N)) - a * (Q + N) = c - N * p
<1>1. (p - a) * Q = p * Q - a * Q /\ p * (Q + N) = p * Q + N * p
  OBVIOUS
<1>2. (p - a) * (-N) = a * N - N * p /\ a * (Q + N) = a * Q + a * N
  OBVIOUS
<1> QED
  BY <1>1, <1>2

(* A fill is booked in full.                                               *)
LEMMA FillBooked ==
  ASSUME LedgerInv, NEW s \in Symbols, NEW n \in Int, n # 0, NEW p \in Nat,
         Adds(s, n) =>
           NewAvgCost(s, n, p) * Abs(NewQty(s, n)) = avgCost[s] * Abs(qty[s]) + p * Abs(n)
  PROVE  /\ NewQty(s, n) \in Int /\ NewAvgCost(s, n, p) \in Int /\ RealizedBy(s, n, p) \in Int
         /\ (realized[s] + RealizedBy(s, n, p)) - NewAvgCost(s, n, p) * NewQty(s, n)
              = cash[s] - n * p
<1>1. PICK Q, a, r, c : Q = qty[s] /\ a = avgCost[s] /\ r = realized[s] /\ c = cash[s]
  OBVIOUS
<1>2. /\ Q \in Int /\ a \in Int /\ r \in Int /\ c \in Int
      /\ r - a * Q = c
  BY <1>1 DEF LedgerInv, LedgerTypes, Booked
<1>3. CASE Adds(s, n)
  <2>1. NewQty(s, n) = Q + n /\ Q + n # 0 /\ (Q = 0 \/ (Q > 0) = (n > 0))
    BY <1>1, <1>2, <1>3 DEF NewQty, Adds
  <2>2. RealizedBy(s, n, p) = 0
    <3>1. Covered(s, n) = 0
      BY <1>3 DEF Covered
    <3> QED
      BY <1>1, <1>2, <3>1 DEF RealizedBy
  <2>3. NewAvgCost(s, n, p) \in Int
    <3>1. NewAvgCost(s, n, p) = (a * Abs(Q) + p * Abs(n)) \div Abs(Q + n)
      BY <1>1, <1>3, <2>1 DEF NewAvgCost
    <3>2. a * Abs(Q) + p * Abs(n) \in Int /\ Abs(Q + n) \in Nat \ {0}
      BY <1>2, <2>1 DEF Abs
    <3> QED
      BY <3>1, <3>2
  <2>4. NewAvgCost(s, n, p) * Abs(Q + n) = a * Abs(Q) + p * Abs(n)
    BY <1>1, <1>3, <2>1
  <2>5. r - NewAvgCost(s, n, p) * (Q + n) = c - n * p
    BY <1>2, <2>1, <2>3, <2>4, AddingBooks
  <2> QED
    BY <1>1, <1>2, <2>1, <2>2, <2>3, <2>5
<1>4. CASE ~Adds(s, n)
  <2>1. Q # 0 /\ ~((Q > 0) = (n > 0))
    BY <1>1, <1>4 DEF Adds
  <2>2. /\ Covered(s, n) = Least(Abs(Q), Abs(n)) /\ Left(s, n) = Abs(n) - Covered(s, n)
        /\ RealizedBy(s, n, p) = (IF Q > 0 THEN p - a ELSE a - p) * Covered(s, n)
    BY <1>1, <1>4 DEF Covered, Left, RealizedBy
  <2>3. CASE Left(s, n) > 0
    <3>1. Covered(s, n) = Abs(Q) /\ Abs(n) > Abs(Q)
      BY <1>2, <2>2, <2>3 DEF Least, Abs
    <3>2. NewQty(s, n) = Q + n /\ NewAvgCost(s, n, p) = p
      <4>1. NewQty(s, n) = Sign(n) * (Abs(n) - Abs(Q)) /\ NewAvgCost(s, n, p) = p
        BY <1>4, <2>2, <2>3, <3>1 DEF NewQty, NewAvgCost
      <4>2. CASE n > 0
        BY <1>2, <2>1, <4>1, <4>2 DEF Sign, Abs
      <4>3. CASE n < 0
        BY <1>2, <2>1, <4>1, <4>3 DEF Sign, Abs
      <4> QED
        BY <4>2, <4>3
    <3>3. RealizedBy(s, n, p) = (p - a) * Q
      <4>1. CASE Q > 0
        BY <1>2, <2>2, <3>1, <4>1 DEF Abs
      <4>2. CASE Q < 0
        <5>1. RealizedBy(s, n, p) = (a - p) * (-Q)
          BY <1>2, <2>2, <3>1, <4>2 DEF Abs
        <5> QED
          BY <1>2, <5>1
      <4> QED
        BY <1>2, <2>1, <4>1, <4>2
    <3>4. (p - a) * Q \in Int /\ (r + (p - a) * Q) - p * (Q + n) = c - n * p
      BY <1>2, CoveringBooks
    <3>5. NewQty(s, n) \in Int /\ NewAvgCost(s, n, p) \in Int
      BY <1>2, <3>2
    <3> QED
      BY <1>1, <3>2, <3>3, <3>4, <3>5
  <2>4. CASE ~(Left(s, n) > 0)
    <3>1. Covered(s, n) = Abs(n) /\ Abs(n) <= Abs(Q)
      BY <1>2, <2>2, <2>4 DEF Least, Abs
    <3>2. NewQty(s, n) = Q + n
      <4>1. NewQty(s, n) = Q + Sign(n) * Abs(n)
        BY <1>1, <1>4, <2>4, <3>1 DEF NewQty
      <4> QED
        BY <1>2, <4>1 DEF Sign, Abs
    <3>3. NewAvgCost(s, n, p) = IF Q + n = 0 THEN 0 ELSE a
      BY <1>1, <1>4, <2>4, <3>2 DEF NewAvgCost
    <3>4. RealizedBy(s, n, p) = (p - a) * (-n)
      <4>1. CASE Q > 0
        BY <1>2, <2>1, <2>2, <3>1, <4>1 DEF Abs
      <4>2. CASE Q < 0
        <5>1. RealizedBy(s, n, p) = (a - p) * n
          BY <1>2, <2>1, <2>2, <3>1, <4>2 DEF Abs
        <5> QED
          BY <1>2, <5>1
      <4> QED
        BY <1>2, <2>1, <4>1, <4>2
    <3>5. (r + RealizedBy(s, n, p)) - a * (Q + n) = c - n * p
      <4>1. p \in Int
        OBVIOUS
      <4>2. (r + (p - a) * (-n)) - a * (Q + n) = c - n * p
        BY <1>2, <4>1, CoveringBooks
      <4> QED
        BY <3>4, <4>2
    <3>6. NewAvgCost(s, n, p) * NewQty(s, n) = a * (Q + n)
      BY <1>2, <3>2, <3>3
    <3>7. /\ NewQty(s, n) \in Int /\ NewAvgCost(s, n, p) \in Int
          /\ RealizedBy(s, n, p) \in Int
      BY <1>2, <3>2, <3>3, <3>4
    <3> QED
      BY <1>1, <3>5, <3>6, <3>7
  <2> QED
    BY <2>3, <2>4
<1> QED
  BY <1>3, <1>4

LEMMA LedgerStart == Init => LedgerInv
<1> SUFFICES ASSUME Init PROVE LedgerInv
  OBVIOUS
<1>1. /\ known = {} /\ qty = [s \in Symbols |-> 0] /\ avgCost = [s \in Symbols |-> 0]
      /\ realized = [s \in Symbols |-> 0] /\ cash = [s \in Symbols |-> 0]
      /\ marks = [s \in Symbols |-> 0]
  BY DEF Init
<1>2. LedgerTypes
  BY <1>1 DEF LedgerTypes
<1> QED
  BY <1>1, <1>2 DEF LedgerInv, Booked

LEMMA LedgerFill ==
  ASSUME LedgerInv, AveragesExact, NEW s \in Symbols, NEW side \in Sides,
         NEW q \in Quantities, NEW p \in Prices, NEW done, OnFill(s, side, q, p, done)
  PROVE  LedgerInv'
<1>1. PICK n : n = Signed(side, q)
  OBVIOUS
<1>2. n \in Int /\ p \in Nat /\ q \in Nat
  BY <1>1, PositionAssumption, SignedInt
<1>3. /\ known' = known \cup {s} /\ cash' = [cash EXCEPT ![s] = @ - n * p]
      /\ marks' = marks /\ fills < MaxFills
      /\ n = 0 => UNCHANGED <<qty, avgCost, realized>>
      /\ n # 0 => /\ qty' = [qty EXCEPT ![s] = NewQty(s, n)]
                  /\ avgCost' = [avgCost EXCEPT ![s] = NewAvgCost(s, n, p)]
                  /\ realized' = [realized EXCEPT ![s] = @ + RealizedBy(s, n, p)]
  BY <1>1 DEF OnFill, UpdatePosition
<1>4. LedgerTypes /\ \A t \in Symbols : realized[t] - avgCost[t] * qty[t] = cash[t]
  BY DEF LedgerInv, Booked
<1>5. known' \subseteq Symbols /\ marks' \in [Symbols -> Nat] /\ n * p \in Int
  BY <1>2, <1>3, <1>4 DEF LedgerTypes
<1>6. cash' \in [Symbols -> Int] /\ cash'[s] = cash[s] - n * p
      /\ \A t \in Symbols \ {s} : cash'[t] = cash[t]
  BY <1>3, <1>4, <1>5 DEF LedgerTypes
<1>7. CASE n = 0
  <2>1. UNCHANGED <<qty, avgCost, realized>> /\ cash'[s] = cash[s]
    BY <1>2, <1>3, <1>4, <1>6, <1>7 DEF LedgerTypes
  <2>2. LedgerTypes'
    BY <1>4, <1>5, <1>6, <2>1 DEF LedgerTypes
  <2>3. Booked'
    BY <1>4, <1>6, <2>1 DEF Booked
  <2> QED
    BY <1>3, <2>1, <2>2, <2>3 DEF LedgerInv
<1>8. CASE n # 0
  <2>1. Adds(s, n) =>
          NewAvgCost(s, n, p) * Abs(NewQty(s, n)) = avgCost[s] * Abs(qty[s]) + p * Abs(n)
    BY <1>1, <1>3, <1>8 DEF AveragesExact
  <2>2. PICK d, b, e : d = NewQty(s, n) /\ b = NewAvgCost(s, n, p) /\ e = RealizedBy(s, n, p)
    OBVIOUS
  <2>3. /\ d \in Int /\ b \in Int /\ e \in Int
        /\ (realized[s] + e) - b * d = cash[s] - n * p
    BY <1>2, <1>8, <2>1, <2>2, FillBooked
  <2>4. /\ qty' = [qty EXCEPT ![s] = d] /\ avgCost' = [avgCost EXCEPT ![s] = b]
        /\ realized' = [realized EXCEPT ![s] = @ + e]
    BY <1>3, <1>8, <2>2
  <2>5. /\ qty' \in [Symbols -> Int] /\ avgCost' \in [Symbols -> Int]
        /\ realized' \in [Symbols -> Int]
        /\ qty'[s] = d /\ avgCost'[s] = b /\ realized'[s] = realized[s] + e
        /\ \A t \in Symbols \ {s} : /\ qty'[t] = qty[t] /\ avgCost'[t] = avgCost[t]
                                    /\ realized'[t] = realized[t]
    BY <1>4, <2>3, <2>4 DEF LedgerTypes
  <2>6. LedgerTypes'
    BY <1>5, <1>6, <2>5 DEF LedgerTypes
  <2>7. ASSUME NEW t \in Symbols PROVE realized'[t] - avgCost'[t] * qty'[t] = cash'[t]
    <3>1. CASE t = s
      BY <1>6, <2>3, <2>5, <3>1
    <3>2. CASE t # s
      BY <1>4, <1>6, <2>5, <3>2
    <3> QED
      BY <3>1, <3>2
  <2>8. \A t \in Symbols \ known' : qty'[t] = 0
    BY <1>3, <2>5 DEF LedgerInv
  <2> QED
    BY <2>6, <2>7, <2>8 DEF LedgerInv, Booked
<1> QED
  BY <1>7, <1>8

LEMMA LedgerElse ==
  ASSUME LedgerInv,
         \/ \E s \in Symbols, p \in Prices, heard \in BOOLEAN : OnTick(s, p, heard)
         \/ Start \/ Stop \/ UNCHANGED vars
  PROVE  LedgerInv'
<1>1. UNCHANGED <<known, qty, avgCost, realized, cash>>
  BY DEF OnTick, Start, Stop, vars, ledger
<1>2. marks' \in [Symbols -> Nat]
  <2>1. marks' = marks \/ \E s \in Symbols, p \in Prices : marks' = [marks EXCEPT ![s] = p]
    BY DEF OnTick, Start, Stop, vars
  <2> QED
    BY <2>1, PositionAssumption DEF LedgerInv, LedgerTypes
<1> QED
  BY <1>1, <1>2 DEF LedgerInv, LedgerTypes, Booked

LEMMA LedgerStep == LedgerInv /\ AveragesExact /\ [Next]_vars => LedgerInv'
<1> SUFFICES ASSUME LedgerInv, AveragesExact, [Next]_vars PROVE LedgerInv'
  OBVIOUS
<1>1. ASSUME NEW s \in Symbols, NEW side \in Sides, NEW q \in Quantities, NEW p \in Prices,
             NEW done \in Stages, OnFill(s, side, q, p, done)
      PROVE  LedgerInv'
  BY <1>1, LedgerFill
<1> QED
  BY <1>1, LedgerElse DEF Next

LEMMA LedgerBalances ==
  ASSUME IsFiniteSet(Symbols), LedgerInv
  PROVE  EquityLedger
<1>1. /\ qty \in [Symbols -> Int] /\ avgCost \in [Symbols -> Int]
      /\ realized \in [Symbols -> Int] /\ cash \in [Symbols -> Int]
      /\ \A s \in Symbols : Mark(s) \in Int
  BY DEF LedgerInv, LedgerTypes, Mark
<1>2. Value \in [Symbols -> Int] /\ Unrealized \in [Symbols -> Int]
  <2>1. ASSUME NEW s \in Symbols
        PROVE  Mark(s) * qty[s] \in Int /\ (Mark(s) - avgCost[s]) * qty[s] \in Int
    <3>1. Mark(s) \in Int /\ avgCost[s] \in Int /\ qty[s] \in Int
      BY <1>1
    <3> QED
      BY <3>1
  <2> QED
    BY <2>1 DEF Value, Unrealized
<1>3. ASSUME NEW s \in Symbols PROVE Even(realized, Unrealized, cash, Value, s)
  <2>1. PICK m, a, d, r : m = Mark(s) /\ a = avgCost[s] /\ d = qty[s] /\ r = realized[s]
    OBVIOUS
  <2>2. m \in Int /\ a \in Int /\ d \in Int /\ r \in Int /\ cash[s] = r - a * d
    BY <1>1, <2>1 DEF LedgerInv, Booked
  <2>3. r + (m - a) * d = (r - a * d) + m * d
    BY <2>2
  <2> QED
    BY <2>1, <2>2, <2>3 DEF Even, Unrealized, Value
<1>4. Total(realized) + Total(Unrealized) = Total(cash) + Total(Value)
  BY <1>1, <1>2, <1>3, TotalsAgree
<1>5. /\ Total(realized) \in Int /\ Total(Unrealized) \in Int
      /\ Total(cash) \in Int /\ Total(Value) \in Int /\ InitialCapital \in Int
  BY <1>1, <1>2, TotalInt, PositionAssumption
<1> QED
  BY <1>4, <1>5 DEF EquityLedger, Equity

(* No money appears or disappears in the books of PositionManager: the     *)
(* equity it computes is the capital, the cash its fills moved and what    *)
(* its positions are worth, for any fills in any order, where the averages *)
(* come out even.                                                          *)
THEOREM MoneyKept ==
  ASSUME IsFiniteSet(Symbols)
  PROVE  Spec /\ []AveragesExact => []EquityLedger
<1>1. LedgerInv => EquityLedger
  BY LedgerBalances
<1> QED
  BY <1>1, LedgerStart, LedgerStep, PTL DEF Spec

-----------------------------------------------------------------------------
(* The deepest fall of a curve.                                            *)

Fraction == Int \X (Nat \ {0})
Passed == [peak : Int, dd : Fraction]

(* What FoldLeft makes of the first k points of curve c.                   *)
Passes(g, c) ==
  /\ g \in [0..Len(c) -> Passed]
  /\ g[0] = [peak |-> c[1], dd |-> <<0, 1>>]
  /\ \A k \in 1..Len(c) : g[k] = DrawdownStep(g[k - 1], c[k])

LEMMA StepPassed ==
  ASSUME NEW acc \in Passed, NEW e \in Int
  PROVE  DrawdownStep(acc, e) \in Passed
<1>1. PICK P, D : P = acc.peak /\ D = acc.dd
  OBVIOUS
<1>2. P \in Int /\ D \in Fraction
  BY <1>1 DEF Passed
<1>3. PICK peak : peak = IF e > P THEN e ELSE P
  OBVIOUS
<1>4. peak \in Int
  BY <1>2, <1>3
<1>5. peak > 0 => <<peak - e, peak>> \in Fraction
  BY <1>4 DEF Fraction
<1>6. DrawdownStep(acc, e) =
        [peak |-> peak, dd |-> IF peak > 0 /\ Exceeds(<<peak - e, peak>>, D)
                               THEN <<peak - e, peak>> ELSE D]
  BY <1>1, <1>3 DEF DrawdownStep
<1> QED
  BY <1>2, <1>4, <1>5, <1>6 DEF Passed

(* A set of numbers up to n has a highest one.                             *)
LEMMA Highest ==
  \A n \in Nat : \A S \in SUBSET (1..n) : S # {} => Max(S) \in S
<1> DEFINE Has(n) == \A S \in SUBSET (1..n) : S # {} => \E x \in S : \A y \in S : x >= y
           A == {n \in Nat : Has(n)}
<1>1. 0 \in A
  <2>1. 1..0 = {}
    OBVIOUS
  <2> QED
    BY <2>1
<1>2. ASSUME NEW n \in Nat, n \in A PROVE n + 1 \in A
  <2>1. ASSUME NEW S \in SUBSET (1..(n + 1)), S # {} PROVE \E x \in S : \A y \in S : x >= y
    <3>1. CASE n + 1 \in S
      BY <2>1, <3>1
    <3>2. CASE n + 1 \notin S
      <4>1. S \in SUBSET (1..n)
        BY <2>1, <3>2
      <4> QED
        BY <1>2, <2>1, <4>1
    <3> QED
      BY <3>1, <3>2
  <2> QED
    BY <2>1
<1> HIDE DEF A
<1>3. Nat \subseteq A
  BY <1>1, <1>2, UpFromZero
<1> QED
  BY <1>3 DEF A, Max

LEMMA PassesIs ==
  ASSUME NEW c \in Seq(Int), c # <<>>
  PROVE  \E g : /\ Passes(g, c)
                /\ g[Len(c)] = FoldLeft(DrawdownStep, [peak |-> c[1], dd |-> <<0, 1>>], c)
<1> DEFINE n == Len(c)
           dom == DOMAIN c
           base == [peak |-> c[1], dd |-> <<0, 1>>]
           pick == [S \in SUBSET dom |-> Max(S)]
           step == [x \in dom \X Passed |-> DrawdownStep(x[2], c[x[1]])]
           IsIt(h) == h = [S \in SUBSET dom |->
                             IF S = {} THEN base
                             ELSE LET x == Max(S) IN DrawdownStep(h[S \ {x}], c[x])]
           fold == CHOOSE h : IsIt(h)
<1>1. n \in Nat \ {0} /\ dom = 1..n /\ \A k \in dom : c[k] \in Int
  OBVIOUS
<1>2. base \in Passed
  BY <1>1 DEF Passed, Fraction
<1>3. \A S \in SUBSET dom : S # {} => Max(S) \in S /\ pick[S] = Max(S)
  BY <1>1, Highest
<1>4. /\ step \in [dom \X Passed -> Passed]
      /\ \A x \in dom, acc \in Passed : step[<<x, acc>>] = DrawdownStep(acc, c[x])
  BY <1>1, StepPassed
<1>5. PICK h : Folds(h, dom, Passed, base, pick, step)
  <2> HIDE DEF base, pick, step
  <2>1. IsFiniteSet(dom)
    BY <1>1, FS_Interval
  <2>2. Foldable(dom, Passed, base, pick, step)
    BY <1>2, <1>3, <1>4, <2>1 DEF Foldable
  <2> QED
    BY <2>2, FoldExists
<1>6. IsIt(h)
  <2> HIDE DEF base, pick, step
  <2>1. /\ h \in [SUBSET dom -> Passed]
        /\ \A S \in SUBSET dom :
             h[S] = IF S = {} THEN base ELSE step[<<pick[S], h[S \ {pick[S]}]>>]
    BY <1>5 DEF Folds
  <2>2. ASSUME NEW S \in SUBSET dom, S # {}
        PROVE  h[S] = DrawdownStep(h[S \ {Max(S)}], c[Max(S)])
    <3>1. Max(S) \in dom /\ pick[S] = Max(S) /\ h[S \ {Max(S)}] \in Passed
      BY <1>3, <2>1, <2>2
    <3> QED
      BY <1>4, <2>1, <2>2, <3>1
  <2>3. \A S \in SUBSET dom :
          h[S] = IF S = {} THEN base ELSE DrawdownStep(h[S \ {Max(S)}], c[Max(S)])
    BY <2>1, <2>2
  <2> QED
    BY <2>1, <2>3
<1>7. IsIt(fold)
  <2> HIDE DEF IsIt
  <2> QED
    BY <1>6
<1>8. FoldLeft(DrawdownStep, base, c) = fold[dom]
  BY DEF FoldLeft, MapThenFoldSet
<1> DEFINE g == [k \in 0..n |-> fold[1..k]]
<1> HIDE DEF fold
<1>9. \A S \in SUBSET dom :
        fold[S] = IF S = {} THEN base ELSE DrawdownStep(fold[S \ {Max(S)}], c[Max(S)])
  BY <1>7
<1> HIDE DEF IsIt, dom, base, pick, step
<1>10. fold[1..0] = base
  <2>1. 1..0 = {}
    OBVIOUS
  <2> QED
    BY <1>9, <2>1
<1>11. ASSUME NEW k \in 1..n PROVE fold[1..k] = DrawdownStep(fold[1..(k - 1)], c[k])
  <2>1. (1..k) \in SUBSET dom /\ 1..k # {} /\ (1..k) \ {k} = 1..(k - 1)
    <3>1. k \in Nat \ {0} /\ k <= n /\ n \in Nat
      BY <1>1
    <3>2. \A i \in 1..k : i \in 1..n
      BY <3>1
    <3>3. k \in 1..k
      BY <3>1
    <3>4. (1..k) \ {k} = 1..(k - 1)
      BY <3>1
    <3> QED
      BY <1>1, <3>2, <3>3, <3>4
  <2>2. Max(1..k) = k
    BY <1>1 DEF Max
  <2> QED
    BY <1>9, <2>1, <2>2
<1>12. g \in [0..n -> Passed]
  <2> DEFINE A == {k \in Nat : k <= n => fold[1..k] \in Passed}
  <2>1. 0 \in A
    BY <1>2, <1>10
  <2>2. ASSUME NEW k \in Nat, k \in A PROVE k + 1 \in A
    <3>1. CASE k + 1 <= n
      <4>1. k + 1 \in 1..n /\ (k + 1) - 1 = k /\ k <= n
        BY <1>1, <3>1
      <4>2. fold[1..k] \in Passed /\ c[k + 1] \in Int
        BY <1>1, <2>2, <4>1
      <4>3. fold[1..(k + 1)] = DrawdownStep(fold[1..k], c[k + 1])
        BY <1>11, <4>1
      <4> QED
        BY <4>2, <4>3, StepPassed
    <3> QED
      BY <1>1, <3>1
  <2> HIDE DEF A
  <2>3. Nat \subseteq A
    BY <2>1, <2>2, UpFromZero
  <2> QED
    BY <1>1, <2>3 DEF A
<1>13. \A k \in 1..n : k \in 0..n /\ k - 1 \in 0..n
  BY <1>1
<1>14. g[0] = base /\ \A k \in 1..n : g[k] = DrawdownStep(g[k - 1], c[k])
  <2>1. 0 \in 0..n
    BY <1>1
  <2> QED
    BY <1>10, <1>11, <1>13, <2>1
<1>15. Passes(g, c)
  BY <1>12, <1>14 DEF Passes, base
<1>16. g[n] = FoldLeft(DrawdownStep, base, c)
  BY <1>1, <1>8
<1> QED
  BY <1>15, <1>16 DEF base

(* The fall of curve c from point i to point j, and what is known when the *)
(* first k points were passed.                                             *)
Fall(c, i, j) == <<c[i] - c[j], c[i]>>

Deepest(acc, c, k) ==
  /\ acc \in Passed
  /\ \E m \in {1} \cup (1..k) : acc.peak = c[m]
  /\ \A i \in 1..k : c[i] <= acc.peak
  /\ \A i, j \in 1..k : i <= j => ~Exceeds(Fall(c, i, j), acc.dd)
  /\ acc.dd = <<0, 1>> \/ \E i, j \in 1..k : i <= j /\ acc.dd = Fall(c, i, j)

LEMMA ExceedsOrder ==
  ASSUME NEW f \in Fraction, NEW h \in Fraction, NEW d \in Fraction, ~Exceeds(f, h)
  PROVE  /\ ~Exceeds(h, d) => ~Exceeds(f, d)
         /\ Exceeds(h, d) => ~Exceeds(d, h)
<1>1. PICK f1, f2, h1, h2, d1, d2 :
        f1 = f[1] /\ f2 = f[2] /\ h1 = h[1] /\ h2 = h[2] /\ d1 = d[1] /\ d2 = d[2]
  OBVIOUS
<1>2. /\ f1 \in Int /\ h1 \in Int /\ d1 \in Int
      /\ f2 \in Nat \ {0} /\ h2 \in Nat \ {0} /\ d2 \in Nat \ {0}
  BY <1>1 DEF Fraction
<1>3. f1 * h2 <= h1 * f2
  BY <1>1, <1>2 DEF Exceeds
<1>4. ASSUME h1 * d2 <= d1 * h2 PROVE f1 * d2 <= d1 * f2
  BY <1>2, <1>3, <1>4
<1>5. ASSUME h1 * d2 > d1 * h2 PROVE ~(d1 * h2 > h1 * d2)
  BY <1>2, <1>5
<1> QED
  BY <1>1, <1>2, <1>4, <1>5 DEF Exceeds

(* From a higher point the fall to the same one is the deeper one.         *)
LEMMA HigherFallsDeeper ==
  ASSUME NEW a \in Nat \ {0}, NEW p \in Nat \ {0}, NEW e \in Nat \ {0}, a <= p
  PROVE  ~Exceeds(<<a - e, a>>, <<p - e, p>>)
<1>1. (a - e) * p <= (p - e) * a
  OBVIOUS
<1> QED
  BY <1>1 DEF Exceeds

LEMMA StepDeepest ==
  ASSUME NEW c \in Seq(Int), \A i \in 1..Len(c) : c[i] > 0,
         NEW k \in Nat, k + 1 <= Len(c), NEW acc, Deepest(acc, c, k)
  PROVE  Deepest(DrawdownStep(acc, c[k + 1]), c, k + 1)
<1>1. PICK e : e = c[k + 1]
  OBVIOUS
<1>2. Len(c) \in Nat /\ \A i \in 1..Len(c) : c[i] \in Nat \ {0}
  OBVIOUS
<1>3. k + 1 \in 1..Len(c) /\ 1 \in 1..Len(c) /\ \A i \in 1..(k + 1) : i \in 1..Len(c)
  BY <1>2
<1>4. e \in Nat \ {0} /\ \A i \in 1..(k + 1) : c[i] \in Nat \ {0}
  BY <1>1, <1>2, <1>3
<1>5. \A i \in 1..(k + 1) : i \in 1..k \/ i = k + 1
  OBVIOUS
<1>6. PICK P, D : P = acc.peak /\ D = acc.dd
  OBVIOUS
<1>7. P \in Int /\ D \in Fraction
  BY <1>6 DEF Deepest, Passed
<1>8. PICK p, n, d : /\ p = IF e > P THEN e ELSE P
                     /\ n = <<p - e, p>>
                     /\ d = IF p > 0 /\ Exceeds(n, D) THEN n ELSE D
  OBVIOUS
<1>9. DrawdownStep(acc, e) = [peak |-> p, dd |-> d]
  BY <1>6, <1>8 DEF DrawdownStep
<1>10. PICK m \in 1..(k + 1) : p = c[m]
  <2>1. PICK o \in {1} \cup (1..k) : P = c[o]
    BY <1>6 DEF Deepest
  <2>2. o \in 1..(k + 1) /\ k + 1 \in 1..(k + 1)
    BY <2>1
  <2> QED
    BY <1>1, <1>8, <2>1, <2>2
<1>11. p \in Nat \ {0} /\ n \in Fraction /\ n = Fall(c, m, k + 1)
  BY <1>1, <1>4, <1>8, <1>10 DEF Fraction, Fall
<1>12. d \in Fraction /\ ~Exceeds(n, d) /\ \A f \in Fraction : ~Exceeds(f, D) => ~Exceeds(f, d)
  <2>1. CASE Exceeds(n, D)
    <3>1. d = n
      BY <1>8, <1>11, <2>1
    <3>2. ~Exceeds(n, n)
      BY <1>11 DEF Exceeds, Fraction
    <3>3. ASSUME NEW f \in Fraction, ~Exceeds(f, D) PROVE ~Exceeds(f, n)
      <4>1. ~Exceeds(D, n)
        BY <1>7, <1>11, <2>1, <3>2, ExceedsOrder
      <4> QED
        BY <1>7, <1>11, <3>3, <4>1, ExceedsOrder
    <3> QED
      BY <1>11, <3>1, <3>2, <3>3
  <2>2. CASE ~Exceeds(n, D)
    BY <1>7, <1>8, <2>2
  <2> QED
    BY <2>1, <2>2
<1>13. \A i \in 1..(k + 1) : c[i] <= p
  <2>1. ASSUME NEW i \in 1..(k + 1) PROVE c[i] <= p
    <3>1. CASE i \in 1..k
      <4>1. c[i] <= P /\ P <= p /\ c[i] \in Int
        BY <1>4, <1>6, <1>7, <1>8, <3>1 DEF Deepest
      <4> QED
        BY <1>7, <1>11, <4>1
    <3>2. CASE i = k + 1
      BY <1>1, <1>4, <1>7, <1>8, <3>2
    <3> QED
      BY <1>5, <3>1, <3>2
  <2> QED
    BY <2>1
<1>14. ASSUME NEW i \in 1..(k + 1), NEW j \in 1..(k + 1), i <= j
       PROVE  ~Exceeds(Fall(c, i, j), d)
  <2>1. Fall(c, i, j) \in Fraction
    BY <1>4 DEF Fraction, Fall
  <2>2. CASE j \in 1..k
    <3>1. i \in 1..k
      BY <1>14, <2>2
    <3>2. ~Exceeds(Fall(c, i, j), D)
      BY <1>6, <1>14, <2>2, <3>1 DEF Deepest
    <3> QED
      BY <1>12, <2>1, <3>2
  <2>3. CASE j = k + 1
    <3>1. ~Exceeds(Fall(c, i, j), n)
      <4>1. c[i] \in Nat \ {0} /\ c[i] <= p /\ c[j] = e
        BY <1>1, <1>4, <1>13, <2>3
      <4> QED
        BY <1>4, <1>8, <1>11, <4>1, HigherFallsDeeper DEF Fall
    <3> QED
      BY <1>11, <1>12, <2>1, <3>1, ExceedsOrder
  <2> QED
    BY <1>5, <2>2, <2>3
<1>15. d = <<0, 1>> \/ \E i, j \in 1..(k + 1) : i <= j /\ d = Fall(c, i, j)
  <2>1. CASE d = n
    <3>1. k + 1 \in 1..(k + 1) /\ m <= k + 1
      OBVIOUS
    <3> QED
      BY <1>11, <2>1, <3>1
  <2>2. CASE d = D
    <3>1. \A i \in 1..k : i \in 1..(k + 1)
      OBVIOUS
    <3> QED
      BY <1>6, <2>2, <3>1 DEF Deepest
  <2> QED
    BY <1>8, <2>1, <2>2
<1>16. [peak |-> p, dd |-> d] \in Passed
  BY <1>11, <1>12 DEF Passed
<1> QED
  BY <1>1, <1>9, <1>10, <1>13, <1>14, <1>15, <1>16 DEF Deepest

LEMMA DrawdownRight ==
  ASSUME curve \in Seq(Int)
  PROVE  DrawdownIsDeepestFall
<1>1. PICK c : c = curve
  OBVIOUS
<1>2. c \in Seq(Int) /\ Len(c) \in Nat /\ \A i \in 1..Len(c) : c[i] \in Int
  BY <1>1
<1> DEFINE Later == {Fall(c, ij[1], ij[2]) :
                       ij \in {k \in (1..Len(c)) \X (1..Len(c)) : k[1] <= k[2]}}
<1>3. SUFFICES ASSUME \A i \in 1..Len(c) : c[i] > 0
               PROVE  /\ \A f \in Later : ~Exceeds(f, MaxDrawdown)
                      /\ MaxDrawdown = <<0, 1>> \/ MaxDrawdown \in Later
  BY <1>1 DEF DrawdownIsDeepestFall, Fall
<1>4. /\ \A f \in Later : \E i, j \in 1..Len(c) : i <= j /\ f = Fall(c, i, j)
      /\ \A i, j \in 1..Len(c) : i <= j => Fall(c, i, j) \in Later
  <2>1. ASSUME NEW f \in Later PROVE \E i, j \in 1..Len(c) : i <= j /\ f = Fall(c, i, j)
    OBVIOUS
  <2>2. ASSUME NEW i \in 1..Len(c), NEW j \in 1..Len(c), i <= j PROVE Fall(c, i, j) \in Later
    <3>1. /\ <<i, j>> \in (1..Len(c)) \X (1..Len(c))
          /\ <<i, j>>[1] = i /\ <<i, j>>[2] = j
      OBVIOUS
    <3> QED
      BY <2>2, <3>1
  <2> QED
    BY <2>1, <2>2
<1>5. CASE c = <<>>
  <2>1. 1..Len(c) = {} /\ MaxDrawdown = <<0, 1>>
    BY <1>1, <1>5 DEF MaxDrawdown
  <2> QED
    BY <2>1
<1>6. CASE c # <<>>
  <2>1. PICK g : /\ Passes(g, c)
                 /\ g[Len(c)] = FoldLeft(DrawdownStep, [peak |-> c[1], dd |-> <<0, 1>>], c)
    BY <1>2, <1>6, PassesIs
  <2>2. Passes(g, c)
    BY <2>1
  <2> DEFINE A == {k \in Nat : k <= Len(c) => Deepest(g[k], c, k)}
  <2>3. 0 \in A
    <3>1. 0 \in 0..Len(c) /\ 1..0 = {}
      BY <1>2
    <3>2. g \in [0..Len(c) -> Passed] /\ g[0] = [peak |-> c[1], dd |-> <<0, 1>>]
      BY <2>2 DEF Passes
    <3>3. g[0] \in Passed
      BY <3>1, <3>2
    <3>4. g[0].peak = c[1] /\ g[0].dd = <<0, 1>>
      BY <3>2
    <3> QED
      BY <3>1, <3>3, <3>4 DEF Deepest
  <2>4. ASSUME NEW k \in Nat, k \in A PROVE k + 1 \in A
    <3>1. CASE k + 1 <= Len(c)
      <4>1. k <= Len(c) /\ k + 1 \in 1..Len(c) /\ (k + 1) - 1 = k
        BY <1>2, <3>1
      <4>2. Deepest(g[k], c, k) /\ g[k + 1] = DrawdownStep(g[k], c[k + 1])
        BY <2>2, <2>4, <4>1 DEF Passes
      <4> QED
        BY <1>2, <1>3, <3>1, <4>2, StepDeepest
    <3> QED
      BY <3>1
  <2> HIDE DEF A
  <2>5. Nat \subseteq A
    BY <2>3, <2>4, UpFromZero
  <2>6. Deepest(g[Len(c)], c, Len(c))
    BY <1>2, <2>5 DEF A
  <2>7. CASE Len(c) < 2
    <3>1. Len(c) # 0
      BY <1>2, <1>6
    <3>2. Len(c) = 1
      <4>1. PICK n : n = Len(c)
        OBVIOUS
      <4>2. n \in Nat /\ n < 2 /\ n # 0
        BY <1>2, <2>7, <3>1, <4>1
      <4> QED
        BY <4>1, <4>2
    <3>3. MaxDrawdown = <<0, 1>>
      BY <1>1, <2>7 DEF MaxDrawdown
    <3>4. ~Exceeds(Fall(c, 1, 1), <<0, 1>>)
      <4>1. c[1] \in Int
        BY <1>2, <3>2
      <4> QED
        BY <4>1 DEF Exceeds, Fall
    <3>5. \A i, j \in 1..Len(c) : i = 1 /\ j = 1
      BY <3>2
    <3> HIDE DEF Later
    <3> QED
      BY <1>4, <3>3, <3>4, <3>5
  <2>8. CASE ~(Len(c) < 2)
    <3>1. MaxDrawdown = g[Len(c)].dd
      BY <1>1, <2>1, <2>8 DEF MaxDrawdown
    <3>2. PICK d : d = g[Len(c)].dd
      OBVIOUS
    <3>3. /\ \A i, j \in 1..Len(c) : i <= j => ~Exceeds(Fall(c, i, j), d)
          /\ d = <<0, 1>> \/ \E i, j \in 1..Len(c) : i <= j /\ d = Fall(c, i, j)
      BY <2>6, <3>2 DEF Deepest
    <3> HIDE DEF Later
    <3>4. \A f \in Later : ~Exceeds(f, d)
      BY <1>4, <3>3
    <3>5. d = <<0, 1>> \/ d \in Later
      BY <1>4, <3>3
    <3> QED
      BY <3>1, <3>2, <3>4, <3>5
  <2> QED
    BY <2>7, <2>8
<1> QED
  BY <1>5, <1>6

-----------------------------------------------------------------------------
(* What a backtest measures.                                               *)

EquityKnown == Equity \in Int

BacktestInv ==
  /\ measuring = running
  /\ prices \in [Symbols -> Nat]
  /\ curve \in Seq(Int)
  /\ ~cut => equity = Equity /\ (curve # <<>> => curve[Len(curve)] = Equity)

LEMMA EquityIsKnown ==
  ASSUME IsFiniteSet(Symbols), LedgerInv
  PROVE  EquityKnown
<1>1. Unrealized \in [Symbols -> Int]
  <2>1. ASSUME NEW s \in Symbols PROVE (Mark(s) - avgCost[s]) * qty[s] \in Int
    <3>1. Mark(s) \in Int /\ avgCost[s] \in Int /\ qty[s] \in Int
      BY DEF LedgerInv, LedgerTypes, Mark
    <3> QED
      BY <3>1
  <2> QED
    BY <2>1 DEF Unrealized
<1>2. realized \in [Symbols -> Int]
  BY DEF LedgerInv, LedgerTypes
<1>3. Total(realized) \in Int /\ Total(Unrealized) \in Int /\ InitialCapital \in Int
  BY <1>1, <1>2, TotalInt, PositionAssumption
<1> QED
  BY <1>3 DEF EquityKnown, Equity

LEMMA BacktestStepsBook == [BacktestNext]_<<vars, metricVars, engineVars>> => [Next]_vars
<1> SUFFICES ASSUME [BacktestNext]_<<vars, metricVars, engineVars>> PROVE [Next]_vars
  OBVIOUS
<1>1. ASSUME NEW s \in Symbols, NEW side \in Sides, NEW q \in Quantities, NEW p \in Prices,
             NEW done \in Stages, BacktestFill(s, side, q, p, done)
      PROVE  Next
  BY <1>1 DEF BacktestFill, FillCounted, Next
<1>2. ASSUME NEW s \in Symbols, NEW p \in Prices, NEW heard \in BOOLEAN,
             BacktestTick(s, p, heard)
      PROVE  Next
  BY <1>2 DEF BacktestTick, TickCounted, Next
<1>3. BacktestStart \/ BacktestStop => Next
  BY DEF BacktestStart, BacktestStop, Next
<1> QED
  BY <1>1, <1>2, <1>3 DEF BacktestNext

LEMMA TotalOfNothing ==
  ASSUME IsFiniteSet(Symbols), NEW f \in [Symbols -> Int], \A s \in Symbols : f[s] = 0
  PROVE  Total(f) = 0
<1>1. PICK g : Sums(g, f) /\ Total(f) = g[Symbols]
  BY TotalIs
<1> DEFINE A == {S \in SUBSET Symbols : g[S] = 0}
<1>2. ASSUME NEW S \in SUBSET Symbols, \A x \in S : S \ {x} \in A PROVE S \in A
  <2>1. CASE S = {}
    BY <1>1, <2>1 DEF Sums
  <2>2. CASE S # {}
    <3>1. One(S) \in S
      BY <2>2 DEF One
    <3>2. g[S \ {One(S)}] = 0 /\ f[One(S)] = 0
      BY <1>2, <3>1
    <3> QED
      BY <1>1, <2>2, <3>2 DEF Sums
  <2> QED
    BY <2>1, <2>2
<1> HIDE DEF A
<1>3. SUBSET Symbols \subseteq A
  BY <1>2, SubsetInduction
<1> QED
  BY <1>1, <1>3 DEF A

LEMMA BacktestBegins ==
  ASSUME IsFiniteSet(Symbols), BacktestInit
  PROVE  Init /\ BacktestInv
<1>1. /\ Init /\ measuring = running /\ curve = <<>>
      /\ equity = InitialCapital /\ prices = [s \in Symbols |-> 0]
  BY DEF BacktestInit, MetricsInit, Init
<1>2. Equity = InitialCapital
  <2>1. /\ realized = [s \in Symbols |-> 0] /\ qty = [s \in Symbols |-> 0]
        /\ avgCost = [s \in Symbols |-> 0] /\ marks = [s \in Symbols |-> 0]
    BY <1>1 DEF Init
  <2>2. /\ Unrealized \in [Symbols -> Int] /\ \A s \in Symbols : Unrealized[s] = 0
        /\ realized \in [Symbols -> Int] /\ \A s \in Symbols : realized[s] = 0
    BY <2>1 DEF Unrealized, Mark
  <2>3. Total(realized) = 0 /\ Total(Unrealized) = 0
    BY <2>2, TotalOfNothing
  <2> QED
    BY <2>3, PositionAssumption DEF Equity
<1>3. prices \in [Symbols -> Nat] /\ curve \in Seq(Int)
  BY <1>1
<1> QED
  BY <1>1, <1>2, <1>3 DEF BacktestInv

(* Whatever adds the present equity to the curve keeps it right.           *)
LEMMA PointAdded ==
  ASSUME NEW c \in Seq(Int), NEW e \in Int
  PROVE  /\ Append(c, e) \in Seq(Int) /\ Append(c, e) # <<>>
         /\ Append(c, e)[Len(Append(c, e))] = e
OBVIOUS

(* A tick on a symbol without a position changes no value.                 *)
LEMMA TickOnNothing ==
  ASSUME LedgerInv, NEW s \in Symbols \ known, NEW p \in Prices, NEW heard,
         OnTick(s, p, heard)
  PROVE  Equity' = Equity
<1>1. /\ UNCHANGED <<qty, avgCost, realized>> /\ marks' = [marks EXCEPT ![s] = p]
      /\ qty[s] = 0 /\ avgCost \in [Symbols -> Int] /\ marks \in [Symbols -> Nat]
      /\ p \in Nat
  BY PositionAssumption DEF OnTick, ledger, LedgerInv, LedgerTypes
<1>2. ASSUME NEW t \in Symbols
      PROVE  (Mark(t) - avgCost[t])' * qty'[t] = (Mark(t) - avgCost[t]) * qty[t]
  <2>1. CASE t = s
    <3>1. Mark(t)' \in Int /\ Mark(t) \in Int /\ avgCost[t] \in Int
      BY <1>1 DEF Mark
    <3> QED
      BY <1>1, <2>1, <3>1
  <2>2. CASE t # s
    <3>1. marks'[t] = marks[t]
      BY <1>1, <2>2
    <3> QED
      BY <1>1, <3>1 DEF Mark
  <2> QED
    BY <2>1, <2>2
<1>3. Unrealized' = Unrealized
  BY <1>1, <1>2 DEF Unrealized
<1> QED
  BY <1>1, <1>3 DEF Equity, Total, MapThenSumSet, MapThenFoldSet

LEMMA BacktestFillStep ==
  ASSUME BacktestInv, EquityKnown',
         NEW s \in Symbols, NEW side \in Sides, NEW q \in Quantities, NEW p \in Prices,
         NEW done \in Stages, BacktestFill(s, side, q, p, done)
  PROVE  BacktestInv'
<1>1. PICK e : e = Equity'
  OBVIOUS
<1>2. /\ measuring' = measuring /\ running' = running /\ running /\ prices' = prices
      /\ cut' = (cut \/ done < AllDone)
      /\ curve' = IF measuring /\ done = AllDone THEN Append(curve, e) ELSE curve
      /\ equity' = IF done = AllDone THEN e ELSE equity
  BY <1>1 DEF BacktestFill, FillCounted, OnFill, OnExposure, HearExposure, Exposure
<1>3. e \in Int
  BY <1>1 DEF EquityKnown
<1>4. curve' \in Seq(Int)
  BY <1>2, <1>3, PointAdded DEF BacktestInv
<1>5. ASSUME ~cut' PROVE equity' = e /\ (curve' # <<>> => curve'[Len(curve')] = e)
  <2>1. done = AllDone
    <3>1. ~(done < AllDone)
      BY <1>2, <1>5
    <3>2. done \in 0..AllDone
      BY DEF Stages, AllDone
    <3> QED
      BY <3>1, <3>2 DEF AllDone
  <2>2. equity' = e /\ curve' = Append(curve, e)
    BY <1>2, <2>1 DEF BacktestInv
  <2> QED
    BY <1>3, <2>2, PointAdded DEF BacktestInv
<1> QED
  BY <1>1, <1>2, <1>4, <1>5 DEF BacktestInv

LEMMA BacktestTickStep ==
  ASSUME BacktestInv, LedgerInv, EquityKnown',
         NEW s \in Symbols, NEW p \in Prices, NEW heard \in BOOLEAN,
         BacktestTick(s, p, heard)
  PROVE  BacktestInv'
<1>1. PICK e : e = Equity'
  OBVIOUS
<1>2. /\ measuring' = measuring /\ running' = running /\ running
      /\ cut' = (cut \/ (s \in known /\ ~heard)) /\ (s \notin known => ~heard)
      /\ curve' = IF measuring /\ heard THEN Append(curve, e) ELSE curve
      /\ equity' = IF heard THEN e ELSE equity
      /\ prices' = [prices EXCEPT ![s] = p]
      /\ OnTick(s, p, heard)
  BY <1>1 DEF BacktestTick, TickCounted, OnTick, OnExposure, HearExposure, HearTick, Exposure
<1>3. e \in Int
  BY <1>1 DEF EquityKnown
<1>4. curve' \in Seq(Int)
  BY <1>2, <1>3, PointAdded DEF BacktestInv
<1>5. prices' \in [Symbols -> Nat]
  BY <1>2, PositionAssumption DEF BacktestInv
<1>6. ASSUME ~cut' PROVE equity' = e /\ (curve' # <<>> => curve'[Len(curve')] = e)
  <2>1. CASE heard
    <3>1. equity' = e /\ curve' = Append(curve, e)
      BY <1>2, <2>1 DEF BacktestInv
    <3> QED
      BY <1>3, <3>1, PointAdded DEF BacktestInv
  <2>2. CASE ~heard
    <3>1. s \in Symbols \ known /\ ~cut /\ equity' = equity /\ curve' = curve
      BY <1>2, <1>6, <2>2
    <3>2. e = Equity
      BY <1>1, <1>2, <3>1, TickOnNothing
    <3> QED
      BY <3>1, <3>2 DEF BacktestInv
  <2> QED
    BY <2>1, <2>2
<1> QED
  BY <1>1, <1>2, <1>4, <1>5, <1>6 DEF BacktestInv

LEMMA BacktestElse ==
  ASSUME BacktestInv,
         BacktestStart \/ BacktestStop \/ UNCHANGED <<vars, metricVars, engineVars>>
  PROVE  BacktestInv'
<1>1. /\ UNCHANGED <<qty, avgCost, realized, marks, cut, curve, equity>>
      /\ measuring' = running'
  BY DEF BacktestInv, BacktestStart, BacktestStop, Start, Stop, StartMeasuring, StopMeasuring,
         vars, ledger, outputs, metricVars, engineVars
<1>2. Unrealized' = Unrealized
  BY <1>1 DEF Unrealized, Mark
<1>3. Equity' = Equity
  BY <1>1, <1>2 DEF Equity, Total, MapThenSumSet, MapThenFoldSet
<1>4. prices' \in [Symbols -> Nat]
  BY DEF BacktestInv, BacktestStart, BacktestStop, engineVars
<1> QED
  BY <1>1, <1>3, <1>4 DEF BacktestInv

LEMMA BacktestStep ==
  BacktestInv /\ LedgerInv /\ EquityKnown'
    /\ [BacktestNext]_<<vars, metricVars, engineVars>> => BacktestInv'
<1> SUFFICES ASSUME BacktestInv, LedgerInv, EquityKnown',
                    [BacktestNext]_<<vars, metricVars, engineVars>>
             PROVE  BacktestInv'
  OBVIOUS
<1>1. ASSUME NEW s \in Symbols, NEW side \in Sides, NEW q \in Quantities, NEW p \in Prices,
             NEW done \in Stages, BacktestFill(s, side, q, p, done)
      PROVE  BacktestInv'
  BY <1>1, BacktestFillStep
<1>2. ASSUME NEW s \in Symbols, NEW p \in Prices, NEW heard \in BOOLEAN,
             BacktestTick(s, p, heard)
      PROVE  BacktestInv'
  BY <1>2, BacktestTickStep
<1> QED
  BY <1>1, <1>2, BacktestElse DEF BacktestNext

(* An order of a known price is sized by what it costs.                    *)
LEMMA SizeAffordable ==
  ASSUME NEW e \in Nat, NEW p \in Nat \ {0}
  PROVE  \/ Affordable(e, p) = 1
         \/ Affordable(e, p) * p * 100 <= e * Percent
<1>1. PICK w, u, d : w = e * Percent /\ u = 100 * p /\ d = w \div u
  OBVIOUS
<1>2. w \in Nat /\ u \in Nat \ {0}
  BY <1>1, SizingAssumption
<1>3. d \in Nat /\ d * u <= w
  BY <1>1, <1>2
<1>4. Affordable(e, p) = IF d < 1 THEN 1 ELSE d
  BY <1>1 DEF Affordable, AtLeastOne
<1>5. d * p * 100 = d * u
  BY <1>1, <1>3
<1> QED
  BY <1>1, <1>3, <1>4, <1>5

LEMMA SizesFollow ==
  ASSUME BacktestInv, EquityLedger, EquityKnown
  PROVE  SizedWithinShare
<1>1. PICK worth : worth = InitialCapital + Total(cash) + Total(Value)
  OBVIOUS
<1>2. SUFFICES ASSUME ~cut, NEW s \in Symbols, NEW method \in Methods, NEW n \in Suggested
               PROVE  LET size == FinalSize(s, method, n) IN
                        IF method = "percent_equity" /\ prices[s] # 0 /\ worth > 0
                        THEN size = 1 \/ size * prices[s] * 100 <= worth * Percent
                        ELSE size = n
  BY <1>1 DEF SizedWithinShare
<1>3. equity = worth /\ worth \in Int /\ prices[s] \in Nat
  BY <1>1, <1>2 DEF BacktestInv, EquityLedger, EquityKnown
<1>4. CASE method = "percent_equity"
  <2>1. FinalSize(s, method, n) =
          IF equity <= 0 \/ prices[s] = 0 THEN n ELSE Affordable(equity, prices[s])
    BY <1>4 DEF FinalSize, ComputeSize, PercentEquitySize
  <2> QED
    BY <1>3, <1>4, <2>1, SizeAffordable
<1>5. CASE method # "percent_equity"
  <2>1. FinalSize(s, method, n) = n
    BY <1>5 DEF FinalSize, ComputeSize, VolatilitySize
  <2> QED
    BY <1>5, <2>1
<1> QED
  BY <1>4, <1>5

LEMMA ReportFollows ==
  ASSUME BacktestInv, EquityLedger
  PROVE  ReportFollowsLedger
<1>1. CurveFollowsLedger
  BY DEF BacktestInv, EquityLedger, CurveFollowsLedger
<1> QED
  BY <1>1, DrawdownRight DEF BacktestInv, ReportFollowsLedger

(* What holds in a backtest whose averages come out even.                  *)
LEMMA BacktestHolds ==
  ASSUME IsFiniteSet(Symbols)
  PROVE  BacktestSpec /\ []AveragesExact => [](EquityLedger /\ EquityKnown /\ BacktestInv)
<1>1. LedgerInv => EquityKnown /\ EquityLedger
  BY EquityIsKnown, LedgerBalances
<1>2. BacktestInit => Init /\ BacktestInv
  BY BacktestBegins
<1> QED
  BY <1>1, <1>2, LedgerStart, LedgerStep, BacktestStepsBook, BacktestStep, PTL DEF BacktestSpec

(* The curve of MetricsEngine ends with what the account is worth, and the *)
(* drawdown of its one pass is the deepest fall of the curve, for any      *)
(* fills and ticks, where the averages come out even.                      *)
THEOREM ReportTrue ==
  ASSUME IsFiniteSet(Symbols)
  PROVE  BacktestSpec /\ []AveragesExact => []ReportFollowsLedger
<1>1. BacktestInv /\ EquityLedger => ReportFollowsLedger
  BY ReportFollows
<1> QED
  BY <1>1, BacktestHolds, PTL

(* An order SizingEngine sizes by a share of the equity that the execution *)
(* engine has heard of costs at most that share of what the account is     *)
(* worth, unless it is one share, where the averages come out even.        *)
THEOREM SharesAffordable ==
  ASSUME IsFiniteSet(Symbols)
  PROVE  BacktestSpec /\ []AveragesExact => []SizedWithinShare
<1>1. BacktestInv /\ EquityLedger /\ EquityKnown => SizedWithinShare
  BY SizesFollow
<1> QED
  BY <1>1, BacktestHolds, PTL
=============================================================================
