--------------------------- MODULE SimulatedBroker ---------------------------
(***************************************************************************)
(* SimulatedBroker of src/edrader/replay/simulated_broker.py: it answers   *)
(* order requests from the prices the replay has shown so far, at once or  *)
(* when a later price allows it.  At which price, is left out.             *)
(***************************************************************************)
EXTENDS OrderBus, FiniteSets

CONSTANTS Prices,     (* the prices bars and ticks may show                   *)
          OrderType,  (* intent -> "MKT" or "LMT", the request's order_type   *)
          Limit,      (* intent -> the request's limit_price, or None         *)
          MaxQueued   (* bound: no price comes while more events are queued   *)

ASSUME SimAssumption ==
  /\ Prices \subseteq Nat \ {0}
  /\ OrderType \in [Intents -> {"MKT", "LMT"}]
  /\ DOMAIN Limit = Intents
  /\ MaxQueued \in Nat

VARIABLES
  simRunning,  (* SimulatedBroker._running                                    *)
  prices,      (* symbol -> last price, or None                               *)
  held,        (* order ids in _held_market_orders                            *)
  pending,     (* order ids in _pending_orders, oldest first                  *)
  completed,   (* order ids in _completed_orders                              *)
  simBook,     (* history: order id -> its intent and how often it was filled  *)
               (* (2 for twice or more)                                       *)
  cutOff       (* history: orders due in a price update that was timed out    *)

simVars == <<simRunning, prices, held, pending, completed, simBook, cutOff>>

SimInit ==
  /\ simRunning = TRUE
  /\ prices = [s \in Symbols |-> None]
  /\ held = <<>>
  /\ pending = <<>>
  /\ completed = {}
  /\ simBook = <<>>
  /\ cutOff = {}

-----------------------------------------------------------------------------
Crossed(i, p) == IF Side[i] = "BUY" THEN p <= Limit[i] ELSE p >= Limit[i]

Record(i, n) == [intent |-> i, fills |-> n]
NextId == Len(simBook) + 1

(* _fill_order announces the order and its fill (OrderStatusChanged has no *)
(* subscriber here).                                                       *)
FillEvents(i, o) == <<Submitted(i, o), Filled(i, o)>>

MarketPrice(i) == prices[Symbol[i]]

(* The request can be filled from the last price.                          *)
FillsAtOnce(i) ==
  /\ MarketPrice(i) # None
  /\ \/ OrderType[i] = "MKT"
     \/ OrderType[i] = "LMT" /\ Limit[i] # None /\ Crossed(i, MarketPrice(i))

(* _on_order_request                                                       *)
RequestFilled(i) ==
  /\ simRunning
  /\ FillsAtOnce(i)
  /\ Handle(Requested(i), FillEvents(i, NextId))
  /\ completed' = completed \cup {NextId}
  /\ simBook' = Append(simBook, Record(i, 1))
  /\ UNCHANGED <<simRunning, prices, held, pending, cutOff>>

(* The full queue times the handler out in one of its publishes.           *)
RequestFillTimedOut(i) ==
  /\ MayOverflow /\ ~syncMode
  /\ simRunning
  /\ FillsAtOnce(i)
  /\ \E k \in 0..1 : Handle(Requested(i), SubSeq(FillEvents(i, NextId), 1, k))
  /\ simBook' = Append(simBook, Record(i, 0))
  /\ UNCHANGED <<simRunning, prices, held, pending, completed, cutOff>>

(* No price yet, or a limit not reached: the order waits.  A limit order   *)
(* without a limit goes nowhere.                                           *)
RequestKept(i) ==
  /\ simRunning
  /\ ~FillsAtOnce(i)
  /\ Handle(Requested(i), <<>>)
  /\ held' = IF OrderType[i] = "MKT" THEN Append(held, NextId) ELSE held
  /\ pending' = IF OrderType[i] = "LMT" /\ Limit[i] # None
                THEN Append(pending, NextId) ELSE pending
  /\ simBook' = Append(simBook, Record(i, 0))
  /\ UNCHANGED <<simRunning, prices, completed, cutOff>>

RequestIgnored(i) ==
  /\ ~simRunning
  /\ Handle(Requested(i), <<>>)
  /\ UNCHANGED simVars

-----------------------------------------------------------------------------
(* _on_bar_close and _on_tick -> _try_fill_held_orders                     *)

IntentOf(o) == simBook[o].intent
Elements(q) == {q[n] : n \in DOMAIN q}

(* Those of list q that are in set T, in their order.                      *)
Among(q, T) ==
  LET pick[n \in 0..Len(q)] ==
        IF n = 0 THEN <<>>
        ELSE IF q[n] \in T THEN Append(pick[n - 1], q[n]) ELSE pick[n - 1]
  IN  pick[Len(q)]

HeldDue(s) == Among(held, {o \in Elements(held) : Symbol[IntentOf(o)] = s})

Reached(s, p) ==
  {o \in Elements(pending) : Symbol[IntentOf(o)] = s /\ Crossed(IntentOf(o), p)}

(* Mutant: one pending order is filled per price.                          *)
PendingFirst(s, p) ==
  LET crossed == Among(pending, Reached(s, p))
  IN SubSeq(crossed, 1, IF crossed = <<>> THEN 0 ELSE 1)

PendingDue(s, p) == Among(pending, Reached(s, p))

(* What filling the orders due publishes.                                  *)
FillAll(due) ==
  [n \in 1..2 * Len(due) |->
     LET o == due[(n + 1) \div 2]
     IN FillEvents(IntentOf(o), o)[IF n % 2 = 1 THEN 1 ELSE 2]]

(* Their fills, when the first k of those events got out.                  *)
FilledAmong(due, k) == {due[n] : n \in 1..(k \div 2)}
BookAfter(done) ==
  [o \in DOMAIN simBook |->
     IF o \in done
     THEN Record(IntentOf(o), IF simBook[o].fills = 0 THEN 1 ELSE 2)
     ELSE simBook[o]]

Outside(q, due) == Among(q, Elements(q) \ Elements(due))

(* The events reach the bus; the price event itself came through the same  *)
(* queue, at whatever place.                                               *)
PostAll(out) == MayPublish /\ bus' = bus \o out /\ UNCHANGED syncMode

(* Mutant: held orders are filled and not taken off the list.              *)
PriceUpdateKeepsHeld(s, p) ==
  LET due == HeldDue(s) \o PendingDue(s, p) IN
    /\ simRunning
    /\ PostAll(FillAll(due))
    /\ prices' = [prices EXCEPT ![s] = p]
    /\ completed' = completed \cup FilledAmong(due, 2 * Len(due))
    /\ simBook' = BookAfter(FilledAmong(due, 2 * Len(due)))
    /\ pending' = Outside(pending, PendingDue(s, p))
    /\ UNCHANGED <<held, simRunning, cutOff>>

PriceUpdate(s, p) ==
  LET due == HeldDue(s) \o PendingDue(s, p) IN
    /\ simRunning
    /\ PostAll(FillAll(due))
    /\ prices' = [prices EXCEPT ![s] = p]
    /\ completed' = completed \cup FilledAmong(due, 2 * Len(due))
    /\ simBook' = BookAfter(FilledAmong(due, 2 * Len(due)))
    /\ held' = Outside(held, HeldDue(s))
    /\ pending' = Outside(pending, PendingDue(s, p))
    /\ UNCHANGED <<simRunning, cutOff>>

(* The full queue times the handler out after k of the events: each list   *)
(* loses its filled orders only once all of them have been gone through.   *)
PriceUpdateTimedOut(s, p) ==
  LET due == HeldDue(s) \o PendingDue(s, p) IN
    /\ MayOverflow /\ ~syncMode
    /\ simRunning
    /\ \E k \in 0..(2 * Len(due) - 1) :
         /\ PostAll(SubSeq(FillAll(due), 1, k))
         /\ completed' = completed \cup FilledAmong(due, k)
         /\ simBook' = BookAfter(FilledAmong(due, k))
         /\ held' = IF k >= 2 * Len(HeldDue(s))
                    THEN Outside(held, HeldDue(s)) ELSE held
    /\ prices' = [prices EXCEPT ![s] = p]
    /\ cutOff' = cutOff \cup Elements(due)
    /\ UNCHANGED <<simRunning, pending>>

-----------------------------------------------------------------------------
SimStart ==
  /\ MayPublish
  /\ ~simRunning
  /\ simRunning' = TRUE
  /\ UNCHANGED <<busVars, prices, held, pending, completed, simBook, cutOff>>

SimStop ==
  /\ MayPublish
  /\ simRunning
  /\ simRunning' = FALSE
  /\ prices' = [s \in Symbols |-> None]
  /\ held' = <<>>
  /\ pending' = <<>>
  /\ completed' = {}
  /\ UNCHANGED <<busVars, simBook, cutOff>>

SimHandler(i) ==
  \/ RequestFilled(i) \/ RequestFillTimedOut(i)
  \/ RequestKept(i) \/ RequestIgnored(i)

SimPrice ==
  /\ Len(bus) <= MaxQueued
  /\ \E s \in Symbols, p \in Prices :
       PriceUpdate(s, p) \/ PriceUpdateTimedOut(s, p)

SimControl == SimStart \/ SimStop
=============================================================================
