--------------------------- MODULE PositionManager ---------------------------
(***************************************************************************)
(* PositionManager of src/edrader/portfolio/position.py: it books every    *)
(* fill on the position of its symbol, marks positions to the last tick,   *)
(* writes the position to the database and tells the bus.                  *)
(*                                                                         *)
(* The dispatcher runs its handlers one at a time, and no handler awaits   *)
(* anything but publish(), so each is one step.  Money is in fixed point:  *)
(* prices are multiples of the smallest unit an average cost can need.     *)
(***************************************************************************)
EXTENDS Integers, FiniteSetsExt

CONSTANTS Symbols,
          Prices,          (* fill and tick prices                              *)
          Quantities,      (* fill quantities                                   *)
          Sides,           (* sides of a fill: "BUY", "SELL", perhaps others    *)
          InitialCapital,
          MayOverflow,     (* publishes may outlast the handler's timeout       *)
          RowsMayFail,     (* the database may refuse a row                     *)
          MaxFills,        (* bound: how many fills the manager receives        *)
          MaxStops         (* bound: how often it is stopped                    *)

ASSUME PositionAssumption ==
  /\ Prices \subseteq Nat \ {0}
  /\ Quantities \subseteq Nat \ {0}
  /\ InitialCapital \in Int
  /\ MayOverflow \in BOOLEAN
  /\ RowsMayFail \in BOOLEAN
  /\ MaxFills \in Nat /\ MaxStops \in Nat

VARIABLES
  running,    (* PositionManager._running                                    *)
  known,      (* the symbols that are keys of _positions                     *)
  qty,        (* symbol -> quantity of its Position, 0 if it has none        *)
  avgCost,    (* symbol -> avg_cost                                          *)
  realized,   (* symbol -> realized_pnl                                      *)
  marks,      (* symbol -> _market_prices, 0 if it has none                  *)
  rows,       (* symbol -> quantity and average cost in table positions      *)
  balance,    (* symbol -> PositionOpened minus PositionClosed events        *)
  fills,      (* history: fills received while running                       *)
  stops,      (* history: stop() calls                                       *)
  cash,       (* history: symbol -> what its sales brought minus its buys    *)
  unsaved,    (* history: symbols whose last fill was not written            *)
  cut         (* history: a handler was timed out before its last publish    *)

ledger  == <<known, qty, avgCost, realized, cash>>
outputs == <<rows, balance, unsaved, cut>>
vars == <<running, ledger, marks, outputs, fills, stops>>

Init ==
  /\ running = TRUE
  /\ known = {}
  /\ qty = [s \in Symbols |-> 0]
  /\ avgCost = [s \in Symbols |-> 0]
  /\ realized = [s \in Symbols |-> 0]
  /\ marks = [s \in Symbols |-> 0]
  /\ rows = [s \in Symbols |-> [qty |-> 0, avgCost |-> 0]]
  /\ balance = [s \in Symbols |-> 0]
  /\ fills = 0
  /\ stops = 0
  /\ cash = [s \in Symbols |-> 0]
  /\ unsaved = {}
  /\ cut = FALSE

-----------------------------------------------------------------------------
Abs(n) == IF n < 0 THEN -n ELSE n
Sign(n) == IF n < 0 THEN -1 ELSE 1
Least(m, n) == IF m < n THEN m ELSE n
Total(f) == MapThenSumSet(LAMBDA s : f[s], Symbols)

(* What a symbol is valued at, what the positions are worth, and what an   *)
(* ExposureUpdated event says of them.                                     *)
Mark(s) == IF marks[s] # 0 THEN marks[s] ELSE avgCost[s]
Value == [s \in Symbols |-> Mark(s) * qty[s]]
Unrealized == [s \in Symbols |-> (Mark(s) - avgCost[s]) * qty[s]]
Equity == InitialCapital + Total(realized) + Total(Unrealized)
Exposure ==
  [equity |-> Equity,
   net    |-> Total(Value),
   gross  |-> Total([s \in Symbols |-> Abs(Value[s])])]

-----------------------------------------------------------------------------
(* _update_position for a fill of the signed quantity n, bought if n > 0.  *)
(* A fill on the side of the position, or without one, is averaged in; one *)
(* against it realizes what it covers, and the rest opens the other side.  *)

Signed(side, q) ==
  CASE side = "BUY" -> q [] side = "SELL" -> -q [] OTHER -> 0

Adds(s, n) == qty[s] = 0 \/ (qty[s] > 0) = (n > 0)

Covered(s, n) == IF Adds(s, n) THEN 0 ELSE Least(Abs(qty[s]), Abs(n))
Left(s, n) == Abs(n) - Covered(s, n)

NewQty(s, n) ==
  IF Adds(s, n) THEN qty[s] + n
  ELSE IF Left(s, n) > 0 THEN Sign(n) * Left(s, n)
  ELSE qty[s] + Sign(n) * Covered(s, n)

NewAvgCost(s, n, p) ==
  IF Adds(s, n)
  THEN (avgCost[s] * Abs(qty[s]) + p * Abs(n)) \div Abs(NewQty(s, n))
  ELSE IF Left(s, n) > 0 THEN p
  ELSE IF NewQty(s, n) = 0 THEN 0
  ELSE avgCost[s]

(* Mutant: covering a short position realizes with a long one's sign.      *)
RealizedAsLong(s, n, p) == (p - avgCost[s]) * Covered(s, n)

RealizedBy(s, n, p) ==
  (IF qty[s] > 0 THEN p - avgCost[s] ELSE avgCost[s] - p) * Covered(s, n)

UpdatePosition(s, n, p) ==
  /\ known' = known \cup {s}
  /\ cash' = [cash EXCEPT ![s] = @ - n * p]
  /\ IF n = 0
     THEN UNCHANGED <<qty, avgCost, realized>>
     ELSE /\ qty' = [qty EXCEPT ![s] = NewQty(s, n)]
          /\ avgCost' = [avgCost EXCEPT ![s] = NewAvgCost(s, n, p)]
          /\ realized' = [realized EXCEPT ![s] = @ + RealizedBy(s, n, p)]

(* Mutant: whatever side of zero the position ends on, it has opened.      *)
AnnounceReversal(s, n) ==
  LET after == IF n = 0 THEN qty[s] ELSE NewQty(s, n) IN
    CASE after # 0 /\ (qty[s] > 0) # (after > 0) -> 1
      [] qty[s] # 0 /\ after = 0 -> -1
      [] OTHER -> 0

(* PositionOpened and PositionClosed: only from and to no position at all. *)
Announce(s, n) ==
  LET after == IF n = 0 THEN qty[s] ELSE NewQty(s, n) IN
    CASE qty[s] = 0 /\ after # 0 -> 1
      [] qty[s] # 0 /\ after = 0 -> -1
      [] OTHER -> 0

(* Mutant: a row that exists is left as it is.                             *)
PersistOnce(s) ==
  \/ /\ rows' = IF rows[s].avgCost # 0 THEN rows
                ELSE [rows EXCEPT ![s] = [qty |-> qty'[s], avgCost |-> avgCost'[s]]]
     /\ unsaved' = unsaved \ {s}
  \/ /\ RowsMayFail
     /\ unsaved' = unsaved \cup {s}
     /\ UNCHANGED rows

(* _persist_position writes the position; a failure is only logged.        *)
Persist(s) ==
  \/ /\ rows' = [rows EXCEPT ![s] = [qty |-> qty'[s], avgCost |-> avgCost'[s]]]
     /\ unsaved' = unsaved \ {s}
  \/ /\ RowsMayFail
     /\ unsaved' = unsaved \cup {s}
     /\ UNCHANGED rows

-----------------------------------------------------------------------------
(* process_fill up to its end.  Its timeout may end it in any of its       *)
(* publishes: done counts the stages it got through, which are telling the *)
(* opening or closing, telling the profit and writing the row, telling the *)
(* exposure.  Fills that come while it is stopped change nothing.          *)
AllDone == 3
Stages == IF MayOverflow THEN 0..AllDone ELSE {AllDone}

OnFill(s, side, q, p, done) ==
  /\ running
  /\ fills < MaxFills
  /\ fills' = fills + 1
  /\ UpdatePosition(s, Signed(side, q), p)
  /\ UNCHANGED <<running, marks, stops>>
  /\ balance' = IF done >= 1
                THEN [balance EXCEPT ![s] = @ + Announce(s, Signed(side, q))]
                ELSE balance
  /\ IF done >= 2
     THEN Persist(s)
     ELSE unsaved' = unsaved \cup {s} /\ UNCHANGED rows
  /\ cut' = (cut \/ done < AllDone)

(* _on_tick, for a tick that has a price, of a symbol with a position or   *)
(* without; heard says that the exposure event got out.                    *)
OnTick(s, p, heard) ==
  /\ running
  /\ s \in known => heard \/ MayOverflow
  /\ s \notin known => ~heard
  /\ marks' = [marks EXCEPT ![s] = p]
  /\ UNCHANGED <<running, ledger, rows, balance, unsaved, fills, stops>>
  /\ cut' = (cut \/ (s \in known /\ ~heard))

Start ==
  /\ ~running
  /\ running' = TRUE
  /\ UNCHANGED <<ledger, marks, outputs, fills, stops>>

(* stop() keeps positions and prices for the next start().                 *)
Stop ==
  /\ running
  /\ stops < MaxStops
  /\ running' = FALSE
  /\ stops' = stops + 1
  /\ UNCHANGED <<ledger, marks, outputs, fills>>

Next ==
  \/ \E s \in Symbols, side \in Sides, q \in Quantities, p \in Prices :
       \E done \in Stages : OnFill(s, side, q, p, done)
  \/ \E s \in Symbols, p \in Prices, heard \in BOOLEAN : OnTick(s, p, heard)
  \/ Start \/ Stop

Spec == Init /\ [][Next]_vars

-----------------------------------------------------------------------------
(* Properties.                                                             *)

(* No money appears or disappears: the equity the manager computes from    *)
(* average costs, realized and unrealized profits is the initial capital,  *)
(* plus the cash all fills moved, plus the positions at their marks.       *)
EquityLedger == Equity = InitialCapital + Total(cash) + Total(Value)

(* When no publish is lost, PositionOpened and PositionClosed alternate,   *)
(* and the last one says whether there is a position (a reversal counts as *)
(* staying open).                                                          *)
OpenedClosedMatch ==
  ~cut => \A s \in Symbols : balance[s] = IF qty[s] = 0 THEN 0 ELSE 1

(* The row of a symbol in the database is its position, unless writing     *)
(* that symbol's last fill failed or was never reached; any later write    *)
(* makes up for it.                                                        *)
RowsUnlessUnsaved ==
  \A s \in Symbols \ unsaved :
    rows[s] = [qty |-> qty[s], avgCost |-> avgCost[s]]
=============================================================================
