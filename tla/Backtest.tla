------------------------------- MODULE Backtest -------------------------------
(***************************************************************************)
(* What a backtest keeps accounts with: position manager, metrics engine   *)
(* and, from src/edrader/execution/engine.py, the price and the equity by  *)
(* which the execution engine has the sizing engine size its orders.  The  *)
(* bus dispatches at once, so a fill or a tick and what all of them make   *)
(* of it are one step.                                                     *)
(***************************************************************************)
EXTENDS BacktestMetrics, SizingEngine

CONSTANTS Methods,   (* sizing methods to explore       *)
          Suggested  (* sizes that a signal may suggest *)

VARIABLES
  equity,  (* ExecutionEngine._equity; it and the position manager begin *)
           (* with the same default                                      *)
  prices   (* ExecutionEngine._prices, 0 for a symbol without an entry   *)

engineVars == <<equity, prices>>

BacktestInit ==
  /\ MetricsInit
  /\ equity = InitialCapital
  /\ prices = [s \in Symbols |-> 0]

(* Mutant: only a rise of the equity is taken.                             *)
HearExposureRise(heard) ==
  equity' = IF heard /\ Exposure'.equity > equity THEN Exposure'.equity ELSE equity

(* _on_exposure_update, when the event with the present exposure got out.  *)
HearExposure(heard) == equity' = IF heard THEN Exposure'.equity ELSE equity

(* _on_tick                                                                *)
HearTick(s, p) == prices' = [prices EXCEPT ![s] = p]

BacktestFill(s, side, q, p, done) ==
  /\ FillCounted(s, side, q, p, done)
  /\ HearExposure(done = AllDone)
  /\ UNCHANGED prices

BacktestTick(s, p, heard) ==
  /\ TickCounted(s, p, heard)
  /\ HearExposure(heard)
  /\ HearTick(s, p)

(* All are stopped and started together, without an await between. The     *)
(* execution engine forgets its prices then, but not the equity.           *)
BacktestStart == Start /\ StartMeasuring /\ UNCHANGED engineVars

BacktestStop ==
  /\ Stop
  /\ StopMeasuring
  /\ prices' = [s \in Symbols |-> 0]
  /\ UNCHANGED equity

BacktestNext ==
  \/ \E s \in Symbols, side \in Sides, q \in Quantities, p \in Prices :
       \E done \in Stages : BacktestFill(s, side, q, p, done)
  \/ \E s \in Symbols, p \in Prices, heard \in BOOLEAN : BacktestTick(s, p, heard)
  \/ BacktestStart \/ BacktestStop

BacktestSpec == BacktestInit /\ [][BacktestNext]_<<vars, metricVars, engineVars>>

-----------------------------------------------------------------------------
(* Properties.                                                             *)

(* Of the report: the curve is the ledger's, its deepest fall the one told. *)
ReportFollowsLedger == CurveFollowsLedger /\ DrawdownIsDeepestFall

(* _on_approved_signal: the size of an order on symbol s.                  *)
FinalSize(s, method, suggested) ==
  ComputeSize(method, suggested, prices[s], equity)

(* An order sized by a share of the equity costs at most that share of     *)
(* what the account is worth at that moment, by its fills and the last     *)
(* marks, unless it is one share - as long as a price is known, the        *)
(* account is not overdrawn, and no handler was timed out. Otherwise the   *)
(* suggested size goes through, whatever it costs.                         *)
SizedWithinShare ==
  LET worth == InitialCapital + Total(cash) + Total(Value) IN
  ~cut => \A s \in Symbols, method \in Methods, n \in Suggested :
    LET size == FinalSize(s, method, n) IN
      IF method = "percent_equity" /\ prices[s] # 0 /\ worth > 0
      THEN size = 1 \/ size * prices[s] * 100 <= worth * Percent
      ELSE size = n
=============================================================================
