--------------------------- MODULE BacktestMetrics ---------------------------
(***************************************************************************)
(* MetricsEngine of src/edrader/replay/metrics.py beside the position      *)
(* manager it listens to. In a backtest the bus dispatches at once, so a   *)
(* fill or a tick and what both make of it are one step.  The traded value *)
(* (_on_fill), from which the turnover comes, is left out.                 *)
(***************************************************************************)
EXTENDS PositionManager, SequencesExt

CONSTANT MaxPoints  (* bound: a tick comes while the curve is shorter          *)

ASSUME MetricsAssumption == MaxPoints \in Nat

VARIABLES
  measuring,  (* MetricsEngine._running                                      *)
  curve,      (* _equity_curve, without its times                            *)
  wins,       (* _winning_trades                                             *)
  losses      (* _losing_trades                                              *)

metricVars == <<measuring, curve, wins, losses>>

MetricsInit ==
  /\ Init
  /\ measuring = TRUE
  /\ curve = <<>>
  /\ wins = 0 /\ losses = 0

-----------------------------------------------------------------------------
(* Fractions <<a, b>> with b > 0.                                          *)
Exceeds(x, y) == x[1] * y[2] > y[1] * x[2]

(* Mutant: the peak is not kept across a fall.                             *)
DrawdownStepFromLast(acc, eq) ==
  [peak |-> eq,
   dd   |-> IF acc.peak > 0 /\ Exceeds(<<acc.peak - eq, acc.peak>>, acc.dd)
            THEN <<acc.peak - eq, acc.peak>> ELSE acc.dd]

(* One round of _compute_max_drawdown.                                     *)
DrawdownStep(acc, eq) ==
  LET peak == IF eq > acc.peak THEN eq ELSE acc.peak
  IN  [peak |-> peak,
       dd   |-> IF peak > 0 /\ Exceeds(<<peak - eq, peak>>, acc.dd)
                THEN <<peak - eq, peak>> ELSE acc.dd]

MaxDrawdown ==
  IF Len(curve) < 2 THEN <<0, 1>>
  ELSE FoldLeft(DrawdownStep, [peak |-> curve[1], dd |-> <<0, 1>>], curve).dd

-----------------------------------------------------------------------------
(* _on_close: a win or a loss by the realized profit of the event, which   *)
(* is all the symbol has ever realized.                                    *)
OnClose(s) ==
  /\ wins' = IF realized'[s] > 0 THEN wins + 1 ELSE wins
  /\ losses' = IF realized'[s] < 0 THEN losses + 1 ELSE losses

(* _on_exposure, when the event with the present exposure got out.         *)
OnExposure(heard) ==
  curve' = IF measuring /\ heard THEN Append(curve, Exposure'.equity) ELSE curve

(* A fill: booked and announced as far as done says, and counted.          *)
FillCounted(s, side, q, p, done) ==
  /\ OnFill(s, side, q, p, done)
  /\ OnExposure(done = AllDone)
  /\ IF measuring /\ done >= 1 /\ Announce(s, Signed(side, q)) = -1
     THEN OnClose(s)
     ELSE UNCHANGED <<wins, losses>>
  /\ UNCHANGED measuring

(* Mutant: the curve has a point per fill only.                            *)
TickNotCounted(s, p, heard) ==
  /\ Len(curve) < MaxPoints
  /\ OnTick(s, p, heard)
  /\ UNCHANGED metricVars

(* A tick at a new price, and the point it adds to the curve.              *)
TickCounted(s, p, heard) ==
  /\ Len(curve) < MaxPoints
  /\ OnTick(s, p, heard)
  /\ OnExposure(heard)
  /\ UNCHANGED <<measuring, wins, losses>>

StartMeasuring ==
  /\ ~measuring
  /\ measuring' = TRUE
  /\ UNCHANGED <<curve, wins, losses>>

(* stop: what was collected stays.                                         *)
StopMeasuring ==
  /\ measuring
  /\ measuring' = FALSE
  /\ UNCHANGED <<curve, wins, losses>>

-----------------------------------------------------------------------------
(* Properties.                                                             *)

(* The last point of the equity curve is the initial capital, plus the     *)
(* cash all fills moved, plus the positions at their marks: it misses no   *)
(* fill and no tick on a symbol that was ever traded, as long as no        *)
(* handler is timed out.                                                   *)
CurveFollowsLedger ==
  curve # <<>> /\ ~cut =>
    curve[Len(curve)] = InitialCapital + Total(cash) + Total(Value)

(* The drawdown found in one pass is the deepest fall from any point of    *)
(* the curve to a later one, relative to the higher (while the account is  *)
(* not overdrawn).                                                         *)
DrawdownIsDeepestFall ==
  LET later == {<<curve[ij[1]] - curve[ij[2]], curve[ij[1]]>> :
                  ij \in {k \in (1..Len(curve)) \X (1..Len(curve)) : k[1] <= k[2]}}
  IN  (\A i \in 1..Len(curve) : curve[i] > 0) =>
        /\ \A f \in later : ~Exceeds(f, MaxDrawdown)
        /\ \/ MaxDrawdown = <<0, 1>>
           \/ MaxDrawdown \in later
=============================================================================
