------------------------------ MODULE RiskEngine ------------------------------
(***************************************************************************)
(* RiskEngine of src/edrader/risk/engine.py: it approves or rejects every  *)
(* signal from what the position manager's memory says at that moment, and *)
(* its kill switch rejects all of them.                                    *)
(***************************************************************************)
EXTENDS PositionManager, Sequences

CONSTANTS Signals,             (* the signals strategies may generate      *)
          Symbol, Side, Size,  (* signal -> what it asks for               *)
          MaxPositionSize, MaxDailyLoss, MaxLeverage, MaxConcurrent

ASSUME RiskAssumption ==
  /\ Symbol \in [Signals -> Symbols]
  /\ Side \in [Signals -> {"BUY", "SELL"}]
  /\ Size \in [Signals -> Nat \ {0}]
  /\ MaxPositionSize \in Nat
  /\ MaxDailyLoss \in Nat
  /\ MaxLeverage \in Nat
  /\ MaxConcurrent \in Nat

VARIABLES
  riskRunning,  (* RiskEngine._running                                        *)
  killSwitch,   (* RiskEngine._kill_switch                                    *)
  tickAge       (* symbol -> age of _last_tick_time: "none", "recent", "stale" *)

riskVars == <<riskRunning, killSwitch, tickAge>>

RiskInit ==
  /\ riskRunning = TRUE
  /\ killSwitch = FALSE
  /\ tickAge = [s \in Symbols |-> "none"]

-----------------------------------------------------------------------------
(* The checks.  Each says whether it turns signal i down.                  *)

Holding(s) == s \in known /\ qty[s] # 0
OpenPositions == {s \in Symbols : Holding(s)}

TooLarge(i) == Size[i] > MaxPositionSize

(* Any signal against the position counts as reducing it, whatever its     *)
(* size; a realized profit counts like a loss.                             *)
Reducing(i) ==
  \/ qty[Symbol[i]] > 0 /\ Side[i] = "SELL"
  \/ qty[Symbol[i]] < 0 /\ Side[i] = "BUY"

(* Mutant: the limit itself is still allowed.                              *)
DailyLossAllowsLimit(i) ==
  ~Reducing(i) /\ Abs(Total(realized)) > MaxDailyLoss

DailyLossReached(i) ==
  ~Reducing(i) /\ Abs(Total(realized)) >= MaxDailyLoss

(* Without equity there is no leverage to speak of, but no approval either. *)
OverLeveraged ==
  Equity <= 0 \/ Exposure.gross >= MaxLeverage * Equity

(* Mutant: the count is compared before the position to come.              *)
TooManyOpenByOne(i) ==
  ~Holding(Symbol[i]) /\ Cardinality(OpenPositions) > MaxConcurrent

(* A symbol that is open already does not add to the count.                *)
TooManyOpen(i) ==
  ~Holding(Symbol[i]) /\ Cardinality(OpenPositions) >= MaxConcurrent

(* A symbol without any tick is not stale.                                 *)
Stale(i) == tickAge[Symbol[i]] = "stale"

Fails(i) ==
  \/ TooLarge(i) \/ DailyLossReached(i) \/ OverLeveraged
  \/ TooManyOpen(i) \/ Stale(i)

-----------------------------------------------------------------------------
(* The handlers: Approves and Rejects say what becomes of signal i.        *)

(* Mutant: the kill switch is looked at when orders are sized only.        *)
ApprovesHalted(i) == riskRunning /\ ~Fails(i)

Approves(i) == riskRunning /\ ~killSwitch /\ ~Fails(i)
Rejects(i)  == riskRunning /\ (killSwitch \/ Fails(i))

(* _on_tick                                                                *)
NoteTick(s) ==
  /\ tickAge' = IF riskRunning THEN [tickAge EXCEPT ![s] = "recent"] ELSE tickAge
  /\ UNCHANGED <<riskRunning, killSwitch>>

(* stale_market_seconds pass without a tick of symbol s.                   *)
GoesStale(s) ==
  /\ tickAge[s] = "recent"
  /\ tickAge' = [tickAge EXCEPT ![s] = "stale"]
  /\ UNCHANGED <<riskRunning, killSwitch>>

(* _on_disconnect trips the switch; no reconnect resets it.                *)
NoteDisconnect ==
  /\ killSwitch' = (killSwitch \/ riskRunning)
  /\ UNCHANGED <<riskRunning, tickAge>>

ActivateKillSwitch ==
  /\ ~killSwitch
  /\ killSwitch' = TRUE
  /\ UNCHANGED <<riskRunning, tickAge>>

DeactivateKillSwitch ==
  /\ killSwitch
  /\ killSwitch' = FALSE
  /\ UNCHANGED <<riskRunning, tickAge>>

RiskStart ==
  /\ ~riskRunning
  /\ riskRunning' = TRUE
  /\ UNCHANGED <<killSwitch, tickAge>>

(* stop() keeps the switch and the ages for the next start().              *)
RiskStop ==
  /\ riskRunning
  /\ riskRunning' = FALSE
  /\ UNCHANGED <<killSwitch, tickAge>>
=============================================================================
