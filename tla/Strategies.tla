------------------------------ MODULE Strategies ------------------------------
(***************************************************************************)
(* The example strategies of src/edrader/strategies/examples. They share   *)
(* nothing but the bus and what they have from Strategy, so a behaviour    *)
(* follows one of them, chosen at first.                                   *)
(***************************************************************************)
EXTENDS SmaCrossover, VwapReversion, MeanReversion, RsiMomentum, BollingerBands

VARIABLE strategy  (* the one whose _running, signals and state these are *)

vars == <<strategy, baseVars, smaVars, vwapVars, reversionVars, rsiVars, bandsVars>>

Init ==
  /\ strategy \in {"sma_crossover", "vwap_reversion", "mean_reversion",
                   "rsi_momentum", "bollinger_bands"}
  /\ BaseInit /\ SmaInit /\ VwapInit /\ ReversionInit /\ RsiInit /\ BandsInit

Next ==
  /\ \/ /\ strategy = "sma_crossover" /\ SmaNext
        /\ UNCHANGED <<vwapVars, reversionVars, rsiVars, bandsVars>>
     \/ /\ strategy = "vwap_reversion" /\ VwapNext
        /\ UNCHANGED <<smaVars, reversionVars, rsiVars, bandsVars>>
     \/ /\ strategy = "mean_reversion" /\ ReversionNext
        /\ UNCHANGED <<smaVars, vwapVars, rsiVars, bandsVars>>
     \/ /\ strategy = "rsi_momentum" /\ RsiNext
        /\ UNCHANGED <<smaVars, vwapVars, reversionVars, bandsVars>>
     \/ /\ strategy = "bollinger_bands" /\ BandsNext
        /\ UNCHANGED <<smaVars, vwapVars, reversionVars, rsiVars>>
  /\ UNCHANGED strategy

Spec == Init /\ [][Next]_vars

-----------------------------------------------------------------------------
(* Properties.                                                             *)

(* What a strategy keeps as it goes agrees with the events it was handed,  *)
(* however many have come and gone, whatever emits were timed out or given *)
(* up and however often it was stopped: the two running sums of the VWAP   *)
(* are those of the ticks in its window, and the changes the RSI is made   *)
(* of lead without a gap from the oldest close to the last.                *)
WindowsExact ==
  /\ RollingSumsExact
  /\ past # <<>> => past[Len(past)] - Head(past) = Total(deltas)
=============================================================================
