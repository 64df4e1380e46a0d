---------------------------- MODULE BollingerBands ----------------------------
(***************************************************************************)
(* BollingerBandsStrategy of src/edrader/strategies/examples/              *)
(* bollinger_bands.py for one symbol. The bands are Deviations sample      *)
(* standard deviations from the mean; squared and multiplied out, the      *)
(* comparisons need neither roots nor fractions.                           *)
(***************************************************************************)
EXTENDS Strategy

CONSTANTS Bars,       (* window  *)
          Deviations  (* num_std *)

ASSUME BandsAssumption ==
  /\ Bars \in Nat \ {0, 1} /\ Deviations \in Nat \ {0}

VARIABLES
  closes  (* _prices of the symbol, Bars at most *)

bandsVars == <<closes>>

BandsInit == closes = <<>>

SumSquares(s) == Total([i \in DOMAIN s |-> s[i] * s[i]])

(* Bars^2 times the squared deviations from the mean, summed.              *)
Spread(s) == Bars * SumSquares(s) - Total(s) * Total(s)
FromMean(s) == Bars * s[Len(s)] - Total(s)
Outside(s) ==
  (Bars - 1) * FromMean(s) * FromMean(s) >= Deviations * Deviations * Bars * Spread(s)

(* A window of equal prices has no bands.                                  *)
BandsSignal(s) ==
  CASE Len(s) = Bars /\ Spread(s) > 0 /\ Outside(s) /\ FromMean(s) < 0 -> "BUY"
    [] Len(s) = Bars /\ Spread(s) > 0 /\ Outside(s) /\ FromMean(s) > 0 -> "SELL"
    [] OTHER -> "none"

(* _on_bar_close                                                           *)
BandsOnBar(p) ==
  /\ Deliver
  /\ closes' = Push(closes, p, Bars)
  /\ Emit(BandsSignal(closes')) \/ EmitTimedOut(BandsSignal(closes'))

BandsNext ==
  \/ \E p \in Closes : BandsOnBar(p)
  \/ (Start \/ Stop) /\ UNCHANGED bandsVars
=============================================================================
