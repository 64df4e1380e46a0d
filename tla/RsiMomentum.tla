----------------------------- MODULE RsiMomentum -----------------------------
(***************************************************************************)
(* RsiMomentumStrategy of src/edrader/strategies/examples/rsi_momentum.py  *)
(* for one symbol: it sells after rises and buys after falls, judged by    *)
(* the changes of the last Changes bars. The index is compared with its    *)
(* thresholds, never used, so the comparisons are multiplied out.          *)
(***************************************************************************)
EXTENDS Strategy

CONSTANTS Changes,              (* window                        *)
          Oversold, Overbought  (* thresholds of the index       *)

ASSUME RsiAssumption ==
  /\ Changes \in Nat \ {0}
  /\ Oversold \in 1..Overbought /\ Overbought \in 1..99

VARIABLES
  deltas,     (* _deltas of the symbol, Changes at most; with prevClose 0,   *)
  prevClose,  (* _prev_close, before the first bar                           *)
  past        (* history: the closes of the last Changes + 1 bars handled    *)

rsiVars == <<deltas, prevClose, past>>

RsiInit == deltas = <<>> /\ prevClose = 0 /\ past = <<>>

(* The index is below, or above, threshold t: average gain over average    *)
(* loss against t / (100 - t). Without a loss in the window the average    *)
(* loss counts as 0.0001, so that any gain is above and none is below.     *)
Gains(s) == SelectSeq(s, LAMBDA d : d > 0)
Losses(s) == SelectSeq(s, LAMBDA d : d < 0)
Count(s) == IF s = <<>> THEN 1 ELSE Len(s)
Balance(s, t) ==
  Total(Gains(s)) * Count(Losses(s)) * (100 - t) + Total(Losses(s)) * Count(Gains(s)) * t
RsiBelow(s, t) == IF Losses(s) = <<>> THEN Gains(s) = <<>> ELSE Balance(s, t) < 0
RsiAbove(s, t) == IF Losses(s) = <<>> THEN Gains(s) # <<>> ELSE Balance(s, t) > 0

RsiSignal(s) ==
  CASE Len(s) = Changes /\ RsiBelow(s, Oversold) -> "BUY"
    [] Len(s) = Changes /\ RsiAbove(s, Overbought) -> "SELL"
    [] OTHER -> "none"

(* Mutant: the close is noted after the signal is emitted.                 *)
RsiOnBarNotesLast(p) ==
  /\ Deliver
  /\ deltas' = IF prevClose = 0 THEN deltas ELSE Push(deltas, p - prevClose, Changes)
  /\ past' = Push(past, p, Changes + 1)
  /\ \/ Emit(RsiSignal(deltas')) /\ prevClose' = p
     \/ EmitTimedOut(RsiSignal(deltas')) /\ UNCHANGED prevClose

(* _on_bar_close; an emit that is timed out has nothing to undo.           *)
RsiOnBar(p) ==
  /\ Deliver
  /\ deltas' = IF prevClose = 0 THEN deltas ELSE Push(deltas, p - prevClose, Changes)
  /\ prevClose' = p
  /\ past' = Push(past, p, Changes + 1)
  /\ Emit(RsiSignal(deltas')) \/ EmitTimedOut(RsiSignal(deltas'))

RsiNext ==
  \/ \E p \in Closes : RsiOnBar(p)
  \/ (Start \/ Stop) /\ UNCHANGED rsiVars
=============================================================================
