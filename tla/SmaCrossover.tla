----------------------------- MODULE SmaCrossover -----------------------------
(***************************************************************************)
(* SmaCrossoverStrategy of src/edrader/strategies/examples/                *)
(* sma_crossover.py. Symbols do not interact, so there is one. Averages    *)
(* are compared, never used, so they are kept multiplied by both window    *)
(* lengths.                                                                *)
(***************************************************************************)
EXTENDS Strategy

CONSTANTS FastWindow, SlowWindow

ASSUME SmaAssumption ==
  /\ FastWindow \in Nat \ {0} /\ SlowWindow \in Nat \ {0}
  /\ FastWindow <= SlowWindow

VARIABLES
  prices,    (* _prices of the symbol, SlowWindow at most                    *)
  prevFast,  (* _prev_fast_sma, scaled                                       *)
  prevSlow   (* _prev_slow_sma, scaled                                       *)

smaVars == <<prices, prevFast, prevSlow>>

SmaInit == prices = <<>> /\ prevFast = 0 /\ prevSlow = 0

SumOfLast(s, n) == Total(SubSeq(s, Len(s) - n + 1, Len(s)))
Fast(s) == SumOfLast(s, FastWindow) * SlowWindow
Slow(s) == SumOfLast(s, SlowWindow) * FastWindow

Crossing(s) ==
  CASE prevFast <= prevSlow /\ Fast(s) > Slow(s) -> "BUY"
    [] prevFast >= prevSlow /\ Fast(s) < Slow(s) -> "SELL"
    [] OTHER -> "none"

-----------------------------------------------------------------------------
NoteAverages == prevFast' = Fast(prices') /\ prevSlow' = Slow(prices')

(* Mutant: the averages are noted before the signal is emitted.            *)
SmaOnBarNotesFirst(p) ==
  /\ Deliver
  /\ prices' = Push(prices, p, SlowWindow)
  /\ \/ /\ Len(prices') < SlowWindow
        /\ Emit("none")
        /\ UNCHANGED <<prevFast, prevSlow>>
     \/ /\ Len(prices') >= SlowWindow
        /\ NoteAverages
        /\ Emit(Crossing(prices')) \/ EmitTimedOut(Crossing(prices'))

(* _on_bar_close: the averages are noted once the signal is emitted, so    *)
(* not when the emit is timed out, whether or not the signal got out.      *)
SmaOnBar(p) ==
  /\ Deliver
  /\ prices' = Push(prices, p, SlowWindow)
  /\ \/ /\ Len(prices') < SlowWindow
        /\ Emit("none")
        /\ UNCHANGED <<prevFast, prevSlow>>
     \/ /\ Len(prices') >= SlowWindow
        /\ \/ Emit(Crossing(prices')) /\ NoteAverages
           \/ EmitTimedOut(Crossing(prices')) /\ UNCHANGED <<prevFast, prevSlow>>

SmaNext ==
  \/ \E p \in Closes : SmaOnBar(p)
  \/ (Start \/ Stop) /\ UNCHANGED smaVars

-----------------------------------------------------------------------------
(* While the fast average noted last is above the slow one the last signal *)
(* is a BUY, while it is below a SELL: a signal lost to a full queue is    *)
(* not noted as given, and the next bar emits it again. Two things lead    *)
(* this astray until the next crossing: a bar that came after stop() notes *)
(* a signal it gives up, and a handler cut off in sync_mode does not note  *)
(* one that got out.                                                       *)
LastSignalShowsTrend ==
  ~astray => /\ prevFast > prevSlow => last = "BUY"
             /\ prevFast < prevSlow => last = "SELL"
=============================================================================
