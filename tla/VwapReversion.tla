---------------------------- MODULE VwapReversion ----------------------------
(***************************************************************************)
(* VwapReversionStrategy of src/edrader/strategies/examples/               *)
(* vwap_reversion.py for one symbol. The volume-weighted average price is  *)
(* sumPV / sumVol; thresholds are in percent of it, and every comparison   *)
(* is multiplied out.                                                      *)
(***************************************************************************)
EXTENDS Strategy

CONSTANTS Trades, Volumes,    (* prices and volumes of ticks                   *)
          Window,
          EntryPct, ExitPct   (* in percent                                    *)

ASSUME VwapAssumption ==
  /\ Trades \subseteq Nat \ {0} /\ Volumes \subseteq Nat \ {0}
  /\ Window \in Nat \ {0}
  /\ EntryPct \in Nat /\ ExitPct \in 0..EntryPct

VARIABLES
  window,      (* _prices and _volumes of the symbol, Window at most          *)
  sumPV,       (* _cum_pv                                                     *)
  sumVol,      (* _cum_vol                                                    *)
  lastSignal   (* _last_signal, or "none"                                     *)

vwapVars == <<window, sumPV, sumVol, lastSignal>>

VwapInit ==
  /\ window = <<>>
  /\ sumPV = 0 /\ sumVol = 0
  /\ lastSignal = "none"

Abs(n) == IF n < 0 THEN -n ELSE n
Opposite(side) == IF side = "SELL" THEN "BUY" ELSE "SELL"

(* Deviation of price p from the average pv / vol, against a threshold.    *)
Above(p, pv, vol, pct) == (p * vol - pv) * 100 > pv * pct
Below(p, pv, vol, pct) == (p * vol - pv) * 100 < -(pv * pct)
Near(p, pv, vol, pct)  == Abs(p * vol - pv) * 100 < pv * pct

(* Mutant: the pair that falls out is looked up after the new one is in.   *)
FallsOutLate(p, v) ==
  IF Len(window) = Window
  THEN IF Window > 1 THEN window[2] ELSE [price |-> p, volume |-> v]
  ELSE [price |-> 0, volume |-> 0]

(* The pair that falls out of the full windows for a new one.              *)
FallsOut(p, v) ==
  IF Len(window) = Window THEN Head(window) ELSE [price |-> 0, volume |-> 0]

(* _on_tick for a tick with a price and a volume; others are ignored. An   *)
(* entry is beyond the one threshold, an exit within the other, so there   *)
(* is one of them at most; timed out, it leaves _last_signal as it was.    *)
VwapOnTick(p, v) ==
  LET old == FallsOut(p, v)
      pv  == sumPV + p * v - old.price * old.volume
      vol == sumVol + v - old.volume
      entry == CASE Above(p, pv, vol, EntryPct) /\ lastSignal # "SELL" -> "SELL"
                 [] Below(p, pv, vol, EntryPct) /\ lastSignal # "BUY" -> "BUY"
                 [] OTHER -> "none"
      exits == lastSignal # "none" /\ Near(p, pv, vol, ExitPct)
      side  == IF exits THEN Opposite(lastSignal) ELSE entry
      noted == CASE exits -> "none" [] entry # "none" -> entry [] OTHER -> lastSignal
  IN
  /\ Deliver
  /\ window' = Push(window, [price |-> p, volume |-> v], Window)
  /\ sumPV' = pv /\ sumVol' = vol
  /\ \/ Emit(side) /\ lastSignal' = noted
     \/ EmitTimedOut(side) /\ UNCHANGED lastSignal

VwapNext ==
  \/ \E p \in Trades, v \in Volumes : VwapOnTick(p, v)
  \/ (Start \/ Stop) /\ UNCHANGED vwapVars

-----------------------------------------------------------------------------
Values(w) == [i \in DOMAIN w |-> w[i].price * w[i].volume]
Shares(w) == [i \in DOMAIN w |-> w[i].volume]

(* The two running sums are those of the ticks in the window.              *)
RollingSumsExact ==
  /\ sumPV = Total(Values(window))
  /\ sumVol = Total(Shares(window))
  /\ Len(window) <= Window
=============================================================================
