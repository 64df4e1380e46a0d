---------------------------- MODULE BarAggregator ----------------------------
(***************************************************************************)
(* BarAggregator of src/edrader/broker/market_data.py: it folds the ticks  *)
(* of one symbol into bars.  A bar is closed by the first tick that comes  *)
(* bar_size_seconds or more after the bar's own first one; that tick opens *)
(* the next bar.                                                           *)
(***************************************************************************)
EXTENDS Integers, SequencesExt

(* An aggregator without a bar has no start.  Prices is a history: those   *)
(* of the bar's ticks, in the order they were added.                       *)
NoStart == -1
NewAggregator(barSize) ==
  [size |-> barSize, start |-> NoStart, open |-> 0, high |-> 0, low |-> 0,
   close |-> 0, volume |-> 0, prices |-> <<>>]

Aggregators ==
  [size : Nat, start : Nat \cup {NoStart}, open : Nat, high : Nat, low : Nat,
   close : Nat, volume : Nat, prices : Seq(Nat)]

Opened(agg, tick) ==
  [size |-> agg.size, start |-> tick.time,
   open |-> tick.price, high |-> tick.price, low |-> tick.price,
   close |-> tick.price, volume |-> tick.volume, prices |-> <<tick.price>>]

Higher(x, y) == IF x >= y THEN x ELSE y
Lower(x, y)  == IF x <= y THEN x ELSE y

(* A low of 0 is taken for no low at all.                                  *)
Extended(agg, tick) ==
  [size |-> agg.size, start |-> agg.start, open |-> agg.open,
   high |-> Higher(agg.high, tick.price),
   low |-> IF agg.low # 0 THEN Lower(agg.low, tick.price) ELSE tick.price,
   close |-> tick.price,
   volume |-> agg.volume + tick.volume,
   prices |-> Append(agg.prices, tick.price)]

Closes(agg, tick) == agg.start # NoStart /\ tick.time - agg.start >= agg.size

(* Mutant: the highest price outlives its bar.                             *)
AfterTickKeepsHigh(agg, tick) ==
  IF agg.start = NoStart THEN Opened(agg, tick)
  ELSE IF Closes(agg, tick)
       THEN [Opened(agg, tick) EXCEPT !.high = Higher(agg.high, tick.price)]
  ELSE Extended(agg, tick)

(* add_tick() returns agg as a bar when Closes(agg, tick).                 *)
AfterTick(agg, tick) ==
  IF agg.start = NoStart \/ Closes(agg, tick)
  THEN Opened(agg, tick)
  ELSE Extended(agg, tick)

(* The ticks a low reaches back to: a tick of price 0 (one made of a bid   *)
(* or an ask alone) ends what came before it, and itself when one follows. *)
Reached(prices) ==
  {n \in DOMAIN prices :
     n = Len(prices) \/ \A m \in n..Len(prices) : prices[m] # 0}

(* What the fields of a bar have to be, given its ticks' prices; every     *)
(* tick of the instances has a volume of 1.  Without a price of 0 the low  *)
(* reaches back to the first tick.                                         *)
Summarizes(agg) ==
  agg.start # NoStart =>
    /\ agg.volume = Len(agg.prices)
    /\ agg.open = Head(agg.prices)
    /\ agg.close = Last(agg.prices)
    /\ agg.high \in ToSet(agg.prices) /\ \A p \in ToSet(agg.prices) : p <= agg.high
    /\ \E n \in Reached(agg.prices) : agg.low = agg.prices[n]
    /\ \A n \in Reached(agg.prices) : agg.low <= agg.prices[n]
=============================================================================
