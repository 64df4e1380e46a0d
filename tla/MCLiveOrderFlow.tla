--------------------------- MODULE MCLiveOrderFlow ---------------------------
(* Instances of LiveOrderFlow.  Pair: two signals on one symbol, hence one  *)
(* throttle, with opposite sides and so with keys of their own; the first   *)
(* order may fill in two parts.  Same: two signals that share their key.    *)
EXTENDS LiveOrderFlow, TLC

CONSTANTS buy, sell, again

Asynchronous == {FALSE}

FirstOrder == {1}
EveryOrder == 1..4

PairIntents == {buy, sell}
PairSymbol == [i \in PairIntents |-> "AAPL"]
PairSide == (buy :> "BUY") @@ (sell :> "SELL")
PairSize == (buy :> 2) @@ (sell :> 1)

SameIntents == {buy, again}
SameSymbol == [i \in SameIntents |-> "AAPL"]
SameSide == [i \in SameIntents |-> "BUY"]
SameSize == [i \in SameIntents |-> 1]
=============================================================================
