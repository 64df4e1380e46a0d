-------------------------- MODULE MCReplayOrderFlow --------------------------
(* An instance of ReplayOrderFlow in both modes of the bus: an approved    *)
(* market order, and a limit order to buy and one to sell sent directly,   *)
(* both at the lower of two prices, which makes both due at once.          *)
EXTENDS ReplayOrderFlow, TLC

CONSTANTS market, buyLimit, sellLimit

BothModes == BOOLEAN

MixedIntents == {market, buyLimit, sellLimit}
MixedSymbol == [i \in MixedIntents |-> "AAPL"]
MixedSide == [i \in MixedIntents |-> IF i = sellLimit THEN "SELL" ELSE "BUY"]
MixedSize == [i \in MixedIntents |-> 1]
MixedTypes == [i \in MixedIntents |-> IF i = market THEN "MKT" ELSE "LMT"]
MixedLimit == (market :> None) @@ (buyLimit :> 10) @@ (sellLimit :> 10)
LimitOrders == {buyLimit, sellLimit}
TwoPrices == {10, 11}
=============================================================================
