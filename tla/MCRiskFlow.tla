----------------------------- MODULE MCRiskFlow -----------------------------
(* An instance of RiskFlow: a buy and a sale of one share on one symbol and *)
(* a buy on another, at two prices that are exact in the unit of prices.    *)
EXTENDS RiskFlow

CONSTANTS AAPL, SPY, buy, sell, other

Unit == 60
TwoPrices == {Unit, 3 * Unit}
OneTickPrice == {3 * Unit}
LossLimit == 2 * Unit
Capital == 4 * Unit

MCSignals == {buy, sell, other}
MCSymbol == [i \in MCSignals |-> IF i = other THEN SPY ELSE AAPL]
MCSide == [i \in MCSignals |-> IF i = sell THEN "SELL" ELSE "BUY"]
MCSize == [i \in MCSignals |-> 1]
=============================================================================
