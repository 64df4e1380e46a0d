----------------------------- MODULE SizingEngine -----------------------------
(***************************************************************************)
(* SizingEngine of src/edrader/execution/sizing.py: the size of an order   *)
(* from the one that was suggested. A price, equity or range of 0 stands   *)
(* for one that is not known; nothing in the program calls update_atr, so  *)
(* the range of a symbol never is.                                         *)
(***************************************************************************)
EXTENDS Integers

CONSTANT Percent  (* percent_equity_fraction, in percent *)

ASSUME SizingAssumption == Percent \in Nat

AtLeastOne(n) == IF n < 1 THEN 1 ELSE n
Affordable(equity, unit) == AtLeastOne((equity * Percent) \div (100 * unit))

(* Mutant: a part of a share counts as one.                                *)
PercentEquityRoundedUp(suggested, price, equity) ==
  IF equity <= 0 \/ price = 0 THEN suggested
  ELSE (equity * Percent) \div (100 * price) + 1

PercentEquitySize(suggested, price, equity) ==
  IF equity <= 0 \/ price = 0 THEN suggested ELSE Affordable(equity, price)

VolatilitySize(suggested, price, range, equity) ==
  CASE price = 0 \/ range = 0 -> suggested
    [] price # 0 /\ range # 0 /\ equity > 0 -> Affordable(equity, range)
    [] OTHER -> AtLeastOne((suggested * price) \div range)

ComputeSize(method, suggested, price, equity) ==
  CASE method = "percent_equity" -> PercentEquitySize(suggested, price, equity)
    [] method = "volatility" -> VolatilitySize(suggested, price, 0, equity)
    [] OTHER -> suggested
=============================================================================
