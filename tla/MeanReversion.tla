---------------------------- MODULE MeanReversion ----------------------------
(***************************************************************************)
(* MeanReversionStrategy of src/edrader/strategies/examples/               *)
(* mean_reversion.py for one symbol. A bar's z-score matters only by the   *)
(* zone it falls into.                                                     *)
(***************************************************************************)
EXTENDS Strategy

(* z <= -entry_z, below -exit_z, within exit_z, above exit_z, z >= entry_z *)
Zones == {"very low", "low", "within", "high", "very high"}

VARIABLES
  positionSide,  (* _position_side: "LONG", "SHORT" or "none"              *)
  net,           (* history: BUY signals minus SELL signals on the bus     *)
  slips          (* history: signals noted but given up, or got out but    *)
                 (* not noted                                              *)

reversionVars == <<positionSide, net, slips>>

ReversionInit == positionSide = "none" /\ net = 0 /\ slips = 0

-----------------------------------------------------------------------------
(* What _on_bar_close emits for a bar in zone z, default_size shares of it *)
(* or nothing, and the side it goes on with.                               *)
Reaction(z) ==
  CASE positionSide = "none" /\ z = "very low" -> [emits |-> "BUY", to |-> "LONG"]
    [] positionSide = "none" /\ z = "very high" -> [emits |-> "SELL", to |-> "SHORT"]
    [] positionSide = "LONG" /\ z \in {"within", "high", "very high"}
         -> [emits |-> "SELL", to |-> "none"]
    [] positionSide = "SHORT" /\ z \in {"within", "low", "very low"}
         -> [emits |-> "BUY", to |-> "none"]
    [] OTHER -> [emits |-> "none", to |-> positionSide]

Signed(side) == CASE side = "BUY" -> 1 [] side = "SELL" -> -1 [] OTHER -> 0

EmitCounted(side) ==
  /\ Emit(side)
  /\ net' = IF running THEN net + Signed(side) ELSE net
  /\ slips' = IF running \/ side = "none" THEN slips ELSE slips + 1

CutOffCounted(side) ==
  /\ EmitCutOff(side)
  /\ net' = net + Signed(side)
  /\ slips' = slips + 1

(* Mutant: the side is noted before the signal is emitted.                 *)
ReversionOnBarNotesFirst(z) ==
  LET r == Reaction(z) IN
  /\ Deliver
  /\ positionSide' = r.to
  /\ \/ EmitCounted(r.emits) \/ CutOffCounted(r.emits)
     \/ EmitLost(r.emits) /\ UNCHANGED <<net, slips>>

(* A bar, once there is a window full of them. An emit that is timed out   *)
(* leaves the side as it was.                                              *)
ReversionOnBar(z) ==
  LET r == Reaction(z) IN
  /\ Deliver
  /\ \/ EmitCounted(r.emits) /\ positionSide' = r.to
     \/ EmitLost(r.emits) /\ UNCHANGED reversionVars
     \/ CutOffCounted(r.emits) /\ UNCHANGED positionSide

ReversionNext ==
  \/ \E z \in Zones : ReversionOnBar(z)
  \/ (Start \/ Stop) /\ UNCHANGED reversionVars

-----------------------------------------------------------------------------
Holds(s) == CASE s = "LONG" -> 1 [] s = "SHORT" -> -1 [] OTHER -> 0

(* The side is the sum of the signals that got onto the bus, through any   *)
(* stops and emits lost to a full queue: the strategy never asks for more  *)
(* than default_size shares in either direction. It is one signal off for  *)
(* each time that a bar after stop() gave up a signal and noted it, or the *)
(* handler was cut off in sync_mode between a signal and noting it: then   *)
(* the next bar asks once more.                                            *)
SideFollowsSignals == net - Holds(positionSide) \in -slips..slips
=============================================================================
