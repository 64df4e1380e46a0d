------------------------------ MODULE OrderBus ------------------------------
(***************************************************************************)
(* The part of the event bus the order path uses.  Every event of that     *)
(* path has the default priority, so asynchronously the bus is one FIFO    *)
(* queue and one event is handled at a time (module EventBus shows this).  *)
(* In sync_mode publish() dispatches at once: the queue becomes the stack  *)
(* of what is still to be dispatched, innermost first, and the code that   *)
(* follows an awaited publish is a frame on that stack.                    *)
(***************************************************************************)
EXTENDS Naturals, Sequences

CONSTANTS Intents,      (* the signals the risk engine may approve              *)
          Symbol,       (* intent -> its symbol                                 *)
          Side,         (* intent -> "BUY" or "SELL"                            *)
          Size,         (* intent -> the order quantity the sizing engine gives *)
          SyncModes,    (* the values sync_mode may be given before trading     *)
          MayOverflow,  (* whether a full queue may time a publishing handler out *)
          None          (* no order                                             *)

ASSUME OrderBusAssumption ==
  /\ DOMAIN Symbol = Intents
  /\ Side \in [Intents -> {"BUY", "SELL"}]
  /\ Size \in [Intents -> Nat]
  /\ SyncModes \subseteq BOOLEAN
  /\ MayOverflow \in BOOLEAN
  /\ None \notin Nat

Symbols == {Symbol[i] : i \in Intents}

(* The key under which ExecutionEngine keeps its pending retries.          *)
Key(i) == <<Symbol[i], Side[i]>>
Keys == {Key(i) : i \in Intents}

VARIABLES
  bus,      (* events published and not dispatched yet                      *)
  syncMode  (* EventBus._sync_mode, left alone while orders are traded      *)

busVars == <<bus, syncMode>>

BusInit == bus = <<>> /\ syncMode \in SyncModes

Event(type, i, o) == [type |-> type, intent |-> i, order |-> o]

Approved(i)     == Event("approved", i, None)
Requested(i)    == Event("requested", i, None)
Submitted(i, o) == Event("submitted", i, o)
Filled(i, o)    == Event("filled", i, o)
Cancelled(i, o) == Event("cancelled", i, o)
Return(i)       == Event("return", i, None)  \* what follows publish(Requested(i))

(* A task other than the dispatcher may publish: in sync_mode the replay   *)
(* loop and every handler run to completion first.                         *)
MayPublish == syncMode => bus = <<>>

(* A task publishes event m.                                               *)
Post(m) == MayPublish /\ bus' = Append(bus, m) /\ UNCHANGED syncMode

(* The handler of event m publishes the events out, in this order.         *)
Handle(m, out) ==
  /\ bus # <<>>
  /\ Head(bus) = m
  /\ bus' = IF syncMode THEN out \o Tail(bus) ELSE Tail(bus) \o out
  /\ UNCHANGED syncMode
=============================================================================
