------------------------------- MODULE Strategy -------------------------------
(***************************************************************************)
(* What every strategy has from Strategy of src/edrader/strategies/base.py *)
(* for one symbol: its life cycle, the events it is handed and the signals *)
(* it emits. The bus copies its list of subscribers for the event it       *)
(* dispatches, so a strategy may be handed one event after stop().         *)
(***************************************************************************)
EXTENDS Integers, Sequences

CONSTANTS Closes,     (* closing prices of bars *)
          MaxEvents,  (* bound: events          *)
          MaxStops    (* bound: stops           *)

ASSUME StrategyAssumption ==
  Closes \subseteq Nat \ {0} /\ MaxEvents \in Nat /\ MaxStops \in Nat

VARIABLES
  running,  (* _running                                                      *)
  owed,     (* an event in dispatch since before the last stop()             *)
  last,     (* history: side of the last signal that got onto the bus        *)
  astray,   (* history: a signal was noted but given up, or got out but was  *)
            (* not noted, and none since did both                            *)
  events,   (* history: events                                               *)
  stops     (* history: stops                                                *)

baseVars == <<running, owed, last, astray, events, stops>>

BaseInit ==
  /\ running = FALSE
  /\ owed = FALSE
  /\ last = "none" /\ astray = FALSE
  /\ events = 0 /\ stops = 0

(* A deque with maxlen n.                                                  *)
Push(s, x, n) == Append(IF Len(s) < n THEN s ELSE Tail(s), x)

(* sum(): the last of the partial sums.                                    *)
Total(s) ==
  LET sum[n \in 0..Len(s)] == IF n = 0 THEN 0 ELSE sum[n - 1] + s[n]
  IN  sum[Len(s)]

-----------------------------------------------------------------------------
(* An event reaches the handler: through its subscription, or late.        *)
Deliver ==
  /\ running \/ owed
  /\ owed' = FALSE
  /\ events < MaxEvents
  /\ events' = events + 1
  /\ UNCHANGED <<running, stops>>

(* emit_signal, or for "none" no call of it; nothing once stopped.         *)
Emit(side) ==
  /\ last' = IF running /\ side # "none" THEN side ELSE last
  /\ astray' = IF side = "none" THEN astray ELSE ~running

(* The handler ends in emit_signal, by its timeout: at a full queue the    *)
(* signal does not get out; in sync_mode it has, to some of its            *)
(* subscribers, and it is what they do with it that takes the time.        *)
EmitLost(side) ==
  /\ running /\ side # "none"
  /\ UNCHANGED <<last, astray>>

EmitCutOff(side) ==
  /\ running /\ side # "none"
  /\ last' = side
  /\ astray' = TRUE

EmitTimedOut(side) == EmitLost(side) \/ EmitCutOff(side)

Start ==
  /\ ~running
  /\ running' = TRUE
  /\ UNCHANGED <<owed, last, astray, events, stops>>

(* stop() unsubscribes; whatever a strategy has noted stays for its next   *)
(* start().                                                                *)
Stop ==
  /\ running
  /\ stops < MaxStops
  /\ stops' = stops + 1
  /\ running' = FALSE
  /\ owed' \in BOOLEAN
  /\ UNCHANGED <<last, astray, events>>
=============================================================================
