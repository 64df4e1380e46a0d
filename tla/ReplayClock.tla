----------------------------- MODULE ReplayClock -----------------------------
(***************************************************************************)
(* ReplayClock of src/edrader/replay/clock.py: the time a backtest shows,  *)
(* a base time plus what was advanced since, times a speed.                *)
(***************************************************************************)
EXTENDS Naturals

VARIABLES
  base,        (* _base_time         *)
  elapsed,     (* _elapsed           *)
  speed,       (* _speed             *)
  clockPaused  (* _paused            *)

clockVars == <<base, elapsed, speed, clockPaused>>

ClockInit == base = 0 /\ elapsed = 0 /\ speed = 1 /\ clockPaused = FALSE

Now == IF clockPaused THEN base ELSE base + elapsed * speed

(* Nothing while paused.                                                   *)
Advance(seconds) ==
  /\ elapsed' = IF clockPaused THEN elapsed ELSE elapsed + seconds
  /\ UNCHANGED <<base, speed, clockPaused>>

(* Mutant: what was advanced before counts on from the new time.           *)
SetTimeKeepsElapsed(t) ==
  /\ base' = t
  /\ UNCHANGED <<elapsed, speed, clockPaused>>

SetTime(t) ==
  /\ base' = t
  /\ elapsed' = 0
  /\ UNCHANGED <<speed, clockPaused>>

PauseClock == clockPaused' = TRUE /\ UNCHANGED <<base, elapsed, speed>>

(* now() is taken after _paused is cleared.                                *)
ResumeClock ==
  /\ clockPaused' = FALSE
  /\ base' = base + elapsed * speed
  /\ elapsed' = 0
  /\ UNCHANGED speed

(* What was advanced before is scaled by the new speed as well.            *)
SetSpeed(v) == speed' = v /\ UNCHANGED <<base, elapsed, clockPaused>>

ResetClock ==
  /\ elapsed' = 0
  /\ speed' = 1
  /\ clockPaused' = FALSE
  /\ UNCHANGED base
=============================================================================
