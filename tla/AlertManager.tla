----------------------------- MODULE AlertManager -----------------------------
(***************************************************************************)
(* AlertManager of src/edrader/monitoring/alerts.py: it turns system       *)
(* events into alerts, at most one of a type per cooldown, and a loop of   *)
(* its own raises one alert when the heartbeats stop.                      *)
(*                                                                         *)
(* An alert is published on the bus the event came from. When that queue   *)
(* is full a handler cannot end before its timeout, since the dispatcher   *)
(* that would make room is the one running it; the loop waits for room.    *)
(***************************************************************************)
EXTENDS Naturals, Sequences

CONSTANTS Types,             (* alert types raised by handlers                *)
          Cooldown,          (* cooldown_seconds                              *)
          HeartbeatTimeout,  (* heartbeat_timeout                             *)
          CheckEvery,        (* half of it                                    *)
          StartTime,         (* what time.monotonic() shows at first          *)
          MaxTime,           (* bound: the last moment                        *)
          MaxStops           (* bound: how often it is stopped                *)

ASSUME AlertAssumption ==
  /\ "heartbeat_missed" \notin Types
  /\ Cooldown \in Nat /\ HeartbeatTimeout \in Nat /\ CheckEvery \in Nat
  /\ StartTime \in Nat \ {0} /\ MaxTime \in Nat /\ MaxStops \in Nat

AllTypes == Types \cup {"heartbeat_missed"}

VARIABLES
  time,           (* time.monotonic()                                         *)
  running,        (* _running                                                 *)
  lastAlertTime,  (* _last_alert_time, 0 for a type without an entry          *)
  lastHeartbeat,  (* _last_heartbeat, 0 before the first                      *)
  alertedMiss,    (* _alerted_no_heartbeat                                    *)
  check,          (* the check loop: off, asleep or publishing                *)
  wakeAt,         (* when its sleep is over                                   *)
  issued,         (* history: type -> the times its alerts got onto the bus   *)
  reports,        (* history: missed heartbeats reported since the last one   *)
  muffled,        (* history: the miss was noted in the cooldown of another   *)
  lost,           (* history: types whose last alert did not get onto the bus *)
  late,           (* history: the loop has waited for room                    *)
  stops           (* history: stops                                           *)

history == <<issued, reports, muffled, lost, late>>
alertVars == <<time, running, lastAlertTime, lastHeartbeat, alertedMiss, check, wakeAt,
               history, stops>>

AlertInit ==
  /\ time = StartTime
  /\ running = FALSE
  /\ lastAlertTime = [type \in AllTypes |-> 0]
  /\ lastHeartbeat = 0
  /\ alertedMiss = FALSE
  /\ check = "off"
  /\ wakeAt = 0
  /\ issued = [type \in AllTypes |-> <<>>]
  /\ reports = 0
  /\ muffled = FALSE
  /\ lost = {}
  /\ late = FALSE
  /\ stops = 0

-----------------------------------------------------------------------------
(* _check_cooldown: the cooldown is taken before the alert is published.   *)
CooldownOver(type) == time - lastAlertTime[type] >= Cooldown

TakeCooldown(type) == lastAlertTime' = [lastAlertTime EXCEPT ![type] = time]

Issue(type) ==
  /\ issued' = [issued EXCEPT ![type] = Append(@, time)]
  /\ lost' = lost \ {type}

Lose(type) == lost' = lost \cup {type} /\ UNCHANGED issued

(* Mutant: a suppressed alert starts the cooldown anew.                    *)
HandleRenews(type) ==
  /\ running
  /\ TakeCooldown(type)
  /\ IF CooldownOver(type) THEN Issue(type) ELSE UNCHANGED <<issued, lost>>
  /\ UNCHANGED <<time, running, lastHeartbeat, alertedMiss, check, wakeAt, reports,
                 muffled, late, stops>>

(* _on_disconnect, _on_reconnect, _on_risk_violation, _on_rejected and     *)
(* _on_halt; without effect in the cooldown. Lost when the queue is full.  *)
Handle(type) ==
  /\ running
  /\ CooldownOver(type)
  /\ TakeCooldown(type)
  /\ Issue(type) \/ Lose(type)
  /\ UNCHANGED <<time, running, lastHeartbeat, alertedMiss, check, wakeAt, reports,
                 muffled, late, stops>>

OnHeartbeat ==
  /\ running
  /\ lastHeartbeat' = time
  /\ alertedMiss' = FALSE
  /\ reports' = 0
  /\ muffled' = FALSE
  /\ UNCHANGED <<time, running, lastAlertTime, check, wakeAt, issued, lost, late,
                 stops>>

Missed ==
  /\ lastHeartbeat # 0
  /\ time - lastHeartbeat > HeartbeatTimeout

Sleep == check' = "asleep" /\ wakeAt' = time + CheckEvery

(* Mutant: the check does not remember that it has raised the alert.       *)
CheckHeartbeatForgets ==
  /\ check = "asleep" /\ time >= wakeAt
  /\ \/ /\ ~Missed \/ ~CooldownOver("heartbeat_missed")
        /\ UNCHANGED <<lastAlertTime, issued, lost, reports>>
     \/ /\ Missed /\ CooldownOver("heartbeat_missed")
        /\ TakeCooldown("heartbeat_missed")
        /\ Issue("heartbeat_missed")
        /\ reports' = reports + 1
  /\ Sleep
  /\ alertedMiss' = (alertedMiss \/ Missed)
  /\ UNCHANGED <<time, running, lastHeartbeat, muffled, late, stops>>

NotesMiss == Missed /\ ~alertedMiss

(* One round of the loop, up to its sleep or to a full queue. The miss is  *)
(* noted as alerted even when the cooldown suppresses the alert.           *)
CheckHeartbeat ==
  /\ check = "asleep" /\ time >= wakeAt
  /\ \/ /\ ~NotesMiss \/ ~CooldownOver("heartbeat_missed")
        /\ Sleep
        /\ muffled' = (muffled \/ NotesMiss)
        /\ UNCHANGED <<lastAlertTime, issued, lost, late, reports>>
     \/ /\ NotesMiss /\ CooldownOver("heartbeat_missed")
        /\ TakeCooldown("heartbeat_missed")
        /\ \/ /\ Issue("heartbeat_missed")
              /\ reports' = reports + 1
              /\ Sleep
              /\ UNCHANGED late
           \/ /\ Lose("heartbeat_missed")
              /\ check' = "publishing"
              /\ late' = TRUE
              /\ UNCHANGED <<reports, wakeAt>>
        /\ UNCHANGED muffled
  /\ alertedMiss' = (alertedMiss \/ Missed)
  /\ UNCHANGED <<time, running, lastHeartbeat, stops>>

(* There is room at last: the alert is published and the loop sleeps.      *)
Room ==
  /\ check = "publishing"
  /\ Issue("heartbeat_missed")
  /\ reports' = reports + 1
  /\ Sleep
  /\ UNCHANGED <<time, running, lastAlertTime, lastHeartbeat, alertedMiss, muffled,
                 late, stops>>

(* Mutant: a restart begins with no cooldown.                              *)
StartAfresh ==
  /\ ~running
  /\ running' = TRUE
  /\ check' = "asleep" /\ wakeAt' = time
  /\ lastAlertTime' = [type \in AllTypes |-> 0]
  /\ UNCHANGED <<time, lastHeartbeat, alertedMiss, history, stops>>

(* start: subscribes the handlers, and the loop checks at once.            *)
Start ==
  /\ ~running
  /\ running' = TRUE
  /\ check' = "asleep" /\ wakeAt' = time
  /\ UNCHANGED <<time, lastAlertTime, lastHeartbeat, alertedMiss, history, stops>>

(* stop: unsubscribes and cancels the loop, also one that waits for room;  *)
(* cooldowns, the last heartbeat and the noted miss stay.                  *)
Stop ==
  /\ running
  /\ stops < MaxStops
  /\ stops' = stops + 1
  /\ running' = FALSE
  /\ check' = "off"
  /\ UNCHANGED <<time, lastAlertTime, lastHeartbeat, alertedMiss, wakeAt, history>>

PassTime ==
  /\ time < MaxTime
  /\ time' = time + 1
  /\ UNCHANGED <<running, lastAlertTime, lastHeartbeat, alertedMiss, check, wakeAt,
                 history, stops>>

AlertNext ==
  \/ \E type \in Types : Handle(type)
  \/ OnHeartbeat \/ CheckHeartbeat \/ Room
  \/ Start \/ Stop \/ PassTime

-----------------------------------------------------------------------------
(* Properties.                                                             *)

(* Two alerts of one type are a cooldown apart, across restarts too. Those *)
(* the loop raises may come out closer together once a full queue has held *)
(* one back, but any three of them still take a cooldown.                  *)
DuplicatesSuppressed ==
  \A type \in AllTypes :
    LET apart == IF type = "heartbeat_missed" /\ late THEN 2 ELSE 1
    IN  \A i \in apart + 1..Len(issued[type]) :
          issued[type][i] - issued[type][i - apart] >= Cooldown

(* An alert is suppressed only as the duplicate of one that was issued     *)
(* less than a cooldown ago - unless that one was lost to a full queue, or *)
(* the clock has not yet counted one cooldown.                             *)
SuppressesOnlyDuplicates ==
  \A type \in AllTypes \ lost :
    \/ CooldownOver(type)
    \/ time < Cooldown
    \/ /\ issued[type] # <<>>
       /\ time - issued[type][Len(issued[type])] < Cooldown

(* So an alert goes out once per cooldown: no duplicates, nothing missing. *)
OneAlertPerCooldown == DuplicatesSuppressed /\ SuppressesOnlyDuplicates

(* An outage is reported once between two heartbeats, and one noted as     *)
(* alerted was reported - unless the cooldown of an earlier outage muffled *)
(* it. (One alert that waited for room may be counted with a later outage.)*)
EachMissReportedOnce ==
  ~late => /\ reports <= 1
           /\ alertedMiss /\ ~muffled => reports = 1
=============================================================================
