----------------------------- MODULE ReplayEngine -----------------------------
(***************************************************************************)
(* ReplayEngine of src/edrader/replay/engine.py: it plays loaded events    *)
(* onto the bus in the order of their times, in a loop or one by one, and  *)
(* keeps the clock at the time of the event being played.                  *)
(*                                                                         *)
(* publish() dispatches at once while sync_mode is on, but its subscribers *)
(* await (the journal does), so other tasks may call the engine then.      *)
(***************************************************************************)
EXTENDS ReplayClock, HistoricalFeed, SequencesExt

CONSTANTS Files,        (* the files there are: sequences of rows              *)
          Ranges,       (* sets of times a script may ask of a file           *)
          Speeds, Advances,
          MaxLoads,     (* bound: how often events are loaded                  *)
          MaxCalls      (* bound: pauses, stops, steps and calls on the clock  *)

ASSUME ReplayAssumption ==
  /\ Files \subseteq Seq(Events)
  /\ \A range \in Ranges : range \subseteq Nat
  /\ Speeds \subseteq Nat \ {0} /\ Advances \subseteq Nat
  /\ MaxLoads \in Nat /\ MaxCalls \in Nat

Runs == {"run", "second run"}
Players == Runs \cup {"step"}

VARIABLES
  events,   (* _events, sorted by time                                     *)
  index,    (* _index                                                      *)
  running,  (* _running                                                    *)
  paused,   (* _paused                                                     *)
  syncMode, (* EventBus.sync_mode                                          *)
  place,    (* player -> where its call is: off, top, publishing, waiting  *)
  played,   (* history: events published since they were loaded            *)
  turned,   (* history: the clock was turned since it was set to an event  *)
  raced,    (* history: two calls played at once since the events' loading *)
  loads,    (* history: loads                                              *)
  calls     (* history: pauses, stops, steps and calls on the clock        *)

engineVars ==
  <<events, index, running, paused, syncMode, place, played, raced, loads>>
vars == <<engineVars, clockVars, turned, calls>>

Init ==
  /\ ClockInit
  /\ events = <<>>
  /\ index = 0
  /\ running = FALSE
  /\ paused = FALSE
  /\ syncMode = FALSE
  /\ place = [p \in Players |-> "off"]
  /\ played = <<>>
  /\ turned = FALSE
  /\ raced = FALSE
  /\ loads = 0
  /\ calls = 0

Idle == \A p \in Players : place[p] = "off"
MoveTo(p, where) == place' = [place EXCEPT ![p] = where]

(* A call starts to play.                                                  *)
Enter(p, where) == MoveTo(p, where) /\ raced' = (raced \/ ~Idle)

Call == calls < MaxCalls /\ calls' = calls + 1

-----------------------------------------------------------------------------
(* load_events, before anything plays: the events replace those there are. *)
LoadEvents(list) ==
  /\ Idle
  /\ loads < MaxLoads
  /\ loads' = loads + 1
  /\ events' = SortedByTime(list)
  /\ index' = 0
  /\ played' = <<>>
  /\ IF list = <<>> THEN UNCHANGED clockVars ELSE SetTime(Time[Head(events')])
  /\ turned' = FALSE
  /\ raced' = FALSE
  /\ UNCHANGED <<running, paused, syncMode, place, calls>>

(* Scripts load a file, or a part of it, and hand it to the engine.        *)
Load(rows) == \E range \in Ranges : LoadEvents(LoadCsv(rows, range))

Run(p) ==
  /\ p \in Runs
  /\ place[p] = "off"
  /\ ~running
  /\ running' = TRUE
  /\ paused' = FALSE
  /\ syncMode' = TRUE
  /\ Enter(p, "top")
  /\ UNCHANGED <<events, index, played, loads, clockVars, turned, calls>>

(* _publish_event of the event at the index: set the clock, then publish.  *)
StartPublish ==
  /\ SetTime(Time[events[index + 1]])
  /\ turned' = FALSE
  /\ played' = Append(played, events[index + 1])

(* Mutant: the end of the events leaves _running set.                      *)
LoopTopKeepsRunning(p) ==
  /\ place[p] = "top"
  /\ \/ /\ index >= Len(events) \/ ~running
        /\ syncMode' = FALSE
        /\ MoveTo(p, "off")
        /\ UNCHANGED <<running, played, clockVars, turned>>
     \/ /\ index < Len(events) /\ running /\ ~paused
        /\ StartPublish
        /\ MoveTo(p, "publishing")
        /\ UNCHANGED <<running, syncMode>>
  /\ UNCHANGED <<events, index, paused, raced, loads, calls>>

(* The head of the loop; without the last disjunct it sleeps while paused. *)
LoopTop(p) ==
  /\ place[p] = "top"
  /\ \/ /\ index >= Len(events) \/ ~running
        /\ running' = FALSE
        /\ syncMode' = FALSE
        /\ MoveTo(p, "off")
        /\ UNCHANGED <<played, clockVars, turned>>
     \/ /\ index < Len(events) /\ running /\ ~paused
        /\ StartPublish
        /\ MoveTo(p, "publishing")
        /\ UNCHANGED <<running, syncMode>>
  /\ UNCHANGED <<events, index, paused, raced, loads, calls>>

(* _wait_for_next waits for an event that is later, and only for that.     *)
AfterPublish(p) ==
  LET later == /\ index' < Len(events)
               /\ Time[events[index' + 1]] > Time[events[index']]
  IN MoveTo(p, IF p = "step" THEN "off" ELSE IF later THEN "waiting" ELSE "top")

(* Mutant: an event played while a pause comes in is played once more.     *)
PublishedUnlessPaused(p) ==
  /\ place[p] = "publishing"
  /\ index' = IF paused THEN index ELSE index + 1
  /\ MoveTo(p, IF p = "step" THEN "off" ELSE "top")
  /\ UNCHANGED <<events, running, paused, syncMode, played, raced, loads,
                 clockVars, turned, calls>>

(* publish() returns: only now does the index move on.                     *)
Published(p) ==
  /\ place[p] = "publishing"
  /\ index' = index + 1
  /\ AfterPublish(p)
  /\ UNCHANGED <<events, running, paused, syncMode, played, raced, loads,
                 clockVars, turned, calls>>

(* _wait_for_next is over: the time has passed, or stop() was called.      *)
Waited(p) ==
  /\ place[p] = "waiting"
  /\ MoveTo(p, "top")
  /\ UNCHANGED <<events, index, running, paused, syncMode, played, raced, loads,
                 clockVars, turned, calls>>

(* Mutant: run() has no finally clause.                                    *)
CancelWithoutCleanup(p) ==
  /\ place[p] # "off"
  /\ MoveTo(p, "off")
  /\ UNCHANGED <<events, index, running, paused, syncMode, played, raced, loads,
                 clockVars, turned, calls>>

(* The task of run() is cancelled where it waits: its finally clause runs, *)
(* the index stays at the event being published.                           *)
Cancel(p) ==
  /\ place[p] # "off"
  /\ running' = FALSE
  /\ syncMode' = FALSE
  /\ MoveTo(p, "off")
  /\ UNCHANGED <<events, index, paused, played, raced, loads, clockVars, turned,
                 calls>>

(* step(), by whoever debugs the replay.                                   *)
Step ==
  /\ place["step"] = "off"
  /\ index < Len(events)
  /\ Call
  /\ StartPublish
  /\ Enter("step", "publishing")
  /\ UNCHANGED <<events, index, running, paused, syncMode, loads>>

Pause ==
  /\ Call
  /\ paused' = TRUE
  /\ PauseClock
  /\ UNCHANGED <<events, index, running, syncMode, place, played, raced, loads,
                 turned>>

Resume ==
  /\ paused' = FALSE
  /\ ResumeClock
  /\ UNCHANGED <<events, index, running, syncMode, place, played, raced, loads,
                 turned, calls>>

(* Mutant: stop() turns sync_mode off itself.                              *)
StopEndsSync ==
  /\ Call
  /\ running
  /\ running' = FALSE
  /\ syncMode' = FALSE
  /\ UNCHANGED <<events, index, paused, place, played, raced, loads, clockVars,
                 turned>>

Stop ==
  /\ Call
  /\ running
  /\ running' = FALSE
  /\ UNCHANGED <<events, index, paused, syncMode, place, played, raced, loads,
                 clockVars, turned>>

(* The clock's own operations, by whoever holds it.                        *)
TurnClock ==
  /\ Call
  /\ \/ \E n \in Advances : Advance(n)
     \/ \E v \in Speeds : SetSpeed(v)
     \/ ResetClock
  /\ turned' = TRUE
  /\ UNCHANGED engineVars

LoopStep(p) == LoopTop(p) \/ Published(p) \/ Waited(p)

Next ==
  \/ \E rows \in Files : Load(rows)
  \/ \E p \in Runs : Run(p) \/ LoopTop(p) \/ Waited(p)
  \/ \E p \in Players : Published(p)
  \/ Step \/ Pause \/ Resume \/ Stop \/ TurnClock

(* The tasks that play go on: subscribers return or time out, sleeps end.  *)
Fairness == \A p \in Players : WF_vars(LoopStep(p))

Spec == Init /\ [][Next]_vars
FairSpec == Spec /\ Fairness

-----------------------------------------------------------------------------
(* Properties.                                                             *)

(* While one call plays at a time, pausing, resuming, stopping, running    *)
(* again and stepping never skip an event, never play one twice and never  *)
(* change their order. (step() beside run(), or run() again before the     *)
(* stopped one is over, do: both play the event the index still shows.)    *)
PlayedInOrderOnce == ~raced => IsPrefix(played, events)

(* The bus is in sync_mode exactly while a run() plays, whatever ends it:  *)
(* a strategy never sees half of a backtest asynchronously. (A stopped     *)
(* run() that ends after the next one began does turn it off.)             *)
SyncWhileRunning ==
  ~raced => (syncMode <=> \E p \in Runs : place[p] # "off")

(* Until somebody turns the clock it shows the time of the event played    *)
(* last, paused or resumed meanwhile or not; and turning it never takes it *)
(* back before that event.                                                 *)
ClockShowsEvent ==
  played # <<>> => LET at == Time[Last(played)]
                   IN  Now >= at /\ (~turned => Now = at)

(* A run that is not paused comes to its end.                              *)
ReplayEnds == running ~> ~running \/ paused
=============================================================================
