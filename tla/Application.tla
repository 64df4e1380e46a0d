----------------------------- MODULE Application -----------------------------
(***************************************************************************)
(* Application of src/edrader/app/bootstrap.py with main() of app/main.py: *)
(* it wires the components, starts a replay as a task, and takes it all    *)
(* down again when a signal arrives.  In "development" it runs simulated   *)
(* trading; in "paper" and "live" startup() calls IBKRClient.start, which  *)
(* does not exist.  A "script" has no Application and drives ReplayEngine  *)
(* as it likes.                                                            *)
(*                                                                         *)
(* A replay dispatches inside publish(): the subscribers of a bar publish  *)
(* a signal, whose subscribers publish its approval, and so on to the      *)
(* fill.  All await only in the journal, which writes in a thread and      *)
(* comes last among the subscribers of each event.                         *)
(***************************************************************************)
EXTENDS ReplayEngine

CONSTANTS Environments, (* those to explore: "script", "development", "live"  *)
          Signalling    (* the bars that a strategy may answer with a signal   *)

ASSUME ApplicationAssumption ==
  /\ Environments \subseteq {"script", "development", "live"}
  /\ Signalling \subseteq Events

(* What follows from a bar, and who subscribes to it and publishes the     *)
(* next: bar, signal, approval, order request, fill.                       *)
Owner == <<"strategies", "risk", "execution", "broker", "positions">>
Components == {Owner[n] : n \in DOMAIN Owner} \cup {"monitoring"}
Requested == 4

Dispatchers == {"replay", "retry", "bus"}  (* tasks that dispatch events       *)

VARIABLES
  environment, (* config.app.environment, or "script"                          *)
  phase,       (* where main() is                                               *)
  on,          (* the components that are started                               *)
  replayTask,  (* Application._replay_task: none, created, started, over        *)
  busRunning,  (* EventBus._running                                             *)
  queue,       (* events waiting in the bus                                     *)
  open,        (* task -> the events it is dispatching, the innermost last, all *)
               (* of whose other subscribers are done                           *)
  retries,     (* bars whose order has a retry task                             *)
  journaling,  (* the journal is wired and not closed                           *)
  trail,       (* history: the events appended to the journal                   *)
  nested       (* history: those published while their cause was dispatched     *)

appVars == <<environment, phase, on, replayTask, busRunning, queue, open,
             retries, journaling, trail, nested>>
allVars == <<vars, appVars>>

AppInit ==
  /\ Init
  /\ environment \in Environments
  /\ phase = "new"
  /\ on = {}
  /\ replayTask = "none"
  /\ busRunning = FALSE
  /\ queue = <<>>
  /\ open = [t \in Dispatchers |-> <<>>]
  /\ retries = {}
  /\ journaling = FALSE
  /\ trail = <<>>
  /\ nested = {}

-----------------------------------------------------------------------------
(* Dispatching.                                                            *)

EventAt(bar, n, again) == [bar |-> bar, stage |-> n, again |-> again]
Effect(e) == [e EXCEPT !.stage = @ + 1]

(* journal_handler, up to its await: the event has its number, and the     *)
(* thread will write it whatever happens to the task.                      *)
AppendToJournal(e) ==
  IF journaling THEN trail' = Append(trail, e) ELSE UNCHANGED trail

(* Mutant: wildcard subscribers are called before those of the type.       *)
AppendOnTheWayIn(chain) ==
  trail' = IF journaling THEN trail \o chain ELSE trail

AppendInnermost(chain) == AppendToJournal(Last(chain))

(* _dispatch of event e by task t: its subscriber may publish an event,    *)
(* if it is started, and so may the subscriber of that.  In sync_mode they *)
(* are dispatched there and then; otherwise the first of them is queued.   *)
Dispatch(t, e, waiting) ==
  \E last \in e.stage..Len(Owner) :
    /\ last > e.stage => e.bar \in Signalling
    /\ \A n \in e.stage..last - 1 : Owner[n] \in on
    /\ IF syncMode
       THEN LET chain == [n \in 1..last - e.stage + 1 |->
                            EventAt(e.bar, e.stage + n - 1, e.again)]
            IN /\ open' = [open EXCEPT ![t] = chain]
               /\ AppendInnermost(chain)
               /\ nested' = nested \cup (ToSet(chain) \ {e})
               /\ queue' = waiting
       ELSE /\ last <= e.stage + 1
            /\ open' = [open EXCEPT ![t] = <<e>>]
            /\ AppendInnermost(<<e>>)
            /\ queue' = IF last = e.stage THEN waiting ELSE Append(waiting, Effect(e))
            /\ UNCHANGED nested

(* The journal's thread is done.  The dispatch of the innermost event ends *)
(* and its publisher goes on: the execution engine starts the retry task   *)
(* of the order it requested, and then its own event comes to the journal. *)
AppendEnds(t) ==
  LET e == Last(open[t])
      rest == Front(open[t])
  IN /\ open[t] # <<>>
     /\ open' = [open EXCEPT ![t] = rest]
     /\ retries' = IF rest # <<>> /\ e.stage = Requested
                   THEN retries \cup {e.bar} ELSE retries
     /\ IF rest = <<>>
        THEN UNCHANGED trail
        ELSE AppendToJournal(Last(rest))
     /\ UNCHANGED <<environment, phase, on, replayTask, busRunning, queue,
                    journaling, nested>>

(* The timeout of a subscriber ends all that is dispatched inside it.      *)
CutOff(t) ==
  \E n \in 1..Len(open[t]) - 1 :
    /\ open' = [open EXCEPT ![t] = SubSeq(@, 1, n)]
    /\ AppendToJournal(open[t][n])
    /\ UNCHANGED <<environment, phase, on, replayTask, busRunning, queue, retries,
                   journaling, nested>>

(* _process_events of the bus takes an event.                              *)
BusTakes ==
  /\ busRunning
  /\ open["bus"] = <<>>
  /\ queue # <<>>
  /\ Dispatch("bus", Head(queue), Tail(queue))
  /\ UNCHANGED <<environment, phase, on, replayTask, busRunning, retries,
                 journaling>>

(* Two seconds after an order: it was filled before its retry entry was    *)
(* made, so the entry is still there and the order is requested again.     *)
RetryDue(bar) ==
  /\ bar \in retries
  /\ open["retry"] = <<>>
  /\ retries' = retries \ {bar}
  /\ IF syncMode
     THEN Dispatch("retry", EventAt(bar, Requested, TRUE), queue)
     ELSE /\ queue' = Append(queue, EventAt(bar, Requested, TRUE))
          /\ UNCHANGED <<open, trail, nested>>
  /\ UNCHANGED <<environment, phase, on, replayTask, busRunning, journaling>>

-----------------------------------------------------------------------------
(* startup(): nothing in it suspends, so that the replay's task begins     *)
(* only when everything is wired.                                          *)

(* Mutant: startup waits for something before the strategies are there.    *)
StartComponentsEarly ==
  /\ on' = Components \ {"strategies"}
  /\ journaling' = TRUE
  /\ phase' = "running"

StartComponents ==
  /\ on' = Components
  /\ journaling' = TRUE
  /\ phase' = "running"

(* _build_replay: each file replaces the one before, so the last that has  *)
(* events is played.                                                       *)
BuildReplay ==
  \/ /\ \E rows \in Files : LoadEvents(LoadCsv(rows, Nat))
     /\ events' # <<>>
     /\ replayTask' = "created"
  \/ UNCHANGED <<vars, replayTask>>

Startup ==
  /\ environment = "development"
  /\ phase = "new"
  /\ busRunning' = TRUE
  /\ BuildReplay
  /\ StartComponents
  /\ UNCHANGED <<environment, queue, open, retries, trail, nested>>

(* The first live component has no start(): main() ends with the error.    *)
StartupFails ==
  /\ environment = "live"
  /\ phase = "new"
  /\ busRunning' = TRUE
  /\ phase' = "failed"
  /\ UNCHANGED <<vars, environment, on, replayTask, queue, open, retries,
                 journaling, trail, nested>>

-----------------------------------------------------------------------------
(* The replay's task.                                                      *)

ReplayBegins ==
  /\ replayTask = "created"
  /\ phase = "running"
  /\ replayTask' = "started"
  /\ Run("run")
  /\ UNCHANGED <<environment, phase, on, busRunning, queue, open, retries,
                 journaling, trail, nested>>

ReplayPlays ==
  /\ phase = "running"
  /\ LoopTop("run")
  /\ IF place'["run"] = "publishing"
     THEN /\ Dispatch("replay", EventAt(Last(played'), 1, FALSE), queue)
          /\ UNCHANGED replayTask
     ELSE /\ replayTask' = "over"
          /\ UNCHANGED <<open, trail, nested, queue>>
  /\ UNCHANGED <<environment, phase, on, busRunning, retries, journaling>>

ReplayGoesOn ==
  /\ phase = "running"
  /\ open["replay"] = <<>>
  /\ Published("run") \/ Waited("run")
  /\ UNCHANGED appVars

-----------------------------------------------------------------------------
(* shutdown(), from one await to the next.                                 *)

(* The signal arrived, and the replay's task is cancelled.                 *)
Shutdown ==
  /\ phase = "running"
  /\ phase' = "cancelling"
  /\ UNCHANGED <<vars, environment, on, replayTask, busRunning, queue, open,
                 retries, journaling, trail, nested>>

(* It ends wherever it was, in the midst of a dispatch or before it began. *)
ReplayCancelled ==
  /\ phase = "cancelling"
  /\ phase' = "cancelled"
  /\ IF place["run"] = "off" THEN UNCHANGED vars ELSE Cancel("run")
  /\ replayTask' = "none"
  /\ open' = [open EXCEPT !["replay"] = <<>>]
  /\ UNCHANGED <<environment, on, busRunning, queue, retries, journaling, trail,
                 nested>>

(* Strategies, alerts, metrics: MetricsCollector awaits its sampling task. *)
StopStrategies ==
  /\ phase = "cancelled"
  /\ phase' = "sampling ends"
  /\ on' = on \ {"strategies", "monitoring"}
  /\ UNCHANGED <<vars, environment, replayTask, busRunning, queue, open, retries,
                 journaling, trail, nested>>

(* PositionManager, then ExecutionEngine, which awaits its retry tasks if  *)
(* it has any, the one in a dispatch included.                             *)
StopExecution ==
  /\ phase = "sampling ends"
  /\ phase' = IF retries = {} /\ open["retry"] = <<>> THEN "closing" ELSE "retries end"
  /\ on' = on \ {"positions", "execution"}
  /\ retries' = {}
  /\ open' = [open EXCEPT !["retry"] = <<>>]
  /\ UNCHANGED <<vars, environment, replayTask, busRunning, queue, journaling,
                 trail, nested>>

(* RiskEngine, the simulated broker, the journal and the bus, without a    *)
(* suspension before the bus cancels its task: what is queued stays there. *)
Close ==
  /\ phase \in {"retries end", "closing"}
  /\ phase' = "stopped"
  /\ on' = {}
  /\ journaling' = FALSE
  /\ busRunning' = FALSE
  /\ open' = [open EXCEPT !["bus"] = <<>>]
  /\ UNCHANGED <<vars, environment, replayTask, retries, trail, nested,
                 queue>>

-----------------------------------------------------------------------------
(* Other tasks run while main() awaits; the replay's, once it is cancelled, *)
(* only to its end.                                                        *)
MainAwaits == phase \notin {"new", "closing"}
Runnable == IF phase = "running" THEN Dispatchers ELSE Dispatchers \ {"replay"}

TaskStep ==
  /\ MainAwaits
  /\ \/ \E t \in Runnable : AppendEnds(t) \/ CutOff(t)
     \/ BusTakes
     \/ \E bar \in Signalling : RetryDue(bar)
  /\ UNCHANGED vars

ReplayStep == ReplayBegins \/ ReplayPlays \/ ReplayGoesOn

MainStep ==
  \/ ReplayCancelled \/ StopStrategies \/ StopExecution \/ Close

ScriptStep == environment = "script" /\ Next /\ UNCHANGED appVars

AppNext ==
  \/ ScriptStep
  \/ Startup \/ StartupFails
  \/ TaskStep \/ ReplayStep
  \/ Shutdown \/ MainStep

(* A script's players, and the application's tasks, go on; nothing makes   *)
(* the signal arrive.                                                      *)
AppFairness ==
  /\ \A p \in Players : WF_allVars(environment = "script" /\ LoopStep(p) /\ UNCHANGED appVars)
  /\ WF_allVars(TaskStep) /\ WF_allVars(ReplayStep) /\ WF_allVars(MainStep)

AppSpec == AppInit /\ [][AppNext]_allVars /\ AppFairness

-----------------------------------------------------------------------------
(* Properties.                                                             *)

(* The journal's order can be relied on, though it is the order in which   *)
(* dispatches come to their last subscriber: what was published while its  *)
(* cause was dispatched in sync_mode always comes before its cause, what   *)
(* was queued always after it, whatever is cut off or cancelled between.   *)
TrailShowsNesting ==
  \A i, j \in DOMAIN trail :
    trail[j] = Effect(trail[i]) => (IF trail[j] \in nested THEN j < i ELSE i < j)

(* Startup and shutdown never let an event meet half an application:       *)
(* whatever is dispatched finds the journal open, and while the replay     *)
(* dispatches, strategies are subscribed, although its task is created     *)
(* before they are and other tasks run while shutdown() awaits.            *)
WiredThroughout ==
  /\ (\E t \in Dispatchers : open[t] # <<>>) => journaling
  /\ open["replay"] # <<>> => "strategies" \in on

(* A shutdown comes to its end, and leaves nothing behind that runs.       *)
Ended ==
  /\ phase = "stopped"
  /\ on = {} /\ retries = {} /\ ~busRunning
  /\ ~running /\ ~syncMode
  /\ \A t \in Dispatchers : open[t] = <<>>
ShutdownEnds == phase = "cancelling" ~> Ended
=============================================================================
