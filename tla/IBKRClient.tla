------------------------------ MODULE IBKRClient ------------------------------
(***************************************************************************)
(* IBKRClient of src/edrader/broker/ibkr_client.py: it keeps a connection  *)
(* to the broker's gateway, notices its loss through a callback and a      *)
(* heartbeat, and reconnects in a task of its own.                         *)
(*                                                                         *)
(* The connection itself is ib_async's: connectAsync() returns only with a *)
(* link that is up, ends with an error otherwise, and every loss of a link *)
(* calls the handlers on disconnectedEvent.  A handler's task starts at    *)
(* once (asyncio's ready queue), so its first statements belong to the     *)
(* loss; its publish may wait for room in the event queue.                 *)
(***************************************************************************)
EXTENDS Naturals, FiniteSets

CONSTANTS MaxAttempts,  (* config.max_reconnect_attempts               *)
          MaxDrops,     (* bound: how often the link is lost           *)
          MaxConnects   (* bound: how often connect() is called        *)

ASSUME ClientAssumption ==
  MaxAttempts \in Nat /\ MaxDrops \in Nat /\ MaxConnects \in Nat

Loops == {1, 2}  (* names for the reconnect tasks that may exist at once *)

VARIABLES
  link,       (* the socket: "down", "half" (being set up) or "up"          *)
  running,    (* IBKRClient._running                                        *)
  connected,  (* IBKRClient._connected                                      *)
  attempts,   (* _reconnect_attempts                                        *)
  handlers,   (* how often the client's handler is on disconnectedEvent     *)
  handle,     (* whether _disconnect_handler is set                         *)
  notices,    (* tasks of _on_disconnected_async that are publishing        *)
  loops,      (* reconnect task -> where _reconnect_loop is, or "none"      *)
  task,       (* _reconnect_task: one of Loops, or 0                        *)
  drops,      (* history: losses of the link                                *)
  connects    (* history: calls of connect()                                *)

vars == <<link, running, connected, attempts, handlers, handle, notices, loops,
          task, drops, connects>>

Init ==
  /\ link = "down"
  /\ running = FALSE
  /\ connected = FALSE
  /\ attempts = 0
  /\ handlers = 0
  /\ handle = FALSE
  /\ notices = 0
  /\ loops = [k \in Loops |-> "none"]
  /\ task = 0
  /\ drops = 0
  /\ connects = 0

-----------------------------------------------------------------------------
(* What ib_async does.                                                     *)

(* The link is closed: if it was open, n handlers report that.             *)
Closed(n) ==
  /\ link' = "down"
  /\ notices' = IF link = "down" THEN notices ELSE notices + n

(* Mutant: the report is published before the flag is cleared.             *)
NoteLossLater == UNCHANGED connected

(* The first line of each handler's task: connected no more.               *)
NoteLoss == connected' = (connected /\ (link = "down" \/ handlers = 0))

LinkDrops ==
  /\ link # "down"
  /\ drops < MaxDrops
  /\ drops' = drops + 1
  /\ Closed(handlers)
  /\ NoteLoss
  /\ UNCHANGED <<running, attempts, handlers, handle, loops, task, connects>>

(* The socket answers; connectAsync() still waits for the account's data.  *)
Handshake ==
  /\ link = "down"
  /\ \E k \in Loops : loops[k] = "dialing"
  /\ link' = "half"
  /\ UNCHANGED <<running, connected, attempts, handlers, handle, notices, loops,
                 task, drops, connects>>

-----------------------------------------------------------------------------
(* connect() and disconnect(), called by the application.                  *)

SetupHandlers == handlers' = handlers + 1 /\ handle' = TRUE

Connect ==
  /\ ~running
  /\ link = "down"
  /\ connects < MaxConnects
  /\ connects' = connects + 1
  /\ link' = "up"
  /\ running' = TRUE
  /\ connected' = TRUE
  /\ attempts' = 0
  /\ SetupHandlers
  /\ UNCHANGED <<notices, loops, task, drops>>

(* disconnect() cancels the reconnect task, takes the handler it has the   *)
(* handle of off the event and closes the link.                            *)
Disconnect ==
  /\ running
  /\ running' = FALSE
  /\ connected' = FALSE
  /\ loops' = [k \in Loops |-> IF k = task THEN "none" ELSE loops[k]]
  /\ task' = 0
  /\ handlers' = IF handle THEN handlers - 1 ELSE handlers
  /\ handle' = FALSE
  /\ Closed(handlers')
  /\ UNCHANGED <<attempts, drops, connects>>

-----------------------------------------------------------------------------
(* The client's tasks.                                                     *)

(* Mutant: every notice starts a reconnect task.                           *)
NoticeAlwaysReconnects ==
  /\ notices > 0
  /\ notices' = notices - 1
  /\ IF running /\ \E k \in Loops : loops[k] = "none"
     THEN \E k \in Loops : /\ loops[k] = "none"
                           /\ loops' = [loops EXCEPT ![k] = "top"]
                           /\ task' = k
     ELSE UNCHANGED <<loops, task>>
  /\ UNCHANGED <<link, running, connected, attempts, handlers, handle, drops,
                 connects>>

(* BrokerDisconnected is published; reconnect unless a task does already.  *)
Notice ==
  /\ notices > 0
  /\ notices' = notices - 1
  /\ IF running /\ task = 0
     THEN \E k \in Loops : /\ loops[k] = "none"
                           /\ loops' = [loops EXCEPT ![k] = "top"]
                           /\ task' = k
     ELSE UNCHANGED <<loops, task>>
  /\ UNCHANGED <<link, running, connected, attempts, handlers, handle, drops,
                 connects>>

MoveTo(k, place) == loops' = [loops EXCEPT ![k] = place]

(* Mutant: a finished loop stays in _reconnect_task.                       *)
EndKeepsTask(k) == MoveTo(k, "none") /\ UNCHANGED task

(* The loop ends and clears _reconnect_task.                               *)
End(k) == MoveTo(k, "none") /\ task' = 0

(* The while condition, and the limit on attempts.                         *)
LoopTop(k) ==
  /\ loops[k] = "top"
  /\ IF running /\ ~connected
     THEN /\ attempts' = attempts + 1
          /\ MoveTo(k, IF attempts' > MaxAttempts THEN "giving up" ELSE "sleep")
          /\ UNCHANGED task
     ELSE End(k) /\ UNCHANGED attempts
  /\ UNCHANGED <<link, running, connected, handlers, handle, notices, drops,
                 connects>>

(* reconnect_interval is over: close what is left of the link, then dial.  *)
Dial(k) ==
  /\ loops[k] = "sleep"
  /\ MoveTo(k, "dialing")
  /\ Closed(handlers)
  /\ NoteLoss
  /\ UNCHANGED <<running, attempts, handlers, handle, task, drops, connects>>

DialSucceeds(k) ==
  /\ loops[k] = "dialing"
  /\ link = "half"
  /\ link' = "up"
  /\ connected' = TRUE
  /\ attempts' = 0
  /\ SetupHandlers
  /\ MoveTo(k, "telling")
  /\ UNCHANGED <<running, notices, task, drops, connects>>

(* Refused, timed out, or lost on the way: connectAsync() closes the link. *)
DialFails(k) ==
  /\ loops[k] = "dialing"
  /\ Closed(handlers)
  /\ NoteLoss
  /\ MoveTo(k, "top")
  /\ UNCHANGED <<running, attempts, handlers, handle, task, drops, connects>>

(* BrokerReconnected is published, and the loop comes round.               *)
Told(k) ==
  /\ loops[k] = "telling"
  /\ MoveTo(k, "top")
  /\ UNCHANGED <<link, running, connected, attempts, handlers, handle, notices,
                 task, drops, connects>>

(* The last BrokerDisconnected is published, and nobody tries any more.    *)
GaveUp(k) ==
  /\ loops[k] = "giving up"
  /\ End(k)
  /\ UNCHANGED <<link, running, connected, attempts, handlers, handle, notices,
                 drops, connects>>

(* The heartbeat looks at the socket; it does not start a reconnect.       *)
Heartbeat ==
  /\ running
  /\ connected' = (link # "down")
  /\ UNCHANGED <<link, running, attempts, handlers, handle, notices, loops, task,
                 drops, connects>>

LoopStep(k) ==
  \/ LoopTop(k) \/ Dial(k) \/ DialSucceeds(k) \/ DialFails(k)
  \/ Told(k) \/ GaveUp(k)

Next ==
  \/ Connect \/ Disconnect
  \/ LinkDrops \/ Handshake
  \/ Notice \/ Heartbeat
  \/ \E k \in Loops : LoopStep(k)

(* Tasks go on: room in the event queue, timers and connectAsync(), which  *)
(* has a timeout, end their waits.  Nothing makes the gateway answer.      *)
Fairness == WF_vars(Notice) /\ \A k \in Loops : WF_vars(LoopStep(k))

Spec == Init /\ [][Next]_vars
FairSpec == Spec /\ Fairness

-----------------------------------------------------------------------------
(* Properties.                                                             *)

(* Two reconnect loops never run at once, although every reconnect leaves  *)
(* one more handler behind that reports the next loss once more.           *)
OneReconnectLoop == \A j, k \in Loops : "none" \in {loops[j], loops[k]} \/ j = k

(* The client never claims a connection whose socket is gone, although the *)
(* heartbeat, the reports and the loop all write the flag.                 *)
NoPhantomConnection == connected => link # "down"

(* A lost link is up again in the end, unless the attempts are used up or  *)
(* the client is stopped.                                                  *)
RepairedOrGivenUp ==
  running /\ link = "down" ~> link = "up" \/ ~running \/ attempts > MaxAttempts
=============================================================================
