------------------------------ MODULE EventBus ------------------------------
(***************************************************************************)
(* The event bus of src/edrader/events/bus.py in its asynchronous mode:    *)
(* two bounded asyncio queues (lanes), tasks that publish, one dispatcher  *)
(* task that runs the subscribers of an event one after the other, each    *)
(* under a timeout, and drain(), which joins both lanes.                   *)
(*                                                                         *)
(* asyncio runs one task at a time until it awaits.  Parked says that the  *)
(* dispatcher is at an await; only then may any other task take a step.    *)
(***************************************************************************)
EXTENDS Naturals, FiniteSets, SequencesExt

CONSTANTS Events,      (* the events that may be published, each at most once   *)
          HighEvents,  (* those of priority HIGH or CRITICAL                    *)
          Publishers,  (* tasks that publish, each awaiting one publish a time  *)
          Handlers,    (* the subscriber entries                                *)
          Wildcards,   (* those registered by subscribe_all                     *)
          Emitters,    (* those that publish while they handle an event         *)
          Raisers,     (* those whose filter, or the error handler, may raise   *)
          Interest,    (* handler -> events its type and its filter let through *)
          Capacity,    (* max_queue_size                                        *)
          Stoppable,   (* whether the run explores stop() and a later start()   *)
          None, Loop   (* no event or handler; the dispatcher as a task         *)

Lanes == {"high", "normal"}

ASSUME BusAssumption ==
  /\ HighEvents \subseteq Events
  /\ Wildcards \subseteq Handlers
  /\ Emitters \subseteq Handlers
  /\ Raisers \subseteq Handlers
  /\ Interest \in [Handlers -> SUBSET Events]
  /\ Capacity \in Nat \ {0}
  /\ Stoppable \in BOOLEAN
  /\ None \notin Events \cup Handlers
  /\ \A lanes \in SUBSET Lanes : None # lanes
  /\ Loop \notin Publishers

Tasks == Publishers \cup {Loop}
LaneOf(e) == IF e \in HighEvents THEN "high" ELSE "normal"

VARIABLES
  queue,       (* lane -> events waiting in it                                  *)
  unfinished,  (* lane -> asyncio's count of puts not yet matched by task_done  *)
  putters,     (* lane -> tasks waiting for room, oldest first                  *)
  woken,       (* tasks told that there is room and not resumed yet             *)
  offer,       (* task -> the event its pending put carries, or None            *)
  running,     (* EventBus._running                                             *)
  dispatcher,  (* where the dispatcher task is                                  *)
  cur,         (* the event it dispatches, or None                              *)
  lastSource,  (* PriorityQueue._last_source                                    *)
  roster,      (* the subscribers as they were when its dispatch began          *)
  todo,        (* those that cur is for and that have not been called yet       *)
  active,      (* the subscriber that is running, or None                       *)
  subscribers, (* typed subscribers, in registration order                      *)
  drain,       (* lanes drain() still waits for, or None when not draining      *)
  fresh,       (* history: events never published                               *)
  calls,       (* history: handler -> event -> how often it was called with it  *)
  owed,        (* history: dispatched event -> the handlers due to see it       *)
  completed,   (* history: events acknowledged by task_done                     *)
  abandoned,   (* history: events whose dispatch was cut short                  *)
  overtakes,   (* history: normal events taken since a high one is waiting      *)
  promised     (* history: events accepted when drain() was called              *)

queueVars  == <<queue, unfinished, putters, woken, offer, fresh>>
loopVars   == <<running, dispatcher, cur, lastSource, roster, todo, active>>
ghostVars  == <<calls, owed, completed, abandoned, overtakes>>
drainVars  == <<drain, promised>>
vars == <<queueVars, loopVars, ghostVars, drainVars, subscribers>>

Init ==
  /\ queue = [l \in Lanes |-> <<>>]
  /\ unfinished = [l \in Lanes |-> 0]
  /\ putters = [l \in Lanes |-> <<>>]
  /\ woken = {}
  /\ offer = [t \in Tasks |-> None]
  /\ running = FALSE
  /\ dispatcher = "off"
  /\ cur = None
  /\ lastSource = None
  /\ roster = <<>>
  /\ todo = {}
  /\ active = None
  /\ subscribers = <<>>
  /\ drain = None
  /\ fresh = Events
  /\ calls = [h \in Handlers |-> [e \in Events |-> 0]]
  /\ owed = [e \in Events |-> {}]
  /\ completed = {}
  /\ abandoned = {}
  /\ overtakes = 0
  /\ promised = {}

-----------------------------------------------------------------------------
(* The two lanes.                                                          *)

Full(l) == Len(queue[l]) >= Capacity
IndexOf(s, x) == CHOOSE i \in DOMAIN s : s[i] = x
Without(s, x) == IF x \in ToSet(s) THEN RemoveAt(s, IndexOf(s, x)) ELSE s

(* The dispatcher is suspended, so the event loop may run another task.    *)
Parked == dispatcher \in {"off", "created", "high_wait", "normal_wait", "dead"}
            \/ active # None

(* put(): the event enters its lane if there is room, else task t queues   *)
(* up.  A put that finds room overtakes the tasks woken but not resumed.   *)
Enqueue(t, e) ==
  LET l == LaneOf(e) IN
    IF Full(l)
    THEN /\ putters' = [putters EXCEPT ![l] = Append(@, t)]
         /\ offer' = [offer EXCEPT ![t] = e]
         /\ UNCHANGED <<queue, unfinished>>
    ELSE /\ queue' = [queue EXCEPT ![l] = Append(@, e)]
         /\ unfinished' = [unfinished EXCEPT ![l] = @ + 1]
         /\ offer' = [offer EXCEPT ![t] = None]
         /\ UNCHANGED putters

(* publish() by a task other than the dispatcher.                          *)
Publish(p, e) ==
  /\ Parked
  /\ offer[p] = None
  /\ e \in fresh
  /\ fresh' = fresh \ {e}
  /\ Enqueue(p, e)
  /\ UNCHANGED <<woken, loopVars, ghostVars, drainVars, subscribers>>

(* publish() from inside a subscriber: the dispatcher itself may block.    *)
HandlerPublish(e) ==
  /\ active \in Emitters
  /\ offer[Loop] = None
  /\ e \in fresh
  /\ fresh' = fresh \ {e}
  /\ Enqueue(Loop, e)
  /\ UNCHANGED <<woken, loopVars, ghostVars, drainVars, subscribers>>

(* A woken task looks for room again, and queues up once more if another   *)
(* task was quicker.                                                       *)
ResumePut(t) ==
  /\ Parked
  /\ t \in woken
  /\ woken' = woken \ {t}
  /\ Enqueue(t, offer[t])
  /\ UNCHANGED <<fresh, loopVars, ghostVars, drainVars, subscribers>>

(* What taking an event from lane l does to the lane: its head leaves and  *)
(* the oldest waiting putter is woken.                                     *)
Dequeue(l) ==
  /\ queue[l] # <<>>
  /\ queue' = [queue EXCEPT ![l] = Tail(@)]
  /\ IF putters[l] = <<>>
     THEN UNCHANGED <<putters, woken>>
     ELSE /\ woken' = woken \cup {Head(putters[l])}
          /\ putters' = [putters EXCEPT ![l] = Tail(@)]
  /\ UNCHANGED <<unfinished, offer, fresh>>

-----------------------------------------------------------------------------
(* The dispatcher task.                                                    *)

(* _handlers_for: the subscribers whose type and filter let e through.     *)
(* They are called in the order they registered in, typed ones first.      *)
HandlersFor(e) == {h \in ToSet(subscribers) : e \in Interest[h]}

Before(g, h) ==
  \/ g \notin Wildcards /\ h \in Wildcards
  \/ /\ g \in Wildcards <=> h \in Wildcards
     /\ \E i, j \in DOMAIN roster : i < j /\ roster[i] = g /\ roster[j] = h

(* get() returns the head of lane l and _dispatch starts on it.            *)
Take(l) ==
  LET e == Head(queue[l]) IN
    /\ Dequeue(l)
    /\ cur' = e
    /\ lastSource' = l
    /\ roster' = subscribers
    /\ todo' = HandlersFor(e)
    /\ owed' = [owed EXCEPT ![e] = HandlersFor(e)]
    /\ dispatcher' = "dispatch"
    /\ overtakes' = IF l = "normal" /\ queue["high"] # <<>>
                    THEN overtakes + 1 ELSE 0
    /\ UNCHANGED <<running, active, calls, completed, abandoned,
                   drainVars, subscribers>>

MoveTo(place) ==
  /\ dispatcher' = place
  /\ UNCHANGED <<queueVars, running, cur, roster, todo, active, ghostVars,
                 drainVars, subscribers>>

(* The while loop of _process_events comes round.                          *)
Created == dispatcher = "created" /\ MoveTo("poll") /\ UNCHANGED lastSource

(* Mutant: get() polls the normal lane without having looked at high.      *)
PollNormalUnordered == dispatcher = "poll" /\ Take("normal")

(* get(), first part: neither lane is waited for, high is looked at first. *)
PollHigh   == dispatcher = "poll" /\ Take("high")
PollNormal == dispatcher = "poll" /\ queue["high"] = <<>> /\ Take("normal")
PollEmpty  ==
  /\ dispatcher = "poll"
  /\ \A l \in Lanes : queue[l] = <<>>
  /\ MoveTo("high_wait")
  /\ UNCHANGED lastSource

(* get(), second part: one millisecond on the high lane.                   *)
HighWaitTake == dispatcher = "high_wait" /\ Take("high")
HighWaitTimeout ==
  /\ dispatcher = "high_wait"
  /\ MoveTo("normal_wait")
  /\ lastSource' = "normal"

(* get(), last part: the normal lane alone, until _process_events gives up *)
(* after half a second and comes round.                                    *)
NormalWaitTake == dispatcher = "normal_wait" /\ Take("normal")
NormalWaitTimeout ==
  /\ dispatcher = "normal_wait"
  /\ MoveTo("poll")
  /\ UNCHANGED lastSource

(* _dispatch calls the next subscriber.                                    *)
CallHandler(h) ==
  /\ dispatcher = "dispatch"
  /\ active = None
  /\ h \in todo
  /\ \A g \in todo \ {h} : Before(h, g)
  /\ active' = h
  /\ todo' = todo \ {h}
  /\ calls' = [calls EXCEPT ![h][cur] = @ + 1]
  /\ UNCHANGED <<queueVars, running, dispatcher, cur, lastSource, roster, owed,
                 completed, abandoned, overtakes, drainVars, subscribers>>

(* The subscriber returns, or raises: _dispatch counts the error and goes  *)
(* on with the next one either way.                                        *)
HandlerDone ==
  /\ active # None
  /\ offer[Loop] = None
  /\ active' = None
  /\ UNCHANGED <<queueVars, running, dispatcher, cur, lastSource, roster,
                 todo, ghostVars, drainVars, subscribers>>

(* Cancelling a pending put takes it out of the lane's putters; a task     *)
(* already woken passes the wake-up on if there still is room.             *)
CancelPut(t) ==
  IF offer[t] = None
  THEN UNCHANGED queueVars
  ELSE LET l == LaneOf(offer[t])
           pass == t \in woken /\ ~Full(l) /\ putters[l] # <<>>
       IN /\ offer' = [offer EXCEPT ![t] = None]
          /\ putters' = [putters EXCEPT ![l] =
                           IF pass THEN Tail(@) ELSE Without(@, t)]
          /\ woken' = (woken \ {t})
                        \cup (IF pass THEN {Head(putters[l])} ELSE {})
          /\ UNCHANGED <<queue, unfinished, fresh>>

(* Mutant: the try block surrounds the loop over the subscribers, so that  *)
(* a timeout leaves the rest of them out.                                  *)
HandlerTimeoutEndsLoop ==
  /\ active # None
  /\ CancelPut(Loop)
  /\ active' = None
  /\ todo' = {}
  /\ UNCHANGED <<running, dispatcher, cur, lastSource, roster, ghostVars,
                 drainVars, subscribers>>

(* The subscriber timeout cancels it wherever it waits, a put included:    *)
(* that event is lost.                                                     *)
HandlerTimeout ==
  /\ active # None
  /\ CancelPut(Loop)
  /\ active' = None
  /\ UNCHANGED <<running, dispatcher, cur, lastSource, roster, todo, ghostVars,
                 drainVars, subscribers>>

(* Mutant: an event whose dispatch is given up is queued again.            *)
AbandonRequeues ==
  /\ queue' = IF cur = None THEN queue
              ELSE [queue EXCEPT ![LaneOf(cur)] = <<cur>> \o @]
  /\ abandoned' = IF cur = None THEN abandoned ELSE abandoned \cup {cur}
  /\ cur' = None
  /\ roster' = <<>>
  /\ todo' = {}
  /\ active' = None
  /\ offer' = [offer EXCEPT ![Loop] = None]
  /\ putters' = [l \in Lanes |-> Without(putters[l], Loop)]
  /\ woken' = woken \ {Loop}
  /\ UNCHANGED <<unfinished, fresh, lastSource, calls, owed, completed, overtakes,
                 drainVars, subscribers>>

(* The dispatch under way is given up: its event is neither acknowledged   *)
(* nor queued again.                                                       *)
Abandon ==
  /\ CancelPut(Loop)
  /\ abandoned' = IF cur = None THEN abandoned ELSE abandoned \cup {cur}
  /\ cur' = None
  /\ roster' = <<>>
  /\ todo' = {}
  /\ active' = None
  /\ UNCHANGED <<lastSource, calls, owed, completed, overtakes, drainVars,
                 subscribers>>

(* What a filter raises, or the error handler that is given a subscriber's *)
(* exception, leaves _dispatch.  The loop takes a TimeoutError for a poll  *)
(* that found nothing; anything else ends the task, and _running stays.    *)
DispatchRaises(place) ==
  /\ dispatcher = "dispatch"
  /\ offer[Loop] = None
  /\ \/ active \in Raisers
     \/ /\ active = None
        /\ \E h \in todo \cap Raisers : \A g \in todo \ {h} : Before(h, g)
  /\ dispatcher' = place
  /\ Abandon
  /\ UNCHANGED running

(* Mutant: task_done always goes to the normal lane.                       *)
AcknowledgeNormal ==
  /\ dispatcher = "dispatch"
  /\ active = None
  /\ todo = {}
  /\ unfinished' = [unfinished EXCEPT !["normal"] = @ - 1]
  /\ drain' = IF drain # None /\ unfinished["normal"] = 1
              THEN drain \ {"normal"} ELSE drain
  /\ completed' = completed \cup {cur}
  /\ cur' = None
  /\ lastSource' = None
  /\ roster' = <<>>
  /\ dispatcher' = "poll"
  /\ UNCHANGED <<queue, putters, woken, offer, fresh, running, todo, active,
                 calls, owed, abandoned, overtakes, promised, subscribers>>

(* Every subscriber has been called: task_done on the lane get() noted,    *)
(* which releases a drain() joining that lane when its count reaches 0.    *)
Acknowledge ==
  /\ dispatcher = "dispatch"
  /\ active = None
  /\ todo = {}
  /\ unfinished' = [unfinished EXCEPT ![lastSource] = @ - 1]
  /\ drain' = IF drain # None /\ unfinished[lastSource] = 1
              THEN drain \ {lastSource} ELSE drain
  /\ completed' = completed \cup {cur}
  /\ cur' = None
  /\ lastSource' = None
  /\ roster' = <<>>
  /\ dispatcher' = "poll"
  /\ UNCHANGED <<queue, putters, woken, offer, fresh, running, todo, active,
                 calls, owed, abandoned, overtakes, promised, subscribers>>

-----------------------------------------------------------------------------
(* The bus's callers.                                                      *)

Start ==
  /\ ~running
  /\ running' = TRUE
  /\ dispatcher' = "created"
  /\ UNCHANGED <<queueVars, cur, lastSource, roster, todo, active, ghostVars,
                 drainVars, subscribers>>

(* stop() cancels the dispatcher at its await and waits for it to end.  Of *)
(* a task that is dead it raises what ended it, the bus being stopped.     *)
Stop ==
  /\ Stoppable
  /\ running
  /\ Parked
  /\ running' = FALSE
  /\ dispatcher' = "off"
  /\ Abandon

(* subscribe() and subscribe_all(); a component registers a handler once.  *)
Subscribe(h) ==
  /\ Parked
  /\ h \notin ToSet(subscribers)
  /\ subscribers' = Append(subscribers, h)
  /\ UNCHANGED <<queueVars, loopVars, ghostVars, drainVars>>

(* unsubscribe(), which exists for typed subscribers only.  The dispatch   *)
(* under way keeps the list it started with.                               *)
Unsubscribe(h) ==
  /\ Parked
  /\ h \in ToSet(subscribers) \ Wildcards
  /\ subscribers' = Without(subscribers, h)
  /\ UNCHANGED <<queueVars, loopVars, ghostVars, drainVars>>

(* Mutant: drain() joins the normal lane only.                             *)
DrainNormalOnly ==
  /\ Parked
  /\ drain = None
  /\ drain' = {l \in {"normal"} : unfinished[l] > 0}
  /\ promised' = (UNION {ToSet(queue[l]) : l \in Lanes})
                   \cup (IF cur = None THEN {} ELSE {cur})
  /\ UNCHANGED <<queueVars, loopVars, ghostVars, subscribers>>

(* drain(): join both lanes.  Only lanes with unfinished events are waited *)
(* for, each until its own count next reaches 0.                           *)
DrainCall ==
  /\ Parked
  /\ drain = None
  /\ drain' = {l \in Lanes : unfinished[l] > 0}
  /\ promised' = (UNION {ToSet(queue[l]) : l \in Lanes})
                   \cup (IF cur = None THEN {} ELSE {cur})
  /\ UNCHANGED <<queueVars, loopVars, ghostVars, subscribers>>

DrainReturn ==
  /\ Parked
  /\ drain = {}
  /\ drain' = None
  /\ promised' = {}
  /\ UNCHANGED <<queueVars, loopVars, ghostVars, subscribers>>

-----------------------------------------------------------------------------
(* Mutant: the wait on the normal lane has no timeout.                     *)
WaitForever == HighWaitTimeout

Wait == HighWaitTimeout \/ NormalWaitTimeout
GetEvent == \/ PollHigh \/ PollNormal \/ PollEmpty
            \/ HighWaitTake \/ NormalWaitTake
DispatcherStep ==
  \/ Created \/ GetEvent \/ Wait
  \/ \E h \in Handlers : CallHandler(h)
  \/ HandlerTimeout \/ Acknowledge

Next ==
  \/ DispatcherStep
  \/ HandlerDone
  \/ DispatchRaises("poll") \/ DispatchRaises("dead")
  \/ \E e \in Events : HandlerPublish(e)
  \/ \E p \in Publishers, e \in Events : Publish(p, e)
  \/ \E t \in Tasks : ResumePut(t)
  \/ \E h \in Handlers : Subscribe(h) \/ Unsubscribe(h)
  \/ Start \/ Stop
  \/ DrainCall \/ DrainReturn

(* What asyncio and the timers do on their own: the dispatcher goes on,    *)
(* timers fire, and a woken task, whose turn comes whenever the dispatcher *)
(* parks, runs (strong fairness: asyncio's ready queue is FIFO).  Nobody   *)
(* has to publish, subscribe, raise, stop the bus or finish a handler.     *)
Fairness ==
  /\ WF_vars(DispatcherStep)
  /\ \A t \in Tasks : SF_vars(ResumePut(t))

Spec == Init /\ [][Next]_vars
FairSpec == Spec /\ Fairness

-----------------------------------------------------------------------------
(* Properties.                                                             *)

Places ==
  {"off", "created", "poll", "high_wait", "normal_wait", "dispatch", "dead"}

(* Every variable keeps its type.                                          *)
TypeOK ==
  /\ queue \in [Lanes -> Seq(Events)]
  /\ unfinished \in [Lanes -> Nat]
  /\ putters \in [Lanes -> Seq(Tasks)]
  /\ woken \subseteq Tasks
  /\ offer \in [Tasks -> Events \cup {None}]
  /\ running \in BOOLEAN
  /\ dispatcher \in Places
  /\ cur \in Events \cup {None}
  /\ lastSource \in Lanes \cup {None}
  /\ roster \in Seq(Handlers)
  /\ todo \subseteq Handlers
  /\ active \in Handlers \cup {None}
  /\ subscribers \in Seq(Handlers)
  /\ drain \in {None} \cup SUBSET Lanes
  /\ fresh \subseteq Events
  /\ calls \in [Handlers -> [Events -> Nat]]
  /\ owed \in [Events -> SUBSET Handlers]
  /\ completed \subseteq Events
  /\ abandoned \subseteq Events
  /\ overtakes \in Nat
  /\ promised \subseteq Events

(* An acknowledged event was offered exactly once to every subscriber it   *)
(* had when its dispatch began, whatever the others did in between: raise, *)
(* time out, publish, subscribe or unsubscribe.  No event, acknowledged or *)
(* cut short, ever reaches a subscriber twice, restart included.           *)
FanoutExactlyOnce ==
  \A e \in Events, h \in Handlers :
    /\ calls[h][e] <= 1
    /\ calls[h][e] = 1 => h \in owed[e]
    /\ e \in completed /\ h \in owed[e] => calls[h][e] = 1

(* asyncio's unfinished count of each lane is what waits in it, plus the   *)
(* event in hand when it came from that lane, plus the events cut short by *)
(* stop() or an exception: task_done always reaches the lane the event was *)
(* taken from, although get() keeps that lane in a single shared field.    *)
UnfinishedAccounting ==
  \A l \in Lanes :
    unfinished[l] = Len(queue[l])
                    + (IF cur # None /\ LaneOf(cur) = l THEN 1 ELSE 0)
                    + Cardinality({e \in abandoned : LaneOf(e) = l})

(* When drain() is about to return, every event accepted before it was     *)
(* called has been acknowledged.                                           *)
DrainCoversAccepted == drain = {} => promised \subseteq completed

(* A waiting high-priority event is overtaken by at most one normal event: *)
(* the one that ends a wait on the normal lane begun before it arrived.    *)
BoundedInversion == overtakes <= 1

(* Every event a publisher offers is dispatched in the end unless the bus  *)
(* is stopped or its task is dead: no publisher blocks on a full lane for  *)
(* good, and no accepted event is left behind, even when subscribers hang  *)
(* or block on a full lane that only the dispatcher running them could     *)
(* empty.  A dispatch ends with its event acknowledged or, if a filter or  *)
(* the error handler timed out, cut short.                                 *)
PublishedIsDispatched ==
  \A e \in Events :
    /\ running
    /\ \/ \E l \in Lanes : e \in ToSet(queue[l])
       \/ \E p \in Publishers : offer[p] = e
    ~> e \in completed \cup abandoned \/ ~running \/ dispatcher = "dead"

(* The bus keeps its promise: lanes are first in, first out, one event at  *)
(* a time goes to each of its subscribers once, and whatever raises, times *)
(* out, fills up, stops or starts, no event but the one in hand is lost.   *)
Promise == INSTANCE Delivery WITH
  Lane <- [e \in Events |-> LaneOf(e)], pending <- queue, hand <- cur,
  due <- todo, settled <- completed, lost <- abandoned
DeliversAsPromised == Promise!Spec
=============================================================================
