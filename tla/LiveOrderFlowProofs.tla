-------------------------- MODULE LiveOrderFlowProofs --------------------------
(***************************************************************************)
(* Proofs about live trading, where the bus is asynchronous: retries send  *)
(* an order again once at most and only while nobody reported it, do not   *)
(* duplicate orders, and engine and adapter know the orders there are.     *)
(*                                                                         *)
(* SignalInv follows a signal from its approval to its orders, TrackInv an *)
(* order from its acceptance to the event that ends it.  Both say what may *)
(* still be in the queue; the first section has the lemmas about queues.   *)
(***************************************************************************)
EXTENDS LiveOrderFlow, FiniteSetTheorems, SequenceTheorems, TLAPS

-----------------------------------------------------------------------------
(* Queues and the kinds M, N of messages that wait in them.                *)

Queued(q, M) == \E k \in DOMAIN q : q[k] \in M
Once(q, M) == \A k, l \in DOMAIN q : q[k] \in M /\ q[l] \in M => k = l
Before(q, M, N) == \A k, l \in DOMAIN q : q[k] \in M /\ q[l] \in N => k < l

(* What the queue says of a kind of messages when its head is taken off.   *)
LEMMA TailKeeps ==
  ASSUME NEW S, NEW q \in Seq(S), q # <<>>, NEW M
  PROVE  /\ Tail(q) \in Seq(S)
         /\ Queued(Tail(q), M) => Queued(q, M)
         /\ Queued(q, M) => Queued(Tail(q), M) \/ Head(q) \in M
         /\ Once(q, M) => Once(Tail(q), M)
         /\ Once(q, M) /\ Head(q) \in M => ~Queued(Tail(q), M)
         /\ \A N : Before(q, M, N) => Before(Tail(q), M, N)
         /\ \A N : Before(q, M, N) /\ Head(q) \in N => ~Queued(q, M)
<1> DEFINE t == Tail(q)
<1>1. /\ t \in Seq(S) /\ Len(q) \in Nat \ {0} /\ Len(t) = Len(q) - 1
      /\ DOMAIN q = 1..Len(q) /\ DOMAIN t = 1..Len(t)
      /\ \A k \in 1..Len(t) : t[k] = q[k + 1]
      /\ Head(q) = q[1]
  OBVIOUS
<1> HIDE DEF t
<1>2. \A k \in DOMAIN t : k + 1 \in DOMAIN q /\ t[k] = q[k + 1]
  BY <1>1
<1>3. \A k \in DOMAIN q : k = 1 \/ (k - 1 \in DOMAIN t /\ q[k] = t[k - 1])
  BY <1>1
<1>4. 1 \in DOMAIN q /\ \A k \in DOMAIN t : k + 1 # 1 /\ k \in Nat
  BY <1>1
<1>5. Queued(t, M) => Queued(q, M)
  BY <1>2 DEF Queued
<1>6. Queued(q, M) => Queued(t, M) \/ Head(q) \in M
  BY <1>1, <1>3 DEF Queued
<1>7. Once(q, M) => Once(t, M)
  BY <1>2, <1>4 DEF Once
<1>8. Once(q, M) /\ Head(q) \in M => ~Queued(t, M)
  BY <1>1, <1>2, <1>4 DEF Once, Queued
<1>9. \A N : Before(q, M, N) => Before(t, M, N)
  BY <1>2, <1>4 DEF Before
<1>10. \A N : Before(q, M, N) /\ Head(q) \in N => ~Queued(q, M)
  BY <1>1, <1>4 DEF Before, Queued
<1> QED
  BY <1>1, <1>5, <1>6, <1>7, <1>8, <1>9, <1>10 DEF t

(* The same, when a message joins the queue.                               *)
LEMMA AppendKeeps ==
  ASSUME NEW S, NEW q \in Seq(S), NEW x \in S, NEW M
  PROVE  /\ Append(q, x) \in Seq(S)
         /\ Queued(Append(q, x), M) <=> Queued(q, M) \/ x \in M
         /\ x \notin M \/ ~Queued(q, M) => (Once(q, M) => Once(Append(q, x), M))
         /\ \A N : x \notin M \/ (~Queued(q, N) /\ x \notin N) =>
                     (Before(q, M, N) => Before(Append(q, x), M, N))
<1> DEFINE t == Append(q, x)
<1>1. /\ t \in Seq(S) /\ Len(q) \in Nat /\ Len(t) = Len(q) + 1
      /\ DOMAIN q = 1..Len(q) /\ DOMAIN t = 1..Len(t)
      /\ \A k \in 1..Len(q) : t[k] = q[k]
      /\ t[Len(q) + 1] = x
  OBVIOUS
<1> HIDE DEF t
<1>2. /\ Len(q) + 1 \in DOMAIN t /\ \A k \in DOMAIN q : k < Len(q) + 1
      /\ \A k \in DOMAIN q : k \in DOMAIN t /\ t[k] = q[k]
      /\ \A k \in DOMAIN t : k = Len(q) + 1 \/ (k \in DOMAIN q /\ t[k] = q[k])
  BY <1>1
<1>3. Queued(t, M) <=> Queued(q, M) \/ x \in M
  BY <1>1, <1>2 DEF Queued
<1>4. x \notin M \/ ~Queued(q, M) => (Once(q, M) => Once(t, M))
  BY <1>1, <1>2 DEF Once, Queued
<1>5. \A N : x \notin M \/ (~Queued(q, N) /\ x \notin N) => (Before(q, M, N) => Before(t, M, N))
  BY <1>1, <1>2 DEF Before, Queued
<1> QED
  BY <1>1, <1>3, <1>4, <1>5 DEF t

-----------------------------------------------------------------------------
(* Types.  Live trading leaves the bus asynchronous: Live is a hypothesis  *)
(* of the theorems, which the instance of the run LiveOrderFlow meets.     *)

Live == SyncModes = {FALSE}

(* No two signals share their retry entry.  Without this the run           *)
(* LiveDuplicates shows that signals are ordered twice.                    *)
KeysDiffer == \A i, j \in Intents : Key(i) = Key(j) => i = j

Messages == [type : {"approved", "requested", "submitted", "filled", "cancelled"},
             intent : Intents, order : Nat \cup {None}]
Orders == [intent : Intents, left : Nat, state : {"working", "filled", "cancelled"}]
CallbackTasks == [kind : {"status", "exec"}, order : Nat, status : {"Filled", "Cancelled"}]
TasksOf(o) == {t \in CallbackTasks : t.order = o}

Typed ==
  /\ bus \in Seq(Messages) /\ syncMode = FALSE
  /\ engineRunning \in BOOLEAN /\ session \in Nat
  /\ activeOrders \subseteq Nat
  /\ pendingRetries \in [Keys -> Nat]
  /\ retryTasks \subseteq Intents
  /\ requests \in [Intents -> Nat] /\ madeIn \in [Intents -> Nat]
  /\ tasks \in Seq(CallbackTasks) /\ book \in Seq(Orders)
  /\ \A o \in Nat : Queued(tasks, TasksOf(o)) => o \in DOMAIN book

-----------------------------------------------------------------------------
(* A signal, from its approval to its orders.                              *)

ReportsOf(i) == {m \in Messages : m.type = "submitted" /\ m.intent = i /\ m.order # None}

SignalInv(i) ==
  /\ i \in fresh => ~Queued(bus, {Approved(i)}) /\ requests[i] = 0
  /\ Once(bus, {Approved(i)})
  /\ Queued(bus, {Approved(i)}) => requests[i] = 0
  /\ requests[i] = 0 =>
       /\ ~Queued(bus, {Requested(i)}) /\ ~Queued(bus, ReportsOf(i))
       /\ i \notin reported /\ i \notin retryTasks
       /\ OrdersFor(i) = {}
  /\ i \in retryTasks =>
       /\ requests[i] = 1 /\ madeIn[i] = session /\ engineRunning
       /\ i \in reported => pendingRetries[Key(i)] = 0

(* The signal's only request or only order is on its way, and the retry is *)
(* called off before the report of that order leaves the queue.            *)
OrderedOnce(i) ==
  /\ Once(bus, {Requested(i)})
  /\ Queued(bus, {Requested(i)}) => OrdersFor(i) = {}
  /\ \A o, p \in OrdersFor(i) : o = p
  /\ i \in retryTasks /\ pendingRetries[Key(i)] > 0 =>
       \A o \in OrdersFor(i) : Queued(bus, {Submitted(i, o)})

DupInv(i) == i \in late \/ OrdersFor(i) \cap untold # {} \/ OrderedOnce(i)

-----------------------------------------------------------------------------
(* An order, from its acceptance to the event that ends it.                *)

Told(o) == {m \in Messages : m.type = "submitted" /\ m.order = o}
Ended(o) == {m \in Messages : m.type \in {"filled", "cancelled"} /\ m.order = o}
Cancelling(o) == {t \in TasksOf(o) : t.status = "Cancelled"}
Ending(o) == {t \in TasksOf(o) : t.kind = "exec" \/ t.status = "Cancelled"}

KnownInv(o) ==
  /\ Queued(tasks, Cancelling(o)) => ~Working(o)
  /\ Working(o) => o \in trades \cup forgotten
  /\ Working(o) /\ ~adapterRunning => o \in forgotten

FutureInv(o) ==
  o \notin DOMAIN book =>
    /\ o \notin activeOrders /\ o \notin untold
    /\ ~Queued(bus, Told(o)) /\ ~Queued(bus, Ended(o))

ToldInv(o) ==
  /\ Once(bus, Told(o))
  /\ Before(bus, Told(o), Ended(o))
  /\ Queued(bus, Told(o)) => o \notin activeOrders
  /\ o \in untold => ~Queued(bus, Told(o)) /\ o \notin activeOrders

ActiveInv(o) ==
  /\ o \in Unfilled => ~Queued(bus, Ended(o)) /\ ~Queued(tasks, Ending(o))
  /\ o \in Unfilled => o \in untold \/ Queued(bus, Told(o)) \/ o \in activeOrders
  /\ o \notin Unfilled =>
       \/ Queued(bus, Ended(o)) \/ Queued(tasks, Ending(o))
       \/ (o \notin activeOrders /\ ~Queued(bus, Told(o)))

TrackInv(o) ==
  /\ KnownInv(o) /\ FutureInv(o) /\ ToldInv(o)
  /\ session = 0 => engineRunning
  /\ o \in DOMAIN book => book[o].left <= Size[book[o].intent]
  /\ session = 0 /\ o \in DOMAIN book \ forgotten => ActiveInv(o)

-----------------------------------------------------------------------------
(* What a step does to the queue.  Handling m without an answer:           *)
Taken(m) ==
  /\ bus' \in Seq(Messages) /\ syncMode' = FALSE /\ m \in Messages
  /\ \A M : /\ m \in M => Queued(bus, M)
            /\ Queued(bus', M) => Queued(bus, M)
            /\ Queued(bus, M) => Queued(bus', M) \/ m \in M
            /\ Once(bus, M) => Once(bus', M)
            /\ Once(bus, M) /\ m \in M => ~Queued(bus', M)
  /\ \A M, N : /\ Before(bus, M, N) => Before(bus', M, N)
               /\ Before(bus, M, N) /\ m \in N => ~Queued(bus, M)

(* Publishing x from a task:                                               *)
Added(x) ==
  /\ bus' \in Seq(Messages) /\ syncMode' = FALSE
  /\ \A M : /\ Queued(bus', M) <=> Queued(bus, M) \/ x \in M
            /\ x \notin M \/ ~Queued(bus, M) => (Once(bus, M) => Once(bus', M))
  /\ \A M, N : x \notin M \/ (~Queued(bus, N) /\ x \notin N) =>
                 (Before(bus, M, N) => Before(bus', M, N))

(* Handling m and answering x, which is of another kind than m:            *)
Exchanged(m, x) ==
  /\ bus' \in Seq(Messages) /\ syncMode' = FALSE /\ m \in Messages
  /\ \A M : /\ m \in M => Queued(bus, M)
            /\ Queued(bus', M) => Queued(bus, M) \/ x \in M
            /\ x \in M => Queued(bus', M)
            /\ Queued(bus, M) => Queued(bus', M) \/ m \in M
            /\ x \notin M \/ ~Queued(bus, M) => (Once(bus, M) => Once(bus', M))
            /\ x \notin M /\ m \in M /\ Once(bus, M) => ~Queued(bus', M)
  /\ \A M, N : x \notin M \/ (~Queued(bus, N) /\ x \notin N) =>
                 (Before(bus, M, N) => Before(bus', M, N))

LEMMA HandleTakes ==
  ASSUME Typed, NEW m, Handle(m, <<>>)
  PROVE  Taken(m)
<1>1. /\ bus \in Seq(Messages) /\ bus # <<>> /\ m = Head(bus)
      /\ bus' = Tail(bus) \o <<>> /\ syncMode' = FALSE
  BY DEF Typed, Handle
<1>2. bus' = Tail(bus) /\ m \in Messages
  BY <1>1
<1>3. m = bus[1] /\ 1 \in DOMAIN bus
  BY <1>1
<1>4. \A M : m \in M => Queued(bus, M)
  BY <1>3 DEF Queued
<1> QED
  BY <1>1, <1>2, <1>4, TailKeeps DEF Taken

LEMMA PostAdds ==
  ASSUME Typed, NEW x \in Messages, Post(x)
  PROVE  Added(x)
BY AppendKeeps DEF Typed, Post, Added

LEMMA HandleAnswers ==
  ASSUME Typed, NEW m, NEW x \in Messages, Handle(m, <<x>>)
  PROVE  Exchanged(m, x)
<1> DEFINE t == Tail(bus)
<1>1. /\ bus \in Seq(Messages) /\ bus # <<>> /\ m = Head(bus)
      /\ bus' = t \o <<x>> /\ syncMode' = FALSE
  BY DEF Typed, Handle
<1>2. t \in Seq(Messages) /\ m \in Messages /\ m = bus[1] /\ 1 \in DOMAIN bus
  BY <1>1
<1>3. \A M : m \in M => Queued(bus, M)
  BY <1>2 DEF Queued
<1>4. \A M : /\ Queued(t, M) => Queued(bus, M)
             /\ Queued(bus, M) => Queued(t, M) \/ m \in M
             /\ Once(bus, M) => Once(t, M)
             /\ Once(bus, M) /\ m \in M => ~Queued(t, M)
  BY <1>1, TailKeeps
<1>5. \A M, N : Before(bus, M, N) => Before(t, M, N)
  BY <1>1, TailKeeps
<1> HIDE DEF t
<1>6. bus' = Append(t, x)
  BY <1>1, <1>2
<1>9. /\ bus' \in Seq(Messages)
      /\ \A M : /\ Queued(bus', M) <=> Queued(t, M) \/ x \in M
                /\ x \notin M \/ ~Queued(t, M) => (Once(t, M) => Once(bus', M))
  BY <1>2, <1>6, AppendKeeps
<1>10. \A M, N : x \notin M \/ (~Queued(t, N) /\ x \notin N) =>
                   (Before(t, M, N) => Before(bus', M, N))
  BY <1>2, <1>6, AppendKeeps
<1>7. ASSUME NEW M
      PROVE  /\ Queued(bus', M) => Queued(bus, M) \/ x \in M
             /\ x \in M => Queued(bus', M)
             /\ Queued(bus, M) => Queued(bus', M) \/ m \in M
             /\ x \notin M \/ ~Queued(bus, M) => (Once(bus, M) => Once(bus', M))
             /\ x \notin M /\ m \in M /\ Once(bus, M) => ~Queued(bus', M)
  BY <1>4, <1>9
<1>8. ASSUME NEW M, NEW N, x \notin M \/ (~Queued(bus, N) /\ x \notin N), Before(bus, M, N)
      PROVE  Before(bus', M, N)
  <2>1. Before(t, M, N) /\ (~Queued(bus, N) => ~Queued(t, N))
    BY <1>4, <1>5, <1>8
  <2> QED
    BY <1>8, <1>10, <2>1
<1> QED
  BY <1>1, <1>2, <1>3, <1>7, <1>8, <1>9 DEF Exchanged

(* Kinds of messages: each message is one, and no two coincide.            *)
LEMMA Kinds ==
  ASSUME Live, NEW i \in Intents, NEW o \in Nat \cup {None}
  PROVE  /\ Approved(i) \in Messages /\ Requested(i) \in Messages
         /\ Submitted(i, o) \in Messages /\ Filled(i, o) \in Messages
         /\ Cancelled(i, o) \in Messages
BY DEF Messages, Event, Approved, Requested, Submitted, Filled, Cancelled

-----------------------------------------------------------------------------
(* What a step does to the broker's book: order n of signal i joins it, or *)
(* entry e replaces that of order o.                                       *)
Grown(i, n) ==
  /\ n \in Nat /\ n \notin DOMAIN book /\ book' \in Seq(Orders)
  /\ DOMAIN book' = DOMAIN book \cup {n}
  /\ book'[n] = [intent |-> i, left |-> Size[i], state |-> "working"]
  /\ \A p \in DOMAIN book : book'[p] = book[p]

Edited(o, e) ==
  /\ book' \in Seq(Orders) /\ DOMAIN book' = DOMAIN book
  /\ e \in Orders /\ e.intent = book[o].intent /\ e.left <= book[o].left
  /\ book'[o] = e
  /\ \A p \in DOMAIN book \ {o} : book'[p] = book[p]

LEMMA AcceptGrows ==
  ASSUME Typed, NEW i \in Intents, Accept(i)
  PROVE  \E n \in Nat : n = Len(book) + 1 /\ Grown(i, n)
<1> DEFINE e == [intent |-> i, left |-> Size[i], state |-> "working"]
<1>1. book \in Seq(Orders) /\ e \in Orders /\ book' = Append(book, e)
  BY OrderBusAssumption DEF Typed, Accept, Orders
<1> HIDE DEF e
<1>2. PICK n \in Nat : n = Len(book) + 1
  BY <1>1
<1>3. /\ book' \in Seq(Orders) /\ DOMAIN book = 1..Len(book) /\ Len(book) \in Nat
      /\ DOMAIN book' = 1..(Len(book) + 1) /\ book'[n] = e
      /\ \A p \in 1..Len(book) : book'[p] = book[p]
  BY <1>1, <1>2
<1>4. Grown(i, n)
  BY <1>2, <1>3 DEF Grown, e
<1> QED
  BY <1>2, <1>4

LEMMA BookEdits ==
  ASSUME Typed, NEW o \in DOMAIN book, NEW e \in Orders, book' = [book EXCEPT ![o] = e],
         e.intent = book[o].intent, e.left <= book[o].left
  PROVE  Edited(o, e)
<1>1. /\ book \in [1..Len(book) -> Orders] /\ DOMAIN book = 1..Len(book)
      /\ Len(book) \in Nat
  BY DEF Typed
<1>2. book' \in [1..Len(book) -> Orders]
  BY <1>1
<1>3. book' \in Seq(Orders)
  BY <1>1, <1>2, IsASeq
<1> QED
  BY <1>1, <1>2, <1>3 DEF Edited

(* The broker's executions and cancellations: tasks are added, of order o  *)
(* only, and when the adapter listens one of them ends the order.          *)
Called(o) ==
  /\ tasks' \in Seq(CallbackTasks)
  /\ \A M : Queued(tasks, M) => Queued(tasks', M)
  /\ \A M : Queued(tasks', M) => Queued(tasks, M) \/ \E t \in TasksOf(o) : t \in M
  /\ \A p \in Nat : Queued(tasks', TasksOf(p)) => p \in DOMAIN book
  /\ adapterRunning => Queued(tasks', Ending(o))

LEMMA CallbackCalls ==
  ASSUME Typed, NEW o \in Nat, o \in DOMAIN book, NEW a \in Ending(o), Callback(<<a>>)
  PROVE  Called(o) /\ \A M : a \notin M => (Queued(tasks', M) => Queued(tasks, M))
<1>1. a \in CallbackTasks /\ a \in TasksOf(o) /\ tasks \in Seq(CallbackTasks)
  BY DEF Ending, TasksOf, Typed
<1> DEFINE t == Append(tasks, a)
<1>2. /\ t \in Seq(CallbackTasks)
      /\ \A M : Queued(t, M) <=> Queued(tasks, M) \/ a \in M
  BY <1>1, AppendKeeps
<1>3. adapterRunning => tasks' = t
  BY <1>1 DEF Callback
<1>4. ~adapterRunning => tasks' = tasks
  BY DEF Callback
<1> HIDE DEF t
<1>5. /\ \A p \in Nat : a \in TasksOf(p) => p = o
      /\ \A p \in Nat : Queued(tasks, TasksOf(p)) => p \in DOMAIN book
  BY <1>1 DEF TasksOf, Typed
<1>6. CASE adapterRunning
  BY <1>1, <1>2, <1>3, <1>5, <1>6 DEF Called
<1>7. CASE ~adapterRunning
  BY <1>1, <1>4, <1>5, <1>7 DEF Called
<1> QED
  BY <1>6, <1>7

LEMMA CallbackCallsTwice ==
  ASSUME Typed, NEW o \in Nat, o \in DOMAIN book, NEW a \in Ending(o), NEW b \in TasksOf(o), Callback(<<a, b>>)
  PROVE  Called(o) /\ \A M : a \notin M /\ b \notin M => (Queued(tasks', M) => Queued(tasks, M))
<1>1. a \in CallbackTasks /\ a \in TasksOf(o) /\ b \in CallbackTasks /\ tasks \in Seq(CallbackTasks)
  BY DEF Ending, TasksOf, Typed
<1> DEFINE t == Append(tasks, a)
<1>2. /\ t \in Seq(CallbackTasks)
      /\ \A M : Queued(t, M) <=> Queued(tasks, M) \/ a \in M
  BY <1>1, AppendKeeps
<1>3. ~adapterRunning => tasks' = tasks
  BY DEF Callback
<1>4. adapterRunning => tasks' = Append(t, b)
  BY <1>1 DEF Callback
<1> HIDE DEF t
<1> DEFINE u == Append(t, b)
<1>5. /\ u \in Seq(CallbackTasks)
      /\ \A M : Queued(u, M) <=> Queued(t, M) \/ b \in M
  BY <1>1, <1>2, AppendKeeps
<1> HIDE DEF u
<1>6. /\ \A p \in Nat : a \in TasksOf(p) \/ b \in TasksOf(p) => p = o
      /\ \A p \in Nat : Queued(tasks, TasksOf(p)) => p \in DOMAIN book
  BY <1>1 DEF TasksOf, Typed
<1>7. CASE adapterRunning
  BY <1>1, <1>2, <1>4, <1>5, <1>6, <1>7 DEF Called, u
<1>8. CASE ~adapterRunning
  BY <1>1, <1>3, <1>6, <1>8 DEF Called
<1> QED
  BY <1>7, <1>8

LEMMA BrokerEdits ==
  ASSUME Typed, NEW o \in DOMAIN book,
         BrokerCancel(o) \/ \E q \in 1..book[o].left : BrokerFill(o, q)
  PROVE  \E e \in Orders :
           /\ Edited(o, e) /\ Called(o) /\ Working(o)
           /\ e.state = "working" =>
                /\ e.left # book[o].left
                /\ Queued(tasks', Cancelling(o)) => Queued(tasks, Cancelling(o))
<1>1. /\ o \in Nat /\ book[o] \in Orders /\ book[o].left \in Nat
      /\ book \in Seq(Orders)
  <2>1. book \in Seq(Orders) /\ o \in 1..Len(book)
    BY DEF Typed
  <2>2. book[o] \in Orders /\ o \in Nat
    BY <2>1
  <2> QED
    BY <2>1, <2>2 DEF Orders
<1>2. /\ ExecTask(o) \in Ending(o) /\ ExecTask(o) \notin Cancelling(o)
      /\ StatusTask(o, "Filled") \in TasksOf(o) /\ StatusTask(o, "Cancelled") \in Ending(o)
  BY <1>1 DEF ExecTask, StatusTask, Ending, Cancelling, TasksOf, CallbackTasks
<1>3. CASE BrokerCancel(o)
  <2> DEFINE e == [book[o] EXCEPT !.state = "cancelled"]
  <2>1. e \in Orders /\ book' = [book EXCEPT ![o] = e] /\ Working(o)
    BY <1>1, <1>3 DEF BrokerCancel, Orders
  <2>2. e.intent = book[o].intent /\ e.left <= book[o].left /\ e.state = "cancelled"
    BY <1>1 DEF Orders
  <2> HIDE DEF e
  <2>3. Edited(o, e)
    BY <1>1, <2>1, <2>2, BookEdits
  <2>4. Called(o)
    BY <1>1, <1>2, <1>3, CallbackCalls DEF BrokerCancel
  <2> QED
    BY <2>1, <2>2, <2>3, <2>4
<1>4. ASSUME NEW q \in 1..book[o].left, BrokerFill(o, q), q = book[o].left
      PROVE  \E e \in Orders :
               Edited(o, e) /\ Called(o) /\ Working(o) /\ e.state # "working"
  <2> DEFINE e == [book[o] EXCEPT !.left = 0, !.state = "filled"]
  <2>1. e \in Orders /\ book' = [book EXCEPT ![o] = e] /\ Working(o)
    BY <1>1, <1>4 DEF BrokerFill, Orders
  <2>2. e.intent = book[o].intent /\ e.left <= book[o].left /\ e.state = "filled"
    BY <1>1 DEF Orders
  <2> HIDE DEF e
  <2>3. Edited(o, e)
    BY <1>1, <2>1, <2>2, BookEdits
  <2>4. Called(o)
    BY <1>1, <1>2, <1>4, CallbackCallsTwice DEF BrokerFill
  <2> QED
    BY <2>1, <2>2, <2>3, <2>4
<1>5. ASSUME NEW q \in 1..book[o].left, BrokerFill(o, q), q # book[o].left
      PROVE  \E e \in Orders : 
               /\ Edited(o, e) /\ Called(o) /\ Working(o)
               /\ e.left # book[o].left
               /\ Queued(tasks', Cancelling(o)) => Queued(tasks, Cancelling(o))
  <2> DEFINE e == [book[o] EXCEPT !.left = @ - q]
  <2>1. Working(o) /\ book' = [book EXCEPT ![o] = e] /\ e \in Orders
    <3>1. /\ Working(o) /\ book' = [book EXCEPT ![o].left = @ - q]
          /\ q \in Nat /\ q <= book[o].left
      BY <1>1, <1>5 DEF BrokerFill
    <3>2. book[o].left - q \in Nat
      BY <1>1, <3>1
    <3>3. e \in Orders
      BY <1>1, <3>2 DEF Orders
    <3> QED
      BY <3>1, <3>3
  <2>2. e.intent = book[o].intent /\ e.left <= book[o].left /\ e.left # book[o].left
    BY <1>1, <1>5 DEF Orders
  <2> HIDE DEF e
  <2>3. Edited(o, e)
    BY <1>1, <2>1, <2>2, BookEdits
  <2>4. /\ Called(o)
        /\ Queued(tasks', Cancelling(o)) => Queued(tasks, Cancelling(o))
    BY <1>1, <1>2, <1>5, CallbackCalls DEF BrokerFill
  <2> QED
    BY <2>1, <2>2, <2>3, <2>4
<1> QED
  BY <1>3, <1>4, <1>5
(* A callback task of order o runs: the head of the tasks is gone, and an  *)
(* execution or a cancellation is published.                               *)
TaskRan(o) ==
  /\ bus' \in Seq(Messages) /\ syncMode' = FALSE
  /\ tasks' \in Seq(CallbackTasks)
  /\ \A M : Queued(tasks', M) => Queued(tasks, M)
  /\ \A p \in Nat \ {o} : Queued(tasks, Ending(p)) => Queued(tasks', Ending(p))
  /\ \A p \in Nat : Queued(tasks', TasksOf(p)) => p \in DOMAIN book
  /\ \/ /\ UNCHANGED bus /\ trades' = trades \cup {o}
        /\ Queued(tasks, Ending(o)) => Queued(tasks', Ending(o))
     \/ /\ \E x \in Ended(o) : Added(x)
        /\ Queued(tasks, Ending(o))
        /\ trades' = trades \/ (trades' = trades \ {o} /\ Queued(tasks, Cancelling(o)))
  /\ UNCHANGED <<adapterRunning, book, adapterHistory>>

LEMMA TaskRuns ==
  ASSUME Typed, RunStatusTask \/ RunExecTask
  PROVE  \E o \in DOMAIN book : TaskRan(o)
<1>1. tasks \in Seq(CallbackTasks) /\ tasks # <<>> /\ tasks' = Tail(tasks)
  BY DEF Typed, RunStatusTask, RunExecTask
<1> DEFINE t == Head(tasks)
           o == t.order
<1>2. t \in CallbackTasks /\ t = tasks[1] /\ 1 \in DOMAIN tasks
  BY <1>1
<1>3. /\ tasks' \in Seq(CallbackTasks)
      /\ \A M : /\ Queued(tasks', M) => Queued(tasks, M)
                /\ Queued(tasks, M) => Queued(tasks', M) \/ t \in M
                /\ t \in M => Queued(tasks, M)
  <2>1. \A M : t \in M => Queued(tasks, M)
    BY <1>2 DEF Queued
  <2> QED
    BY <1>1, <2>1, TailKeeps
<1>4. o \in Nat /\ t \in TasksOf(o) /\ \A p \in Nat \ {o} : t \notin Ending(p)
  BY <1>2 DEF CallbackTasks, TasksOf, Ending
<1>5. o \in DOMAIN book /\ book[o] \in Orders
  <2>1. o \in DOMAIN book
    BY <1>3, <1>4 DEF Typed
  <2> QED
    BY <2>1 DEF Typed
<1>6. book[o].intent \in Intents
  BY <1>5 DEF Orders
<1>7. /\ \A p \in Nat \ {o} : Queued(tasks, Ending(p)) => Queued(tasks', Ending(p))
      /\ \A p \in Nat : Queued(tasks', TasksOf(p)) => p \in DOMAIN book
  BY <1>3, <1>4 DEF Typed
<1>8. UNCHANGED <<adapterRunning, book, adapterHistory>>
  BY DEF RunStatusTask, RunExecTask
<1>9. CASE RunExecTask
  <2> DEFINE x == Filled(book[o].intent, o)
  <2>1. x \in Messages /\ x \in Ended(o)
    BY <1>4, <1>6 DEF Filled, Event, Ended, Messages
  <2>2. Added(x) /\ trades' = trades
    BY <1>9, <2>1, PostAdds DEF RunExecTask
  <2>3. Queued(tasks, Ending(o))
    BY <1>2, <1>3, <1>4, <1>9 DEF RunExecTask, Ending
  <2> HIDE DEF x
  <2> QED
    BY <1>3, <1>5, <1>7, <1>8, <2>1, <2>2, <2>3 DEF TaskRan, Added
<1>10. CASE RunStatusTask /\ t.status = "Cancelled"
  <2> DEFINE x == Cancelled(book[o].intent, o)
  <2>1. x \in Messages /\ x \in Ended(o)
    BY <1>4, <1>6 DEF Cancelled, Event, Ended, Messages
  <2>2. Added(x) /\ trades' = trades \ {o}
    BY <1>10, <2>1, PostAdds DEF RunStatusTask
  <2>3. Queued(tasks, Ending(o)) /\ Queued(tasks, Cancelling(o))
    BY <1>2, <1>3, <1>4, <1>10 DEF Ending, Cancelling
  <2> HIDE DEF x
  <2> QED
    BY <1>3, <1>5, <1>7, <1>8, <2>1, <2>2, <2>3 DEF TaskRan, Added
<1>11. CASE RunStatusTask /\ t.status # "Cancelled"
  <2>1. UNCHANGED busVars /\ trades' = trades \cup {o} /\ t.kind = "status"
    BY <1>11 DEF RunStatusTask
  <2>2. t \notin Ending(o)
    BY <1>11, <2>1 DEF Ending
  <2> QED
    BY <1>3, <1>5, <1>7, <1>8, <2>1, <2>2 DEF TaskRan, busVars, Typed
<1> QED
  BY <1>9, <1>10, <1>11

-----------------------------------------------------------------------------
(* Types are kept.                                                         *)

LEMMA TypedInit ==
  ASSUME Live, Init
  PROVE  Typed
<1>1. bus = <<>> /\ tasks = <<>> /\ book = <<>> /\ syncMode = FALSE
  BY DEF Live, Init, BusInit, AdapterInit
<1>2. bus \in Seq(Messages) /\ tasks \in Seq(CallbackTasks) /\ book \in Seq(Orders)
  BY <1>1
<1>3. \A o \in Nat : ~Queued(tasks, TasksOf(o))
  BY <1>1 DEF Queued
<1> QED
  BY <1>1, <1>2, <1>3 DEF Init, EngineInit, Typed

(* The steps of the two components, one by one, but for those that only    *)
(* sync_mode has.                                                          *)
EngineTakes(i, o) ==
  /\ \/ ApprovedIgnored(i) \/ ApprovedThrottled(i) \/ ApprovedRequested(i)
     \/ ApprovedTimedOut(i) \/ OnSubmitted(i, o) \/ OnOrderOver(i, o)
  /\ UNCHANGED adapterVars

EngineRuns(i) ==
  /\ Retry(i) \/ RetryNotNeeded(i) \/ Approve(i)
  /\ UNCHANGED adapterVars

EngineControlled ==
  /\ EngineStart \/ EngineStop \/ \E s \in Symbols : ThrottleElapsed(s)
  /\ UNCHANGED adapterVars

AdapterTakes(i) == AdapterHandler(i) /\ UNCHANGED engineVars

AdapterRuns ==
  /\ RunStatusTask \/ RunExecTask \/ AdapterStop \/ AdapterStart
  /\ UNCHANGED engineVars

BrokerRuns(o) ==
  /\ BrokerCancel(o) \/ \E q \in 1..book[o].left : BrokerFill(o, q)
  /\ UNCHANGED engineVars

LEMMA Steps ==
  ASSUME Typed, [Next]_vars
  PROVE  \/ \E i \in Intents, o \in DOMAIN book \cup {None} : EngineTakes(i, o)
         \/ \E i \in Intents : EngineRuns(i) \/ AdapterTakes(i)
         \/ EngineControlled \/ AdapterRuns
         \/ \E o \in DOMAIN book : BrokerRuns(o)
         \/ UNCHANGED vars
<1>1. ASSUME NEW i \in Intents, ApprovedRequestedSync(i) \/ ReturnFromRequest(i)
      PROVE  FALSE
  <2>1. CASE ApprovedRequestedSync(i)
    BY <2>1 DEF ApprovedRequestedSync, Typed
  <2>2. CASE ReturnFromRequest(i)
    <3>1. Return(i) \in Messages
      BY <2>2, HandleTakes DEF ReturnFromRequest, Taken
    <3> QED
      BY <3>1 DEF Return, Event, Messages
  <2> QED
    BY <1>1, <2>1, <2>2
<1>2. ASSUME HandlerStep
      PROVE  \/ \E i \in Intents, o \in DOMAIN book \cup {None} : EngineTakes(i, o)
             \/ \E i \in Intents : AdapterTakes(i)
  BY <1>1, <1>2 DEF HandlerStep, EngineHandler, OnApproved, EngineTakes, AdapterTakes
<1> QED
  BY <1>2 DEF Next, RetryStep, TaskStep, RetryTask, AdapterTask, Broker, EngineControl,
     EngineRuns, EngineControlled, AdapterRuns, BrokerRuns
LEMMA TypedStep ==
  ASSUME Live, Typed, [Next]_vars
  PROVE  Typed'
<1>1. ASSUME NEW i \in Intents, NEW o \in DOMAIN book \cup {None}, EngineTakes(i, o)
      PROVE  Typed'
  <2>1. o \in Nat \cup {None} /\ UNCHANGED <<tasks, book>>
    BY <1>1 DEF Typed, EngineTakes, adapterVars
  <2>2. CASE ApprovedIgnored(i) \/ ApprovedTimedOut(i)
    BY <2>1, <2>2, HandleTakes
    DEF ApprovedIgnored, ApprovedTimedOut, engineVars, engineHistory, Typed, Taken
  <2>3. CASE ApprovedThrottled(i)
    BY <2>1, <2>3, HandleAnswers, Kinds
    DEF ApprovedThrottled, engineVars, engineHistory, Typed, Exchanged
  <2>4. CASE ApprovedRequested(i)
    <3>1. bus' \in Seq(Messages) /\ syncMode' = FALSE
      BY <2>4, HandleAnswers, Kinds DEF ApprovedRequested, Exchanged
    <3>2. requests' \in [Intents -> Nat] /\ madeIn' \in [Intents -> Nat] /\ session' = session
      BY <2>4 DEF ApprovedRequested, CountRequest, Typed
    <3>3. pendingRetries' \in [Keys -> Nat] /\ retryTasks' \subseteq Intents
      BY <2>4, EngineAssumption DEF ApprovedRequested, AfterRequest, Typed, Keys
    <3> QED
      BY <2>1, <2>4, <3>1, <3>2, <3>3 DEF ApprovedRequested, Typed
  <2>5. CASE OnSubmitted(i, o)
    <3>1. pendingRetries' \in [Keys -> Nat]
      <4>1. pendingRetries \in [Keys -> Nat]
        BY DEF Typed
      <4>2. pendingRetries' \in {pendingRetries, [pendingRetries EXCEPT ![Key(i)] = 0]}
        BY <2>5 DEF OnSubmitted
      <4> QED
        BY <4>1, <4>2
    <3>2. activeOrders' \subseteq Nat
      BY <2>1, <2>5 DEF OnSubmitted, Typed
    <3> QED
      BY <2>1, <2>5, <3>1, <3>2, HandleTakes DEF OnSubmitted, Typed, Taken
  <2>6. CASE OnOrderOver(i, o)
    BY <2>1, <2>6, HandleTakes DEF OnOrderOver, engineHistory, Typed, Taken
  <2> QED
    BY <1>1, <2>2, <2>3, <2>4, <2>5, <2>6 DEF EngineTakes
<1>2. ASSUME NEW i \in Intents, EngineRuns(i)
      PROVE  Typed'
  <2>1. UNCHANGED <<tasks, book>>
    BY <1>2 DEF EngineRuns, adapterVars
  <2>2. CASE Retry(i)
    <3>1. pendingRetries' \in [Keys -> Nat]
      BY <2>2 DEF Retry, Typed, Keys
    <3>2. requests' \in [Intents -> Nat] /\ retryTasks' \subseteq Intents
      BY <2>2 DEF Retry, RetryDue, Typed
    <3>3. bus' \in Seq(Messages) /\ syncMode' = FALSE
      BY <2>2, PostAdds, Kinds DEF Retry, Added
    <3> QED
      BY <2>1, <2>2, <3>1, <3>2, <3>3 DEF Retry, Typed
  <2>3. CASE RetryNotNeeded(i)
    BY <2>1, <2>3 DEF RetryNotNeeded, RetryDue, busVars, engineHistory, Typed
  <2>4. CASE Approve(i)
    BY <2>1, <2>4, PostAdds, Kinds DEF Approve, Typed, Added
  <2> QED
    BY <1>2, <2>2, <2>3, <2>4 DEF EngineRuns
<1>3. ASSUME EngineControlled
      PROVE  Typed'
  <2>1. CASE EngineStart
    BY <1>3, <2>1
    DEF EngineControlled, EngineStart, busVars, engineHistory, adapterVars, Typed
  <2>2. CASE EngineStop
    <3>1. pendingRetries' \in [Keys -> Nat]
      BY <2>2 DEF EngineStop
    <3>2. UNCHANGED <<bus, syncMode, tasks, book, requests, madeIn>>
      BY <1>3, <2>2 DEF EngineControlled, EngineStop, busVars, adapterVars
    <3>3. /\ engineRunning' \in BOOLEAN /\ session' \in Nat
          /\ activeOrders' \subseteq Nat /\ retryTasks' \subseteq Intents
      <4>1. session \in Nat
        BY DEF Typed
      <4>2. /\ engineRunning' = FALSE /\ activeOrders' = {} /\ retryTasks' = {}
            /\ session' = session + 1
        BY <2>2 DEF EngineStop
      <4>3. session' \in Nat
        BY <4>1, <4>2
      <4>4. engineRunning' \in BOOLEAN
        BY <4>2
      <4> QED
        BY <4>2, <4>3, <4>4
    <3> QED
      BY <3>1, <3>2, <3>3 DEF Typed
  <2>3. ASSUME NEW s \in Symbols, ThrottleElapsed(s)
        PROVE  Typed'
    BY <1>3, <2>3 DEF EngineControlled, ThrottleElapsed, busVars, engineHistory, adapterVars, Typed
  <2> QED
    BY <1>3, <2>1, <2>2, <2>3 DEF EngineControlled
<1>4. ASSUME NEW i \in Intents, AdapterTakes(i)
      PROVE  Typed'
  <2>1. UNCHANGED engineVars
    BY <1>4 DEF AdapterTakes
  <2>2. CASE PlaceOrder(i)
    <3>1. PICK n \in Nat : n = Len(book) + 1 /\ Grown(i, n)
      BY <2>2, AcceptGrows DEF PlaceOrder
    <3>2. Exchanged(Requested(i), Submitted(i, n))
      BY <2>2, <3>1, HandleAnswers, Kinds DEF PlaceOrder
    <3> QED
      BY <2>1, <2>2, <3>1, <3>2 DEF PlaceOrder, Accept, Grown, Exchanged, Typed, engineVars, engineHistory
  <2>3. CASE PlaceOrderTimedOut(i)
    BY <2>1, <2>3, AcceptGrows, HandleTakes
    DEF PlaceOrderTimedOut, Accept, Grown, Taken, Typed, engineVars, engineHistory
  <2>4. CASE PlaceOrderFailed(i)
    BY <2>1, <2>4, HandleTakes
    DEF PlaceOrderFailed, Taken, Typed, engineVars, engineHistory, adapterVars
  <2> QED
    BY <1>4, <2>2, <2>3, <2>4 DEF AdapterTakes, AdapterHandler
<1>5. ASSUME AdapterRuns
      PROVE  Typed'
  <2>1. UNCHANGED engineVars
    BY <1>5 DEF AdapterRuns
  <2>2. CASE RunStatusTask \/ RunExecTask
    <3>1. PICK o \in DOMAIN book : TaskRan(o)
      BY <2>2, TaskRuns
    <3> QED
      BY <2>1, <3>1 DEF TaskRan, Typed, engineVars, engineHistory
  <2>3. CASE AdapterStop \/ AdapterStart
    BY <2>1, <2>3 DEF AdapterStop, AdapterStart, Typed, busVars, engineVars, engineHistory, adapterHistory
  <2> QED
    BY <1>5, <2>2, <2>3 DEF AdapterRuns
<1>6. ASSUME NEW o \in DOMAIN book, BrokerRuns(o)
      PROVE  Typed'
  <2>1. UNCHANGED <<busVars, engineVars>>
    BY <1>6 DEF BrokerRuns, BrokerCancel, BrokerFill
  <2>2. /\ book' \in Seq(Orders) /\ tasks' \in Seq(CallbackTasks)
        /\ \A p \in Nat : Queued(tasks', TasksOf(p)) => p \in DOMAIN book'
    BY <1>6, BrokerEdits DEF BrokerRuns, Edited, Called
  <2> QED
    BY <2>1, <2>2 DEF Typed, busVars, engineVars, engineHistory
<1>7. CASE UNCHANGED vars
  BY <1>7 DEF vars, busVars, engineVars, engineHistory, adapterVars, Typed
<1> QED
  BY <1>1, <1>2, <1>3, <1>4, <1>5, <1>6, <1>7, Steps
-----------------------------------------------------------------------------
(* Signals.  Most steps change nothing that matters to signal i but for    *)
(* taking events off the queue or calling the retry off.                   *)
SignalKept(i) ==
  /\ \A M \in {{Approved(i)}, {Requested(i)}, ReportsOf(i)} :
       /\ Queued(bus', M) => Queued(bus, M)
       /\ Once(bus, M) => Once(bus', M)
  /\ i \in fresh' => i \in fresh
  /\ requests'[i] = requests[i]
  /\ OrdersFor(i)' = OrdersFor(i)
  /\ i \in retryTasks' =>
       /\ i \in retryTasks
       /\ madeIn'[i] = madeIn[i] /\ session' = session /\ engineRunning' = engineRunning
  /\ i \in reported' => i \in reported \/ (requests[i] # 0 /\ pendingRetries'[Key(i)] = 0)
  /\ pendingRetries'[Key(i)] \in {0, pendingRetries[Key(i)]}
  /\ i \in late => i \in late'
  /\ untold \subseteq untold'
  /\ i \in retryTasks' /\ pendingRetries'[Key(i)] > 0 =>
       \A o \in DOMAIN book :
         Queued(bus, {Submitted(i, o)}) => Queued(bus', {Submitted(i, o)})

LEMMA KeptSignal ==
  ASSUME Typed, NEW i \in Intents, SignalInv(i), DupInv(i), SignalKept(i)
  PROVE  SignalInv(i)' /\ DupInv(i)'
<1>1. SignalInv(i)'
  BY DEF SignalInv, SignalKept
<1>2. DupInv(i)'
  <2>1. CASE i \in late \/ OrdersFor(i) \cap untold # {}
    BY <2>1 DEF DupInv, SignalKept
  <2>2. CASE OrderedOnce(i)
    <3>1. OrdersFor(i) \subseteq DOMAIN book
      BY DEF OrdersFor
    <3>2. OrderedOnce(i)'
      BY <2>2, <3>1 DEF OrderedOnce, SignalKept
    <3> QED
      BY <3>2 DEF DupInv
  <2> QED
    BY <2>1, <2>2 DEF DupInv
<1> QED
  BY <1>1, <1>2
SignalKinds(i) == {{Approved(i)}, {Requested(i)}, ReportsOf(i)}

LEMMA KindsOfSignals ==
  ASSUME NEW i \in Intents, NEW j \in Intents, NEW o \in Nat \cup {None}, NEW p \in Nat \cup {None}
  PROVE  /\ Approved(j) = Approved(i) => j = i
         /\ Requested(j) = Requested(i) => j = i
         /\ Submitted(j, o) = Submitted(i, p) => j = i /\ o = p
         /\ Submitted(j, o) \in ReportsOf(i) <=> j = i /\ o # None
         /\ Approved(j) # Requested(i) /\ Approved(j) \notin ReportsOf(i) /\ Approved(j) # Submitted(i, o)
         /\ Requested(j) # Approved(i) /\ Requested(j) \notin ReportsOf(i) /\ Requested(j) # Submitted(i, o)
         /\ Submitted(j, o) # Approved(i) /\ Submitted(j, o) # Requested(i)
<1>1. /\ Approved(j) = Approved(i) => j = i
      /\ Requested(j) = Requested(i) => j = i
      /\ Submitted(j, o) = Submitted(i, p) => j = i /\ o = p
  BY DEF Approved, Requested, Submitted, Event
<1>2. /\ Approved(j).type = "approved" /\ Approved(i).type = "approved"
      /\ Requested(j).type = "requested" /\ Requested(i).type = "requested"
      /\ Submitted(j, o).type = "submitted" /\ Submitted(i, o).type = "submitted"
  BY DEF Approved, Requested, Submitted, Event
<1>3. Submitted(j, o) \in ReportsOf(i) <=> j = i /\ o # None
  BY DEF Submitted, Event, ReportsOf, Messages
<1> QED
  BY <1>1, <1>2, <1>3 DEF ReportsOf

LEMMA EndsNoSignal ==
  ASSUME NEW i \in Intents, NEW o \in Nat \cup {None}, NEW p \in Nat \cup {None}, NEW x \in Ended(o)
  PROVE  (\A M \in SignalKinds(i) : x \notin M) /\ x # Submitted(i, p)
BY DEF Ended, SignalKinds, ReportsOf, Approved, Requested, Submitted, Event

(* Handling an event takes nothing else off the queue.                     *)
LEMMA TakenKeeps ==
  ASSUME NEW i \in Intents, NEW m, Taken(m)
  PROVE  /\ \A M \in SignalKinds(i) :
              (Queued(bus', M) => Queued(bus, M)) /\ (Once(bus, M) => Once(bus', M))
         /\ \A M : m \notin M => (Queued(bus, M) => Queued(bus', M))
BY DEF Taken

LEMMA SignalStep ==
  ASSUME Live, KeysDiffer, Typed, NEW i \in Intents, SignalInv(i), DupInv(i), [Next]_vars
  PROVE  SignalInv(i)' /\ DupInv(i)'
<1> USE DEF SignalKinds
<1>1. ASSUME NEW j \in Intents, NEW o \in DOMAIN book \cup {None}, EngineTakes(j, o)
      PROVE  SignalInv(i)' /\ DupInv(i)'
  <2>1. /\ o \in Nat \cup {None} /\ DOMAIN book \subseteq Nat
        /\ OrdersFor(i)' = OrdersFor(i) /\ untold' = untold
    BY <1>1 DEF Typed, EngineTakes, adapterVars, adapterHistory, OrdersFor
  <2>2. CASE ApprovedIgnored(j) \/ ApprovedTimedOut(j)
    <3>1. Taken(Approved(j)) /\ UNCHANGED engineVars
      BY <2>2, HandleTakes DEF ApprovedIgnored, ApprovedTimedOut
    <3>2. \A p \in DOMAIN book : Approved(j) \notin {Submitted(i, p)}
      BY <2>1, KindsOfSignals
    <3>3. SignalKept(i)
      BY <2>1, <3>1, <3>2, TakenKeeps DEF SignalKept, engineVars, engineHistory
    <3> QED
      BY <3>3, KeptSignal
  <2>3. CASE ApprovedThrottled(j)
    <3>1. Exchanged(Approved(j), Submitted(j, None)) /\ UNCHANGED engineVars
      BY <2>3, HandleAnswers, Kinds DEF ApprovedThrottled
    <3>2. \A p \in DOMAIN book : Approved(j) \notin {Submitted(i, p)}
      BY <2>1, KindsOfSignals
    <3>3. \A M \in SignalKinds(i) : Submitted(j, None) \notin M
      <4>1. /\ Submitted(j, None) # Approved(i) /\ Submitted(j, None) # Requested(i)
            /\ Submitted(j, None) \notin ReportsOf(i)
        BY KindsOfSignals
      <4> QED
        BY <4>1
    <3>4. SignalKept(i)
      BY <2>1, <3>1, <3>2, <3>3 DEF Exchanged, SignalKept, engineVars, engineHistory
    <3> QED
      BY <3>4, KeptSignal
  <2>4. CASE ApprovedRequested(j)
    <3>1. /\ Exchanged(Approved(j), Requested(j))
          /\ UNCHANGED <<fresh, reported, session, late, engineRunning, activeOrders>>
          /\ requests' = [requests EXCEPT ![j] = @ + 1]
          /\ madeIn' = [madeIn EXCEPT ![j] = session]
          /\ engineRunning
          /\ \/ pendingRetries' = pendingRetries /\ retryTasks' = retryTasks
             \/ /\ pendingRetries' = [pendingRetries EXCEPT ![Key(j)] = MaxRetries]
                /\ retryTasks' = retryTasks \cup {j}
      BY <2>4, HandleAnswers, Kinds DEF ApprovedRequested, CountRequest, AfterRequest, MayRequest
    <3>2. CASE j # i
      <4>1. /\ \A p \in DOMAIN book : Approved(j) \notin {Submitted(i, p)}
            /\ \A M \in SignalKinds(i) : Requested(j) \notin M
        BY <2>1, <3>2, KindsOfSignals
      <4>2. requests'[i] = requests[i] /\ madeIn'[i] = madeIn[i]
        BY <3>1, <3>2 DEF Typed
      <4>3. pendingRetries'[Key(i)] = pendingRetries[Key(i)]
        BY <3>1, <3>2 DEF Typed, KeysDiffer, Keys
      <4>4. SignalKept(i)
        BY <2>1, <3>1, <3>2, <4>1, <4>2, <4>3 DEF Exchanged, SignalKept
      <4> QED
        BY <4>4, KeptSignal
    <3>3. CASE j = i
      <4>1. Queued(bus, {Approved(i)}) /\ requests[i] = 0 /\ Once(bus, {Approved(i)})
        BY <3>1, <3>3 DEF Exchanged, SignalInv
      <4>2. /\ OrdersFor(i) = {} /\ i \notin reported /\ i \notin fresh
            /\ ~Queued(bus, {Requested(i)}) /\ Once(bus, {Requested(i)})
        BY <4>1 DEF SignalInv, Once, Queued
      <4>3. ~Queued(bus', {Approved(i)}) /\ Once(bus', {Approved(i)}) /\ Once(bus', {Requested(i)})
        BY <3>1, <3>3, <4>1, <4>2, KindsOfSignals DEF Exchanged
      <4>4. requests'[i] = 1 /\ madeIn'[i] = session
        BY <3>1, <3>3, <4>1 DEF Typed
      <4>5. SignalInv(i)'
        BY <2>1, <3>1, <4>2, <4>3, <4>4 DEF SignalInv
      <4>6. OrderedOnce(i)'
        BY <2>1, <4>2, <4>3 DEF OrderedOnce
      <4> QED
        BY <4>5, <4>6 DEF DupInv
    <3> QED
      BY <3>2, <3>3
  <2>5. CASE OnSubmitted(j, o)
    <3>1. /\ Taken(Submitted(j, o))
          /\ UNCHANGED <<engineRunning, retryTasks, fresh, requests, session, madeIn, late>>
          /\ \/ /\ engineRunning /\ o # None
                /\ pendingRetries' = [pendingRetries EXCEPT ![Key(j)] = 0]
                /\ reported' = reported \cup {j}
             \/ /\ ~engineRunning \/ o = None
                /\ pendingRetries' = pendingRetries /\ reported' = reported
      BY <2>5, HandleTakes DEF OnSubmitted
    <3>2. pendingRetries'[Key(i)] \in {0, pendingRetries[Key(i)]}
      BY <3>1 DEF Typed, Keys
    <3>3. i \in reported' => i \in reported \/ (requests[i] # 0 /\ pendingRetries'[Key(i)] = 0)
      <4>1. SUFFICES ASSUME i \in reported', i \notin reported
                     PROVE  requests[i] # 0 /\ pendingRetries'[Key(i)] = 0
        OBVIOUS
      <4>2. j = i /\ o # None
        BY <3>1, <4>1
      <4>3. Queued(bus, ReportsOf(i))
        BY <2>1, <3>1, <4>2, KindsOfSignals DEF Taken
      <4> QED
        BY <3>1, <4>1, <4>2, <4>3 DEF SignalInv, Typed, Keys
    <3>4. ASSUME i \in retryTasks', pendingRetries'[Key(i)] > 0, NEW p \in DOMAIN book,
                 Queued(bus, {Submitted(i, p)})
          PROVE  Queued(bus', {Submitted(i, p)})
      <4>1. engineRunning /\ p \in Nat /\ p # None
        BY <2>1, <3>1, <3>4, OrderBusAssumption DEF SignalInv
      <4>2. j = i => o = None
        BY <3>1, <3>4, <4>1 DEF Typed, Keys
      <4>3. Submitted(j, o) \notin {Submitted(i, p)}
        BY <2>1, <4>1, <4>2, KindsOfSignals
      <4> QED
        BY <3>1, <3>4, <4>3, TakenKeeps
    <3>5. SignalKept(i)
      BY <2>1, <3>1, <3>2, <3>3, <3>4, TakenKeeps DEF SignalKept
    <3> QED
      BY <3>5, KeptSignal
  <2>6. CASE OnOrderOver(j, o)
    <3>1. PICK m \in {Filled(j, o), Cancelled(j, o)} : Taken(m)
      BY <2>6, HandleTakes DEF OnOrderOver
    <3>2. \A p \in DOMAIN book : m \notin {Submitted(i, p)}
      BY DEF Filled, Cancelled, Submitted, Event
    <3>3. SignalKept(i)
      BY <2>1, <2>6, <3>1, <3>2, TakenKeeps DEF SignalKept, OnOrderOver, engineHistory
    <3> QED
      BY <3>3, KeptSignal
  <2> QED
    BY <1>1, <2>2, <2>3, <2>4, <2>5, <2>6 DEF EngineTakes
<1>2. ASSUME NEW j \in Intents, EngineRuns(j)
      PROVE  SignalInv(i)' /\ DupInv(i)'
  <2>1. OrdersFor(i)' = OrdersFor(i) /\ untold' = untold /\ DOMAIN book \subseteq Nat
    BY <1>2 DEF EngineRuns, adapterVars, adapterHistory, OrdersFor, Typed
  <2>2. CASE Retry(j)
    <3>1. /\ Added(Requested(j)) /\ j \in retryTasks /\ pendingRetries[Key(j)] > 0
          /\ retryTasks' = retryTasks \ {j}
          /\ pendingRetries' = [pendingRetries EXCEPT ![Key(j)] = @ - 1]
          /\ requests' = [requests EXCEPT ![j] = @ + 1]
          /\ late \subseteq late' /\ (bus # <<>> => j \in late')
          /\ UNCHANGED <<engineRunning, fresh, reported, session, madeIn>>
      BY <2>2, PostAdds, Kinds DEF Retry, RetryDue
    <3>2. CASE j # i
      <4>1. \A M \in SignalKinds(i) : Requested(j) \notin M
        BY <3>2, KindsOfSignals
      <4>2. requests'[i] = requests[i]
        BY <3>1, <3>2 DEF Typed
      <4>3. pendingRetries'[Key(i)] = pendingRetries[Key(i)]
        BY <3>1, <3>2 DEF Typed, KeysDiffer, Keys
      <4>4. SignalKept(i)
        BY <2>1, <3>1, <4>1, <4>2, <4>3 DEF Added, SignalKept
      <4> QED
        BY <4>4, KeptSignal
    <3>3. CASE j = i
      <4>1. requests[i] = 1 /\ i \notin fresh /\ ~Queued(bus, {Approved(i)})
        BY <3>1, <3>3 DEF SignalInv
      <4>2. requests'[i] = 2 /\ i \notin retryTasks'
        BY <3>1, <3>3, <4>1 DEF Typed
      <4>3. Once(bus', {Approved(i)}) /\ ~Queued(bus', {Approved(i)})
        BY <3>1, <3>3, <4>1, KindsOfSignals DEF Added, SignalInv
      <4>4. SignalInv(i)'
        BY <3>1, <4>1, <4>2, <4>3 DEF SignalInv
      <4>5. CASE i \in late \/ OrdersFor(i) \cap untold # {} \/ bus # <<>>
        BY <2>1, <3>1, <3>3, <4>4, <4>5 DEF DupInv
      <4>6. CASE OrderedOnce(i) /\ bus = <<>>
        <5>1. \A M : ~Queued(bus, M)
          BY <4>6 DEF Queued
        <5>2. OrdersFor(i) = {}
          BY <3>1, <3>3, <4>6, <5>1 DEF OrderedOnce
        <5>3. Once(bus', {Requested(i)})
          BY <3>1, <3>3, <4>6, <5>1 DEF Added, OrderedOnce
        <5> QED
          BY <2>1, <4>4, <5>2, <5>3 DEF DupInv, OrderedOnce
      <4> QED
        BY <4>5, <4>6 DEF DupInv
    <3> QED
      BY <3>2, <3>3
  <2>3. CASE RetryNotNeeded(j)
    <3>1. SignalKept(i)
      BY <2>1, <2>3 DEF RetryNotNeeded, RetryDue, busVars, engineHistory, SignalKept
    <3> QED
      BY <3>1, KeptSignal
  <2>4. CASE Approve(j)
    <3>1. /\ Added(Approved(j)) /\ j \in fresh /\ fresh' = fresh \ {j}
          /\ UNCHANGED <<engineRunning, pendingRetries, retryTasks, requests,
                         reported, session, madeIn, late>>
      BY <2>4, PostAdds, Kinds DEF Approve
    <3>2. CASE j # i
      <4>1. \A M \in SignalKinds(i) : Approved(j) \notin M
        BY <3>2, KindsOfSignals
      <4>2. SignalKept(i)
        BY <2>1, <3>1, <4>1 DEF Added, SignalKept
      <4> QED
        BY <4>2, KeptSignal
    <3>3. CASE j = i
      <4>1. /\ requests[i] = 0 /\ ~Queued(bus, {Approved(i)})
            /\ OrdersFor(i) = {} /\ i \notin reported /\ i \notin retryTasks
            /\ ~Queued(bus, {Requested(i)}) /\ ~Queued(bus, ReportsOf(i))
        BY <3>1, <3>3 DEF SignalInv
      <4>2. /\ Once(bus', {Approved(i)})
            /\ ~Queued(bus', {Requested(i)}) /\ ~Queued(bus', ReportsOf(i))
        BY <3>1, <3>3, <4>1, KindsOfSignals DEF Added, SignalInv
      <4>3. Once(bus', {Requested(i)})
        BY <4>2 DEF Once, Queued
      <4>4. SignalInv(i)'
        BY <2>1, <3>1, <3>3, <4>1, <4>2 DEF SignalInv
      <4>5. OrderedOnce(i)'
        BY <2>1, <3>1, <4>1, <4>3 DEF OrderedOnce
      <4> QED
        BY <4>4, <4>5 DEF DupInv
    <3> QED
      BY <3>2, <3>3
  <2> QED
    BY <1>2, <2>2, <2>3, <2>4 DEF EngineRuns
<1>3. CASE EngineControlled
  <2>1. OrdersFor(i)' = OrdersFor(i) /\ untold' = untold
    BY <1>3 DEF EngineControlled, adapterVars, adapterHistory, OrdersFor
  <2>2. CASE EngineStart
    <3>1. SignalKept(i)
      BY <2>1, <2>2 DEF EngineStart, busVars, engineHistory, SignalKept, SignalInv
    <3> QED
      BY <3>1, KeptSignal
  <2>3. CASE EngineStop
    <3>1. pendingRetries'[Key(i)] = 0
      BY <2>3 DEF EngineStop, Keys
    <3>2. SignalKept(i)
      BY <2>1, <2>3, <3>1 DEF EngineStop, busVars, SignalKept
    <3> QED
      BY <3>2, KeptSignal
  <2>4. ASSUME NEW s \in Symbols, ThrottleElapsed(s)
        PROVE  SignalInv(i)' /\ DupInv(i)'
    <3>1. SignalKept(i)
      BY <2>1, <2>4 DEF ThrottleElapsed, busVars, engineHistory, SignalKept
    <3> QED
      BY <3>1, KeptSignal
  <2> QED
    BY <1>3, <2>2, <2>3, <2>4 DEF EngineControlled
<1>4. ASSUME NEW j \in Intents, AdapterTakes(j)
      PROVE  SignalInv(i)' /\ DupInv(i)'
  <2>1. UNCHANGED engineVars /\ DOMAIN book \subseteq Nat
    BY <1>4 DEF AdapterTakes, Typed
  <2>2. CASE PlaceOrderFailed(j)
    <3>1. Taken(Requested(j)) /\ UNCHANGED adapterVars
      BY <2>2, HandleTakes DEF PlaceOrderFailed
    <3>2. \A p \in DOMAIN book : Requested(j) \notin {Submitted(i, p)}
      BY <2>1, KindsOfSignals
    <3>3. SignalKept(i)
      BY <2>1, <3>1, <3>2, TakenKeeps
      DEF SignalKept, engineVars, engineHistory, adapterVars, adapterHistory, OrdersFor
    <3> QED
      BY <3>3, KeptSignal
  <2>3. CASE PlaceOrder(j) \/ PlaceOrderTimedOut(j)
    <3>1. PICK n \in Nat : n = Len(book) + 1 /\ Grown(j, n)
      BY <2>3, AcceptGrows DEF PlaceOrder, PlaceOrderTimedOut
    <3>2. \/ Exchanged(Requested(j), Submitted(j, n)) /\ untold' = untold
          \/ Taken(Requested(j)) /\ untold' = untold \cup {n}
      BY <2>3, <3>1, HandleAnswers, HandleTakes, Kinds DEF PlaceOrder, PlaceOrderTimedOut
    <3>3. CASE j # i
      <4>1. OrdersFor(i)' = OrdersFor(i)
        BY <3>1, <3>3 DEF Grown, OrdersFor
      <4>2. /\ \A M \in SignalKinds(i) : Submitted(j, n) \notin M
            /\ \A p \in DOMAIN book : Requested(j) \notin {Submitted(i, p)}
        BY <2>1, <3>3, KindsOfSignals
      <4>3. SignalKept(i)
        BY <2>1, <3>2, <4>1, <4>2 DEF Exchanged, Taken, SignalKept, engineVars, engineHistory
      <4> QED
        BY <4>3, KeptSignal
    <3>4. CASE j = i
      <4>1. OrdersFor(i)' = OrdersFor(i) \cup {n}
        BY <3>1, <3>4 DEF Grown, OrdersFor
      <4>2. Queued(bus, {Requested(i)}) /\ requests[i] # 0
        BY <3>2, <3>4 DEF Exchanged, Taken, SignalInv
      <4>3. SignalInv(i)'
        BY <2>1, <3>2, <3>4, <4>2, KindsOfSignals
        DEF Exchanged, Taken, SignalInv, engineVars, engineHistory
      <4>4. CASE i \in late \/ OrdersFor(i) \cap untold # {} \/ untold' = untold \cup {n}
        BY <2>1, <3>2, <4>1, <4>3, <4>4 DEF DupInv, engineVars, engineHistory
      <4>5. CASE OrderedOnce(i) /\ Exchanged(Requested(j), Submitted(j, n))
        <5>1. OrdersFor(i)' = {n}
          BY <4>1, <4>2, <4>5 DEF OrderedOnce
        <5>2. Once(bus', {Requested(i)}) /\ ~Queued(bus', {Requested(i)})
          BY <3>4, <4>5, KindsOfSignals DEF OrderedOnce, Exchanged
        <5>3. Queued(bus', {Submitted(i, n)})
          BY <3>4, <4>5 DEF Exchanged
        <5>4. OrderedOnce(i)'
          BY <5>1, <5>2, <5>3 DEF OrderedOnce
        <5> QED
          BY <4>3, <5>4 DEF DupInv
      <4> QED
        BY <3>2, <4>4, <4>5 DEF DupInv
    <3> QED
      BY <3>3, <3>4
  <2> QED
    BY <1>4, <2>2, <2>3 DEF AdapterTakes, AdapterHandler
<1>5. CASE AdapterRuns
  <2>1. UNCHANGED engineVars /\ DOMAIN book \subseteq Nat
    BY <1>5 DEF AdapterRuns, Typed
  <2>2. CASE RunStatusTask \/ RunExecTask
    <3>1. PICK o \in DOMAIN book : TaskRan(o)
      BY <2>2, TaskRuns
    <3>2. \/ UNCHANGED bus
          \/ \E x \in Ended(o) : Added(x)
      BY <3>1 DEF TaskRan
    <3>3. \A x \in Ended(o) : \A M \in SignalKinds(i) : x \notin M
      BY <2>1, EndsNoSignal
    <3>4. SignalKept(i)
      BY <2>1, <3>1, <3>2, <3>3
      DEF TaskRan, Added, SignalKept, engineVars, engineHistory, adapterHistory, OrdersFor
    <3> QED
      BY <3>4, KeptSignal
  <2>3. CASE AdapterStop \/ AdapterStart
    <3>1. SignalKept(i)
      BY <2>1, <2>3 DEF AdapterStop, AdapterStart, busVars, SignalKept, engineVars,
         engineHistory, adapterHistory, OrdersFor
    <3> QED
      BY <3>1, KeptSignal
  <2> QED
    BY <1>5, <2>2, <2>3 DEF AdapterRuns
<1>6. ASSUME NEW o \in DOMAIN book, BrokerRuns(o)
      PROVE  SignalInv(i)' /\ DupInv(i)'
  <2>1. UNCHANGED <<busVars, engineVars, adapterHistory>>
    BY <1>6 DEF BrokerRuns, BrokerCancel, BrokerFill
  <2>2. OrdersFor(i)' = OrdersFor(i)
    BY <1>6, BrokerEdits DEF BrokerRuns, Edited, OrdersFor
  <2>3. SignalKept(i)
    BY <2>1, <2>2 DEF SignalKept, busVars, engineVars, engineHistory, adapterHistory
  <2> QED
    BY <2>3, KeptSignal
<1>7. CASE UNCHANGED vars
  <2>1. SignalKept(i)
    BY <1>7 DEF vars, busVars, engineVars, engineHistory, adapterVars, adapterHistory,
       SignalKept, OrdersFor
  <2> QED
    BY <2>1, KeptSignal
<1> QED
  BY <1>1, <1>2, <1>3, <1>4, <1>5, <1>6, <1>7, Steps
-----------------------------------------------------------------------------
FlowInv == Typed /\ \A i \in Intents : SignalInv(i) /\ DupInv(i)

LEMMA FlowInit ==
  ASSUME Live, Init
  PROVE  FlowInv
<1>1. Typed
  BY TypedInit
<1>2. /\ bus = <<>> /\ book = <<>> /\ requests = [i \in Intents |-> 0]
      /\ retryTasks = {} /\ reported = {}
  BY DEF Init, BusInit, EngineInit, AdapterInit
<1>3. \A M : ~Queued(bus, M) /\ Once(bus, M)
  BY <1>2 DEF Queued, Once
<1>4. \A i \in Intents : OrdersFor(i) = {}
  <2>1. \A o \in DOMAIN book : FALSE
    BY <1>2
  <2> QED
    BY <2>1 DEF OrdersFor
<1>5. \A i \in Intents : SignalInv(i) /\ OrderedOnce(i)
  BY <1>2, <1>3, <1>4 DEF SignalInv, OrderedOnce
<1> QED
  BY <1>1, <1>5 DEF FlowInv, DupInv

LEMMA FlowHolds ==
  ASSUME Live, KeysDiffer
  PROVE  Spec => []FlowInv
<1>1. Init => FlowInv
  BY FlowInit
<1>2. FlowInv /\ [Next]_vars => FlowInv'
  <2>1. SUFFICES ASSUME FlowInv, [Next]_vars
                 PROVE  FlowInv'
    OBVIOUS
  <2>2. Typed'
    BY <2>1, TypedStep DEF FlowInv
  <2>3. ASSUME NEW i \in Intents
        PROVE  SignalInv(i)' /\ DupInv(i)'
    BY <2>1, SignalStep DEF FlowInv
  <2> QED
    BY <2>2, <2>3 DEF FlowInv
<1> QED
  BY <1>1, <1>2, PTL DEF Spec

(* While no two signals share their retry entry, an order request is       *)
(* repeated once at most, by the session that made it and only while the   *)
(* engine was not told the order id: _retry_pending_order sleeps and looks *)
(* its key up again, and nothing that happens meanwhile defeats the check. *)
THEOREM RetriesStop ==
  ASSUME Live, KeysDiffer
  PROVE  Spec => OneRetryUntilReported
<1>1. ASSUME FlowInv, [Next]_vars, NEW i \in Intents, requests[i] >= 1, requests'[i] > requests[i]
      PROVE  /\ requests'[i] = 2
             /\ madeIn[i] = session /\ engineRunning
             /\ i \notin reported
  <2>1. Typed /\ SignalInv(i) /\ requests[i] \in Nat
    BY <1>1 DEF FlowInv, Typed
  <2>2. ASSUME NEW j \in Intents, ApprovedRequested(j)
        PROVE  FALSE
    <3>1. Exchanged(Approved(j), Requested(j)) /\ requests' = [requests EXCEPT ![j] = @ + 1]
      BY <1>1, <2>1, <2>2, HandleAnswers, Kinds DEF ApprovedRequested, CountRequest
    <3>2. j = i
      BY <1>1, <2>1, <3>1 DEF Typed
    <3> QED
      BY <1>1, <2>1, <3>1, <3>2 DEF Exchanged, SignalInv
  <2>3. ASSUME NEW j \in Intents, Retry(j)
        PROVE  /\ requests'[i] = 2
               /\ madeIn[i] = session /\ engineRunning
               /\ i \notin reported
    <3>1. /\ requests' = [requests EXCEPT ![j] = @ + 1]
          /\ j \in retryTasks /\ pendingRetries[Key(j)] > 0
      BY <2>3 DEF Retry, RetryDue
    <3>2. j = i
      BY <1>1, <2>1, <3>1 DEF Typed
    <3> QED
      BY <2>1, <3>1, <3>2 DEF SignalInv, Typed
  <2>4. CASE UNCHANGED requests
    BY <1>1, <2>1, <2>4
  <2>5. \/ \E j \in Intents : ApprovedRequested(j) \/ Retry(j)
        \/ UNCHANGED requests
    BY <1>1, <2>1, Steps
    DEF EngineTakes, EngineRuns, EngineControlled, AdapterTakes, AdapterRuns, BrokerRuns, vars,
        engineVars, engineHistory, ApprovedIgnored, ApprovedThrottled, ApprovedTimedOut,
        OnSubmitted, OnOrderOver, RetryNotNeeded, Approve, EngineStart, EngineStop,
        ThrottleElapsed
  <2> QED
    BY <2>2, <2>3, <2>4, <2>5
<1>2. FlowInv /\ [Next]_vars =>
        [\A i \in Intents :
           requests[i] >= 1 /\ requests'[i] > requests[i]
             => /\ requests'[i] = 2
                /\ madeIn[i] = session /\ engineRunning
                /\ i \notin reported]_vars
  BY <1>1
<1> QED
  BY <1>2, FlowHolds, PTL DEF Spec, OneRetryUntilReported

(* Nor does the broker get two orders for a signal, unless its retry       *)
(* overtook queued events or the report of an order was lost.              *)
THEOREM NoOrderTwice ==
  ASSUME Live, KeysDiffer
  PROVE  Spec => []RetriesAvoidDuplicates
<1>1. FlowInv => RetriesAvoidDuplicates
  <2>1. SUFFICES ASSUME FlowInv, NEW i \in Intents, OrderedOnce(i)
                 PROVE  Cardinality(OrdersFor(i)) <= 1
    BY DEF FlowInv, DupInv, RetriesAvoidDuplicates
  <2>2. CASE OrdersFor(i) = {}
    BY <2>2, FS_EmptySet
  <2>3. CASE OrdersFor(i) # {}
    <3>1. PICK o \in OrdersFor(i) : OrdersFor(i) = {o}
      BY <2>1, <2>3 DEF OrderedOnce
    <3>2. Cardinality({o}) = 1
      BY FS_Singleton
    <3> QED
      BY <3>1, <3>2
  <2> QED
    BY <2>2, <2>3
<1> QED
  BY <1>1, FlowHolds, PTL
-----------------------------------------------------------------------------
(* Orders.  Most steps change nothing that matters to order o.             *)
TrackKept(o) ==
  /\ o \in DOMAIN book' <=> o \in DOMAIN book
  /\ o \in DOMAIN book => book'[o] = book[o]
  /\ Queued(tasks', Cancelling(o)) => Queued(tasks, Cancelling(o))
  /\ Queued(tasks', Ending(o)) <=> Queued(tasks, Ending(o))
  /\ \A M \in {Told(o), Ended(o)} : Queued(bus', M) <=> Queued(bus, M)
  /\ Once(bus, Told(o)) => Once(bus', Told(o))
  /\ Before(bus, Told(o), Ended(o)) => Before(bus', Told(o), Ended(o))
  /\ o \in activeOrders' <=> o \in activeOrders
  /\ o \in untold' <=> o \in untold
  /\ o \in trades => o \in trades'
  /\ forgotten' = forgotten /\ adapterRunning' = adapterRunning
  /\ session' = session /\ (engineRunning => engineRunning')

LEMMA KeptTrack ==
  ASSUME NEW o, TrackInv(o), TrackKept(o)
  PROVE  TrackInv(o)'
<1>1. Working(o)' <=> Working(o)
  BY DEF Working, TrackKept
<1>2. o \in Unfilled' <=> o \in Unfilled
  BY <1>1 DEF Unfilled, TrackKept
<1>3. KnownInv(o)'
  BY <1>1 DEF TrackInv, KnownInv, TrackKept
<1>4. FutureInv(o)'
  BY DEF TrackInv, FutureInv, TrackKept
<1>5. ToldInv(o)'
  BY DEF TrackInv, ToldInv, TrackKept
<1>6. ActiveInv(o) => ActiveInv(o)'
  BY <1>2 DEF ActiveInv, TrackKept
<1> QED
  BY <1>3, <1>4, <1>5, <1>6 DEF TrackInv, TrackKept

LEMMA KindsOfOrders ==
  ASSUME NEW o \in Nat, NEW p \in Nat \cup {None}, NEW j \in Intents
  PROVE  /\ Approved(j) \notin Told(o) /\ Approved(j) \notin Ended(o)
         /\ Requested(j) \notin Told(o) /\ Requested(j) \notin Ended(o)
         /\ Submitted(j, p) \in Told(o) <=> p = o
         /\ Submitted(j, p) \notin Ended(o)
         /\ Filled(j, p) \notin Told(o) /\ Cancelled(j, p) \notin Told(o)
         /\ Filled(j, p) \in Ended(o) <=> p = o
         /\ Cancelled(j, p) \in Ended(o) <=> p = o
<1>1. /\ Approved(j) \notin Told(o) /\ Approved(j) \notin Ended(o)
      /\ Requested(j) \notin Told(o) /\ Requested(j) \notin Ended(o)
  BY DEF Approved, Requested, Event, Told, Ended
<1>2. /\ Submitted(j, p) \in Told(o) <=> p = o
      /\ Submitted(j, p) \notin Ended(o)
  BY DEF Submitted, Event, Told, Ended, Messages
<1>3. /\ Filled(j, p) \notin Told(o) /\ Cancelled(j, p) \notin Told(o)
      /\ Filled(j, p) \in Ended(o) <=> p = o
      /\ Cancelled(j, p) \in Ended(o) <=> p = o
  BY DEF Filled, Cancelled, Event, Told, Ended, Messages
<1> QED
  BY <1>1, <1>2, <1>3

LEMMA EndsDiffer ==
  ASSUME NEW o, NEW p, NEW x \in Ended(p)
  PROVE  x \notin Told(o) /\ (p # o => x \notin Ended(o))
BY DEF Told, Ended

LEMMA TrackStep ==
  ASSUME Live, Typed, NEW o \in Nat, TrackInv(o), [Next]_vars
  PROVE  TrackInv(o)'
<1> DEFINE K == {Told(o), Ended(o)}
<1>1. ASSUME NEW j \in Intents, NEW p \in DOMAIN book \cup {None}, EngineTakes(j, p)
      PROVE  TrackInv(o)'
  <2>1. p \in Nat \cup {None} /\ UNCHANGED adapterVars /\ None # o
    BY <1>1, OrderBusAssumption DEF Typed, EngineTakes
  <2>2. CASE ApprovedIgnored(j) \/ ApprovedTimedOut(j)
    <3>1. Taken(Approved(j)) /\ UNCHANGED engineVars
      BY <2>2, HandleTakes DEF ApprovedIgnored, ApprovedTimedOut
    <3>2. Approved(j) \notin Told(o) /\ Approved(j) \notin Ended(o)
      BY KindsOfOrders
    <3>3. TrackKept(o)
      BY <2>1, <3>1, <3>2 DEF Taken, TrackKept, engineVars, engineHistory, adapterVars, adapterHistory
    <3> QED
      BY <3>3, KeptTrack
  <2>3. CASE ApprovedThrottled(j)
    <3>1. Exchanged(Approved(j), Submitted(j, None)) /\ UNCHANGED engineVars
      BY <2>3, HandleAnswers, Kinds DEF ApprovedThrottled
    <3>2. /\ Approved(j) \notin Told(o) /\ Approved(j) \notin Ended(o)
          /\ Submitted(j, None) \notin Told(o) /\ Submitted(j, None) \notin Ended(o)
      <4>1. Approved(j) \notin Told(o) /\ Approved(j) \notin Ended(o)
        BY KindsOfOrders
      <4>2. Submitted(j, None).order = None /\ Submitted(j, None).type = "submitted"
        BY DEF Submitted, Event
      <4> QED
        BY <2>1, <4>1, <4>2 DEF Told, Ended
    <3>3. TrackKept(o)
      BY <2>1, <3>1, <3>2 DEF Exchanged, TrackKept, engineVars, engineHistory, adapterVars, adapterHistory
    <3> QED
      BY <3>3, KeptTrack
  <2>4. CASE ApprovedRequested(j)
    <3>1. /\ Exchanged(Approved(j), Requested(j))
          /\ UNCHANGED <<session, engineRunning, activeOrders>>
      BY <2>4, HandleAnswers, Kinds DEF ApprovedRequested, CountRequest
    <3>2. /\ Approved(j) \notin Told(o) /\ Approved(j) \notin Ended(o)
          /\ Requested(j) \notin Told(o) /\ Requested(j) \notin Ended(o)
      BY KindsOfOrders
    <3>3. TrackKept(o)
      BY <2>1, <3>1, <3>2 DEF Exchanged, TrackKept, adapterVars, adapterHistory
    <3> QED
      BY <3>3, KeptTrack
  <2>5. CASE OnSubmitted(j, p)
    <3>1. /\ Taken(Submitted(j, p)) /\ UNCHANGED <<session, engineRunning>>
          /\ IF engineRunning /\ p # None
             THEN activeOrders' = activeOrders \cup {p} ELSE activeOrders' = activeOrders
      BY <2>5, HandleTakes DEF OnSubmitted
    <3>2. CASE p # o
      <4>1. Submitted(j, p) \notin Told(o) /\ Submitted(j, p) \notin Ended(o)
        BY <2>1, <3>2, KindsOfOrders
      <4>2. TrackKept(o)
        BY <2>1, <3>1, <3>2, <4>1 DEF Taken, TrackKept, adapterVars, adapterHistory
      <4> QED
        BY <4>2, KeptTrack
    <3>3. CASE p = o
      <4>1. Submitted(j, p) \in Told(o) /\ Submitted(j, p) \notin Ended(o)
        BY <2>1, <3>3, KindsOfOrders
      <4>2. /\ Queued(bus, Told(o)) /\ ~Queued(bus', Told(o)) /\ Once(bus', Told(o))
            /\ Before(bus', Told(o), Ended(o))
            /\ Queued(bus', Ended(o)) <=> Queued(bus, Ended(o))
        BY <3>1, <4>1 DEF TrackInv, ToldInv, Taken
      <4>3. o \in DOMAIN book /\ o \notin untold
        BY <4>2 DEF TrackInv, FutureInv, ToldInv
      <4>4. KnownInv(o)'
        BY <2>1 DEF TrackInv, KnownInv, Working, adapterVars, adapterHistory
      <4>5. FutureInv(o)' /\ ToldInv(o)'
        BY <2>1, <4>2, <4>3 DEF FutureInv, ToldInv, adapterVars, adapterHistory
      <4>6. ASSUME session = 0, o \notin forgotten
            PROVE  ActiveInv(o)'
        <5>1. ActiveInv(o) /\ o \in activeOrders'
          BY <2>1, <3>1, <3>3, <4>3, <4>6 DEF TrackInv
        <5>2. o \in Unfilled' <=> o \in Unfilled
          BY <2>1 DEF Unfilled, Working, adapterVars
        <5> QED
          BY <2>1, <4>2, <5>1, <5>2 DEF ActiveInv, adapterVars, adapterHistory
      <4> QED
        BY <2>1, <3>1, <4>4, <4>5, <4>6 DEF TrackInv, adapterVars, adapterHistory
    <3> QED
      BY <3>2, <3>3
  <2>6. CASE OnOrderOver(j, p)
    <3>1. PICK m \in {Filled(j, p), Cancelled(j, p)} : Taken(m)
      BY <2>6, HandleTakes DEF OnOrderOver
    <3>2. /\ UNCHANGED <<session, engineRunning>>
          /\ activeOrders' = IF engineRunning THEN activeOrders \ {p} ELSE activeOrders
      BY <2>6 DEF OnOrderOver, engineHistory
    <3>3. m \notin Told(o) /\ (m \in Ended(o) <=> p = o)
      <4>1. CASE m = Filled(j, p)
        BY <2>1, <4>1, KindsOfOrders
      <4>2. CASE m = Cancelled(j, p)
        BY <2>1, <4>2, KindsOfOrders
      <4> QED
        BY <4>1, <4>2
    <3>4. CASE p # o
      <4>1. TrackKept(o)
        BY <2>1, <3>1, <3>2, <3>3, <3>4 DEF Taken, TrackKept, adapterVars, adapterHistory
      <4> QED
        BY <4>1, KeptTrack
    <3>5. CASE p = o
      <4>1. /\ Queued(bus, Ended(o)) /\ ~Queued(bus, Told(o)) /\ ~Queued(bus', Told(o))
            /\ Once(bus', Told(o)) /\ Before(bus', Told(o), Ended(o))
        BY <3>1, <3>3, <3>5 DEF TrackInv, ToldInv, Taken
      <4>2. o \in DOMAIN book
        BY <4>1 DEF TrackInv, FutureInv
      <4>3. KnownInv(o)'
        BY <2>1 DEF TrackInv, KnownInv, Working, adapterVars, adapterHistory
      <4>4. FutureInv(o)' /\ ToldInv(o)'
        BY <2>1, <3>2, <4>1, <4>2 DEF TrackInv, FutureInv, ToldInv, adapterVars, adapterHistory
      <4>5. ASSUME session = 0, o \notin forgotten
            PROVE  ActiveInv(o)'
        <5>1. ActiveInv(o) /\ o \notin activeOrders'
          BY <2>1, <3>2, <3>5, <4>2, <4>5 DEF TrackInv
        <5>2. o \in Unfilled' <=> o \in Unfilled
          BY <2>1 DEF Unfilled, Working, adapterVars
        <5> QED
          BY <4>1, <5>1, <5>2 DEF ActiveInv
      <4> QED
        BY <2>1, <3>2, <4>3, <4>4, <4>5 DEF TrackInv, adapterVars, adapterHistory
    <3> QED
      BY <3>4, <3>5
  <2> QED
    BY <1>1, <2>2, <2>3, <2>4, <2>5, <2>6 DEF EngineTakes
<1>2. ASSUME NEW j \in Intents, EngineRuns(j)
      PROVE  TrackInv(o)'
  <2>1. UNCHANGED adapterVars /\ UNCHANGED <<engineRunning, activeOrders, session>>
    BY <1>2 DEF EngineRuns, Retry, RetryNotNeeded, Approve, engineHistory
  <2>2. \/ Added(Requested(j)) \/ Added(Approved(j)) \/ UNCHANGED bus
    BY <1>2, PostAdds, Kinds DEF EngineRuns, Retry, RetryNotNeeded, Approve, busVars
  <2>3. \A M \in K : Requested(j) \notin M /\ Approved(j) \notin M
    BY KindsOfOrders
  <2>4. TrackKept(o)
    BY <2>1, <2>2, <2>3 DEF Added, TrackKept, adapterVars, adapterHistory
  <2> QED
    BY <2>4, KeptTrack
<1>3. CASE EngineControlled
  <2>1. UNCHANGED adapterVars /\ UNCHANGED bus
    BY <1>3 DEF EngineControlled, EngineStart, EngineStop, ThrottleElapsed, busVars
  <2>2. CASE EngineStop
    <3>1. activeOrders' = {} /\ session' = session + 1 /\ session \in Nat
      BY <2>2 DEF EngineStop, Typed
    <3>2. session' # 0
      BY <3>1
    <3>3. KnownInv(o)' /\ FutureInv(o)' /\ ToldInv(o)'
      BY <2>1, <3>1 DEF TrackInv, KnownInv, FutureInv, ToldInv, Working, adapterVars, adapterHistory
    <3> QED
      BY <2>1, <3>2, <3>3 DEF TrackInv, adapterVars
  <2>3. CASE EngineStart \/ \E s \in Symbols : ThrottleElapsed(s)
    <3>1. UNCHANGED <<activeOrders, session>> /\ (engineRunning => engineRunning')
      BY <2>3 DEF EngineStart, ThrottleElapsed, engineHistory
    <3>2. TrackKept(o)
      BY <2>1, <3>1 DEF TrackKept, adapterVars, adapterHistory
    <3> QED
      BY <3>2, KeptTrack
  <2> QED
    BY <1>3, <2>2, <2>3 DEF EngineControlled
<1>4. ASSUME NEW j \in Intents, AdapterTakes(j)
      PROVE  TrackInv(o)'
  <2>1. UNCHANGED <<activeOrders, session, engineRunning>>
    BY <1>4 DEF AdapterTakes, engineVars, engineHistory
  <2>2. CASE PlaceOrderFailed(j)
    <3>1. Taken(Requested(j)) /\ UNCHANGED adapterVars
      BY <2>2, HandleTakes DEF PlaceOrderFailed
    <3>2. Requested(j) \notin Told(o) /\ Requested(j) \notin Ended(o)
      BY KindsOfOrders
    <3>3. TrackKept(o)
      BY <2>1, <3>1, <3>2 DEF Taken, TrackKept, adapterVars, adapterHistory
    <3> QED
      BY <3>3, KeptTrack
  <2>3. CASE PlaceOrder(j) \/ PlaceOrderTimedOut(j)
    <3>1. PICK n \in Nat : n = Len(book) + 1 /\ Grown(j, n)
      BY <2>3, AcceptGrows DEF PlaceOrder, PlaceOrderTimedOut
    <3>2. /\ trades' = trades \cup {n} /\ adapterRunning
          /\ UNCHANGED <<adapterRunning, tasks, forgotten>>
      BY <2>3, <3>1 DEF PlaceOrder, PlaceOrderTimedOut, Accept
    <3>3. \/ Exchanged(Requested(j), Submitted(j, n)) /\ untold' = untold
          \/ Taken(Requested(j)) /\ untold' = untold \cup {n}
      BY <2>3, <3>1, HandleAnswers, HandleTakes, Kinds DEF PlaceOrder, PlaceOrderTimedOut
    <3>4. /\ Requested(j) \notin Told(o) /\ Requested(j) \notin Ended(o)
          /\ Submitted(j, n) \in Told(o) <=> n = o
          /\ Submitted(j, n) \notin Ended(o)
      BY <3>1, KindsOfOrders
    <3>5. CASE n # o
      <4>1. TrackKept(o)
        BY <2>1, <3>1, <3>2, <3>3, <3>4, <3>5 DEF Grown, Exchanged, Taken, TrackKept
      <4> QED
        BY <4>1, KeptTrack
    <3>6. CASE n = o
      <4>1. /\ o \notin DOMAIN book /\ o \in DOMAIN book'
            /\ book'[o] = [intent |-> j, left |-> Size[j], state |-> "working"]
        BY <3>1, <3>6 DEF Grown
      <4>2. /\ o \notin activeOrders /\ o \notin untold
            /\ ~Queued(bus, Told(o)) /\ ~Queued(bus, Ended(o))
        BY <4>1 DEF TrackInv, FutureInv
      <4>3. ~Queued(tasks', Cancelling(o)) /\ ~Queued(tasks', Ending(o))
        BY <3>2, <4>1 DEF Typed, Queued, Cancelling, Ending
      <4>4. o \in Unfilled' /\ Size[j] \in Nat
        BY <4>1, OrderBusAssumption DEF Unfilled, Working
      <4>5. /\ ~Queued(bus', Ended(o)) /\ Once(bus', Told(o))
            /\ Before(bus', Told(o), Ended(o))
            /\ o \in untold' <=> ~Queued(bus', Told(o))
        <5>1. Once(bus, Told(o)) /\ Before(bus, Told(o), Ended(o))
          BY DEF TrackInv, ToldInv
        <5> QED
          BY <3>3, <3>4, <3>6, <4>2, <5>1 DEF Exchanged, Taken
      <4>6. KnownInv(o)'
        BY <3>2, <3>6, <4>3 DEF KnownInv
      <4>7. ToldInv(o)' /\ FutureInv(o)' /\ ActiveInv(o)'
        BY <2>1, <4>1, <4>2, <4>3, <4>4, <4>5 DEF ToldInv, FutureInv, ActiveInv
      <4> QED
        BY <2>1, <4>1, <4>4, <4>6, <4>7 DEF TrackInv
    <3> QED
      BY <3>5, <3>6
  <2> QED
    BY <1>4, <2>2, <2>3 DEF AdapterTakes, AdapterHandler
<1>5. CASE AdapterRuns
  <2>1. UNCHANGED <<activeOrders, session, engineRunning>>
    BY <1>5 DEF AdapterRuns, engineVars, engineHistory
  <2>2. CASE RunStatusTask \/ RunExecTask
    <3>1. PICK p \in DOMAIN book : TaskRan(p)
      BY <2>2, TaskRuns
    <3>2. /\ UNCHANGED <<adapterRunning, book, untold, forgotten>> /\ p \in Nat
          /\ \A M : Queued(tasks', M) => Queued(tasks, M)
      BY <3>1 DEF TaskRan, adapterHistory, Typed
    <3>3. UNCHANGED bus \/ \E x \in Ended(p) : Added(x)
      BY <3>1 DEF TaskRan
    <3>4. CASE p # o
      <4>1. \A x \in Ended(p) : x \notin Told(o) /\ x \notin Ended(o)
        BY <3>4, EndsDiffer
      <4>2. Queued(tasks, Ending(o)) => Queued(tasks', Ending(o))
        BY <3>1, <3>4 DEF TaskRan
      <4>3. o \in trades => o \in trades'
        BY <3>1, <3>4 DEF TaskRan
      <4>4. TrackKept(o)
        BY <2>1, <3>2, <3>3, <4>1, <4>2, <4>3 DEF Added, TrackKept
      <4> QED
        BY <4>4, KeptTrack
    <3>5. CASE p = o /\ UNCHANGED bus /\ trades' = trades \cup {o}
               /\ (Queued(tasks, Ending(o)) => Queued(tasks', Ending(o)))
      <4>1. TrackKept(o)
        BY <2>1, <3>2, <3>5 DEF TrackKept
      <4> QED
        BY <4>1, KeptTrack
    <3>6. ASSUME p = o, NEW x \in Ended(o), Added(x), Queued(tasks, Ending(o)),
                 trades' = trades \/ (trades' = trades \ {o} /\ Queued(tasks, Cancelling(o)))
          PROVE  TrackInv(o)'
      <4>1. x \notin Told(o) /\ o \in DOMAIN book
        BY <3>1, <3>6, EndsDiffer
      <4>2. /\ Queued(bus', Ended(o))
            /\ Queued(bus', Told(o)) <=> Queued(bus, Told(o))
            /\ Once(bus', Told(o)) /\ Before(bus', Told(o), Ended(o))
        BY <3>6, <4>1 DEF Added, TrackInv, ToldInv
      <4>3. KnownInv(o)'
        BY <3>2, <3>6 DEF TrackInv, KnownInv, Working
      <4>4. FutureInv(o)' /\ ToldInv(o)'
        BY <2>1, <3>2, <4>1, <4>2 DEF TrackInv, FutureInv, ToldInv
      <4>5. ASSUME session = 0, o \notin forgotten
            PROVE  ActiveInv(o)'
        <5>1. o \notin Unfilled
          BY <3>6, <4>1, <4>5 DEF TrackInv, ActiveInv
        <5>2. o \notin Unfilled'
          BY <3>2, <5>1 DEF Unfilled, Working
        <5> QED
          BY <4>2, <5>2 DEF ActiveInv
      <4> QED
        BY <2>1, <3>2, <4>3, <4>4, <4>5 DEF TrackInv
    <3> QED
      BY <3>1, <3>4, <3>5, <3>6 DEF TaskRan
  <2>3. CASE AdapterStop
    <3>1. /\ adapterRunning' = FALSE /\ trades' = {} /\ forgotten' = forgotten \cup trades
          /\ UNCHANGED <<bus, tasks, book, untold>>
      BY <2>3 DEF AdapterStop, busVars
    <3>2. KnownInv(o)' /\ FutureInv(o)' /\ ToldInv(o)'
      BY <2>1, <3>1 DEF TrackInv, KnownInv, FutureInv, ToldInv, Working
    <3>3. ActiveInv(o) => ActiveInv(o)'
      BY <2>1, <3>1 DEF ActiveInv, Unfilled, Working
    <3> QED
      BY <2>1, <3>1, <3>2, <3>3 DEF TrackInv
  <2>4. CASE AdapterStart
    <3>1. /\ adapterRunning' = TRUE
          /\ UNCHANGED <<bus, tasks, book, untold, trades, forgotten>>
      BY <2>4 DEF AdapterStart, busVars, adapterHistory
    <3>2. KnownInv(o)' /\ FutureInv(o)' /\ ToldInv(o)'
      BY <2>1, <3>1 DEF TrackInv, KnownInv, FutureInv, ToldInv, Working
    <3>3. ActiveInv(o) => ActiveInv(o)'
      BY <2>1, <3>1 DEF ActiveInv, Unfilled, Working
    <3> QED
      BY <2>1, <3>1, <3>2, <3>3 DEF TrackInv
  <2> QED
    BY <1>5, <2>2, <2>3, <2>4 DEF AdapterRuns
<1>6. ASSUME NEW p \in DOMAIN book, BrokerRuns(p)
      PROVE  TrackInv(o)'
  <2>1. /\ UNCHANGED <<activeOrders, session, engineRunning, bus>>
        /\ UNCHANGED <<adapterRunning, trades, untold, forgotten>>
    BY <1>6 DEF BrokerRuns, BrokerCancel, BrokerFill, busVars, engineVars, engineHistory, adapterHistory
  <2>2. PICK e \in Orders :
          /\ Edited(p, e) /\ Called(p) /\ Working(p)
          /\ e.state = "working" =>
               /\ e.left # book[p].left
               /\ Queued(tasks', Cancelling(p)) => Queued(tasks, Cancelling(p))
    BY <1>6, BrokerEdits DEF BrokerRuns
  <2>3. CASE p # o
    <3>1. \A t \in TasksOf(p) : t \notin Ending(o) /\ t \notin Cancelling(o)
      BY <2>3 DEF TasksOf, Ending, Cancelling
    <3>2. TrackKept(o)
      BY <2>1, <2>2, <2>3, <3>1 DEF Edited, Called, TrackKept
    <3> QED
      BY <3>2, KeptTrack
  <2>4. CASE p = o
    <3>1. /\ o \in DOMAIN book /\ o \in DOMAIN book' /\ book'[o] = e
          /\ e.intent = book[o].intent /\ e.left <= book[o].left
      BY <2>2, <2>4 DEF Edited
    <3>2. KnownInv(o)'
      BY <2>1, <2>2, <2>4, <3>1 DEF TrackInv, KnownInv, Working
    <3>3. FutureInv(o)' /\ ToldInv(o)'
      BY <2>1, <3>1 DEF TrackInv, FutureInv, ToldInv
    <3>4. /\ book[o].left \in Nat /\ e.left \in Nat /\ Size[e.intent] \in Nat
          /\ book[o].left <= Size[e.intent]
      <4>1. book[o] \in Orders
        BY <3>1 DEF Typed
      <4> QED
        BY <3>1, <4>1, OrderBusAssumption DEF TrackInv, Orders
    <3>5. book'[o].left <= Size[book'[o].intent]
      BY <3>1, <3>4
    <3>6. o \notin Unfilled'
      <4>1. e.state = "working" => e.left # Size[e.intent]
        BY <2>2, <2>4, <3>1, <3>4
      <4> QED
        BY <3>1, <4>1 DEF Unfilled, Working
    <3>7. ASSUME session = 0, o \notin forgotten
          PROVE  ActiveInv(o)'
      <4>1. adapterRunning
        BY <2>2, <2>4, <3>7 DEF TrackInv, KnownInv
      <4> QED
        BY <2>2, <2>4, <3>6, <4>1 DEF ActiveInv, Called
    <3> QED
      BY <2>1, <3>2, <3>3, <3>5, <3>7 DEF TrackInv
  <2> QED
    BY <2>3, <2>4
<1>7. CASE UNCHANGED vars
  <2>1. TrackKept(o)
    BY <1>7 DEF vars, busVars, engineVars, engineHistory, adapterVars, adapterHistory, TrackKept
  <2> QED
    BY <2>1, KeptTrack
<1> QED
  BY <1>1, <1>2, <1>3, <1>4, <1>5, <1>6, <1>7, Steps
-----------------------------------------------------------------------------
LEMMA TrackInit ==
  ASSUME Live, Init, NEW o \in Nat
  PROVE  TrackInv(o)
<1>1. /\ bus = <<>> /\ book = <<>> /\ tasks = <<>> /\ activeOrders = {} /\ untold = {}
      /\ engineRunning = TRUE
  BY DEF Init, BusInit, EngineInit, AdapterInit
<1>2. \A M, N : /\ ~Queued(bus, M) /\ ~Queued(tasks, M)
                /\ Once(bus, M) /\ Before(bus, M, N)
  BY <1>1 DEF Queued, Once, Before
<1>3. o \notin DOMAIN book
  BY <1>1
<1> QED
  BY <1>1, <1>2, <1>3 DEF TrackInv, KnownInv, FutureInv, ToldInv, Working

(* Whenever nothing is in flight the engine's active orders are the        *)
(* broker's unfilled ones, but for orders whose report was lost or whose   *)
(* trade a stop dropped, and the adapter always knows the working ones: no *)
(* order of reports, fills, cancellations and stops loses or invents one.  *)
THEOREM OrdersKnown ==
  ASSUME Live
  PROVE  Spec => []OrdersTracked
<1> DEFINE Inv == Typed /\ \A o \in Nat : TrackInv(o)
<1>1. Init => Inv
  BY TypedInit, TrackInit
<1>2. Inv /\ [Next]_vars => Inv'
  <2>1. SUFFICES ASSUME Inv, [Next]_vars
                 PROVE  Inv'
    OBVIOUS
  <2>2. ASSUME NEW o \in Nat
        PROVE  TrackInv(o)'
    BY <2>1, TrackStep
  <2> QED
    BY <2>1, <2>2, TypedStep
<1>3. Inv => OrdersTracked
  <2>1. SUFFICES ASSUME Inv
                 PROVE  OrdersTracked
    OBVIOUS
  <2>2. DOMAIN book \subseteq Nat /\ activeOrders \subseteq Nat
    BY <2>1 DEF Typed
  <2>3. WorkingOrdersTracked
    BY <2>1, <2>2 DEF WorkingOrdersTracked, TrackInv, KnownInv
  <2>4. ASSUME session = 0, Quiet, NEW o \in Nat \ forgotten
        PROVE  o \in activeOrders <=> o \in Unfilled \ untold
    <3>1. TrackInv(o)
      BY <2>1
    <3>2. \A M : ~Queued(bus, M) /\ ~Queued(tasks, M)
      BY <2>4 DEF Quiet, Queued
    <3>3. CASE o \in DOMAIN book
      BY <2>4, <3>1, <3>2, <3>3 DEF TrackInv, ActiveInv, ToldInv
    <3>4. CASE o \notin DOMAIN book
      BY <3>1, <3>4 DEF TrackInv, FutureInv, Unfilled
    <3> QED
      BY <3>3, <3>4
  <2>5. Unfilled \subseteq Nat
    BY <2>2 DEF Unfilled
  <2>6. ActiveOrdersExact
    BY <2>2, <2>4, <2>5 DEF ActiveOrdersExact
  <2> QED
    BY <2>3, <2>6 DEF OrdersTracked
<1> QED
  BY <1>1, <1>2, <1>3, PTL DEF Spec
=============================================================================
