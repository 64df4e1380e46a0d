----------------------------- MODULE BrokerProofs -----------------------------
(***************************************************************************)
(* The broker's side, for any constants. IBKRClient runs one reconnect     *)
(* loop at most, the one _reconnect_task names, and claims no connection   *)
(* whose socket is gone. MarketDataFeed publishes every update once and in *)
(* order unless a task was overtaken, and its bars summarize their ticks.  *)
(***************************************************************************)
EXTENDS IBKRClient, MarketDataFeed, SequenceTheorems, TLAPS

Places == {"none", "top", "sleep", "dialing", "telling", "giving up"}

Types ==
  /\ link \in {"down", "half", "up"}
  /\ running \in BOOLEAN /\ connected \in BOOLEAN /\ handle \in BOOLEAN
  /\ handlers \in Nat
  /\ loops \in [Loops -> Places]
  /\ task \in Loops \cup {0}

(* A loop that is there is the one _reconnect_task names, in a client that *)
(* runs: Notice starts one only while the task is none, and disconnect(),  *)
(* which stops the client, cancels the one that is named.                  *)
LoopIsTask == \A k \in Loops : loops[k] # "none" => task = k /\ running

(* A client that runs has a handler on the event, so every loss of an open *)
(* link runs NoteLoss; a client that does not claims no connection.        *)
RunningHears ==
  /\ running \/ handle => handlers > 0
  /\ connected => running

IInv == Types /\ LoopIsTask /\ RunningHears /\ NoPhantomConnection

-----------------------------------------------------------------------------
LEMMA InitInv == Init => IInv
<1> SUFFICES ASSUME Init PROVE IInv
  OBVIOUS
<1>1. ~running /\ ~connected /\ ~handle /\ handlers = 0
  BY DEF Init
<1>2. running \in BOOLEAN /\ connected \in BOOLEAN /\ handle \in BOOLEAN
  BY DEF Init
<1>3. link = "down" /\ task = 0 /\ loops \in [Loops -> Places]
  BY DEF Init, Places
<1>4. \A k \in Loops : loops[k] = "none"
  BY DEF Init
<1> QED
  BY <1>1, <1>2, <1>3, <1>4 DEF IInv, Types, LoopIsTask, RunningHears,
     NoPhantomConnection

(* Closing the link, together with the first line of the handlers' tasks,  *)
(* leaves no connection claimed.                                           *)
LEMMA CloseClears ==
  ASSUME IInv, Closed(handlers), NoteLoss
  PROVE  link' = "down" /\ connected' = FALSE
<1>1. ~(connected /\ (link = "down" \/ handlers = 0))
  BY DEF IInv, Types, RunningHears, NoPhantomConnection
<1> QED
  BY <1>1 DEF Closed, NoteLoss

(* The application's calls and what happens to the link.                   *)
LEMMA OutsideStep ==
  ASSUME IInv, Connect \/ Disconnect \/ LinkDrops \/ Handshake
  PROVE  IInv'
<1>1. CASE Connect
  <2>1. handlers' \in Nat /\ handlers' > 0
    BY <1>1 DEF IInv, Types, Connect, SetupHandlers
  <2> QED
    BY <1>1, <2>1 DEF IInv, Types, Places, LoopIsTask, RunningHears,
       NoPhantomConnection, Connect, SetupHandlers
<1>2. CASE Disconnect
  <2>1. handlers' \in Nat
    BY <1>2 DEF IInv, Types, RunningHears, Disconnect
  <2>2. link' = "down" /\ connected' = FALSE /\ running' = FALSE /\ handle' = FALSE
    BY <1>2 DEF Disconnect, Closed
  <2>3. \A k \in Loops : loops'[k] = "none"
    BY <1>2 DEF IInv, LoopIsTask, Disconnect
  <2>4. loops' \in [Loops -> Places] /\ task' = 0
    BY <1>2 DEF IInv, Types, Places, Disconnect
  <2> QED
    BY <2>1, <2>2, <2>3, <2>4 DEF IInv, Types, LoopIsTask, RunningHears,
       NoPhantomConnection
<1>3. CASE LinkDrops
  <2>1. link' = "down" /\ connected' = FALSE
    BY <1>3, CloseClears DEF LinkDrops
  <2> QED
    BY <1>3, <2>1 DEF IInv, Types, LoopIsTask, RunningHears, NoPhantomConnection,
       LinkDrops
<1>4. CASE Handshake
  BY <1>4 DEF IInv, Types, LoopIsTask, RunningHears, NoPhantomConnection, Handshake
<1> QED
  BY <1>1, <1>2, <1>3, <1>4

(* A notice starts a loop only while _reconnect_task names none: then none *)
(* is there.                                                               *)
LEMMA NoticeStep ==
  ASSUME IInv, Notice
  PROVE  IInv'
<1>1. CASE running /\ task = 0
  <2>1. PICK k \in Loops : loops' = [loops EXCEPT ![k] = "top"] /\ task' = k
    BY <1>1 DEF Notice
  <2>2. \A j \in Loops : loops[j] = "none"
    BY <1>1 DEF IInv, LoopIsTask, Loops
  <2>3. loops' \in [Loops -> Places]
    BY <2>1 DEF IInv, Types, Places
  <2>4. \A j \in Loops : loops'[j] # "none" => task' = j /\ running'
    BY <1>1, <2>1, <2>2 DEF IInv, Types, Notice
  <2> QED
    BY <2>1, <2>3, <2>4 DEF IInv, Types, LoopIsTask, RunningHears,
       NoPhantomConnection, Notice
<1>2. CASE ~(running /\ task = 0)
  BY <1>2 DEF IInv, Types, LoopIsTask, RunningHears, NoPhantomConnection, Notice
<1> QED
  BY <1>1, <1>2

(* The heartbeat claims a connection only for a socket it has looked at.   *)
LEMMA HeartbeatStep ==
  ASSUME IInv, Heartbeat
  PROVE  IInv'
BY DEF IInv, Types, LoopIsTask, RunningHears, NoPhantomConnection, Heartbeat

(* Moving a loop, or ending it, leaves it the only one there is.           *)
LEMMA MoveKeepsLoop ==
  ASSUME IInv, NEW k \in Loops, loops[k] # "none", running' = running,
         NEW place \in Places, MoveTo(k, place),
         task' = task \/ (place = "none" /\ task' = 0)
  PROVE  /\ loops' \in [Loops -> Places]
         /\ task' \in Loops \cup {0}
         /\ LoopIsTask'
BY DEF IInv, Types, LoopIsTask, MoveTo

(* Each step of the reconnect loop: those that close the link claim no     *)
(* connection, and the one that succeeds has a handler set up.             *)
LEMMA LoopKeeps ==
  ASSUME IInv, NEW k \in Loops, LoopStep(k)
  PROVE  IInv'
<1>1. CASE LoopTop(k)
  <2>1. /\ loops' \in [Loops -> Places]
        /\ task' \in Loops \cup {0}
        /\ LoopIsTask'
    <3>1. CASE running /\ ~connected
      BY <1>1, <3>1, MoveKeepsLoop DEF LoopTop, Places
    <3>2. CASE ~(running /\ ~connected)
      BY <1>1, <3>2, MoveKeepsLoop DEF LoopTop, End, Places
    <3> QED
      BY <3>1, <3>2
  <2> QED
    BY <1>1, <2>1 DEF IInv, Types, RunningHears, NoPhantomConnection, LoopTop
<1>2. CASE Dial(k)
  <2>1. link' = "down" /\ connected' = FALSE
    BY <1>2, CloseClears DEF Dial
  <2>2. /\ loops' \in [Loops -> Places]
        /\ task' \in Loops \cup {0}
        /\ LoopIsTask'
    BY <1>2, MoveKeepsLoop DEF Dial, Places
  <2> QED
    BY <1>2, <2>1, <2>2 DEF IInv, Types, RunningHears, NoPhantomConnection, Dial
<1>3. CASE DialSucceeds(k)
  <2>1. running
    BY <1>3 DEF IInv, LoopIsTask, DialSucceeds
  <2>2. /\ loops' \in [Loops -> Places]
        /\ task' \in Loops \cup {0}
        /\ LoopIsTask'
    BY <1>3, MoveKeepsLoop DEF DialSucceeds, Places
  <2>3. handlers' \in Nat /\ handlers' > 0
    BY <1>3 DEF IInv, Types, DialSucceeds, SetupHandlers
  <2> QED
    BY <1>3, <2>1, <2>2, <2>3 DEF IInv, Types, RunningHears, NoPhantomConnection,
       DialSucceeds, SetupHandlers
<1>4. CASE DialFails(k)
  <2>1. link' = "down" /\ connected' = FALSE
    BY <1>4, CloseClears DEF DialFails
  <2>2. /\ loops' \in [Loops -> Places]
        /\ task' \in Loops \cup {0}
        /\ LoopIsTask'
    BY <1>4, MoveKeepsLoop DEF DialFails, Places
  <2> QED
    BY <1>4, <2>1, <2>2 DEF IInv, Types, RunningHears, NoPhantomConnection, DialFails
<1>5. CASE Told(k)
  <2>1. /\ loops' \in [Loops -> Places]
        /\ task' \in Loops \cup {0}
        /\ LoopIsTask'
    BY <1>5, MoveKeepsLoop DEF Told, Places
  <2> QED
    BY <1>5, <2>1 DEF IInv, Types, RunningHears, NoPhantomConnection, Told
<1>6. CASE GaveUp(k)
  <2>1. /\ loops' \in [Loops -> Places]
        /\ task' \in Loops \cup {0}
        /\ LoopIsTask'
    BY <1>6, MoveKeepsLoop DEF GaveUp, End, Places
  <2> QED
    BY <1>6, <2>1 DEF IInv, Types, RunningHears, NoPhantomConnection, GaveUp
<1> QED
  BY <1>1, <1>2, <1>3, <1>4, <1>5, <1>6 DEF LoopStep

LEMMA StepInv == IInv /\ [Next]_vars => IInv'
<1> SUFFICES ASSUME IInv, [Next]_vars PROVE IInv'
  OBVIOUS
<1>1. CASE UNCHANGED vars
  BY <1>1 DEF vars, IInv, Types, LoopIsTask, RunningHears, NoPhantomConnection
<1>2. CASE Next
  BY <1>2, OutsideStep, NoticeStep, HeartbeatStep, LoopKeeps DEF Next
<1> QED
  BY <1>1, <1>2

LEMMA InvHolds == Spec => []IInv
BY InitInv, StepInv, PTL DEF Spec

-----------------------------------------------------------------------------
(* No two reconnect loops run at once, however many notices of a loss the  *)
(* handlers left behind by earlier connections send.                       *)
THEOREM OneLoop == Spec => []OneReconnectLoop
<1>1. IInv => OneReconnectLoop
  BY DEF IInv, LoopIsTask, OneReconnectLoop
<1> QED
  BY InvHolds, <1>1, PTL

(* The flag connected is never set while the socket is down, whichever of  *)
(* loss, heartbeat and loop wrote it last.                                 *)
THEOREM ConnectionIsReal == Spec => []NoPhantomConnection
<1>1. IInv => NoPhantomConnection
  BY DEF IInv
<1> QED
  BY InvHolds, <1>1, PTL

-----------------------------------------------------------------------------
(* MarketDataFeed. What the variables hold; a task has only tickers to     *)
(* read that have been updated.                                            *)
Jobs == [left : SUBSET Symbols, tick : Ticks \cup {None}]

FeedTypes ==
  /\ aggs \in [Symbols -> Aggregators \cup {None}]
  /\ tickers \in [Symbols -> Quotes \cup {None}]
  /\ tasks \in Seq(Jobs)
  /\ clock \in Nat
  /\ accepted \in [Symbols -> Seq(Nat)]
  /\ sent \in [Symbols -> Seq(Nat)]
  /\ bars \in [Symbols -> Seq(Aggregators)]
  /\ overtaken \in BOOLEAN
  /\ \A k \in DOMAIN tasks : \A s \in tasks[k].left : tickers[s] # None

(* Unless something came while a task waited there is one task at most,    *)
(* and what it still has to publish is all that is missing.                *)
Outstanding(s, w) ==
  IF w.tick # None /\ w.tick.symbol = s
  THEN accepted[s] = Append(sent[s], w.tick.time)
  ELSE IF s \in w.left \cap subs
  THEN accepted[s] = Append(sent[s], tickers[s].time)
  ELSE sent[s] = accepted[s]

InStep ==
  ~overtaken =>
    /\ Len(tasks) <= 1
    /\ tasks = <<>> => \A s \in Symbols : sent[s] = accepted[s]
    /\ tasks # <<>> =>
         /\ \A s \in Symbols : Outstanding(s, tasks[1])
         /\ tasks[1].tick # None =>
              /\ tasks[1].tick.symbol \notin tasks[1].left
              /\ tickers[tasks[1].tick.symbol] # None
              /\ tasks[1].tick.time = tickers[tasks[1].tick.symbol].time

(* Whatever comes next is a bar size or more after the last closed bar:    *)
(* the updates to read, and the bar that is being filled.                  *)
Follows(start, bar) == start - bar.start >= bar.size
Spacing(s) ==
  /\ \A n \in DOMAIN bars[s] : bars[s][n].start # NoStart
  /\ tickers[s] # None => tickers[s].time <= clock
  /\ ~overtaken =>
       /\ bars[s] # <<>> =>
            /\ tickers[s] # None /\ Follows(tickers[s].time, Last(bars[s]))
            /\ aggs[s] # None /\ aggs[s].start # NoStart =>
                 Follows(aggs[s].start, Last(bars[s]))
       /\ \A n \in DOMAIN bars[s] \ {1} : Follows(bars[s][n].start, bars[s][n - 1])
Spaced == \A s \in Symbols : Spacing(s)

FeedInv == FeedTypes /\ InStep /\ Spaced

(* The bars closed and begun summarize their ticks.                        *)
WellMade(agg) ==
  /\ Summarizes(agg)
  /\ agg.start # NoStart => agg.prices # <<>>
  /\ agg.prices \in Seq(Prices)
Summed ==
  \A s \in Symbols :
    /\ aggs[s] # None => WellMade(aggs[s])
    /\ \A n \in DOMAIN bars[s] : WellMade(bars[s][n])

LEMMA NoneApart ==
  /\ None \notin Quotes /\ None \notin Ticks /\ None \notin Aggregators
  /\ Prices \subseteq Nat /\ Steps \subseteq Nat
  /\ BarSizes \subseteq Nat /\ DefaultBarSize \in Nat
BY FeedAssumption

LEMMA TickFields ==
  ASSUME NEW tick \in Ticks
  PROVE  /\ tick.symbol \in Symbols /\ tick.time \in Nat
         /\ tick.price \in Prices /\ tick.price \in Nat /\ tick.volume = 1
BY NoneApart DEF Ticks

LEMMA BarFields ==
  ASSUME NEW agg \in Aggregators
  PROVE  /\ agg.size \in Nat /\ agg.start \in Nat \cup {NoStart}
         /\ agg.open \in Nat /\ agg.high \in Nat /\ agg.low \in Nat
         /\ agg.close \in Nat /\ agg.volume \in Nat /\ agg.prices \in Seq(Nat)
BY DEF Aggregators

LEMMA NewBar ==
  ASSUME NEW size \in Nat
  PROVE  /\ NewAggregator(size) \in Aggregators
         /\ NewAggregator(size).start = NoStart
         /\ WellMade(NewAggregator(size))
<1>1. NewAggregator(size) \in Aggregators
  BY EmptySeq DEF NewAggregator, Aggregators
<1>2. NewAggregator(size).start = NoStart
  BY DEF NewAggregator
<1>3. NewAggregator(size).prices \in Seq(Prices)
  BY EmptySeq DEF NewAggregator
<1> QED
  BY <1>1, <1>2, <1>3 DEF WellMade, Summarizes

LEMMA OpenedBar ==
  ASSUME NEW agg \in Aggregators, NEW tick \in Ticks
  PROVE  /\ Opened(agg, tick) \in Aggregators
         /\ Opened(agg, tick).start = tick.time
         /\ Opened(agg, tick).size = agg.size
         /\ WellMade(Opened(agg, tick))
<1> DEFINE new == Opened(agg, tick)
<1>1. <<tick.price>> \in Seq(Nat) /\ Len(<<tick.price>>) = 1 /\ <<tick.price>>[1] = tick.price
  BY TickFields
<1>2. new = [size |-> agg.size, start |-> tick.time, open |-> tick.price,
             high |-> tick.price, low |-> tick.price, close |-> tick.price,
             volume |-> tick.volume, prices |-> <<tick.price>>]
  BY DEF Opened
<1>3. new \in Aggregators
  BY <1>1, <1>2, TickFields, BarFields DEF Aggregators
<1>4. ToSet(new.prices) = {tick.price} /\ Reached(new.prices) = {1} /\ new.prices[1] = tick.price
  BY <1>1, <1>2 DEF ToSet, Reached
<1>5. Head(new.prices) = tick.price /\ Last(new.prices) = tick.price /\ new.prices # <<>>
  BY <1>1, <1>2 DEF Last
<1> HIDE DEF new
<1>6. /\ new.open = tick.price /\ new.high = tick.price /\ new.low = tick.price
      /\ new.close = tick.price /\ new.volume = 1 /\ new.start = tick.time
      /\ new.size = agg.size /\ Len(new.prices) = 1
  BY <1>1, <1>2, TickFields
<1>7. new.prices \in Seq(Prices)
  BY <1>2, TickFields
<1>8. WellMade(new)
  BY <1>4, <1>5, <1>6, <1>7, TickFields DEF WellMade, Summarizes
<1> QED
  BY <1>3, <1>6, <1>8 DEF new

(* One more tick moves the low the way the ticks it reaches back to move:  *)
(* it is 0 just when the last tick was, and then it starts afresh.         *)
LEMMA LowReaches ==
  ASSUME NEW prices \in Seq(Nat), Len(prices) > 0, NEW low \in Nat, NEW price \in Nat,
         \E n \in Reached(prices) : low = prices[n],
         \A n \in Reached(prices) : low <= prices[n]
  PROVE  LET longer == Append(prices, price)
             new == IF low # 0 THEN Lower(low, price) ELSE price
         IN  /\ \E n \in Reached(longer) : new = longer[n]
             /\ \A n \in Reached(longer) : new <= longer[n]
<1> DEFINE last == Len(prices)
           longer == Append(prices, price)
           new == IF low # 0 THEN Lower(low, price) ELSE price
<1> SUFFICES /\ \E n \in Reached(longer) : new = longer[n]
             /\ \A n \in Reached(longer) : new <= longer[n]
  OBVIOUS
<1>1. /\ last \in Nat \ {0} /\ DOMAIN prices = 1..last
      /\ \A n \in 1..last : prices[n] \in Nat
      /\ DOMAIN longer = 1..last + 1 /\ Len(longer) = last + 1
      /\ longer[last + 1] = price /\ \A n \in 1..last : longer[n] = prices[n]
  BY AppendProperties, LenProperties, ElementOfSeq
<1> HIDE DEF longer
<1>2. /\ Reached(prices) = {n \in 1..last : n = last \/ \A m \in n..last : prices[m] # 0}
      /\ last \in Reached(prices)
  BY <1>1 DEF Reached
<1>3. Reached(longer) =
        {n \in 1..last + 1 : n = last + 1 \/ \A m \in n..last + 1 : longer[m] # 0}
  BY <1>1 DEF Reached
<1>4. last + 1 \in Reached(longer)
  BY <1>1, <1>3
<1>5. low = 0 <=> prices[last] = 0
  BY <1>1, <1>2
<1>6. CASE price # 0 /\ low # 0
  <2>1. Reached(longer) = Reached(prices) \cup {last + 1}
    <3>1. \A n \in 1..last : (\A m \in n..last + 1 : longer[m] # 0)
                             <=> (\A m \in n..last : prices[m] # 0)
      <4> TAKE n \in 1..last
      <4>1. last + 1 \in n..last + 1 /\ n..last + 1 = n..last \cup {last + 1}
        BY <1>1
      <4>2. longer[last + 1] # 0 /\ \A m \in n..last : longer[m] = prices[m]
        BY <1>1, <1>6
      <4> QED
        BY <4>1, <4>2
    <3>2. \A n \in 1..last : n \in Reached(longer) <=> n \in Reached(prices)
      <4> TAKE n \in 1..last
      <4>1. n \in 1..last + 1 /\ n # last + 1
        BY <1>1
      <4>2. n = last => \A m \in n..last : prices[m] # 0
        BY <1>1, <1>5, <1>6
      <4> QED
        BY <1>2, <1>3, <3>1, <4>1, <4>2
    <3>3. /\ \A n \in Reached(prices) : n \in 1..last
          /\ \A n \in Reached(longer) : n \in 1..last \/ n = last + 1
      BY <1>1, <1>2, <1>3
    <3> QED
      BY <1>4, <3>2, <3>3
  <2>2. \A n \in Reached(prices) : longer[n] = prices[n] /\ prices[n] \in Nat
    BY <1>1, <1>2
  <2>3. new = Lower(low, price)
    BY <1>6
  <2> QED
    BY <1>1, <1>4, <2>1, <2>2, <2>3 DEF Lower
<1>7. CASE price = 0 \/ low = 0
  <2>1. longer[last + 1] = 0 \/ longer[last] = 0
    BY <1>1, <1>5, <1>7
  <2>2. Reached(longer) = {last + 1}
    <3>1. \A n \in Reached(longer) : n = last + 1
      BY <1>1, <1>3, <2>1
    <3> QED
      BY <1>4, <3>1
  <2>3. new = price
    BY <1>7 DEF Lower
  <2> QED
    BY <1>1, <2>2, <2>3
<1> QED
  BY <1>6, <1>7

LEMMA ExtendedBar ==
  ASSUME NEW agg \in Aggregators, NEW tick \in Ticks
  PROVE  /\ Extended(agg, tick) \in Aggregators
         /\ Extended(agg, tick).start = agg.start
         /\ Extended(agg, tick).size = agg.size
         /\ WellMade(agg) /\ agg.start # NoStart => WellMade(Extended(agg, tick))
<1> DEFINE new == Extended(agg, tick)
           low == IF agg.low # 0 THEN Lower(agg.low, tick.price) ELSE tick.price
<1>1. new = [size |-> agg.size, start |-> agg.start, open |-> agg.open,
             high |-> Higher(agg.high, tick.price), low |-> low, close |-> tick.price,
             volume |-> agg.volume + tick.volume, prices |-> Append(agg.prices, tick.price)]
  BY DEF Extended
<1>2. Higher(agg.high, tick.price) \in Nat /\ low \in Nat
  BY BarFields, TickFields DEF Higher, Lower
<1>3. /\ Append(agg.prices, tick.price) \in Seq(Nat)
      /\ Len(Append(agg.prices, tick.price)) = Len(agg.prices) + 1
      /\ Append(agg.prices, tick.price)[Len(agg.prices) + 1] = tick.price
      /\ \A n \in 1..Len(agg.prices) : Append(agg.prices, tick.price)[n] = agg.prices[n]
      /\ Len(agg.prices) \in Nat
  BY BarFields, TickFields, AppendProperties, LenProperties
<1>4. new \in Aggregators
  <2>1. agg.volume + tick.volume \in Nat
    BY BarFields, TickFields
  <2> HIDE DEF low, new
  <2> QED
    BY <1>1, <1>2, <1>3, <2>1, BarFields, TickFields DEF Aggregators
<1>5. new.start = agg.start /\ new.size = agg.size
  BY <1>1
<1>6. ASSUME WellMade(agg), agg.start # NoStart PROVE WellMade(new)
  <2> DEFINE prices == ToSet(agg.prices)
  <2>1. ToSet(new.prices) = prices \cup {tick.price}
    <3>1. DOMAIN new.prices = DOMAIN agg.prices \cup {Len(agg.prices) + 1}
      BY <1>1, <1>3, LenProperties, BarFields
    <3>2. \A n \in DOMAIN agg.prices : new.prices[n] = agg.prices[n]
      BY <1>1, <1>3, LenProperties, BarFields
    <3>3. new.prices[Len(agg.prices) + 1] = tick.price
      BY <1>1, <1>3
    <3> HIDE DEF new
    <3> QED
      BY <3>1, <3>2, <3>3 DEF ToSet
  <2>2. /\ agg.prices # <<>> /\ Len(agg.prices) > 0 /\ agg.prices \in Seq(Prices)
        /\ agg.prices \in Seq(Nat)
    BY <1>3, <1>6, BarFields, EmptySeq DEF WellMade
  <2>3. prices \subseteq Prices /\ prices \subseteq Nat
    BY <2>2, ElementOfSeq, LenProperties DEF ToSet
  <2>4. /\ agg.volume = Len(agg.prices) /\ agg.open = Head(agg.prices)
        /\ agg.high \in prices /\ \A p \in prices : p <= agg.high
        /\ \E n \in Reached(agg.prices) : agg.low = agg.prices[n]
        /\ \A n \in Reached(agg.prices) : agg.low <= agg.prices[n]
    BY <1>6 DEF WellMade, Summarizes
  <2>5. new.high \in prices \cup {tick.price} /\ \A p \in prices \cup {tick.price} : p <= new.high
    BY <1>1, <2>3, <2>4, TickFields DEF Higher
  <2>6. /\ \E n \in Reached(new.prices) : low = new.prices[n]
        /\ \A n \in Reached(new.prices) : low <= new.prices[n]
    <3>1. /\ agg.low \in Nat /\ tick.price \in Nat /\ agg.prices \in Seq(Nat)
          /\ new.prices = Append(agg.prices, tick.price)
      BY <1>1, <2>2, BarFields, TickFields
    <3>2. LET longer == Append(agg.prices, tick.price)
          IN  /\ \E n \in Reached(longer) : low = longer[n]
              /\ \A n \in Reached(longer) : low <= longer[n]
      <4> HIDE DEF new, prices
      <4> QED
        BY <2>2, <2>4, <3>1, LowReaches
    <3> HIDE DEF new, prices, low
    <3> QED
      BY <3>1, <3>2
  <2>7. new.low = low
    BY <1>1
  <2>8. Head(new.prices) = Head(agg.prices)
    <3>1. Head(new.prices) = new.prices[1] /\ Head(agg.prices) = agg.prices[1]
      BY <1>1, <1>3, <2>2
    <3> QED
      BY <1>1, <1>3, <2>2, <3>1
  <2>9. Last(new.prices) = tick.price /\ new.close = tick.price /\ new.prices # <<>>
    BY <1>1, <1>3, <2>2, EmptySeq DEF Last
  <2>10. new.volume = Len(new.prices) /\ new.open = agg.open
    BY <1>1, <1>3, <2>4, TickFields
  <2>11. new.prices \in Seq(Prices)
    BY <1>1, <2>2, TickFields, AppendProperties
  <2> HIDE DEF new, prices, low
  <2> QED
    BY <2>1, <2>4, <2>5, <2>6, <2>7, <2>8, <2>9, <2>10, <2>11 DEF WellMade, Summarizes
<1> QED
  BY <1>4, <1>5, <1>6

LEMMA AppendElements ==
  ASSUME NEW S, NEW seq \in Seq(S), NEW elt \in S
  PROVE  \A n \in DOMAIN Append(seq, elt) :
           Append(seq, elt)[n] = elt \/ (n \in DOMAIN seq /\ Append(seq, elt)[n] = seq[n])
<1> DEFINE longer == Append(seq, elt)
<1>1. /\ Len(seq) \in Nat /\ DOMAIN seq = 1..Len(seq) /\ DOMAIN longer = 1..Len(seq) + 1
      /\ longer[Len(seq) + 1] = elt /\ \A n \in 1..Len(seq) : longer[n] = seq[n]
  <2>1. longer \in Seq(S) /\ Len(longer) = Len(seq) + 1
    BY AppendProperties
  <2> QED
    BY <2>1, AppendProperties, LenProperties
<1> HIDE DEF longer
<1>2. \A n \in DOMAIN longer : longer[n] = elt \/ (n \in DOMAIN seq /\ longer[n] = seq[n])
  BY <1>1
<1> QED
  BY <1>2 DEF longer

(* What a tick makes of the bar that is being filled.                      *)
LEMMA AfterTickIs ==
  ASSUME NEW agg \in Aggregators, NEW tick \in Ticks
  PROVE  /\ AfterTick(agg, tick) \in Aggregators
         /\ AfterTick(agg, tick).start =
              IF agg.start = NoStart \/ Closes(agg, tick) THEN tick.time ELSE agg.start
         /\ WellMade(agg) => WellMade(AfterTick(agg, tick))
BY OpenedBar, ExtendedBar DEF AfterTick

(* A task that has ended leaves the others as they are.                    *)
LEMMA RemoveAtIs ==
  ASSUME NEW S, NEW seq \in Seq(S), NEW k \in DOMAIN seq
  PROVE  /\ RemoveAt(seq, k) \in Seq(S)
         /\ Len(RemoveAt(seq, k)) = Len(seq) - 1
         /\ \A m \in DOMAIN RemoveAt(seq, k) : \E n \in DOMAIN seq : RemoveAt(seq, k)[m] = seq[n]
<1> DEFINE front == SubSeq(seq, 1, k - 1)
           back == SubSeq(seq, k + 1, Len(seq))
<1>1. /\ Len(seq) \in Nat /\ k \in 1..Len(seq) /\ DOMAIN seq = 1..Len(seq)
      /\ \A i \in 1..Len(seq) : seq[i] \in S
  BY LenProperties, ElementOfSeq
<1>2. /\ front \in Seq(S) /\ Len(front) = k - 1
      /\ \A i \in 1..k - 1 : front[i] = seq[i]
  <2>1. \A i \in 1..k - 1 : seq[i] \in S
    BY <1>1
  <2>2. /\ front \in Seq(S) /\ Len(front) = (IF 1 <= k - 1 THEN k - 1 - 1 + 1 ELSE 0)
        /\ \A i \in 1..k - 1 - 1 + 1 : front[i] = seq[1 + i - 1]
    BY <1>1, <2>1, SubSeqProperties
  <2> QED
    BY <1>1, <2>2
<1>3. /\ back \in Seq(S) /\ Len(back) = Len(seq) - k
      /\ \A i \in 1..Len(seq) - k : back[i] = seq[k + i]
  <2>1. \A i \in k + 1..Len(seq) : seq[i] \in S
    BY <1>1
  <2>2. /\ back \in Seq(S)
        /\ Len(back) = (IF k + 1 <= Len(seq) THEN Len(seq) - (k + 1) + 1 ELSE 0)
        /\ \A i \in 1..Len(seq) - (k + 1) + 1 : back[i] = seq[k + 1 + i - 1]
    BY <1>1, <2>1, SubSeqProperties
  <2>3. Len(seq) - (k + 1) + 1 = Len(seq) - k
    BY <1>1
  <2>4. Len(back) = Len(seq) - k
    BY <1>1, <2>2, <2>3
  <2>5. ASSUME NEW i \in 1..Len(seq) - k PROVE back[i] = seq[k + i]
    <3>1. k + 1 + i - 1 = k + i /\ i \in 1..Len(seq) - (k + 1) + 1
      BY <1>1, <2>3
    <3>2. back[i] = seq[k + 1 + i - 1]
      BY <2>2, <3>1
    <3> QED
      BY <3>1, <3>2
  <2> QED
    BY <2>2, <2>4, <2>5
<1> HIDE DEF front, back
<1>4. /\ front \o back \in Seq(S) /\ Len(front \o back) = Len(seq) - 1
      /\ \A i \in 1..Len(seq) - 1 :
           (front \o back)[i] = IF i <= k - 1 THEN front[i] ELSE back[i - (k - 1)]
  <2>1. Len(front) + Len(back) = Len(seq) - 1
    BY <1>1, <1>2, <1>3
  <2>2. /\ front \o back \in Seq(S) /\ Len(front \o back) = Len(front) + Len(back)
        /\ \A i \in 1..Len(front) + Len(back) :
             (front \o back)[i] = IF i <= Len(front) THEN front[i] ELSE back[i - Len(front)]
    BY <1>2, <1>3, ConcatProperties
  <2> QED
    BY <1>2, <2>1, <2>2
<1>5. ASSUME NEW m \in 1..Len(seq) - 1
      PROVE  \E n \in 1..Len(seq) : (front \o back)[m] = seq[n]
  <2>1. CASE m <= k - 1
    BY <1>1, <1>2, <1>4, <2>1
  <2>2. CASE ~(m <= k - 1)
    <3>1. m - (k - 1) \in 1..Len(seq) - k
      BY <1>1, <2>2
    <3>2. (front \o back)[m] = seq[k + (m - (k - 1))] /\ k + (m - (k - 1)) \in 1..Len(seq)
      BY <1>1, <1>3, <1>4, <2>2, <3>1
    <3> QED
      BY <3>2
  <2> QED
    BY <2>1, <2>2
<1>6. DOMAIN (front \o back) = 1..Len(seq) - 1
  BY <1>4, LenProperties
<1>7. RemoveAt(seq, k) = front \o back
  BY DEF RemoveAt, front, back
<1> QED
  BY <1>1, <1>4, <1>5, <1>6, <1>7

LEMMA FeedStarts == FeedInit => FeedInv /\ Summed
<1> SUFFICES ASSUME FeedInit PROVE FeedInv /\ Summed
  OBVIOUS
<1>1. FeedTypes
  <2>1. tasks \in Seq(Jobs) /\ DOMAIN tasks = {}
    BY EmptySeq DEF FeedInit
  <2>2. <<>> \in Seq(Nat) /\ <<>> \in Seq(Aggregators)
    BY EmptySeq
  <2> QED
    BY <2>1, <2>2 DEF FeedInit, FeedTypes
<1>2. InStep
  BY EmptySeq DEF FeedInit, InStep
<1>3. Spaced /\ Summed
  BY EmptySeq DEF FeedInit, Spaced, Spacing, Summed
<1> QED
  BY <1>1, <1>2, <1>3 DEF FeedInv

LEMMA FeedRests ==
  ASSUME FeedInv, UNCHANGED feedVars
  PROVE  FeedInv'
BY DEF FeedInv, FeedTypes, InStep, Outstanding, Spaced, Spacing, feedVars, subVars, tickVars

(* An update is noted as due by the task that it starts.                   *)
LEMMA UpdateKeeps ==
  ASSUME FeedInv, NEW S \in SUBSET Symbols, NEW step \in Steps, NEW p \in Prices,
         Update(S, step, p)
  PROVE  FeedInv'
<1> DEFINE job == [left |-> S, tick |-> None]
<1>1. clock \in Nat /\ clock' = clock + step /\ clock' \in Nat /\ clock <= clock'
  BY NoneApart DEF FeedInv, FeedTypes, Update
<1>2. /\ tickers' \in [Symbols -> Quotes \cup {None}]
      /\ \A s \in S : tickers'[s] # None /\ tickers'[s].time = clock'
      /\ \A s \in Symbols \ S : tickers'[s] = tickers[s]
  <2>1. [time |-> clock', price |-> p] \in Quotes
    BY <1>1 DEF Quotes
  <2>2. tickers' = [s \in Symbols |->
                      IF s \in S THEN [time |-> clock', price |-> p] ELSE tickers[s]]
    BY DEF Update
  <2>3. [time |-> clock', price |-> p].time = clock' /\ [time |-> clock', price |-> p] # None
    BY <2>1, NoneApart
  <2> HIDE DEF Quotes
  <2> QED
    BY <2>1, <2>2, <2>3 DEF FeedInv, FeedTypes
<1>3. job \in Jobs /\ job.left = S /\ job.tick = None
  BY DEF Jobs
<1> HIDE DEF job
<1>4. tasks \in Seq(Jobs) /\ tasks' = IF feeding THEN Append(tasks, job) ELSE tasks
  BY DEF FeedInv, FeedTypes, Update, job
<1>5. /\ tasks' \in Seq(Jobs)
      /\ \A k \in DOMAIN tasks' : (k \in DOMAIN tasks /\ tasks'[k] = tasks[k]) \/ tasks'[k] = job
  BY <1>3, <1>4, AppendProperties, LenProperties
<1>6. /\ accepted' \in [Symbols -> Seq(Nat)]
      /\ \A s \in Symbols :
           accepted'[s] = IF feeding /\ s \in S \cap subs
                          THEN Append(accepted[s], clock') ELSE accepted[s]
  <2>1. \A s \in Symbols : accepted[s] \in Seq(Nat) /\ Append(accepted[s], clock') \in Seq(Nat)
    BY <1>1, AppendProperties DEF FeedInv, FeedTypes
  <2> QED
    BY <2>1 DEF Update
<1>7. /\ UNCHANGED <<feeding, subs, rates, changes, aggs, sent, bars>>
      /\ overtaken' = (overtaken \/ tasks # <<>>)
  BY DEF Update, NoteOvertaking, subVars
<1>8. FeedTypes'
  <2>1. \A k \in DOMAIN tasks' : \A s \in tasks'[k].left : tickers'[s] # None
    <3>1. ASSUME NEW k \in DOMAIN tasks', NEW s \in tasks'[k].left PROVE tickers'[s] # None
      <4>1. CASE tasks'[k] = job
        BY <1>2, <1>3, <3>1, <4>1
      <4>2. CASE k \in DOMAIN tasks /\ tasks'[k] = tasks[k]
        <5>1. tickers[s] # None
          BY <3>1, <4>2 DEF FeedInv, FeedTypes
        <5>2. tasks[k] \in Jobs
          BY <1>4, <4>2, LenProperties, ElementOfSeq
        <5>3. s \in Symbols
          BY <3>1, <4>2, <5>2 DEF Jobs
        <5> QED
          BY <1>2, <5>1, <5>3
      <4> QED
        BY <1>5, <4>1, <4>2
    <3> QED
      BY <3>1
  <2>2. overtaken' \in BOOLEAN
    BY <1>7 DEF FeedInv, FeedTypes
  <2> QED
    BY <1>1, <1>2, <1>5, <1>6, <1>7, <2>1, <2>2 DEF FeedInv, FeedTypes
<1>9. InStep'
  <2> SUFFICES ASSUME ~overtaken' PROVE InStep'
    BY DEF InStep
  <2>1. ~overtaken /\ tasks = <<>> /\ \A s \in Symbols : sent[s] = accepted[s]
    BY <1>7 DEF FeedInv, InStep
  <2>2. CASE feeding
    <3>1. tasks' = <<job>> /\ tasks' # <<>> /\ Len(tasks') = 1 /\ tasks'[1] = job
      BY <1>3, <1>4, <2>1, <2>2
    <3>2. \A s \in Symbols : Outstanding(s, tasks[1])'
      BY <1>2, <1>3, <1>6, <1>7, <2>1, <2>2, <3>1 DEF Outstanding
    <3> QED
      BY <1>3, <3>1, <3>2 DEF InStep
  <2>3. CASE ~feeding
    <3>1. tasks' = <<>> /\ Len(tasks') = 0 /\ \A s \in Symbols : sent'[s] = accepted'[s]
      BY <1>4, <1>6, <1>7, <2>1, <2>3
    <3> QED
      BY <3>1 DEF InStep
  <2> QED
    BY <2>2, <2>3
<1>10. Spaced'
  <2> SUFFICES ASSUME NEW s \in Symbols
               PROVE  /\ tickers'[s] # None => tickers'[s].time <= clock'
                      /\ ~overtaken /\ bars[s] # <<>> =>
                           tickers'[s] # None /\ Follows(tickers'[s].time, Last(bars[s]))
    BY <1>7 DEF FeedInv, Spaced, Spacing, Follows
  <2>1. tickers[s] # None => tickers[s].time \in Nat /\ tickers[s].time <= clock
    BY DEF FeedInv, FeedTypes, Spaced, Spacing, Quotes
  <2>2. tickers'[s] # None => tickers'[s].time <= clock'
    BY <1>1, <1>2, <2>1
  <2>3. ASSUME ~overtaken, bars[s] # <<>>
        PROVE  tickers'[s] # None /\ Follows(tickers'[s].time, Last(bars[s]))
    <3>1. tickers[s] # None /\ Follows(tickers[s].time, Last(bars[s]))
      BY <2>3 DEF FeedInv, Spaced, Spacing
    <3>2. Last(bars[s]).start \in Int /\ Last(bars[s]).size \in Int
      <4>1. bars[s] \in Seq(Aggregators) /\ Len(bars[s]) \in 1..Len(bars[s])
        BY <2>3, EmptySeq, LenProperties DEF FeedInv, FeedTypes
      <4>2. Last(bars[s]) \in Aggregators
        BY <4>1, ElementOfSeq DEF Last
      <4> QED
        BY <4>2, BarFields DEF NoStart
    <3>3. tickers'[s] # None /\ tickers'[s].time >= tickers[s].time /\ tickers'[s].time \in Nat
      BY <1>1, <1>2, <2>1, <3>1
    <3> QED
      BY <2>1, <3>1, <3>2, <3>3 DEF Follows
  <2> QED
    BY <2>2, <2>3
<1> QED
  BY <1>8, <1>9, <1>10 DEF FeedInv

(* The last closed bar is one of the bars.                                 *)
LEMMA LastBar ==
  ASSUME FeedTypes, NEW s \in Symbols, bars[s] # <<>>
  PROVE  /\ Last(bars[s]) \in Aggregators
         /\ Len(bars[s]) \in DOMAIN bars[s] /\ Last(bars[s]) = bars[s][Len(bars[s])]
<1>1. bars[s] \in Seq(Aggregators) /\ Len(bars[s]) \in 1..Len(bars[s])
  BY EmptySeq, LenProperties DEF FeedTypes
<1> QED
  BY <1>1, ElementOfSeq, LenProperties DEF Last

(* Reading a ticker moves what is due from the ticker to the task.         *)
LEMMA ReadKeeps ==
  ASSUME FeedInv, NEW k \in DOMAIN tasks, NEW s \in Symbols, ReadTicker(k, s)
  PROVE  FeedInv'
<1> DEFINE tick == [symbol |-> s, time |-> tickers[s].time,
                    price |-> tickers[s].price, volume |-> 1]
           job == [left |-> tasks[k].left \ {s}, tick |-> IF s \in subs THEN tick ELSE None]
<1>1. /\ tasks \in Seq(Jobs) /\ tasks[k] \in Jobs /\ Len(tasks) \in Nat
      /\ DOMAIN tasks = 1..Len(tasks) /\ tasks[k].tick = None
      /\ s \in tasks[k].left /\ tasks[k].left \subseteq Symbols
  <2>1. tasks \in Seq(Jobs)
    BY DEF FeedInv, FeedTypes
  <2>2. Len(tasks) \in Nat /\ DOMAIN tasks = 1..Len(tasks) /\ tasks[k] \in Jobs
    BY <2>1, LenProperties, ElementOfSeq
  <2>3. tasks[k].left \subseteq Symbols
    BY <2>2 DEF Jobs
  <2> QED
    BY <2>1, <2>2, <2>3 DEF ReadTicker
<1>2. tickers[s] \in Quotes /\ tickers[s] # None
  BY <1>1 DEF FeedInv, FeedTypes
<1>3. /\ tick \in Ticks /\ tick # None
      /\ tick.symbol = s /\ tick.time = tickers[s].time
  <2>1. tick \in Ticks /\ tick.symbol = s /\ tick.time = tickers[s].time
    BY <1>2 DEF Ticks, Quotes
  <2> QED
    BY <2>1, NoneApart
<1> HIDE DEF tick
<1>4. /\ job \in Jobs /\ job.left = tasks[k].left \ {s}
      /\ job.tick = IF s \in subs THEN tick ELSE None
  BY <1>1, <1>3 DEF Jobs
<1>5. tasks' = [tasks EXCEPT ![k] = job]
  BY DEF ReadTicker, tick
<1> HIDE DEF job
<1>6. /\ tasks' \in Seq(Jobs) /\ Len(tasks') = Len(tasks) /\ DOMAIN tasks' = DOMAIN tasks
      /\ \A m \in DOMAIN tasks : tasks'[m] = IF m = k THEN job ELSE tasks[m]
  BY <1>1, <1>4, <1>5, ExceptSeq, LenProperties
<1>7. UNCHANGED <<feeding, subs, rates, changes, tickers, clock, accepted, updates,
                  aggs, sent, bars, overtaken>>
  BY DEF ReadTicker, subVars, tickVars
<1>8. FeedTypes'
  <2>1. \A m \in DOMAIN tasks' : \A t \in tasks'[m].left : tickers'[t] # None
    BY <1>4, <1>6, <1>7 DEF FeedInv, FeedTypes
  <2> QED
    BY <1>6, <1>7, <2>1 DEF FeedInv, FeedTypes
<1>9. InStep'
  <2> SUFFICES ASSUME ~overtaken' PROVE InStep'
    BY DEF InStep
  <2>1. /\ ~overtaken /\ Len(tasks) = 1 /\ k = 1 /\ tasks # <<>>
        /\ \A t \in Symbols : Outstanding(t, tasks[1])
    BY <1>1, <1>7, EmptySeq DEF FeedInv, InStep
  <2>2. tasks' # <<>> /\ Len(tasks') = 1 /\ tasks'[1] = job
    BY <1>6, <2>1, EmptySeq
  <2>3. ASSUME NEW t \in Symbols PROVE Outstanding(t, tasks[1])'
    <3>1. IF t \in tasks[1].left \cap subs
          THEN accepted[t] = Append(sent[t], tickers[t].time) ELSE sent[t] = accepted[t]
      BY <1>1, <2>1 DEF Outstanding
    <3>2. CASE t = s
      <4>1. CASE s \in subs
        <5>1. tasks'[1].tick # None /\ tasks'[1].tick.symbol = t
          BY <1>3, <1>4, <2>2, <3>2, <4>1
        <5>2. accepted[t] = Append(sent[t], tasks'[1].tick.time)
          BY <1>1, <1>3, <1>4, <2>1, <2>2, <3>1, <3>2, <4>1
        <5> QED
          BY <1>7, <5>1, <5>2 DEF Outstanding
      <4>2. CASE s \notin subs
        <5>1. tasks'[1].tick = None /\ t \notin subs /\ sent[t] = accepted[t]
          BY <1>4, <2>2, <3>1, <3>2, <4>2
        <5> QED
          BY <1>7, <5>1 DEF Outstanding
      <4> QED
        BY <4>1, <4>2
    <3>3. CASE t # s
      <4>1. ~(tasks'[1].tick # None /\ tasks'[1].tick.symbol = t)
        BY <1>3, <1>4, <2>2, <3>3
      <4>2. t \in tasks'[1].left <=> t \in tasks[1].left
        BY <1>4, <2>1, <2>2, <3>3
      <4> QED
        BY <1>7, <3>1, <4>1, <4>2 DEF Outstanding
    <3> QED
      BY <3>2, <3>3
  <2>4. job.tick # None =>
          /\ job.tick.symbol \notin job.left /\ tickers[job.tick.symbol] # None
          /\ job.tick.time = tickers[job.tick.symbol].time
    BY <1>2, <1>3, <1>4
  <2> QED
    BY <1>7, <2>2, <2>3, <2>4 DEF InStep
<1>10. Spaced'
  BY <1>7 DEF FeedInv, Spaced, Spacing
<1> QED
  BY <1>8, <1>9, <1>10 DEF FeedInv

(* The end of a task that has nothing left to publish.                     *)
LEMMA EndKeeps ==
  ASSUME FeedInv, NEW k \in DOMAIN tasks, EndTask(k)
  PROVE  FeedInv'
<1>1. /\ tasks \in Seq(Jobs) /\ Len(tasks) \in Nat /\ DOMAIN tasks = 1..Len(tasks)
      /\ tasks[k].left = {} /\ tasks[k].tick = None /\ tasks' = RemoveAt(tasks, k)
  BY LenProperties DEF FeedInv, FeedTypes, EndTask
<1>2. /\ tasks' \in Seq(Jobs) /\ Len(tasks') = Len(tasks) - 1
      /\ \A m \in DOMAIN tasks' : \E n \in DOMAIN tasks : tasks'[m] = tasks[n]
  <2>1. \A jobs \in Seq(Jobs) : \A m \in DOMAIN jobs :
          /\ RemoveAt(jobs, m) \in Seq(Jobs) /\ Len(RemoveAt(jobs, m)) = Len(jobs) - 1
          /\ \A i \in DOMAIN RemoveAt(jobs, m) :
               \E n \in DOMAIN jobs : RemoveAt(jobs, m)[i] = jobs[n]
    BY RemoveAtIs
  <2>2. k \in DOMAIN tasks
    OBVIOUS
  <2>3. RemoveAt(tasks, k) \in Seq(Jobs)
    BY <1>1, <2>1, <2>2
  <2>4. Len(RemoveAt(tasks, k)) = Len(tasks) - 1
    BY <1>1, <2>1, <2>2
  <2>5. \A m \in DOMAIN RemoveAt(tasks, k) : \E n \in DOMAIN tasks : RemoveAt(tasks, k)[m] = tasks[n]
    BY <1>1, <2>1, <2>2, Zenon
  <2> QED
    BY <1>1, <2>3, <2>4, <2>5
<1>3. UNCHANGED <<feeding, subs, rates, changes, tickers, clock, accepted, updates,
                  aggs, sent, bars, overtaken>>
  BY DEF EndTask, subVars, tickVars
<1>4. FeedTypes'
  <2>1. \A m \in DOMAIN tasks' : \A t \in tasks'[m].left : tickers'[t] # None
    BY <1>2, <1>3 DEF FeedInv, FeedTypes
  <2> QED
    BY <1>2, <1>3, <2>1 DEF FeedInv, FeedTypes
<1>5. InStep'
  <2> SUFFICES ASSUME ~overtaken' PROVE InStep'
    BY DEF InStep
  <2>1. /\ ~overtaken /\ Len(tasks) = 1 /\ k = 1 /\ tasks # <<>>
        /\ \A t \in Symbols : Outstanding(t, tasks[1])
    BY <1>1, <1>3, EmptySeq DEF FeedInv, InStep
  <2>2. tasks' = <<>> /\ Len(tasks') = 0
    BY <1>2, <2>1, EmptySeq
  <2>3. \A t \in Symbols : sent[t] = accepted[t]
    BY <1>1, <2>1 DEF Outstanding
  <2> QED
    BY <1>3, <2>2, <2>3 DEF InStep
<1>6. Spaced'
  BY <1>3 DEF FeedInv, Spaced, Spacing
<1> QED
  BY <1>4, <1>5, <1>6 DEF FeedInv

(* Subscriptions change between tasks, or a task is overtaken; the bars    *)
(* they begin are new.                                                     *)
LEMMA ChangeKeeps ==
  ASSUME FeedInv, Change, UNCHANGED <<tickers, clock, accepted, tasks, sent, bars>>,
         aggs' \in [Symbols -> Aggregators \cup {None}],
         \A s \in Symbols : aggs'[s] \in {aggs[s], None} \/ aggs'[s].start = NoStart
  PROVE  FeedInv'
<1>1. overtaken' = (overtaken \/ tasks # <<>>)
  BY DEF Change, NoteOvertaking
<1>2. FeedTypes'
  BY <1>1 DEF FeedInv, FeedTypes
<1>3. InStep'
  <2>1. CASE tasks = <<>>
    BY <1>1, <2>1 DEF FeedInv, InStep
  <2>2. CASE tasks # <<>>
    BY <1>1, <2>2 DEF InStep
  <2> QED
    BY <2>1, <2>2
<1>4. Spaced'
  BY <1>1 DEF FeedInv, Spaced, Spacing
<1> QED
  BY <1>2, <1>3, <1>4 DEF FeedInv

(* Every change of the subscriptions: what they make of the aggregators.   *)
SubChange ==
  \/ \E s \in Symbols, b \in BarSizes, r \in Rates : Subscribe(s, b, r)
  \/ \E s \in Symbols : Unsubscribe(s)
  \/ Start \/ Stop \/ ReSubscribeAll

LEMMA NewAggregators ==
  ASSUME aggs \in [Symbols -> Aggregators \cup {None}], SubChange
  PROVE  /\ Change /\ UNCHANGED <<tickers, clock, accepted, tasks, sent, bars>>
         /\ aggs' \in [Symbols -> Aggregators \cup {None}]
         /\ \A s \in Symbols :
              aggs'[s] \in {aggs[s], None} \/ \E b \in Nat : aggs'[s] = NewAggregator(b)
<1>1. ASSUME NEW s \in Symbols, NEW b \in BarSizes, NEW r \in Rates, Subscribe(s, b, r)
      PROVE  /\ Change /\ UNCHANGED <<tickers, clock, accepted, tasks, sent, bars>>
             /\ aggs' = [aggs EXCEPT ![s] = NewAggregator(b)]
  BY <1>1 DEF Subscribe, tickVars
<1>2. ASSUME NEW s \in Symbols, Unsubscribe(s)
      PROVE  /\ Change /\ UNCHANGED <<tickers, clock, accepted, tasks, sent, bars>>
             /\ aggs' = [t \in Symbols |-> IF t \in {s} THEN None ELSE aggs[t]]
  BY <1>2 DEF Unsubscribe, Forget, tickVars
<1>3. CASE Start
  BY <1>3 DEF Start, tickVars
<1>4. CASE Stop
  BY <1>4 DEF Stop, Forget, tickVars
<1>5. CASE ReSubscribeAll
  BY <1>5, NewBar, NoneApart DEF ReSubscribeAll, tickVars
<1>6. ASSUME NEW s \in Symbols, NEW b \in BarSizes, NEW r \in Rates, Subscribe(s, b, r)
      PROVE  /\ aggs' \in [Symbols -> Aggregators \cup {None}]
             /\ \A t \in Symbols :
                  aggs'[t] \in {aggs[t], None} \/ \E c \in Nat : aggs'[t] = NewAggregator(c)
  <2>1. b \in Nat /\ NewAggregator(b) \in Aggregators
    BY NewBar, NoneApart
  <2> QED
    BY <1>1, <1>6, <2>1
<1> QED
  BY <1>1, <1>2, <1>3, <1>4, <1>5, <1>6 DEF SubChange

(* What the publish of a tick makes of its symbol's aggregator and bars.   *)
Aggregated(tick, s) ==
  \/ aggs[s] = None /\ aggs'[s] = None /\ bars'[s] = bars[s]
  \/ /\ aggs[s] \in Aggregators /\ aggs'[s] = AfterTick(aggs[s], tick)
     /\ bars'[s] = IF Closes(aggs[s], tick) THEN Append(bars[s], aggs[s]) ELSE bars[s]

LEMMA PublishAggregates ==
  ASSUME FeedTypes, NEW k \in DOMAIN tasks, PublishTick(k)
  PROVE  LET tick == tasks[k].tick IN
         /\ tick \in Ticks /\ tick # None
         /\ Aggregated(tick, tick.symbol)
         /\ \A t \in Symbols \ {tick.symbol} : aggs'[t] = aggs[t] /\ bars'[t] = bars[t]
         /\ aggs' \in [Symbols -> Aggregators \cup {None}]
         /\ bars' \in [Symbols -> Seq(Aggregators)]
<1> DEFINE tick == tasks[k].tick
           s == tick.symbol
<1>1. tick \in Ticks /\ tick # None /\ s \in Symbols
  <2>1. tasks[k] \in Jobs
    BY LenProperties, ElementOfSeq DEF FeedTypes
  <2>2. tick # None
    BY DEF PublishTick, Waiting
  <2> QED
    BY <2>1, <2>2, TickFields DEF Jobs
<1>2. \/ aggs[s] = None /\ UNCHANGED <<aggs, bars>>
      \/ /\ aggs[s] # None
         /\ aggs' = [aggs EXCEPT ![s] = AfterTick(aggs[s], tick)]
         /\ bars' = IF Closes(aggs[s], tick)
                    THEN [bars EXCEPT ![s] = Append(bars[s], aggs[s])] ELSE bars
  BY DEF PublishTick
<1> HIDE DEF tick, s
<1>3. CASE aggs[s] = None /\ UNCHANGED <<aggs, bars>>
  BY <1>1, <1>3 DEF FeedTypes, Aggregated, s, tick
<1>4. CASE /\ aggs[s] # None
           /\ aggs' = [aggs EXCEPT ![s] = AfterTick(aggs[s], tick)]
           /\ bars' = IF Closes(aggs[s], tick)
                      THEN [bars EXCEPT ![s] = Append(bars[s], aggs[s])] ELSE bars
  <2>1. aggs[s] \in Aggregators /\ AfterTick(aggs[s], tick) \in Aggregators
    BY <1>1, <1>4, AfterTickIs DEF FeedTypes
  <2>2. bars[s] \in Seq(Aggregators) /\ Append(bars[s], aggs[s]) \in Seq(Aggregators)
    BY <1>1, <2>1, AppendProperties DEF FeedTypes
  <2>3. aggs' \in [Symbols -> Aggregators \cup {None}] /\ bars' \in [Symbols -> Seq(Aggregators)]
    BY <1>1, <1>4, <2>1, <2>2 DEF FeedTypes
  <2>4. \A t \in Symbols \ {s} : aggs'[t] = aggs[t] /\ bars'[t] = bars[t]
    BY <1>4 DEF FeedTypes
  <2>5. Aggregated(tick, s)
    BY <1>1, <1>4, <2>1 DEF FeedTypes, Aggregated
  <2> QED
    BY <1>1, <2>3, <2>4, <2>5 DEF s, tick
<1> QED
  BY <1>2, <1>3, <1>4

(* The tick that is out was what its task had due for its symbol; the bar  *)
(* it closes is a bar size behind it.                                      *)
LEMMA PublishKeeps ==
  ASSUME FeedInv, NEW k \in DOMAIN tasks, PublishTick(k)
  PROVE  FeedInv'
<1> DEFINE tick == tasks[k].tick
           s == tick.symbol
           job == [tasks[k] EXCEPT !.tick = None]
<1>1. /\ tick \in Ticks /\ tick # None /\ s \in Symbols /\ tick.time \in Nat
      /\ Aggregated(tick, s)
      /\ \A t \in Symbols \ {s} : aggs'[t] = aggs[t] /\ bars'[t] = bars[t]
      /\ aggs' \in [Symbols -> Aggregators \cup {None}]
      /\ bars' \in [Symbols -> Seq(Aggregators)]
  BY PublishAggregates, TickFields DEF FeedInv
<1>2. /\ tasks \in Seq(Jobs) /\ tasks[k] \in Jobs /\ Len(tasks) \in Nat
      /\ DOMAIN tasks = 1..Len(tasks)
  <2>1. tasks \in Seq(Jobs)
    BY DEF FeedInv, FeedTypes
  <2> QED
    BY <2>1, LenProperties, ElementOfSeq
<1>3. /\ UNCHANGED <<feeding, subs, rates, changes, tickers, clock, accepted, updates,
                     overtaken>>
      /\ tasks' = [tasks EXCEPT ![k] = job]
      /\ sent' = [sent EXCEPT ![s] = Append(sent[s], tick.time)]
  BY DEF PublishTick, subVars, tickVars
<1>4. job \in Jobs /\ job.left = tasks[k].left /\ job.tick = None
  BY <1>2 DEF Jobs
<1> HIDE DEF job, tick, s
<1>5. /\ tasks' \in Seq(Jobs) /\ Len(tasks') = Len(tasks) /\ DOMAIN tasks' = DOMAIN tasks
      /\ \A m \in DOMAIN tasks : tasks'[m] = IF m = k THEN job ELSE tasks[m]
  BY <1>2, <1>3, <1>4, ExceptSeq, LenProperties
<1>6. /\ sent' \in [Symbols -> Seq(Nat)]
      /\ sent'[s] = Append(sent[s], tick.time)
      /\ \A t \in Symbols \ {s} : sent'[t] = sent[t]
  <2>1. Append(sent[s], tick.time) \in Seq(Nat)
    BY <1>1, AppendProperties DEF FeedInv, FeedTypes
  <2> QED
    BY <1>1, <1>3, <2>1 DEF FeedInv, FeedTypes
<1>7. FeedTypes'
  <2>1. \A m \in DOMAIN tasks' : \A t \in tasks'[m].left : tickers'[t] # None
    BY <1>3, <1>4, <1>5 DEF FeedInv, FeedTypes
  <2> QED
    BY <1>1, <1>3, <1>5, <1>6, <2>1 DEF FeedInv, FeedTypes
<1>8. InStep'
  <2> SUFFICES ASSUME ~overtaken' PROVE InStep'
    BY DEF InStep
  <2>1. /\ ~overtaken /\ Len(tasks) = 1 /\ k = 1 /\ tasks # <<>>
        /\ \A t \in Symbols : Outstanding(t, tasks[1])
        /\ s \notin tasks[1].left
    BY <1>1, <1>2, <1>3, EmptySeq DEF FeedInv, InStep, tick, s
  <2>2. tasks' # <<>> /\ Len(tasks') = 1 /\ tasks'[1] = job
    BY <1>5, <2>1, EmptySeq
  <2>3. ASSUME NEW t \in Symbols PROVE Outstanding(t, tasks[1])'
    <3>1. tasks'[1].tick = None /\ tasks'[1].left = tasks[1].left
      BY <1>4, <2>1, <2>2
    <3>2. CASE t = s
      <4>1. accepted[s] = sent'[s]
        BY <1>1, <1>6, <2>1 DEF Outstanding, tick, s
      <4> QED
        BY <1>3, <2>1, <3>1, <3>2, <4>1 DEF Outstanding
    <3>3. CASE t # s
      <4>1. IF t \in tasks[1].left \cap subs
            THEN accepted[t] = Append(sent[t], tickers[t].time) ELSE sent[t] = accepted[t]
        BY <2>1, <3>3 DEF Outstanding, tick, s
      <4> QED
        BY <1>3, <1>6, <3>1, <3>3, <4>1 DEF Outstanding
    <3> QED
      BY <3>2, <3>3
  <2> QED
    BY <1>4, <2>2, <2>3 DEF InStep
<1>9. ASSUME NEW t \in Symbols PROVE Spacing(t)'
  <2>1. Spacing(t)
    BY DEF FeedInv, Spaced
  <2>2. CASE t # s
    BY <1>1, <1>3, <2>1, <2>2 DEF Spacing
  <2>3. CASE t = s /\ aggs[s] = None
    BY <1>1, <1>3, <2>1, <2>3, NoneApart DEF Spacing, Aggregated
  <2>4. CASE t = s /\ aggs[t] # None
    <3> DEFINE agg == aggs[t]
               closed == bars[t]
    <3>1. /\ agg \in Aggregators /\ aggs'[t] = AfterTick(agg, tick)
          /\ bars'[t] = IF Closes(agg, tick) THEN Append(closed, agg) ELSE closed
          /\ closed \in Seq(Aggregators) /\ Len(closed) \in Nat
          /\ DOMAIN closed = 1..Len(closed)
      <4>1. closed \in Seq(Aggregators)
        BY <1>1 DEF FeedInv, FeedTypes
      <4> QED
        BY <1>1, <2>4, <4>1, LenProperties DEF Aggregated
    <3>2. /\ agg.start \in Nat \cup {NoStart} /\ agg.size \in Nat
          /\ aggs'[t].start = IF agg.start = NoStart \/ Closes(agg, tick)
                              THEN tick.time ELSE agg.start
      BY <1>1, <3>1, AfterTickIs, BarFields
    <3>3. /\ Len(Append(closed, agg)) = Len(closed) + 1
          /\ DOMAIN Append(closed, agg) = 1..Len(closed) + 1
          /\ Append(closed, agg)[Len(closed) + 1] = agg
          /\ \A n \in 1..Len(closed) : Append(closed, agg)[n] = closed[n]
          /\ Last(Append(closed, agg)) = agg /\ Append(closed, agg) # <<>>
      <4>1. Append(closed, agg) \in Seq(Aggregators)
        BY <3>1, AppendProperties
      <4> QED
        BY <3>1, <4>1, AppendProperties, LenProperties DEF Last
    <3> HIDE DEF agg, closed
    <3>4. \A n \in DOMAIN bars'[t] : bars'[t][n].start # NoStart
      BY <2>1, <2>4, <3>1, <3>3 DEF Spacing, Closes, closed
    <3>5. ASSUME ~overtaken
          PROVE  tickers[t] # None /\ tick.time = tickers[t].time
      <4>1. Len(tasks) = 1 /\ k = 1 /\ tasks # <<>>
        BY <1>2, <3>5, EmptySeq DEF FeedInv, InStep
      <4> QED
        BY <1>1, <2>4, <3>5, <4>1 DEF FeedInv, InStep, tick, s
    <3>6. ASSUME ~overtaken, closed # <<>>
          PROVE  /\ Last(closed) = closed[Len(closed)] /\ Len(closed) # 0
                 /\ Follows(tick.time, Last(closed))
                 /\ agg.start # NoStart => Follows(agg.start, Last(closed))
      BY <2>1, <2>4, <3>1, <3>5, <3>6, EmptySeq DEF Spacing, Last, agg, closed
    <3>7. CASE Closes(agg, tick)
      <4>1. ASSUME ~overtaken PROVE Follows(tick.time, agg)
        BY <3>2, <3>7 DEF Closes, Follows
      <4>2. ASSUME ~overtaken, NEW n \in DOMAIN bars'[t] \ {1}
            PROVE  Follows(bars'[t][n].start, bars'[t][n - 1])
        <5>1. CASE n = Len(closed) + 1
          <6>1. closed # <<>> /\ Len(closed) \in 1..Len(closed) /\ n - 1 = Len(closed)
            BY <3>1, <3>3, <3>7, <4>2, <5>1, EmptySeq
          <6> QED
            BY <3>1, <3>3, <3>6, <3>7, <4>2, <5>1, <6>1 DEF Closes
        <5>2. CASE n # Len(closed) + 1
          <6>1. n \in 1..Len(closed) /\ n # 1 /\ n - 1 \in 1..Len(closed)
            BY <3>1, <3>3, <3>7, <4>2, <5>2
          <6>2. Follows(closed[n].start, closed[n - 1])
            BY <2>1, <2>4, <3>1, <4>2, <6>1 DEF Spacing, closed
          <6> QED
            BY <3>1, <3>3, <3>7, <6>1, <6>2
        <5> QED
          BY <5>1, <5>2
      <4>3. bars'[t] # <<>> /\ Last(bars'[t]) = agg /\ aggs'[t].start = tick.time
        BY <3>1, <3>2, <3>3, <3>7
      <4>4. Spacing(t)'
        BY <1>3, <2>1, <2>4, <3>4, <3>5, <4>1, <4>2, <4>3 DEF Spacing
      <4> QED
        BY <2>4, <4>4
    <3>8. CASE ~Closes(agg, tick)
      <4>1. bars'[t] = closed /\ aggs'[t].start = IF agg.start = NoStart THEN tick.time ELSE agg.start
        BY <3>1, <3>2, <3>8
      <4>2. Spacing(t)'
        BY <1>3, <2>1, <2>4, <3>4, <3>5, <3>6, <4>1 DEF Spacing, closed
      <4> QED
        BY <2>4, <4>2
    <3> QED
      BY <3>7, <3>8
  <2> QED
    BY <2>2, <2>3, <2>4
<1> QED
  BY <1>7, <1>8, <1>9 DEF FeedInv, Spaced

LEMMA FeedStep == FeedInv /\ [FeedNext]_feedVars => FeedInv'
<1> SUFFICES ASSUME FeedInv, [FeedNext]_feedVars PROVE FeedInv'
  OBVIOUS
<1>1. CASE UNCHANGED feedVars
  BY <1>1, FeedRests
<1>2. ASSUME NEW S \in SUBSET Symbols \ {{}}, NEW step \in Steps, NEW p \in Prices,
             Update(S, step, p)
      PROVE  FeedInv'
  BY <1>2, UpdateKeeps
<1>3. ASSUME NEW k \in DOMAIN tasks, TaskStep(k) PROVE FeedInv'
  BY <1>3, PublishKeeps, EndKeeps, ReadKeeps DEF TaskStep
<1>4. CASE SubChange
  <2>1. aggs \in [Symbols -> Aggregators \cup {None}]
    BY DEF FeedInv, FeedTypes
  <2>2. \A s \in Symbols : aggs'[s] \in {aggs[s], None} \/ aggs'[s].start = NoStart
    BY <1>4, <2>1, NewAggregators, NewBar
  <2> QED
    BY <1>4, <2>1, <2>2, NewAggregators, ChangeKeeps
<1> QED
  BY <1>1, <1>2, <1>3, <1>4 DEF FeedNext, SubChange

(* Only ticks and subscriptions touch a bar.                               *)
LEMMA SummedStep ==
  ASSUME FeedInv, Summed, [FeedNext]_feedVars
  PROVE  Summed'
<1>1. CASE UNCHANGED <<aggs, bars>>
  BY <1>1 DEF Summed
<1>2. ASSUME NEW S \in SUBSET Symbols \ {{}}, NEW step \in Steps, NEW p \in Prices,
             Update(S, step, p)
      PROVE  Summed'
  BY <1>1, <1>2 DEF Update
<1>3. ASSUME NEW k \in DOMAIN tasks, NEW s \in Symbols, ReadTicker(k, s) PROVE Summed'
  BY <1>1, <1>3 DEF ReadTicker
<1>4. ASSUME NEW k \in DOMAIN tasks, EndTask(k) PROVE Summed'
  BY <1>1, <1>4 DEF EndTask
<1>5. ASSUME NEW k \in DOMAIN tasks, PublishTick(k) PROVE Summed'
  <2> DEFINE tick == tasks[k].tick
             s == tick.symbol
  <2>1. /\ tick \in Ticks /\ s \in Symbols /\ Aggregated(tick, s)
        /\ \A t \in Symbols \ {s} : aggs'[t] = aggs[t] /\ bars'[t] = bars[t]
    BY <1>5, PublishAggregates, TickFields DEF FeedInv
  <2> HIDE DEF tick, s
  <2> SUFFICES ASSUME NEW t \in Symbols
               PROVE  /\ aggs'[t] # None => WellMade(aggs'[t])
                      /\ \A n \in DOMAIN bars'[t] : WellMade(bars'[t][n])
    BY DEF Summed, WellMade
  <2>2. /\ aggs[t] # None => WellMade(aggs[t])
        /\ \A n \in DOMAIN bars[t] : WellMade(bars[t][n])
    BY DEF Summed
  <2>3. CASE t # s
    BY <2>1, <2>2, <2>3
  <2>4. CASE t = s /\ aggs[s] = None
    BY <2>1, <2>2, <2>4, NoneApart DEF Aggregated
  <2>5. CASE t = s /\ aggs[s] # None
    <3>1. /\ aggs[t] \in Aggregators /\ aggs'[t] = AfterTick(aggs[t], tick)
          /\ bars'[t] = IF Closes(aggs[t], tick) THEN Append(bars[t], aggs[t]) ELSE bars[t]
      BY <2>1, <2>5 DEF Aggregated
    <3>2. WellMade(aggs[t]) /\ WellMade(aggs'[t])
      BY <2>1, <2>2, <2>5, <3>1, AfterTickIs
    <3>3. bars[t] \in Seq(Aggregators)
      BY DEF FeedInv, FeedTypes
    <3>4. \A n \in DOMAIN Append(bars[t], aggs[t]) :
            Append(bars[t], aggs[t])[n] = aggs[t]
              \/ (n \in DOMAIN bars[t] /\ Append(bars[t], aggs[t])[n] = bars[t][n])
      BY <3>1, <3>3, AppendElements
    <3> QED
      BY <2>2, <3>1, <3>2, <3>4
  <2> QED
    BY <2>3, <2>4, <2>5
<1>6. CASE SubChange
  <2>1. /\ bars' = bars
        /\ \A s \in Symbols :
             aggs'[s] \in {aggs[s], None} \/ \E b \in Nat : aggs'[s] = NewAggregator(b)
    BY <1>6, NewAggregators DEF FeedInv, FeedTypes
  <2>2. \A s \in Symbols : aggs'[s] # None => WellMade(aggs'[s])
    BY <2>1, NewBar DEF Summed
  <2> QED
    BY <2>1, <2>2 DEF Summed
<1> QED
  BY <1>1, <1>2, <1>3, <1>4, <1>5, <1>6 DEF FeedNext, TaskStep, SubChange, feedVars

(* Every update of a symbol while it is subscribed comes out as one tick,  *)
(* in the order of the updates, for any symbols, prices, clocks and limits *)
(* and any changes between: unless a task was overtaken while it waited.   *)
THEOREM TicksOnceInOrder == FeedSpec => []EveryTickOnceInOrder
<1>1. FeedInv => EveryTickOnceInOrder
  BY DEF FeedInv, InStep, EveryTickOnceInOrder
<1> QED
  BY FeedStarts, FeedStep, <1>1, PTL DEF FeedSpec

(* Every bar has the open, close and highest price of its ticks, and the   *)
(* lowest of them since the last one of price 0, for any prices and        *)
(* whatever tasks overtake one another; and bars are a bar size apart      *)
(* unless they do.                                                         *)
THEOREM BarsAreSummaries == FeedSpec => []BarsSummarizeTicks
<1>1. FeedInv /\ Summed /\ [FeedNext]_feedVars => Summed'
  BY SummedStep
<1>2. FeedInv /\ Summed => BarsSummarizeTicks
  BY DEF FeedInv, Spaced, Spacing, Follows, Summed, WellMade, BarsSummarizeTicks
<1> QED
  BY FeedStarts, FeedStep, <1>1, <1>2, PTL DEF FeedSpec
=============================================================================
