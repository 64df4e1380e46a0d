---------------------------- MODULE MarketDataFeed ----------------------------
(***************************************************************************)
(* MarketDataFeed of src/edrader/broker/market_data.py: the broker's       *)
(* callback starts a task for every batch of updated tickers, which turns  *)
(* them into tick events and, through an aggregator per symbol, into bars. *)
(* Tickers are ib_async's live objects: a task reads them when it gets to  *)
(* them.                                                                   *)
(***************************************************************************)
EXTENDS BarAggregator, FiniteSetsExt, TLC

CONSTANTS Symbols,
          Prices,      (* prices of an update; 0 when only bid or ask changed   *)
          Steps,       (* how far the broker's clock moves between two updates  *)
          BarSizes, DefaultBarSize,
          Rates, HardLimit,
          MaxUpdates,  (* bound: batches of updates                             *)
          MaxChanges,  (* bound: subscriptions, restarts and reconnects         *)
          None         (* not subscribed, no ticker                             *)

Quotes == [time : Nat, price : Prices]
Ticks  == [symbol : Symbols, time : Nat, price : Prices, volume : {1}]

ASSUME FeedAssumption ==
  /\ None \notin Quotes \cup Ticks \cup Aggregators
  /\ Prices \subseteq Nat /\ Steps \subseteq Nat
  /\ BarSizes \subseteq Nat \ {0} /\ DefaultBarSize \in Nat \ {0}
  /\ Rates \subseteq Nat \ {0} /\ HardLimit \in Nat
  /\ MaxUpdates \in Nat /\ MaxChanges \in Nat

VARIABLES
  feeding,   (* MarketDataFeed._running                                      *)
  subs,      (* the symbols in _subscriptions                                *)
  aggs,      (* symbol -> its aggregator, or None                            *)
  rates,     (* symbol -> _expected_rates, 0 when it has none                *)
  tickers,   (* symbol -> time and price of its last update, or None         *)
  tasks,     (* _process_tickers tasks: symbols left, event being published  *)
  clock,     (* the broker's time                                            *)
  accepted,  (* history: symbol -> times of its updates while subscribed     *)
  sent,      (* history: symbol -> times of its published ticks              *)
  bars,      (* history: symbol -> its closed bars                           *)
  updates,   (* history: batches of updates                                  *)
  changes,   (* history: subscriptions, restarts and reconnects              *)
  overtaken  (* history: something came while a task waited for room         *)

subVars  == <<feeding, subs, rates, changes>>
tickVars == <<tickers, clock, accepted, updates>>
feedVars == <<subVars, tickVars, aggs, tasks, sent, bars, overtaken>>

FeedInit ==
  /\ feeding = FALSE
  /\ subs = {}
  /\ aggs = [s \in Symbols |-> None]
  /\ rates = [s \in Symbols |-> 0]
  /\ tickers = [s \in Symbols |-> None]
  /\ tasks = <<>>
  /\ clock = 0
  /\ accepted = [s \in Symbols |-> <<>>]
  /\ sent = [s \in Symbols |-> <<>>]
  /\ bars = [s \in Symbols |-> <<>>]
  /\ updates = 0
  /\ changes = 0
  /\ overtaken = FALSE

(* No task is running: all there are wait for room in the event queue.     *)
Waiting == \A k \in DOMAIN tasks : tasks[k].tick # None
NoteOvertaking == overtaken' = (overtaken \/ tasks # <<>>)

TotalRate == MapThenSumSet(LAMBDA s : rates[s], Symbols)

-----------------------------------------------------------------------------
(* Updates and the tasks that process them.                                *)

(* The broker updates the tickers of S; _on_pending_tickers starts a task. *)
Update(S, step, p) ==
  /\ Waiting
  /\ NoteOvertaking
  /\ updates < MaxUpdates
  /\ updates' = updates + 1
  /\ clock' = clock + step
  /\ tickers' = [s \in Symbols |->
                   IF s \in S THEN [time |-> clock', price |-> p] ELSE tickers[s]]
  /\ tasks' = IF feeding THEN Append(tasks, [left |-> S, tick |-> None]) ELSE tasks
  /\ accepted' = [s \in Symbols |->
                    IF feeding /\ s \in S \cap subs
                    THEN Append(accepted[s], clock') ELSE accepted[s]]
  /\ UNCHANGED <<subVars, aggs, sent, bars>>

(* _process_tickers gets to symbol s and reads its ticker.                 *)
ReadTicker(k, s) ==
  /\ tasks[k].tick = None
  /\ s \in tasks[k].left
  /\ tasks' = [tasks EXCEPT ![k] =
       [left |-> @.left \ {s},
        tick |-> IF s \in subs
                 THEN [symbol |-> s, time |-> tickers[s].time,
                       price |-> tickers[s].price, volume |-> 1]
                 ELSE None]]
  /\ UNCHANGED <<subVars, tickVars, aggs, sent, bars, overtaken>>

(* The tick is in the queue.  The aggregator is looked up only now; the    *)
(* publish of the bar it may close is not told apart from the tick's.      *)
PublishTick(k) ==
  /\ Waiting
  /\ tasks' = [tasks EXCEPT ![k].tick = None]
  /\ LET tick == tasks[k].tick
         s == tick.symbol
     IN /\ sent' = [sent EXCEPT ![s] = Append(@, tick.time)]
        /\ IF aggs[s] = None
           THEN UNCHANGED <<aggs, bars>>
           ELSE /\ aggs' = [aggs EXCEPT ![s] = AfterTick(@, tick)]
                /\ bars' = IF Closes(aggs[s], tick)
                           THEN [bars EXCEPT ![s] = Append(@, aggs[s])] ELSE bars
  /\ UNCHANGED <<subVars, tickVars, overtaken>>

(* Mutant: the loop over the tickers returns where it should continue.     *)
EndTaskEarly(k) ==
  /\ tasks[k].tick = None
  /\ tasks' = RemoveAt(tasks, k)
  /\ UNCHANGED <<subVars, tickVars, aggs, sent, bars, overtaken>>

EndTask(k) ==
  /\ tasks[k] = [left |-> {}, tick |-> None]
  /\ tasks' = RemoveAt(tasks, k)
  /\ UNCHANGED <<subVars, tickVars, aggs, sent, bars, overtaken>>

-----------------------------------------------------------------------------
(* Subscriptions.                                                          *)

Change ==
  /\ Waiting
  /\ NoteOvertaking
  /\ changes < MaxChanges
  /\ changes' = changes + 1

Start ==
  /\ Change
  /\ ~feeding
  /\ feeding' = TRUE
  /\ UNCHANGED <<subs, rates, tickVars, aggs, tasks, sent, bars>>

(* subscribe_symbol, which raises when the rate would exceed the limit.    *)
Subscribe(s, barSize, rate) ==
  /\ Change
  /\ feeding
  /\ s \notin subs
  /\ TotalRate + rate <= HardLimit
  /\ subs' = subs \cup {s}
  /\ aggs' = [aggs EXCEPT ![s] = NewAggregator(barSize)]
  /\ rates' = [rates EXCEPT ![s] = rate]
  /\ UNCHANGED <<feeding, tickVars, tasks, sent, bars>>

Forget(S) ==
  /\ subs' = subs \ S
  /\ aggs' = [s \in Symbols |-> IF s \in S THEN None ELSE aggs[s]]
  /\ rates' = [s \in Symbols |-> IF s \in S THEN 0 ELSE rates[s]]

Unsubscribe(s) ==
  /\ Change
  /\ s \in subs
  /\ Forget({s})
  /\ UNCHANGED <<feeding, tickVars, tasks, sent, bars>>

Stop ==
  /\ Change
  /\ feeding
  /\ feeding' = FALSE
  /\ Forget(subs)
  /\ UNCHANGED <<tickVars, tasks, sent, bars>>

(* _re_subscribe_all, on BrokerReconnected: bar sizes (and contracts) are  *)
(* the defaults from now on, and the bars begun are dropped.               *)
ReSubscribeAll ==
  /\ Change
  /\ feeding
  /\ aggs' = [s \in Symbols |->
                IF s \in subs THEN NewAggregator(DefaultBarSize) ELSE None]
  /\ UNCHANGED <<feeding, subs, rates, tickVars, tasks, sent, bars>>

TaskStep(k) ==
  PublishTick(k) \/ EndTask(k) \/ \E s \in Symbols : ReadTicker(k, s)

FeedNext ==
  \/ \E S \in SUBSET Symbols \ {{}}, step \in Steps, p \in Prices : Update(S, step, p)
  \/ \E k \in DOMAIN tasks : TaskStep(k)
  \/ \E s \in Symbols, b \in BarSizes, r \in Rates : Subscribe(s, b, r)
  \/ \E s \in Symbols : Unsubscribe(s)
  \/ Start \/ Stop \/ ReSubscribeAll

FeedSpec == FeedInit /\ [][FeedNext]_feedVars

(* Symmetry of an instance: symbols are told apart by nothing.             *)
Alike == Permutations(Symbols)

-----------------------------------------------------------------------------
(* Properties.                                                             *)

(* Once all tasks are done, every update of a subscribed symbol has been   *)
(* published as one tick, in the order the updates came, unless a full     *)
(* queue made a task wait while an update or a subscription came.          *)
EveryTickOnceInOrder ==
  tasks = <<>> /\ ~overtaken => \A s \in Symbols : sent[s] = accepted[s]

(* A bar, closed or being filled, has the open, close and highest price of *)
(* its ticks, and the lowest of them since the last one of price 0, even   *)
(* when tasks overtake one another; and a bar starts at least a bar size   *)
(* after the one before, unless they do.                                   *)
BarsSummarizeTicks ==
  \A s \in Symbols :
    /\ aggs[s] # None => Summarizes(aggs[s])
    /\ \A n \in DOMAIN bars[s] : Summarizes(bars[s][n])
    /\ ~overtaken =>
         \A n \in DOMAIN bars[s] \ {1} :
           bars[s][n].start - bars[s][n - 1].start >= bars[s][n - 1].size
=============================================================================
