# edrader: a verification development

edrader is an event-driven trading application in Python: strategies, a risk
engine, an execution engine, a broker (live through `ib_async`, or simulated),
a position manager and monitors talk to each other only by publishing events on
one in-process event bus, on one asyncio event loop. This directory holds TLA+
models of those parts, TLC configurations that check them on small instances,
and proofs that TLAPS checks for every value of the constants.

Every definition is translated from the code under the repository's
`src/edrader/`; `PROJECT.json` names, for each definition, the lines it stands
for. Below, `*.py` files are relative to `src/edrader/`, and the documents in
section 8 are those of `.agents/summary/`.

    tlc -config EventBus.cfg MCEventBus       # one line per run below
    tlapm EventBusProofs.tla                  # and the other *Proofs modules

## 1. The system

### Components, their state, their operations

| Component (source) | State | Operations |
|---|---|---|
| EventBus (`events/bus.py`) | two bounded `asyncio.Queue`s (HIGH and CRITICAL; the rest), subscriber lists per type and for all types, the dispatcher task, `_last_source`, `sync_mode` | `publish`, `subscribe(_all)`, `unsubscribe`, `start`, `stop`, `drain`; the dispatcher calls the subscribers of one event one after the other, each under `wait_for(..., 5 s)`; what a filter or the error handler raises ends the dispatcher task |
| EventJournal (`events/journal.py`) | buffer, `_sequence`, table `event_journal`, a lock | `append` (with auto-flush in a thread), `flush`, `close`, `replay`, `_ensure_sequence` |
| ExecutionEngine (`execution/engine.py`) | last order time per symbol, active orders, pending retries by (symbol, side), retry tasks, prices, equity | handlers of approvals, submissions, fills, cancellations, ticks, exposure; the retry task; `start`, `stop` |
| BrokerAdapter (`broker/order_management.py`) | `_trades` by order id | `_on_order_requested` (places the order, publishes `OrderSubmitted`), the callbacks for status and executions, each of which creates a task that publishes; `start`, `stop` |
| IBKRClient (`broker/ibkr_client.py`) | `_running`, `_connected`, attempts, reconnect task, heartbeat task | `connect`, `disconnect`, `_on_disconnected`, `_reconnect`, `_heartbeat_loop` |
| MarketDataFeed (`broker/market_data.py`) | subscriptions with their rate, bar aggregators, tickers | `subscribe`, `unsubscribe`, the ticker callback and the task it starts, re-subscription after a reconnect, `start`, `stop` |
| RiskEngine (`risk/engine.py`) | positions, last tick times, exposure, equity, daily result, kill switch | one verdict per signal, kill switch, handlers of fills, ticks, disconnects, exposure |
| PositionManager (`portfolio/position.py`) | positions with average cost and results, marks, table of positions | fills, ticks, exposure report, load and save of rows |
| SimulatedBroker (`replay/simulated_broker.py`) | last bar and tick prices, market orders held, limit orders pending | requests, ticks, bars, `start`, `stop` |
| ReplayEngine, ReplayClock (`replay/engine.py`, `replay/clock.py`) | events, index, running, paused; base, anchor, speed, paused | `load_events`, `run`, `step`, `pause`, `resume`, `stop`; the clock's methods |
| MetricsEngine (`replay/metrics.py`) | equity curve, trades, traded value | handlers, report |
| AlertManager (`monitoring/alerts.py`) | last alert per type, last heartbeat, alerted flag | alert handlers, heartbeat, check loop, `start`, `stop` |
| Strategies (`strategies/*.py`) | a window per symbol, averages, sums, the side it believes it holds | bar or tick handler, `emit_signal`, `start`, `stop` |
| SizingEngine (`execution/sizing.py`) | ranges by symbol, which nothing fills | `compute_size` |
| HistoricalFeed (`replay/historical_feed.py`) | the events read last | `load_csv`, `load_tick_csv` |
| MetricsCollector (`monitoring/metrics.py`) | event count, samples, `_running`, `_active`, the sampling task | wildcard handler, sample loop, `snapshot`, `start`, `stop` |
| Application, `main` (`app/bootstrap.py`, `app/main.py`) | the components, the replay's task | `startup`, `shutdown`, the signal |
| persistence, scripts, logging | see section 7 | |

### How they interact

    strategy -- SignalGenerated --> RiskEngine -- SignalApproved --> ExecutionEngine
      ^                               ^   ^                               |
      | ticks, bars                   |   |                         OrderRequested
    MarketDataFeed / ReplayEngine     |   |                               v
                                      |   +--- OrderFilled --- BrokerAdapter / SimulatedBroker
                 ExposureUpdated -----+            |
                                      PositionManager, MetricsEngine, AlertManager

All arrows are events on the bus. There are no threads but the journal's
writes; what makes the program hard is how tasks interleave at awaits:

* The dispatcher runs handlers, handlers publish, and a full queue makes a
  handler wait for room only its own dispatcher can make. The 5 s timeout
  then cuts the handler off at whatever `await publish` it has reached.
* Broker callbacks and retry timers are tasks of their own, in any order with
  each other and with the handler that caused them.
* In `sync_mode` (backtests) `publish` dispatches at once, so what follows an
  awaited publish runs after everything that publish leads to.
* Verdicts and retries are based on state that orders in flight have not
  reached yet.
* The connection drops at any time, its notice comes late and more than once.
* Components are stopped and started while events for them are queued.
* A replay is a task of the application. Its dispatches are nested, the journal
  is the last subscriber of each event, and a shutdown cancels it wherever it is.

`PROJECT.json` lists these hazards one by one ("hazards"), each at its line,
with the properties aimed at it.

### What makes each component correct

* Bus: each subscriber gets each event once, `drain` returns only when what was
  accepted is handled, urgent events are not starved, nothing stays behind.
* Order path: one approval makes one order at the broker; a retry happens at
  most once and never once the order is reported; active orders are the
  broker's; waiting orders fill when due, once, at no worse than their limit.
* Risk: limits hold when verdicts meet; a halt is a halt.
* Portfolio and metrics: no money appears or disappears; rows and events agree
  with the positions; the curve and the drawdown agree with the fills.
* Connection: one reconnect loop, no connection claimed that is gone, every
  loss repaired or given up.
* Journal: an event is in one place, and the table is in order.
* Market data, replay, alerts, strategies: everything once and in order;
  what is remembered agrees with what was published.
* Application: no event meets half of it, whatever shutdown interrupts, and a
  shutdown leaves nothing that runs.

## 2. Modules and how they correspond to the code

A module models one component. asyncio runs one task until it awaits, so an
action is what a task does between two awaits that can suspend it; a handler
that awaits nothing but uncontended publishes is one step. Where a component
can be suspended inside `publish` by a full queue, the model has the choice
`MayOverflow`: the handler is cut off at that publish.

| Module | Models | Notes |
|---|---|---|
| `EventBus` | `events/bus.py`, asynchronous mode, with the `asyncio.Queue` semantics it relies on (putters, wake-ups, unfinished count) marked external | `Parked` says the dispatcher is at an await; only then may another task step. The places `high_wait` and `normal_wait` are the two timed gets of `_dispatch_loop`, `dead` a dispatcher that an exception ended |
| `Delivery` | abstract: what the bus promises | implemented by `EventBus` |
| `OrderBus` | what the order path uses of the bus: one FIFO in asynchronous mode, a stack of dispatches and frames in `sync_mode` | every event of this path has default priority, so one lane is enough |
| `ExecutionEngine` | `execution/engine.py` | extends `OrderBus` |
| `BrokerAdapter` | `broker/order_management.py` | extends `OrderBus`; the broker behind `ib_async` is external: it may reject, fill in parts, cancel |
| `LiveOrderFlow` | composition of the two | live trading |
| `SimulatedBroker` | `replay/simulated_broker.py` | extends `OrderBus` |
| `OrderLife` | abstract: what becomes of an order in a replay | implemented by `ReplayOrderFlow` |
| `ReplayOrderFlow` | composition of `ExecutionEngine` and `SimulatedBroker` | both modes of the bus |
| `PositionManager` | `portfolio/position.py` | amounts in exact units, see section 4 |
| `BacktestMetrics` | `replay/metrics.py` over `PositionManager` | in backtests a fill and all that follows it are one step |
| `SizingEngine` | `execution/sizing.py` | a price, equity or range that is not known is 0 |
| `Backtest` | composition of `BacktestMetrics`, `SizingEngine` and the price and equity the execution engine has heard of | |
| `RiskEngine` | `risk/engine.py` with every check in order | instantiates `PositionManager`: it reads its memory |
| `RiskFlow` | signal, verdict, request, retry, order, fill, position in flight | composition with the queue; of `execution/engine.py` it has the request and the retry task with the entries they share (`Request`, `RetryFires`, `OnSubmitted`), each order counted for its signal. Restarts of that engine are in `LiveOrderFlow` |
| `EventJournal` | `events/journal.py` | a batch under way in a thread is an element of `writes`; `reader[r]` is where a thread is in `_ensure_sequence_sync`, of which several run at a time |
| `IBKRClient` | `broker/ibkr_client.py` | the link is external; handlers left by earlier connects are counted |
| `BarAggregator`, `MarketDataFeed` | `broker/market_data.py` | tasks started by callbacks read the tickers late |
| `ReplayClock`, `ReplayEngine` | `replay/clock.py`, `replay/engine.py` | `run` step by step; each player (two `run`s, `step`) has a place of its own |
| `HistoricalFeed` | `replay/historical_feed.py` | the rows that can be read, sorted stably by time: a row comes after as many as have an earlier time, or the same and an earlier place |
| `Application` | `app/bootstrap.py`, `app/main.py` | extends `ReplayEngine`; `open[t]` are the nested dispatches of task `t` that wait in the journal; `phase` is the await `main()` is at |
| `AlertManager`, `MetricsCollector` | `monitoring/alerts.py`, `monitoring/metrics.py` | discrete time; calls of handlers are steps of their own |
| `Monitoring` | both on one clock; a behaviour follows one of them | |
| `Strategy`, `SmaCrossover`, `VwapReversion`, `MeanReversion`, `RsiMomentum`, `BollingerBands`, `Strategies` | `strategies/base.py` and the examples; `Strategies` chooses one | the z-score is abstracted to the zone it falls into; RSI and bands are compared without dividing or taking roots |
| `EventBusProofs`, `LiveOrderFlowProofs`, `ReplayOrderFlowProofs`, `RiskFlowProofs`, `BrokerProofs`, `ApplicationProofs`, `ObserversProofs`, `StrategiesProofs` | proofs | `ObserversProofs` is about the journal and the monitors |
| `MC*` | constants of the instances | |

Composition is by `EXTENDS` over shared variables (`LiveOrderFlow`,
`ReplayOrderFlow`, `RiskEngine` over `PositionManager` and `RiskFlow` over both,
`Backtest`, `Application`, `Monitoring`, `Strategies`); the abstract
specifications are instances under their refinement mappings.

## 3. What each run checks

| Run | Question | Properties |
|---|---|---|
| EventBus | Does the bus keep its promises with full lanes, handlers that publish, hang, raise, come and go, exceptions that kill the dispatcher, and one that is stopped and started? | `TypeOK`, `FanoutExactlyOnce`, `UnfinishedAccounting`, `DrainCoversAccepted`, `BoundedInversion`, `PublishedIsDispatched` (liveness), `DeliversAsPromised` (implements `Delivery`) |
| LiveOrderFlow | Does an approval make one order, through late and lost answers, rejections and restarts? | `OneRetryUntilReported`, `RetriesAvoidDuplicates`, `OrdersTracked` |
| LiveDuplicates | The same with two signals of one symbol and side: **violated** | `RetriesAvoidDuplicates` |
| ReplayOrderFlow | Do simulated orders fill when due, once, and wait until then, in both modes of the bus? | `NothingDueWaits`, `OrdersRunTheirCourse` (implements `OrderLife`) |
| Portfolio | Do positions, rows, events, backtest metrics and order sizes agree with the fills? | `EquityLedger`, `RowsUnlessUnsaved`, `OpenedClosedMatch`, `ReportFollowsLedger`, `SizedWithinShare` |
| RiskFlow | Do limits and the kill switch hold over orders in flight, some of them requested and placed twice? | `ConcurrentWithinLimit`, `DailyLossStopsIncrease`, `HaltLetsOnlyQueuedThrough` |
| EventJournal | Is every event in one place and the table in order, through failed and cancelled writes, first reads that overlap, and restarts? | `ReplayInAppendOrder`, `InOnePlace` |
| IBKRClient | One reconnect loop, no phantom connection, every loss repaired or given up? | `OneReconnectLoop`, `NoPhantomConnection`, `RepairedOrGivenUp` (liveness) |
| MarketDataFeed | Are ticks published once and in order, and do bars summarize them, with tasks parked at a full queue? | `EveryTickOnceInOrder`, `BarsSummarizeTicks` |
| Application | Is a replay played once and in order, by a script or by the application, with mode, clock and journal in step, and does a startup or shutdown never leave half an application? | `PlayedInOrderOnce`, `SyncWhileRunning`, `ClockShowsEvent`, `TrailShowsNesting`, `WiredThroughout`, `ReplayEnds`, `ShutdownEnds` (liveness) |
| Monitoring | Does an alert go out once per cooldown, an outage get reported once, and a snapshot count each event once? | `OneAlertPerCooldown`, `EachMissReportedOnce`, `SnapshotTrue` |
| Strategies | Does what a strategy remembers agree with its signals and its events? | `LastSignalShowsTrend`, `WindowsExact`, `SideFollowsSignals` |

`OrdersTracked`, `ReportFollowsLedger`, `OneAlertPerCooldown` and `SnapshotTrue`
are conjunctions of parts with names and comments of their own.

### The abstract specifications

* `Delivery`: accepted events wait in the lane of their priority and leave it
  first in, first out; one event at a time is in hand, goes to each subscriber
  it is due to once, and is then settled; only the event in hand can be lost.
  `EventBus` implements it with `pending <- queue`, `hand <- cur`, `due <- todo`,
  `settled <- completed`, `lost <- abandoned`. Waits, wake-ups, counts and the
  life of the task disappear.
* `OrderLife`: an order is filled as it comes, or waits until it is filled, or is
  refused; a round of fills takes all it is due to fill out of those that wait,
  unless it is interrupted. `ReplayOrderFlow` implements it; what waits is what
  is held and what is pending. It also implements that no order is filled
  twice, except those that were due in an interrupted round (`suspect`).

### Conditions that properties name

Several promises hold only while something the code does not guard against has
not happened. Such a condition is a history variable that records exactly that
event; the property is silent in those behaviours and holds in all others.

| Variable | It records | Property |
|---|---|---|
| `late` (order flow) | a retry was sent while events of the order path were still queued (`execution/engine.py:176` looks only at the entry) | `RetriesAvoidDuplicates` |
| `untold` | the order is at the broker and the publish that reports it was lost (`broker/order_management.py:104`) | `RetriesAvoidDuplicates`, `OrdersTracked` |
| `forgotten` | working orders the adapter was stopped with | `OrdersTracked` |
| `cutOff` | orders that were due in a price update which a timeout cut off between fills (`replay/simulated_broker.py:228`) | `NothingDueWaits`, `OrdersRunTheirCourse` |
| `cut`, `unsaved` | a publish was timed out; the symbol's last row was not written | `OpenedClosedMatch`, `ReportFollowsLedger`, `SizedWithinShare`; `RowsUnlessUnsaved` |
| `crowded` | a signal was approved while another approval was on its way to a position (`risk/engine.py:173` counts positions only), or might be requested again (`execution/engine.py:180`) | `ConcurrentWithinLimit`, `DailyLossStopsIncrease` |
| `placed` (`PlacedTwice`) | two orders were placed for a signal that can still change its position: the report of the first was lost or late | `DailyLossStopsIncrease`, for the symbol of that signal |
| `unread` | a process appended before it had read the last number (`events/journal.py:67`), or while another reader had still to assign the one it found (`events/journal.py:54`) | `ReplayInAppendOrder` |
| `overtaken` | a task waited at a full queue while an update or a subscription came | `EveryTickOnceInOrder`, `BarsSummarizeTicks` |
| `raced`, `turned` | two calls play at a time; the clock was turned by hand | `PlayedInOrderOnce`, `SyncWhileRunning`, `ClockShowsEvent` |
| `late`, `lost`, `muffled` (alerts) | an alert waited for room; it was lost there; the cooldown of an earlier outage suppressed it | `OneAlertPerCooldown`, `EachMissReportedOnce` |
| `torn`, `overlapped` | the collector was started or stopped with an event in dispatch, or a dispatch was cut off; it was started while a `stop()` awaited its loop (`monitoring/metrics.py:74`) | `SnapshotTrue` |
| `astray` | the last signal was noted but given up by a bar in dispatch at `stop()` (`strategies/base.py:87`), or got out in `sync_mode` but was not noted, the handler having been cut off (`events/bus.py:196`) | `LastSignalShowsTrend` |
| `slips` | how often either happened: the side is off by that many signals at most | `SideFollowsSignals` |

Snapshots are also promised only for a collector that was started once: see
section 8.

Each is also the most useful thing to read for a maintainer: it names the
circumstances in which the promise is off.

## 4. Bounds, and why they are enough

* **EventBus**: capacity 1, three events (one urgent), two publishers, a
  publishing subscriber and a wildcard one. With capacity 1 every publish but
  the first can block; two publishers and the publishing handler give two
  blocked putters on a lane; overtaking needs one urgent event and a normal
  one; the third lets the dispatcher go on.
* **LiveOrderFlow**: two signals on one symbol (one throttle) with opposite
  sides (two retry keys), `MaxRetries = 2` (the code's retry task fires once
  whatever this is, which the run shows), one stop of the engine or of the
  adapter, the
  broker answers the first order only (`Answered`), in up to two fills. One
  order with all answers beside one without meets every pair of actors. The
  deadlock test is off here and in every run whose input is finite.
* **LiveDuplicates**: the same with one key, nothing late and nothing lost.
* **ReplayOrderFlow**: a market order and two limit orders due at the same
  price, two prices, one restart, at most one other event queued when a price
  comes (`MaxQueued`); `MaxRetries = 0` and no throttle, as in every replay
  script of the repository (`scripts/backtest.py:79`). A paper session
  (`app/bootstrap.py:66`) keeps retries on; that combination is left for later.
* **Portfolio**: one symbol, fills of one or two shares at 1 or 3 units, three
  fills, one restart, two curve points. Two shares against one is a reversal;
  three fills open, reverse and close. Prices are multiples of 360,
  divisible by every share count the average cost divides by here, so integer
  arithmetic is exact. The capital is small, to make falls of the curve deep,
  and to let a quarter of it pay for no share, one or several.
* **RiskFlow**: limit 1 on positions, two symbols, three signals of one share,
  two events in the queue, three orders at the broker (`MaxOrders`), one retry,
  one tick, disconnect or turn of the switch to on (`MaxEvents`); the switch is
  turned off and the risk engine stopped and started at will. The second
  approval is already one too many; two signals of one symbol and two orders of
  one signal leave a third order for the other; and a halt can begin and end
  between the approval, the request and the retry of a signal. What a larger
  order does is left to the theorem, which takes any sizes.
* **EventJournal**: batches of two, four events, two tasks, two restarts: two
  batches can be under way at once. Two reading threads: one that is late beside
  one that is done. Symmetric in events, tasks and threads.
* **IBKRClient**: two attempts, three drops, two connects: a drop during the
  reconnect, during the handshake, and after it; two handlers on one link.
* **MarketDataFeed**: two symbols of rates 2 and 3 under a limit of 4, three
  batches of updates at prices 0, 1 and 2, four changes of the subscriptions,
  bars of 3 seconds and, after a reconnect, of 2. Three ticks make a bar whose
  middle one has no price, and a bar of 2 seconds that the third tick closes. Symmetric in symbols (no liveness is checked).
* **Application**: files of two and of four rows, one of them unreadable, two of
  one time, the others 1 apart; all of it or a part; two loads and four calls
  from outside; two speeds. One of three bars may lead to an order, with all
  that is nested in it: the retries of several are dispatched one after the
  other and meet the same phases.
* **Monitoring**: ten moments, cooldown 3 above heartbeat timeout 2, one restart.
  Three cooldowns and two outages fit. The clock starts at 1: a monotonic clock
  has already counted since the machine started; the boundary "less than one
  cooldown since then" is named in `SuppressesOnlyDuplicates`. The collector has
  five moments, a limit of three samples cut to two over a window of 2 (120, 60
  and 60 s in the code: the same proportion of window to what is kept), two
  starts and two events. Two starts make two handlers and two loops meet.
* **Strategies**: seven events, windows of 2 and 3, closes 1 to 3, thresholds of
  25 and 10 percent; RSI of two changes at 30 and 70, bands
  of three closes at one deviation (with two closes, or at two deviations, no
  close of so short a window can leave its bands: section 8).

## 5. Fairness

* **EventBus**: weak fairness of `DispatcherStep` (the dispatcher task is
  scheduled whenever it can step, `wait_for` cuts a hanging handler off, a
  timed `get` ends), and strong fairness of `ResumePut(t)` for each blocked
  task. A woken task can run only while the dispatcher is at an await, so its
  step is enabled on and off and weak fairness would promise nothing; the
  event loop's ready queue is FIFO, so its turn comes at one of those awaits.
  Nothing is assumed of publishers, of handlers returning, of subscribers
  coming and going, or of stops.
* **IBKRClient**: weak fairness of the notice of a lost link (a callback the
  loop runs) and of each step of the reconnect loop (sleeps and timeouts end).
  None of `connect`, `disconnect` or of the link coming back by itself.
* **Application**: weak fairness of each playing task of a script, and of the
  application's tasks (`TaskStep`), its replay (`ReplayStep`) and `main()` in its
  shutdown (`MainStep`): subscribers return or time out, threads and sleeps end,
  the event loop is fair. None of `pause`, `resume`, `stop`, `step`, of the
  startup or of the signal.

The other runs check safety only and assume nothing.

## 6. What is proved

`EventBusProofs` proves, from `BusAssumption` alone (any events, publishers,
handlers, interests and capacity above zero):

| Theorem | Statement |
|---|---|
| `TypeCorrect` | `Spec => []TypeOK` |
| `FanoutCorrect` | `Spec => []FanoutExactlyOnce` |
| `AccountingCorrect` | `Spec => []UnfinishedAccounting` |
| `DrainCorrect` | `Spec => []DrainCoversAccepted` |
| `InversionBounded` | `Spec => []BoundedInversion` |
| `BusDelivers` | `Spec => DeliversAsPromised`: every behaviour of the bus is one of `Delivery` |

None of these is inductive by itself. The invariant `IInv` adds, in named
parts: lanes hold distinct events of their own priority (`LaneInv`); a task
that waits for room has something to put and waits in one place (`PutInv`);
the dispatcher has an event in hand exactly while it dispatches, and
`_last_source` is then the lane of that event (`DispatchInv`: this is why the
shared field is safe); an event is in one place only - not published, offered,
queued or taken (`EventInv`: without it a second copy could be called twice);
the subscribers still to be called are those owed and not called (`FanInv`);
an overtake is counted only while the urgent event still waits, and the
dispatcher then does not wait again (`InversionInv`: it polls the high lane
first); what `drain` promised is acknowledged or keeps a lane it waits for
(`DrainInv`). `NextIInv` has one lemma per action. `Enqueue`, `Dequeue` and the
cancelling of a put have lemmas of their own (`EnqueueProperties`, ...), and
the accounting uses cardinalities of finite sets.

`BusDelivers` rests on the same invariant: `EventInv` is why an event that is
accepted is in no other place, `FanInv` why an event is settled only when nobody
is due any more. Each action is a step of `Delivery` or leaves its variables
alone.

`LiveOrderFlowProofs` proves, for any signals, number of retries, answers and
restarts:

| Theorem | Hypotheses | Statement |
|---|---|---|
| `RetriesStop` | `Live`, `KeysDiffer` | `Spec => []OneRetryUntilReported` |
| `NoOrderTwice` | `Live`, `KeysDiffer` | `Spec => []RetriesAvoidDuplicates` |
| `OrdersKnown` | `Live` | `Spec => []OrdersTracked` |

`Live` says that the bus is asynchronous, as in live trading, which is what the
module models. `KeysDiffer` says that no two signals have symbol and side in
common: it is the condition `execution/engine.py:158` needs and does not check,
and run LiveDuplicates shows the property violated without it. `SignalInv`
follows a signal from its approval to its orders: where its one approval,
request, answer or retry task can still be, and that a session's task can find
its entry only as long as that session lasts. `TrackInv` follows an order from
its acceptance to the event that ends it, and says which of its events are still
in the queue and in which order; that its `OrderSubmitted` comes before whatever
ends it is why no order stays active for good. The first section of the module
has the lemmas about queues that both rest on: what holds of the kinds of
messages in a queue, and of their order, when its head is taken or one is added.

`ReplayOrderFlowProofs` proves, for any orders, limits and prices, in either mode
of the bus and however full its queue:

| Theorem | Statement |
|---|---|
| `NothingWaits` | `Spec => []NothingDueWaits` |
| `CourseRuns` | `Spec => OrdersRunTheirCourse` |

The invariant has two parts. `Listed` says of the two lists that they name orders
the broker was given, each once, market orders in one and limit orders in the
other; hence a round has an order at most once among those it fills, and one that
is cut off before its end has filled a proper part of them, which is what
`OrderLife` calls interrupted. `NoneDue` is the property without its condition on
the queue: a price's round is one call, so nothing due is left behind it at any
time. Every step is then one of `OrderLife` (`RequestArrives`,
`PriceUpdateKeeps`, `PriceUpdateTimedOutKeeps`) or changes nothing it sees. What
the lists lose in a round is selected by a recursive function (`Among`); that it
is exactly what a list and a set have in common, each once, is proved by
`SetInduction` (see `StrategiesProofs`).

`RiskFlowProofs` proves, for any signals, limits and prices:

| Theorem | Hypotheses | Statement |
|---|---|---|
| `HaltIsHalt` | - | `FlowSpec => []HaltLetsOnlyQueuedThrough` |
| `LimitHolds` | - | `FlowSpec => []ConcurrentWithinLimit` |
| `LossLimitHolds` | - | `FlowSpec => DailyLossStopsIncrease` |
| `OpeningsMatch` | - | `Spec => []OpenedClosedMatch` |
| `RowsFollow` | - | `Spec => []RowsUnlessUnsaved` |
| `MoneyKept` | `AveragesExact`, finitely many symbols | `Spec => []EquityLedger` |
| `ReportTrue` | the same | `BacktestSpec => []ReportFollowsLedger` |
| `SharesAffordable` | the same | `BacktestSpec => []SizedWithinShare` |

`FlowSpec` is the composition, `Spec` that of `PositionManager` alone,
`BacktestSpec` that of `Backtest`.

`HaltInv` relates the switch to what may still become a request (`Waiting`): a
queued approval, or a sleeping retry task whose key has retries left or will get
some from a queued approval. No verdict given while the switch is on adds an
approval, and an approval that is handled gives retries only to tasks that were
waiting already, so those that wait are among those that waited when it tripped.
`FlightInv` is what the limits rest on: while nothing was approved beside it
(`~crowded`), one signal at most is between the risk engine and its positions,
its retry included, and nothing that its verdict depended on changes until its
first fill arrives, so the verdict is still true then. `OnceInv` adds that a
signal with one order placed has one order or one fill on its way, not both. A
second order of the same signal opens no other symbol, so the limit on positions
holds whatever is repeated; a loss limit can be reached between the two, and the
property is silent about that symbol then. A signal against the position is
exempt from the checks (section 8): a larger one turns the position round, which
is why the property speaks of the side of the position and not of its size.
`OpeningsMatch` and
`RowsFollow` are about the position manager for itself, with any fills in any
order, whatever is cut off, not written or restarted; their invariant
`PositionInv` goes through `_on_fill` from one publish to the next.

The last three are about money. `LedgerInv` says, symbol by symbol, what
`EquityLedger` says of the sums: what the fills of a symbol cost is in its
position at its average cost or in its realized profit (`Booked`). `FillBooked`
goes through `_update_position`: a fill that is averaged in, one that covers a
part, one that closes and one that turns the position round. `AveragesExact` is
the hypothesis that no average cost the next fill can make needs rounding in the
unit money is counted in. The model counts in whole units where the code has
floats, which round at their last digit; where an average is rounded, that much
money does appear or disappear, in the model as in the code. TLC finds
`AveragesExact` true in every state of run Portfolio, whose prices are chosen so.

`BacktestInv` adds, for a session in which no handler was timed out, that the
equity the execution engine has heard of is the present one and, once there is a
curve, so is its last point: a fill always reports the exposure, a tick only if
its symbol is known, and by `LedgerInv` nothing is held of one that is not. That
the single pass over the curve finds the deepest fall (`DrawdownRight`) is an
induction over its points (`StepDeepest`) on top of two facts about fractions: to
the same later point the fall from the highest earlier one is the deepest, and
"no deeper than" is transitive.

`Total` and `FoldLeft` are defined by the community modules with functions on
sets that they choose. `SubsetInduction`, which is had from the library's
well-foundedness of inclusion among finite sets, shows that there are such
functions (`FoldExists`) and what they are for every set (`TotalIs`, `PassesIs`);
sums that agree symbol by symbol agree (`TotalsAgree`).

`BrokerProofs` proves, for any number of attempts, losses and connects,
`OneLoop` (`Spec => []OneReconnectLoop`) and `ConnectionIsReal`
(`Spec => []NoPhantomConnection`). The strengthening says that a loop that is
there is the one `_reconnect_task` names, in a client that runs, and that a
client that runs hears of a loss. For any ticks, subscriptions and waits at a
full queue it proves

| Theorem | Hypothesis | Statement |
|---|---|---|
| `TicksOnceInOrder` | - | `FeedSpec => []EveryTickOnceInOrder` |
| `BarsAreSummaries` | - | `FeedSpec => []BarsSummarizeTicks` |

`InStep` follows a quote from its update through the task that reads it late to
the tick it becomes, and `Spaced` keeps the times apart; `Summed` relates the bar
an aggregator has open to the ticks it has had since it opened. A low of 0 stands
for "no low yet" (`broker/market_data.py:63`), and the feed publishes a tick of
price 0 when only the bid or the ask changed: such a tick makes the low of its bar
0, and the next one makes it start afresh. `Reached` are the ticks the low
therefore speaks of, all of them when none has price 0, and `LowReaches` is the
lemma that one more tick moves the low as it moves them.

`ApplicationProofs` proves, for any files, times, events and orders of calls:

| Theorem | Statement |
|---|---|
| `PlayedInOrder` | `AppSpec => []PlayedInOrderOnce` |
| `SyncFollowsRun` | `AppSpec => []SyncWhileRunning` |
| `WiredAlways` | `AppSpec => []WiredThroughout` |
| `ClockIsRight` | `AppSpec => []ClockShowsEvent` |
| `TrailIsNested` | `AppSpec => []TrailShowsNesting`, where no file has the same row twice |

Its invariant has three parts. `EngineInv`: unless calls raced one player at
most plays, and whoever ends last turns `sync_mode` off. `Plays`: what was played
is the beginning of the events, one longer than the index while one is being
published; a cancelled replay leaves the index behind, and from then on nothing
plays. `Dispatching`: which tasks can have a dispatch open in which phase. The
last needs the first: retry tasks outlive the bus, and what keeps them from
dispatching past a closed journal is only that `sync_mode` is off by then.
`WiredThroughout` is therefore a property of the engine's `finally` clause as
much as of the order in `shutdown()`.

`ClockInv` says of the clock what is true whatever is done to it: its base is
never before the event played last, and is its time, with nothing elapsed, until
somebody turns it. It needs to know that what is played is an event with a time,
so the module begins with what sorting a file does (`LoadedIs`): the ranks of
its rows are the numbers below their count, each once, hence the sorted sequence
has the rows that were read, each as often as before, in ascending order of time.

`TrailIsNested` needs to know of every published event where it is: in the queue,
in one dispatch, or done with. The invariant `Nest` says so in parts. `Chains`:
what a task dispatches are the effects of one event, each nested in the one
before, of which only the innermost may have come to the journal, and no two tasks
dispatch the same event. `QueueLast`: what waits in the queue waits there only,
and nothing has followed from it yet. `RetriedOnce`: an order is retried once, by
a task of its own, and only when its first request is through, so the retry's
events never mix with the first ones. `TrailOnce`: the journal has each event
once, and in the order the property states. `Feeds` adds that the replay
publishes each event once, which holds of a file only if its rows are told apart:
the code makes an event with an id of its own of each row, while the model lets a
row stand for its event, and hence the theorem's hypothesis. Without it the trail
would name two events alike. The other assumptions are those of the modules.

`ObserversProofs` proves of the journal, for any events, appending tasks, batch size and
number of restarts:

| Theorem | Statement |
|---|---|
| `StoredOnce` | `Spec => []InOnePlace` |
| `ReplayKeepsOrder` | `Spec => []ReplayInAppendOrder` |

`PlaceInv` says of sets of events what `InOnePlace` counts: buffer, batches,
table and lost events are apart and together are the log, and none of them holds
an event twice. Lemmas follow a batch through its life (`HandOver`, `TakeAway`,
`RowsJoin`). `OrderInv`, which holds until a process appends before it has read
the table or while a reader has still to assign, adds that the counter is at or above
every sequence given, wherever its row is, once any reader has assigned; that as
long as nobody has read, or a reader has still to assign, nothing is buffered and
nothing under way, so that the row its query found is still the last one then;
and that the table has a last row.

The same module proves of the monitors, for any alert types, cooldown, timeouts, intervals and
limits:

| Theorem | Hypotheses | Statement |
|---|---|---|
| `AlertsOncePerCooldown` | - | `MonitoringSpec => []OneAlertPerCooldown` |
| `MissesReportedOnce` | - | `MonitoringSpec => []EachMissReportedOnce` |
| `CollectorCounts` | - | `MonitoringSpec => [](CountsEachOnce /\ OneSampleLoop)` |
| `SnapshotsTrue` | `KeepsTheWindow` | `MonitoringSpec => []SnapshotTrue` |

`Spaced` orders, for each type, the alerts issued, the cooldown taken last and
now: only the last alert of the check loop may have come out after the cooldown
it took, and while one waits all but the last before it are a cooldown older.
That is why any three alerts of the loop take a cooldown though two need not.
`Looping` says that the one sampling loop there is belongs to `_task` and that
a collector which collects has one; `Sampling` that samples are an interval
apart, the next one included. `KeepsTheWindow` is `SampleKeep * SampleInterval >=
RateWindow`, with the code's numbers an interval of a second or more: the default
meets it exactly, and a collector with a shorter one forgets part of the minute
`throughput_1m` speaks of whenever it cuts its samples (`monitoring/metrics.py:128`).

`StrategiesProofs` proves, for any prices, window lengths and thresholds and any
number of events, stops, lost emits and handlers cut off:

| Theorem | Statement |
|---|---|
| `TrendShown` | `Spec => []LastSignalShowsTrend` |
| `WindowsTrue` | `Spec => []WindowsExact` |
| `SideCorrect` | `Spec => []SideFollowsSignals` |

The invariant has a part for each strategy. `Trend` adds to the property that the
other strategies, which signal too, note no averages. `Chain` says each of the
changes the RSI is made of is that between two neighbouring closes, the newest of
which is `_prev_close`; only so is it known what drops out of the sum when the
window is full. `Balanced` rests on `ReactionKeepsBalance`: what a bar emits moves
the sum of the signals exactly as far as it moves the side, so that each signal
of which only one of the two heard takes them one further apart at most.

`Total`, Python's `sum()`, is a recursive function, and what is said of it for
every sequence (`TotalAppend`, `TotalTail`, and `WindowSums` for the VWAP) needs
induction. The library's induction theorems take an operator and cannot be used,
but that finite sets are well-ordered by inclusion is a fact without one, from
which `Least` follows (a set of naturals has a least element) and from that
`SetInduction`: a set that has 0, and with a number the next, has all of them.

**Only model-checked** are the liveness properties (`PublishedIsDispatched`,
`RepairedOrGivenUp`, `ReplayEnds`, `ShutdownEnds`): the prover has no ENABLED and
no fairness rules.

Every safety property of the passing runs is stated by a theorem.

## 7. What is not modelled, and why

* **Bus**: several entries of one handler; the counters of `DispatchMetrics`.
  Synchronous dispatch is in `OrderBus` and `Application`.
* **Event types**: their fields and their conversion to dictionaries and back.
* **HistoricalFeed**: how a row is parsed (a row is readable or not), and
  `filter_by_date` and `clear`, which no code calls.
* **MetricsEngine**: turnover, Sharpe ratio, profit factor, the report: sums and
  square roots over the curve that is modelled.
* **MetricsCollector**: the rates and rankings of `snapshot()`.
* **Application**: of the configuration, the environment alone; the unreachable
  rest of a paper or live startup.
* **SizingEngine in the order path**: an order's size is fixed by its signal
  there; `Backtest` checks what `compute_size` returns.
* **BollingerBands** is modelled and run, so that its actions are checked to be
  possible, but no property is about it: it remembers nothing but its window,
  which is kept like that of the moving averages.
* **Logging**: configures a library. **Strategy loader**: a dictionary of classes.
* **Persistence, scripts**: tables as the journal and position manager use
  them; command lines that wire modelled components. What a script does with
  `ReplayEngine` is in `Application`.
* **BrokerAdapter.cancel_order**: nothing calls it.
* **max_symbol_exposure**: the check returns None in the code, and so in the
  model.

## 8. Where the code and the documents disagree

Found while modelling. The first has a run; for the others the model follows
the code.

| Code | Document | Difference |
|---|---|---|
| `execution/engine.py:158` | `implementation_plan.md:469`, `:799` "retries avoid duplicates" | retry entries are keyed by symbol and side, so the task of an order already accepted finds the entry of a later request and sends again (run LiveDuplicates) |
| `execution/engine.py:176` | `components.md:58` "up to max_retries times" | the task ends after one retry |
| `execution/engine.py:159` | `workflows.md:197` | in `sync_mode` the answer is handled before the entry it should remove exists, so in the application's replays, which leave retries on, a filled order is requested again two seconds later |
| `events/journal.py:60`, `:67` | `components.md:30`, `implementation_plan.md:353` "ordering preserved" | numbers are resumed only by calls that read, so an appending process repeats them; nothing keeps two first reads apart (`:54`), and the later one sets the counter back |
| `replay/simulated_broker.py:192` | `workflows.md:212` "fill at limit_price" | a limit order that is due at once fills at the market price |
| `risk/engine.py:84` | `implementation_plan.md:752` "kill switch halts execution" | approvals already queued are executed, and an order nobody has reported is requested again two seconds later (`execution/engine.py:180`) |
| `risk/engine.py:173` | `design.md:368` | orders in flight are not counted |
| `risk/engine.py:148` | `components.md:41` "only for position-increasing signals" | a signal against the position is exempt, though it may turn it round and increase it |
| `strategies/examples/mean_reversion.py:76` | `components.md:174` "tracks position_side" | the side is set by emitting, whether or not the signal is approved |
| `strategies/examples/mean_reversion.py:76`, `sma_crossover.py:76` | - | in `sync_mode` a handler cut off while its signal is dispatched has not noted it, and the next bar may emit it again: two BUYs for a side of LONG |
| `monitoring/alerts.py:173` | - | an outage within the cooldown of the last one is marked as alerted and never reported |
| `strategies/examples/vwap_reversion.py:84` | `components.md:175` | the "exit" is a signal against the last one whatever was filled |
| `broker/market_data.py` | `workflows.md:25`, `components.md:96` "priority=HIGH" | ticks are published with the default priority |
| `broker/market_data.py:63` | - | a low of 0 counts as no low yet: a bar that has a tick of price 0 (a bid or an ask alone) may close with a low above it, and above that of ticks before it |
| `app/bootstrap.py:138`, `:156` | `README.md:71`, `workflows.md:9` "`IBKRClient.connect()`" | paper and live startup call `IBKRClient.start`, which does not exist; `app/main.py:32` is outside the `try`, so nothing is shut down |
| `app/bootstrap.py:93` | `components.md:216` | limits, retries and sizing of the configuration are not handed to the components |
| `app/bootstrap.py:84` | - | each file replaces the events of the one before: only the last is played |
| `events/bus.py:178` | `README.md:234` "Every event passes through the journal" | in a replay the journal is called last and inside nested dispatches: effects are journaled before their causes, and those a cancellation or a timeout cuts off never |
| `monitoring/metrics.py:62` | `components.md:190` | `stop()` leaves the wildcard handler subscribed: after a second start each event is counted twice; a start during a `stop()` leaves a sampling loop nobody can cancel |
| `monitoring/metrics.py:128` | - | 60 samples are kept, a minute of them only if `sample_interval` is a second or more |
| `monitoring/metrics.py:43` | `components.md:191` "top event/error types" | nothing fills `_errors_by_type` |
| `strategies/examples/rsi_momentum.py` | - | a window without changes has an RSI of 0 and so is a BUY |
| `strategies/examples/bollinger_bands.py` | - | a close among `n` is at most `(n-1)/sqrt(n)` deviations from their mean: windows shorter than that allows never signal |
| `replay/historical_feed.py` (`_parse_time`) | `components.md:137` | a time zone in the file is replaced by UTC, not converted |
| `portfolio/position.py:155` | - | `PositionClosed` carries the symbol's realized result since its first fill, so the win rate counts accumulated results |
| `execution/engine.py:134` | - | limits are checked on the suggested size, the order may be larger by `percent_equity` |
| `execution/sizing.py:46` | `components.md:71` | without a price or with equity at or below zero the suggested size passes unchanged; replays of bars never tell the engine a price |

## 9. Plan

Done, in this order: `EventBus` and its proofs; the order path, live and
simulated; positions, risk; journal, connection, market data; replay, metrics,
alerts, strategies; then the abstract specifications
`Delivery` and `OrderLife`, `Application` with nested dispatch and shutdown,
`MetricsCollector`, `SizingEngine`, `HistoricalFeed`, the RSI and Bollinger
strategies, the bus's error paths, `BusDelivers`, the proofs about
the broker, the application, the journal and risk; then the theorems on live
and replayed orders, limits, positions, the clock, the monitors, the journal's nesting,
ticks and bars, what strategies remember, and money.

Next:

1. **Theorems**: how far `EquityLedger` can be off when averages are rounded,
   fill by fill, in place of `AveragesExact`.
2. **Paper trading**: `SimulatedBroker` with retries on, in an instance small
   enough for it.
3. **Sizing in the order path**: sizes of orders by equity in `RiskFlow`, where
   an order may exceed what was approved.
