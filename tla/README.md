# Verification of the option-chain trading system

The repository is a multi-client options trading system for Indian and crypto
exchanges: one asyncio process that reads ticks, builds candles, runs a
strategy instance per client binding and sends orders to the clients' brokers.
This directory holds TLA+ models of it, the TLC configurations that check them,
and TLAPS proofs about them. Two questions run through all of it: does a
strategy's idea of its position stay the account's, and does the market data
that it decides on keep coming?

Contents: 1 inventory, 2 modules, 3 how the models correspond to the code,
4 runs and properties, 5 where the code parts from what is expected of it,
6 proofs, 7 what is not modelled, 8 plan.

## 1 Inventory

Everything runs on one event loop. Components call each other directly or
through the `EventBus` (`data_layer/base_feeder.py`), which has one
`asyncio.Queue` per subscriber and never suspends its publisher. The exception
is the shared feed, a process of its own behind a TCP socket.

| Component (src/) | State | Operations | Hard behaviour | Correct when |
|---|---|---|---|---|
| EventBus, `data_layer/base_feeder.py` | a queue per topic and subscriber, cap 20 000 | `subscribe`, `publish` | handlers run later than the events, on state that has moved | per topic and subscriber, order is kept and nothing is repeated |
| SellStraddleStrategy, `strategies/sell_straddle.py` | position, `_order_pending`, counters, cooldown, session day | tick, candle and fill handlers, `_open_position`, `_single_side_roll`, `_close_position`, `reset_session` | books the position before the broker has the order; fills return late; restarts | position, file and account agree once orders are through |
| StraddleExecutionBridge, `execution_bridge/straddle_bridge.py` | the order it serves, the accounts | `_handle`, `_live_fill`, `_do_leg`, `_reconcile_flat`, `square_off_binding` | every broker call is an await; legs fill partly, late or not at all | an entry is all or nothing, an exit closes only its own legs |
| SmartOrderExecutor, `execution_bridge/smart_executor.py`, and the adapters' order status | the order being worked | limit ladder, market completion, fill poll | a status that is old, lost or counts the wrong thing | the report follows the trade; the leg completes |
| StraddleBookManager, `strategies/straddle_book_manager.py` | the started books | `_wanted`, `_reconcile` every 5 s | a failing query stops all books with orders in flight | positions survive the re-spawn |
| position_store, `data_layer/position_store.py` | a position and a session file per book | `save`, `load`, `clear` | a crash between a decision, its write and its order | a restart restores what memory held |
| Client switches, `ui_layer/dashboard_server.py`, `data_layer/client_db.py` | `is_running`, `terminal_connected`, expiry mode | Run, kill, square-off, terminal, expiry | several awaits per request; the loop runs in between | nobody is left with legs that no book manages |
| Trap scanner, `strategies/trap_scanner_engine.py`, `trap_book_manager.py`, `trap_scanner/scanner.py` | bars, zones, entered zones, position, its file | three loops and a task per entry signal; `_lifecycle_loop` | loops and entry tasks meet at the broker; zones are recomputed from scratch | a zone keeps its identity, an entry is earned; what is bought is sold |
| IronCondor, ICExecutionBridge, `strategies/iron_condor.py`, `execution_bridge/ic_bridge.py` | one position for all bindings, its file | `_try_entry`, `_close_position`, four legs per binding | no fill ever comes back | a short leg is never without its hedge |
| StrikeRebalancer, GapHandler, `data_layer/strike_rebalancer.py`, `matrix_engine/gap_handler.py` | anchor, active and pinned strikes | drift, resets, pins | drift while positions need a strike; feed switches | an open contract keeps streaming, the window follows the market |
| Feeders, `data_layer/global_feeder.py` | cached tokens, the live provider, its keys | subscribe, switch, reconnect, heartbeat | everything is lost with a socket | what was subscribed is subscribed again |
| Shared feed, `data_layer/feed_server.py`, `shared_feed_client.py` | connections, a filter per client | broadcast, commands, reconnect by two parties | a slow reader, a silent connection, two reconnections at once | the filter is what the client asked for; the client always ends up joined again |

Listed in `PROJECT.json` as not modelled, with the reason: the worker pool with
its token bucket, the execution router, risk and client manager (dormant: their
only input is `Topic.SIGNAL`, which nothing publishes), StrikeCleanup (it acts on
fills that name a strike and on `POSITION_CLOSED`; nothing publishes either),
straddle selection and indicators, instrument data, configuration files, process
wiring and pages, scripts and backtests.

How the modelled parts interact:

    dashboard --flags--> client_db --read every 5 s--> StraddleBookManager, TrapBookManager
        |                    |                              | start / stop
        | square_off_binding | gates                        v
        +--------------------|---------> SellStraddle, TrapScannerEngine (per binding), IronCondor
                             v             |  ORDER_REQUEST  ^ ORDER_FILL     | subscribe, pin
               StraddleExecutionBridge, ICExecutionBridge   |                 v
                             | execute_leg -> broker -------+     StrikeRebalancer -> GlobalFeeder
                                                                                        |
                                     FeedServer (own process) <-- TCP -- SharedFeedClient

## 2 Modules

| Module | Models |
|---|---|
| `TradingDesk` | what the straddle's parts share: constants, faults, orders and fills, the two bus queues, clock and database flags |
| `SellStraddle` | the strategy and the position store |
| `StraddleBridge` | the bridge and the exchange accounts |
| `StraddleTrading` | their composition with the manager, the client's switches, clock and crashes; the properties |
| `LaggedAccount` | abstract specification: an account that follows a book's decisions, late but in order |
| `StraddleSettlement` | the inductive invariant behind settlement; the refinement mapping to `LaggedAccount` |
| `LegExecution` | `_do_leg`, `execute_leg`, the adapters' order status and the exchange, for one leg |
| `LegPromise` | abstract specification of a leg: it trades, it reports once, it may still trade |
| `TrapEngine` | the trading half of a trap engine: position, exits, entry tasks, lifecycle |
| `TrapDesk` | an engine with its manager, the expiry switch, clock and process; the properties |
| `TrapZones` | pure functions of bars: resampling, the zone scans, selection, average range |
| `TrapScan` | the scanning half: ticks to bars, bars to zones, zones to entry signals |
| `CondorDesk` | the iron condor strategy, its bridge and the accounts of all bindings |
| `StrikeFeed` | rebalancer, gap handler, GlobalFeeder's subscriptions and the provider's socket, trap engines as its users |
| `SharedFeed` | feed server, one client in full and a second subscriber, the heartbeat's reconnect |
| `StraddleTrading_proofs`, `StraddleSettlement_proofs`, `LegExecution_proofs`, `TrapDesk_proofs`, `TrapScan_proofs`, `CondorDesk_proofs`, `StrikeFeed_proofs`, `SharedFeed_proofs` | the inductive invariants and proofs of the module they are named after |
| `MCDesk`, `MCScan` | symmetry sets; the histories a session starts from |

## 3 How the models correspond to the code

### Straddle desk

**Atomicity.** A strategy handler awaits only `EventBus.publish`, which does
`put_nowait` and never suspends, and synchronous helpers; so each handler is one
action. The bridge suspends at every broker call: `exec` records where
`_live_fill` stands, and books, client and manager move between its steps.
Dashboard requests await the database between their steps; `op` records how far
a stop request has come.

**One queue, one bridge.** The order the bridge works on stays at the head of
`orderQ` until `Finish`; in the code it sits in a local variable. No action tells
the two apart, and a stop or crash treats both alike.

**Prices.** A price is asked only which contract it came from. `pos[b].sold[s]`
is the strike whose price `entry_price` of leg `s` holds, so a fill carries its
prices in `strikes`. Rules and indicators are open: an action is enabled whenever
the code's guards let some market data fire it. A roll of both legs is two
adjacent `Roll` steps, or `RollNoPartner`.

**Accounts.** `net[b][s][k]` counts the contracts that binding `b` is short. What
a leg trades (`q`) and what `_do_leg` reports (`r`) are different things; which
pairs are possible is what `LegExecution` works out. `Live` books have live mode
and a registered broker; the bridge fills the others on paper.

**Persistence and restart.** `Persist` is `_persist`: position file and session
file with the counters of that moment, which for a new entry and for a stop of
the day are the counters before the change, as in the code. `Saved` applies the
MIS rule of `load`. A book that is stopped loses memory and bus queues
(`Forget`); a spawned one reads its files (`StartBook`). A crash loses all books,
the bus and the bridge's place at once; accounts and files stay.

**Clock.** `phase` is "closing" from the square-off time; the defaults of entry
cutoff and square-off are equal (15:15). A session ends with bus and bridge
drained: the next opening is hours away.

**Faults** are chosen by a configuration from `FaultKinds`; `TradingDesk` says
what each is. An order that the bridge has given up on rests at the exchange, on a
ticket of `resting`, and `LateFill` trades it at any time: between two awaits of an
abort, after it, after a crash. That holds of the rest of an under-filled SELL
("late_fill"), of a flatten order that is accepted and not filled ("flatten_fails")
and of a squaring order likewise ("reconcile_fails"); either may also be rejected.

**The abort** is as many actions as `_live_fill` and `_reconcile_flat` have awaits:
`FlattenLeg` per reported leg; `CancelResting`, which cancels known orders, each at
best; after the three seconds `ReadPositions`, which keeps in `exec.seen` what
`get_positions` says; `SquareLeg` for each position that was read; `AbortEntry`.
`exec.missed` counts what the exchange trades of these legs after the read. No code
keeps that number; the property needs it to say what is left over.

### One leg

A broker is the kind of its adapter: Delta sends limit orders and counts what
filled; Zerodha counts what filled, Upstox and the others what was ordered; a
status request that fails is a dead order at Delta (`get_order_status` makes
"REJECTED" of no answer), an open one at Zerodha and Upstox, an exception at the
others. `Readings` is what a status read may say: the order's state, an older
one (fault "lag"), or nothing ("lost"). `_await_fill` is two actions, one for an
answer it returns on and one for its time-out; the second read that follows is
`BookLimit` or `BookMarket`. Prices are left out except for `avg_price > 0`.
The "no quote" and "no price" exits of the ladder are `PlaceMarket` being enabled
at any rung.

### Trap engine

**Two halves.** `TrapEngine` and `TrapScan` are the two halves of one object,
cut where a signal becomes a task: `TrapScan.TakeSignal` is the beginning of
`TrapEngine.StartEntry`. In the first the zones are given, in the second what
becomes of an entry is left open (`EntryEnds`, `PositionEnds`).

**Atomicity.** A step is what runs between two awaits that suspend. `_place_exit`
suspends, so an exit is two actions with `exit[l]` in between, one per loop;
`_check_tick_exit` changes `t1_hit` and `remaining_qty` before the order of the
half and `_position` only after the order of the rest, and so do the actions. An
entry task suspends for the quotes, for each order of the ladder and for its
polling (`entry[z].at`). An engine that is dropped cancels its loops, not its
entry tasks: these become orphans that still buy and still write the file.

**Prices** are ranks in the direction of profit, on the scale the stop is kept
on. `Underlying` is the rank of the underlying seen from the premium scale: at the
first target the trail is set to `spot_at_entry` (line 2006) also when prices are
premiums, so that the same tick sells the rest. The profit floor may sell at any
price.

**Scan.** `TrapZones` evaluates the scanner's functions on sequences of bars;
`TrapScan` feeds them ticks. `Resample` is pandas' grid, which starts at the
midnight before the first bar. Times are minutes, `Hour` is the modulus of
`ts.minute`, so that a configuration may shrink the day and keep the quirk that a
long frame is refreshed only when the minute of the hour divides by it. Ticks after
the square-off of the day find an engine that is not initialized (`InSession`). A tick of
a leg is never of an earlier minute than the one before it (`NextMinutes`); the engine
would close a bar on such a tick as well (line 1045). What `_cascade_scan` leaves in
the zones is kept. Confluence filters and switches are `DropSignal`.

### Iron condor

One strategy trades for every binding and gets no fill back: `pos` is what it
believes, `held[b]` what binding `b` holds per leg, strike and expiry. Strikes of
the four legs follow from the at-the-money strike, so that one name stands for
them. The bridge reads the switches of a binding when its turn comes and suspends
at each leg. An EXIT event names no expiry, so `ExpiryOf` takes the registry's
current one. Two products matter over a night: `product`, of the strategy's
configuration, by which `load` keeps or discards the stored position, and `bound[b]`,
of the binding, by which the broker squares off the account (`NewDay`): the bridge
computes the first (`_ic_product`), and the order it builds does not carry it.
`RatioBreach` is the NameError of line 631, which ends the tick task.

### Market data

**Strikes.** A contract is a strike and an expiry in one provider's format; CE and
PE go together. The rebalancer's handlers do not suspend (no feeder yields in
subscribe or unsubscribe), so each is one action. `feed.cached` is GlobalFeeder's
`_cached_tokens` and, once live, the provider's own list; `feed.streaming` is what
the socket delivers. Upstox does not unsubscribe (commented out in the code as it
would drop everything), Fyers does; both ask again for all keys in `on_open`.
Before the first live feed the tokens are in an internal format that no live
provider understands. The close is recorded before it is tested (line 245), so the
unsubscription at the close is not an action: it never runs.

**Shared feed.** `wire` is the client's connection with what is on its way in both
directions, `loop` is where `_ws_loop` stands and `beat` where
`GlobalFeeder._reconnect` stands; both may reconnect at the same time. `drain()`
is the guard `Room`: the broadcast waits for every subscriber in turn.
`Disconnect` and `Closed` are the two sides of `wait_closed`. Abstractions: the
server drops a connection as soon as its client has closed it or lost every
reference to it; one of the two drain tasks is modelled; keepalives and pings,
which change no state, are left out. `Tokens` are option contracts, which is all the
rebalancer subscribes to, and a tick is filtered by its underlying (`Passes`), so no
token ever matches a tick. `Receive` tells ticks of an index, which end the silence
of the heartbeat, from those of options, which do not. A connection that is still
being set up is not called silent (`Fed`): that takes far less than the minute.

### Bounds

`MaxQueue` (orders on the bus), `MaxFills`, `MaxTrades`, `MaxDay` of
the straddle: three queued orders hold a roll between two other orders, two
strikes make a roll move and come back. `MaxDrift` and `MaxOff` bound the
account of a book that opens or rolls: in the runs (1 and 0) it trades on only with
one contract of one strike a side and no order resting; bridge and exchange are not
bounded. The theorems hold for any value of both.
`PerSide`, `MaxHeld`, `MaxStray`,
`MaxFaults` of the trap desk: one zone per side makes two signals race; one kind
of fault per behaviour keeps the cause of what it leads to apart. `MaxEntries` of
the condor: a second entry meets the leftovers of the first. A set of `FaultSets` is
what may happen, so that the smaller sets are in it.
`Strikes`, `Atms`, `Depth`, `Threshold` of the feed: two markets three strikes
apart, windows that overlap in part, with an engine leg inside the window of one
and outside that of the other. `MaxFaults`, `MaxChanges`, `Buffer` of the shared
feed: three faults in any order with two subscription changes; a buffer of one
line makes every reader slow. `MaxTicks` of the scan: a history of three to six
bars with a trap in the making, and four ticks to complete, spoil or repeat it.
Underlyings of the shared feed: one, since the filter compares each tick alone; two
tokens, to subscribe and unsubscribe in different orders.

## 4 Runs and properties

| Run | Environment | Properties | Shows |
|---|---|---|---|
| `settled` | two live books of one underlying on one bridge | `TypeOK`, `Settled`, `OneShortPerSide`, `SettlementInv` | each account settles on its book's belief; no moment of a roll is short twice |
| `liveness` | one live book, fair | `FlatAfterSquareOff`, `EntryAnswered`, `ImplementsLaggedAccount` | the square-off flattens for good; an entry is answered; the account takes each decided leg state in order |
| `two_sessions` | zero fills, aborts, failing reconciles, session change | `PricedOwn` | when all is through, each entry price belongs to the strike of its leg |
| `run_off` | Run toggled, manager queries fail | `NoStrandedShort`, `StoreMatches` | exits ignore the Run flag, so no forgotten short is left |
| `bridge_faults` | zero and misreported fills, fills at any later time, rejected or resting flattens, crashes, terminal off | `AbortLeavesFlat`, `StoreMatches` | an aborted entry is off by exactly what filled after its positions were read, and flat if nothing did |
| `leg` | all kinds of brokers; orders refused or ended, replies lost, status old or lost | `TypeOK`, `BooksTraded`, `Completes`, `KeepsPromise` | nothing is booked that did not trade; the leg ends whole; how far report and trade may part |
| `trap` | two sessions, restarts and replacements, one of six faults | `TypeOK`, `NothingForgotten`, `NothingOversold`, `FileMatches`, `FlatAfterClose` | the account holds what the engine or its file believes in, not more, not less |
| `scan` | option and futures sessions after four histories | `TypeOK`, `ScanMeans`, `SignalEarned`, `NoRepaint` | the one-pass scan finds what a trap is defined to be; zones keep their identity; an entry is an earned one |
| `condor` | two bindings, MIS or NRML each; switches, next expiry, crashes, nights, ratio breaches | `TypeOK`, `Settled`, `Hedged`, `StoreMatches`, `ClosedEndsFlat` | which of these keep strategy and accounts together, and that hedges stay with their shorts |
| `feed` | drift, gap, switch, reconnect, silent leg, pin, night, rollover | `TypeOK`, `PinnedStreams`, `WindowCached`, `DriftLeavesNothing`, `WindowFollows`, `SilenceHeals` | pinned legs stream through everything; the window is subscribed, follows the market and leaks nothing on a drift |
| `shared` | server crash, reset and silent connections, stalled reader, quiet night | `TypeOK`, `InSync`, `TicksResume` | the filter is what the client subscribed to; the client is always joined again, and index ticks reach one that keeps nothing subscribed |
| `find_open_leg_dark` | an open straddle leg and a drift | `OpenStreams` | violated, see section 5 |

Each property of a passing run has a mutant in `PROJECT.json`: a plausible bug of
the code under which TLC finds it violated. The mutated forms stand in the modules
beside the definition they replace, marked "Fault:".

**Where a property holds.** A conjunct `Survives(...)` in a property names the
faults that break it. It is part of the result: the property holds of the others,
alone or in the combinations of `FaultSets`. `Settled`, `OneShortPerSide` and the
refinement of the straddle are about a desk whose legs fill. `PricedOwn` is
checked with one book that is not restarted: with two live books a fill of the
other book changes entry prices, and a book that is down misses its own fill.

**Deadlock** is checked for the straddle, the condor, the feed and the shared feed.
A leg ends by design; the trap desk rests after the square-off time of its last
session and the scan after its last tick.

**Fairness.** Weak fairness of the tasks of an event loop: each runs until it
awaits, and the loop serves all of them. Straddle: the bridge, each book's fill
handler, its end-of-day tick or candle, the manager's spawn. Leg: every await has
a time-out; an exchange fills a market order or ends it. Trap: the lifecycle loop,
exits and entry tasks that wait for a broker, which answers or times out. Condor:
the bridge and the restart of the process. Feed: the rebalancer's tasks, a switch
in progress, a socket that opens and ticks. Shared feed: both loops, a server that
is started again, readers that wake, a market that opens; strong fairness of the
broadcast of each kind of tick, because the market quotes an index and its options
again and again and not only when nothing else happens. Nothing is assumed of
clients, of rules firing or of faults.

## 5 Where the code parts from what is expected of it

The finding in `PROJECT.json`:

- `find_open_leg_dark`: `StrikeRebalancer` says that the strike of every fill is
  pinned and that an open contract keeps streaming. A `StraddleFillEvent` carries
  neither strike nor symbol, `_fill_loop` pins nothing, and a drift of the market
  unsubscribes the legs of an open straddle. Trap engines pin their legs
  themselves (`PinnedStreams`).

Comments and docstrings that the code does not follow. The models follow the code,
and a property that holds says so in its comment:

- **The abort.** `_reconcile_flat` promises to "Make the broker ACTUALLY flat" and
  calls itself "the only reliable guard when an order the executor reported as
  unfilled is still live and fills late" (`straddle_bridge.py` 477-480). It reads the
  positions once. What fills after that stays in the account, and a flatten order
  that was accepted and is still open at the read is sent a second time, by position.
  `AbortLeavesFlat` states what it does achieve.
- **The condor's product** is "independent of the broker binding. Broker honours
  req.product" (`ic_bridge.py` 183-184). The `OrderRequest` (227-235) carries no
  product, so the binding's own decides, MIS by default (`broker_zerodha.py`
  202-212, `broker_upstox.py` 193): a condor configured NRML on such a binding is squared off
  overnight while the strategy keeps its position. `Settled` is stated over a night for
  the bindings that say NRML as well (`Carried`); without that conjunct TLC shows the
  square-off.
- **When a trap closes.** `scan_htf` says "CLOSED when: after TRAPPED, any future bar
  LOW <= Zone Trigger" (`scanner.py` 37); the code closes at the sellers' entry, above
  the trigger (85-91), as the comment there has it. `StatusAt`, and with it `ScanMeans`,
  is that of the code.
- **When a cascade enters.** The engine's header says "Entry fires on 5-min TRAPPED
  (cascade: no CLOSED step required)" (`trap_scanner_engine.py` 35), and so do the
  docstrings of `_run_ltf_on` (1223) and `_cascade_scan` (1505). The code selects among
  closed zones in both modes (1323). `SignalEarned` asks for the return accordingly: it is
  stronger than the header, and it holds.
- **The shared feed's filter.** "Only send to clients that subscribed to this symbol OR
  subscribed to everything" (`feed_server.py` 175): clients subscribe contracts, the
  symbol compared is the underlying (177). From the first contract on no tick passes,
  no index tick ends the silence, and the heartbeat reconnects for ever.
  `TicksResume` states what is left: the client is always joined again, and ticks
  arrive at one that ends up subscribed to nothing.

Met while modelling, described as hazards:

- Straddle: `_fill_loop` compares the underlying only, so an aborted entry of one
  client drops the position of the other books of that underlying. `_do_leg` reads
  a field that an `OrderFill` does not have and takes the whole quantity for a leg
  that filled in part. Disconnecting clears `terminal_connected` before the
  square-off that it gates (`NoStrandedShort` fails with "terminal_off" among the
  faults). The stop of the day is set after the session file was written. An exit
  leg that does not fill is confirmed as closed.
- Leg: with a status that lags, the ladder sends a remainder that has already
  traded; an exception in the middle of the ladder discards what was booked.
- Trap: two signals may both buy; the loops may sell the same contracts at once; an
  entry that fills after six seconds is taken for rejected; after
  `set_expiry_mode` an engine neither initialises again nor squares off; a 75-minute
  frame is refreshed on the hour only.
- Condor: the adjustment criteria raise NameError and end the tick task; an exit
  names no expiry; a failed leg is only logged.
- Feed: pins have no counts; the close is recorded before it is tested, so the
  unsubscription at the close never runs and after a reset no later session
  anchors. A strike that an engine pins outside the window counts as active and is
  never asked for when the window reaches it (`PinsNear` in section 6).
- Shared feed: a slow subscriber delays all others; `FEEDER_DOWN` has no consumer.

The states that lead there are in the models: each can be reproduced by dropping
the `Survives` conjunct, or by choosing the faults of the configuration.

## 6 Proofs

All theorems hold for every value of the constants that meets the modules' named
assumptions: any number of books, bindings, engines, strikes and contracts, any
bounds, frames and ladders, any sets of faults per behaviour. The assumptions say
that bounds are natural numbers, that quantities, prices and frames are positive,
that no leg is called "flat"; that the strikes a trap engine orders are strikes of
the chain (`FeedAssumption`); that the bars a session is seeded with are well
formed, in order of time and older than its start, and that a session on futures has
the leg of the future (`HistoryAssumption`); that a leg keeps as many bars as a day
has minutes (`KeptAssumption`: the engine keeps 2000, a day has 1440); that the
bindings of the condor are finitely many and not none (`CondorAssumption`: its
bridge serves them one after the other). TLC evaluates each of them on a run.

| Theorem | States | For | Inductive invariant |
|---|---|---|---|
| `TypeCorrect` | `TypeOK` | every fault | `TypeInv` |
| `StoreMatchesTheorem` | `StoreMatches` | every fault but "new_day" | `StoreInv` |
| `AbortLeavesFlatTheorem` | `AbortLeavesFlat` | every fault but "reconcile_fails" | `AbortInv` |
| `PricedOwnTheorem` | `PricedOwn` | `Undisturbed` | `PriceInv` |
| `Settlement` | `SettlementInv` | `Toggled` | itself |
| `NoStrandedShortTheorem` | `NoStrandedShort` | `Toggled` | `SettlementInv` |
| `SettledTheorem`, `OneShortTheorem` | `Settled`, `OneShortPerSide` | `Reliable` | `SettlementInv` |
| `LaggedAccountTheorem` | the refinement of `LaggedAccount` | `Reliable` | `SettlementInv` |
| `LegTypeCorrect`, `BooksTradedTheorem` | `TypeOK`, `BooksTraded` | all | `LegInv` |
| `KeepsPromiseTheorem` | the refinement of `LegPromise` | all | `LegInv`, `PromiseInv` |
| `TrapTypeCorrect` | `TypeOK` of `TrapDesk` | all | `TypeInv` |
| `FileMatchesTheorem` | `FileMatches` | all | `FileInv` |
| `NothingOversoldTheorem` | `NothingOversold` | all | `OversoldInv` |
| `NothingForgottenTheorem` | `NothingForgotten` | all | `ForgottenInv` |
| `ScanTypeCorrect` | `TypeOK` of `TrapScan` | all | `ScanInv` |
| `ScanMeansTheorem`, `NoRepaintTheorem` | `ScanMeans`, `NoRepaint` | all | `ScanInv` |
| `SignalEarnedTheorem` | `SignalEarned` | all | `EarnInv` |
| `CondorTypeCorrect` | `TypeOK` of `CondorDesk` | all | itself |
| `HedgedTheorem` | `Hedged` | all | `HedgedInv` |
| `CondorStoreTheorem` | `StoreMatches` of `CondorDesk` | all | `StoreInv` |
| `CondorSettledTheorem` | `Settled` of `CondorDesk` | all | `CalmInv` |
| `FeedTypeCorrect` | `TypeOK` of `StrikeFeed` | all | `FeedType` |
| `PinnedStreamsTheorem` | `PinnedStreams` | all | `PinInv` |
| `DriftLeavesNothingTheorem` | `DriftLeavesNothing` | all | `DriftInv` |
| `WindowCachedTheorem` | `WindowCached` | no pin, or `PinsNear` | `WinInv` |
| `SharedTypeCorrect`, `InSyncTheorem` | `TypeOK`, `InSync` | all | `SyncInv` |

"All" means that the property names the faults that break it (`Survives`), and the
theorem has no hypothesis besides. Every invariant was checked by TLC on the run of
its module before it was proved.

### Straddle

*Settlement.* `Settled` speaks of the moment when no order is outstanding, so it says
nothing that a step could preserve. `SettlementChain` generalises it: for each live
book and side there is a leg `h` where the account is (`Within`), and from it the
queued orders that still touch the side form a chain to the belief (`Linked`). The
first finds the leg `h`, each later one the leg its predecessor leaves, the last
leaves what the book believes. With no order the chain is empty and the two ends
meet: that is `Settled`. A decision appends links whose beginning is the old belief
(this is where `_single_side_roll` must build the closing order from the strike before
the roll); `LegDone` removes the first link; an executed order is not a link any more
when it leaves the queue. Order numbers shift then, so the chain is stated with
quantifiers over positions and not with a recursive function. Restarts keep the
belief because the file equals memory (`StoreMatches`) and is dated today
(`FilesOfToday`); no fill takes a position away because no entry is aborted
(`NoAborts`), and that rests on legs that fill (`LegsFill`).

*The Run toggle.* With it an entry may be dropped at the bridge, and the exit of what
was never sold buys nothing that the model would have to hold: the account is then
short of at most the leg `h`, not exactly of it. `Within` says which of the two holds.
The same chain so gives `NoStrandedShort` with the toggle (`Toggled`) and `Settled`
and `OneShortPerSide` without (`Reliable`). An entry that is dropped is the reason why
`Settled` itself fails with the toggle.

*The refinement.* `LaggedAccount` maps to the beliefs, to the legs the queued orders
still leave one after the other (`Outstanding`), and to the leg each account is short
(`HeldLeg`). The queue is stated by rank, as `Nth` of the orders that wait, and not with
`SelectSeq`, about which the library has no facts. Of a step the proof counts nothing: `ListsNth`
says that any increasing list of the waiting orders is the one, and a list is easy to
follow as the queue changes: an order that is published is added at its end
(`LegsAppend`), `LegDone` takes its first (`LegsHead`), an executed order that leaves
shifts it (`LegsTail`). A book's handler then is a `Decide` (`OneOrderFollows`,
`TwoOrdersFollow`), a leg at the exchange an `Execute`, and the chain of
`SettlementInv` says that the account is where the first waiting order expects it, so
that the leg reached is the head of the queue. All else stutters.

*Files and aborts.* `StoreMatches` rests on `_persist` following each change of the
position, and on `sday`: within a session no candle finds a session of another day
and resets a book without writing. `AbortLeavesFlat` speaks of the end of the
reconcile. `Squaring` is its invariant while the orders go out: each leg of the entry
is off by what was read of it and is still to be sent, and by what the exchange has
traded since. The read makes it true, an order that squares moves one leg from the
first to neither, a fill of a resting order moves account and `missed` alike; crashes
end the abort. Where a fill comes before the read, it is in what is read.

*Entry prices.* `PricedOwn` speaks of a book that waits for nothing. `PriceInv` says
where the price of a leg is until then: the last queued order that names the side as
an entry carries the price of the strike the side is at; if no order does, the last
fill; if no fill does, the position has it. An aborted entry among the fills drops the
position and so excuses it. `Undisturbed` is what this needs: one book, because the
order of a book is filled for all that trade the underlying and an abort of another
one drops this book's position; and no order lost at the bridge, because a position
whose entry was never sent keeps a price of 0. A book that is restarted adopts a
position whose entry may be under way, hence no stop, disconnect or crash.

### One leg

`BooksTraded` is not inductive: between sending an order and booking it, what the
order trades is not booked yet, so `TradedBound` says
`booked + order.traded <= traded` in those two phases, and `SentBound` counts rungs.
The refinement needs two facts more. Where nothing is sent twice (`Single`: market
orders, or limit orders whose status is neither old nor lost), `NothingTwice` says
that the books are complete whenever the ladder sends its next order and that what
is still to trade belongs to the last order; so all orders together trade the leg
once. An adapter that counts what was ordered books all or nothing (`AllOrNothing`).
An exception discards what was booked, but leaves a part of the leg at most traded;
this is why an exact report may still be 0 for a partly filled leg.

### Trap scanner

*Types* need `Whole`: a position is whole until its target is hit and half from then
on; else a half exit could sell nothing. *The file* needs `Owned` and `Paired`: entry
tasks are the engine's own unless one outlived a stop, and only the half exit
separates file and position.

*The account.* Both bounds are about the moments in between, so they count what is on
its way: `HalfAway` is a half that the position counts as sold while its order is at
the broker, `Due` and `Bought` are the tasks whose order has traded and whose position
is not made yet. `Covered` bounds the account from above by position, half and dues,
and gives `NothingForgotten` where all three are zero but the position; `Backed`
bounds it from below, for position, file and every exit at the broker, and gives
`NothingOversold`. `Backed` needs `OneExit`: one exit at a time, by an engine that is
ready, of a position of today; this is what overlapping loops take away, while
`Covered` survives them.

*The scan.* `Ordered` adds to the types that a leg without a tick yet has the bars it
was seeded with: the first bar is placed at the session's start and not after a bar.
`Entries` joins the announced zones with the entered ones.

*What a scan computes* is a recursion over bars, so its proofs are inductions over
data. The library's induction theorems take an operator; the lemma `Induction` of
`TrapScan_proofs` states the same for a set of numbers, from the well-foundedness of
`<` on the naturals, and every induction cites it with the set of the lengths for
which the claim holds. `Listed` and `Picked` replace `SelectSeq` in `TrapZones` for
this reason: `Listed` gives an increasing list of exactly the positions of a set
(`ListedLists`), the same for sets that agree up to its end (`ListedSame`), and all
facts about selections and resampling come from these two.

*`ScanMeans`.* `History` says what a zone remembers after a number of bars: it is
active and no bar broke it; or bar `t` was the first that did, and it is closed if a
later bar came back. One bar keeps this (`HistoryStep`), where "not on the bar that
traps it" of the scanner needs that bars have different times; so resampled bars must
rise too (`ResampleRises`). `StatusMeans` reads the status of the definition off the
history, for both kinds of zone at once: those of buyers are those of sellers in the
mirror (`LooksAt`).

*`NoRepaint`* is a fact of one step. A closed minute widens the last long bar or
begins another (`ResampleWider`): the old long bars are a prefix but for the last,
which only gets wider and ends at another price. A break or a return in bars remains
one in wider bars, so a scan of wider bars finds each zone again, no less far on
(`WiderForward`). A zone that is still active may find its low moved; one that is
trapped opened on a bar before the last, which is why the property asks for levels of
those only.

*`SignalEarned`* speaks of entries, but a signal is made long before it is taken.
`EarnInv` says it of every task that waits as well (`Signals`), and that no bar is
made outside the session (`OnDay`). A closed zone of bars is earned in them
(`ClosedEarned`), of whatever part of today the scan looked at: a window, the bars at
a zone, the complete bins of a cascade. Each way to a signal is one lemma over this
(`RetestEarned`, `AllClearedSound`, `ScanNormalSound`, `CascadeSound`). Later bars keep
it true only while the earning bars are there: `TodayKept` says that a leg which
keeps a day of bars drops none of today's, since bars are minutes apart. That is the
one place where `KeptAssumption` and the end of the session are needed.

### Iron condor

`Hedged` speaks of the moment when the bridge rests. `HedgedBase` takes from each
account what the bridge has sent of the event it serves; what is left moves only when
an event is done with a binding, for all four legs at once. `Settled` needs the queue:
`Chain` says that each event leaves what the next one finds, ending at the belief, and
`Accounts` that each binding holds what the first event finds or leaves, depending on
whether its turn is over, with the legs sent so far for the binding in turn. Over a
night both ends stay where they are for the bindings that are `Carried`, and
`Accounts` is stated of these.

### Market data

`PinInv` joins `Kept` (the legs of the engine that scans are cached, and every drift
finds them pinned or outside what it drops) with `Live` (Upstox's socket streams what
is cached). `DriftInv` says that before a live feed only engines have subscribed and
that one expiry is subscribed until the rollover; then what a drift finds outside its
window is either pinned or unsubscribed by it. `WinInv` says that active strikes are
subscribed; a drift asks only for strikes that are not active yet, so it needs that.

The proof of `WindowCached` found a condition that the run meets without saying so. A
strike that an engine pins counts as active, but pinning does not subscribe it in the
rebalancer's name. If it lies outside the window, and the market comes to it later,
the drift does not ask for it: the window has a hole. With markets nine strikes apart
TLC shows this. `PinsNear` says that engines order strikes near a market whose every
strike next to it is in each window, and the theorem is stated under it or without
pins.

`InSync` is inductive with the types: it speaks of a connection that works, and
`After` of the commands under way, so that sending a command and handling one leave it
as it is.

### Layout

Lemmas about operators, sequences and records first, then one lemma per action or
group of actions with a step per conjunct it disturbs, then the step of the whole
relation, then the temporal step.

### Model-checked only

- Liveness (`FlatAfterSquareOff`, `EntryAnswered`, `Completes`, `FlatAfterClose`,
  `ClosedEndsFlat`, `WindowFollows`, `SilenceHeals`, `TicksResume`): fairness and
  ENABLED are beyond the prover.
- The average range (`Atr`) and the reach it gives a zone: no property is about them;
  the theorems of the scan hold whatever they are.

## 7 What is not modelled

- Straddle: NRML carry-forward, and the re-spawn of a flat book on an edited lot
  multiplier; full bus queues; exceptions of the trade log; an exit of which only a
  part fills.
- Trap: ticks of an earlier minute than the last, the legacy spot source, the sweep
  re-entry (its zone is in `_notified_uids` from the first entry on, so that it fires
  only after a restart), REST seeding, telemetry, the second strikes CE2 and PE2 beside CE1 and PE1.
- Condor: adjustments, which nothing reaches.
- Feeders: DualFeeder's duplicate window and streams, the frame parsers, the Delta
  feeder and its chain manager.
- CandleCache, OptionMatrix and StatePersistence.
- Indicators, rule evaluation and premium arithmetic: they decide when an action
  fires, and the models let it fire always.
- The components named below the table of section 1; `PROJECT.json` gives a reason
  for each.

## 8 Plan

1. `LegDone` of `StraddleBridge` replaced by the promise of `LegPromise`.
2. CandleCache: buckets under late ticks. StatePersistence: the order of restore
   and reset at the opening.
