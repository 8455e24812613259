# tick_trader, specified and checked

TLA+ models of the trading engine, TLC configurations that check them on small
instances, and TLAPS proofs that hold for every value of the constants. Paths
are relative to the repository root.

## 1. The system

One engine thread (`src/main.cpp`) reads trades from an exchange stream, decides
when to buy, watches the take-profit and stop-loss levels of what it holds, and
keeps the books. A second thread draws the terminal interface and turns keys
into request flags. A file holds a snapshot for restarts. In live mode a REST
API mirrors paper purchases and sales on the exchange.

| Component | State | Operations | Interacts with |
|---|---|---|---|
| Engine loop, `main.cpp` | last trade, `has_data`, live bitmap | poll, burst drain, requests, wind-down, session boundary, engine tick, live orders | everything below |
| Buy gate, `OrderGates.hpp` | none of its own | `BuyGate` | reads `buy_conds`, writes the order pool |
| Order pool, `PoolAllocator.hpp` | 64-bit bitmap, slots | place (by `BuyGate`), consume (by the controller) | bitmap shared by both |
| Portfolio, `Portfolio.hpp` | 16-bit bitmap, positions, exit buffer of 16 records | add, remove, `PositionExitGate`, clear | exit gate writes records, controller drains them |
| Controller, `PortfolioController.hpp` | phase, counters, balance, statistics, `buy_conds`, regime, cooldown | `Init`, `Tick`, `DrainExits`, `Unpause`, `CycleRegime`, `HotReload`, `SaveSnapshot`, `LoadSnapshot` | pool, portfolio, strategies, regime detector, trade log |
| Regime detector, `RegimeDetector.hpp` | current and proposed regime, count, threshold | compute signals, classify with hysteresis, map to a strategy, adjust positions | called by the slow path |
| Strategies, `MeanReversion.hpp`, `Momentum.hpp` | adaptive filters, windows of prices | `Init`, `Adapt`, `BuySignal`, `ExitAdjust` | compute `buy_conds`, trail exit levels |
| Stream, `BinanceCrypto.hpp` | connection, connect time | poll, read, reconnect, session clock | engine loop |
| Order API, `BinanceOrderAPI.hpp` | filters, time offset | signed requests with retries | engine loop, live mode |
| Terminal interface, `EngineTUI.hpp` | request flags, two snapshots, active index | raise flags, copy, draw | flags and snapshots shared between threads |
| Trade log, `TradeLog.hpp` | ring of 64 records, file | push, drain | controller |
| Configuration, `ControllerConfig.hpp` | record of parameters | load, defaults | start and reload |
| Numerics, `FixedPoint/`, `ML_Headers/` | windows of samples | fixed-point words, rolling sums, regressions | controller, strategies |

What is hard here is not parallelism inside the engine, which has one thread.
It is that several functions share a few bitmaps, counters and one small record
(`buy_conds`), that they run at different rates (each frame, each tick, each
`poll_interval` ticks, each session), and that the state one leaves behind is read
by another much later:

* an exit record points at a slot, and the slot can be bought again first;
* a fill stays in the pool when the portfolio is full;
* six writers open and close the gate, and "closed" is written as zeroes whose
  meaning depends on a direction that another writer left;
* the operator, the statistics, the cooldown and the session clock write the
  same gate in an order fixed by the loop;
* a snapshot restores some of the state and not the rest.

`PROJECT.json` lists these hazards line by line, with the property that covers
each.

What makes the components correct:

* **Core** (controller, portfolio, pool, exit buffer): every purchase is in one
  place and booked once, the counters keep in step with the portfolio, no duplicates,
  no purchase above the cap, exits are booked in the end, trapped positions are
  freed.
* **Gate**: strategy and regime agree, hysteresis means what it says, a regime
  that pauses buying does, nothing closes the gate for good.
* **Exit levels**: target above stop, risk in proportion to reward, a target that
  pays the fees, a stop that only rises.
* **Money**: the balance is explained by profit and investments; the trade log is
  the journal of the session and adds up to the books.
* **Stream**: a lost stream is reopened; a session ends before the exchange cuts
  it.
* **Snapshot**: what is restored is a state the engine was in.
* **Orders**: a live bit has its BTC in the account and the account nothing else,
  except where an answer was lost; every fill has an order behind it or is undone;
  orphans are known and end.
* **Interface**: a frame shows one slow path, frames never go back, no key is lost,
  a quit ends both threads.
* **Numerics**: each operation on words computes what integers compute, conversions
  lose no more than their format must, and where the two builds differ is known.

## 2. Modules

| Module | Models | Proofs |
|---|---|---|
| `LotLedger` | what the engine promises of a purchase, without slots or buffers | |
| `PortfolioController` | the engine tick: pool, portfolio, exit buffer, counters | `PortfolioControllerProofs` |
| `MCPortfolioController` | its instances | |
| `GateControl` | the owners of the buy gate: keys, slow path, session | `GateControlProofs` |
| `MCGateControl` | its instances | |
| `MarketStream` | the exchange's stream and the loop that reads it | `EngineLoopProofs`, first part |
| `MCMarketStream` | its instances | |
| `Persistence` | the books, the snapshot file, crashes, restarts and session ends | `EngineLoopProofs`, second part |
| `MCPersistence` | its instances | |
| `LiveOrders` | market orders, retries, undo and reconciliation | `LiveOrdersProofs` |
| `MCLiveOrders` | its instances | |
| `Books` | balance, fees, profit, wins and losses, the trade log's ring | `BooksProofs` |
| `MCBooks` | its instance | |
| `Levels` | the two exit levels of a position: set, switched, trailed, tested | `LevelsProofs` |
| `MCLevels` | its instance | |
| `Display` | the two threads of the multicore build and what they share | `DisplayProofs` |
| `MCDisplay` | its instance | |
| `FixedPointN` | `FPN<F>`, word by word | `FixedPointProofs` |
| `FixedPoint64` | `FP64`, the same number in a 128-bit word | `FixedPointProofs` |
| `Rounding` | floating point: a mantissa and the rounding to it | `FixedPointProofs` |
| `FixedPoint` | chains of operations on both, beside the integers | `FixedPointProofs`, last section |
| `MCFixedPoint` | its instance | |

### PortfolioController

`pc` names the function the thread is in; every iteration of a loop over a bitmap
is one step. The variables are the fields of the structures with the code's
names (`active_bitmap`, `prev_bitmap`, `exit_buf`, `tick_count`); bitmaps are sets,
`__builtin_ctz` is `IsLowest`. `ReadTick` and `BuyGate` are the two places of the
loop that start an exit-gate walk, `ExitGateStep` is the body of
`PositionExitGate`; `TickWarmup`, `TickActive`, `ConsumeFill`, `FillsDone`,
`DrainExit`, `DrainDone`, `TimeExit` and `SlowPathReturn` are
`PortfolioController_Tick` cut at its loops. `HotReload` replaces the three
configuration fields that decide control.

Data is abstracted to what control asks of it: whether the gate passes (`pass`),
which level is hit (`hit`), whether balance, exposure and drawdown allow a
purchase (`funded`), the spacing the statistics ask for, whether a held position has
little gain (`low_gain`), whether the wall clock forces the slow path
(`time_floor`). All are inputs of the actions, so the properties hold whatever
the market does. `total_ticks - entry_ticks` is kept as an age per slot and
counted to `MaxAge`, beyond every `max_hold_ticks`; a restored slot starts below
zero, because a snapshot restores entry ticks and not the clock.

`LoadSnapshot` is part of `Init`: it restores the bitmap, the positions, their entry ticks
and the counters (`RestoredStats`). The counters are whatever the file holds, and need not
fit the portfolio: `main.cpp` saves at line 330, 399 and 917 with exits still in the
buffer, which no file keeps, and files older than version 7 hold no counters, so that
restored positions count as no purchase. `Unaccounted` is the difference.

A *lot* numbers a purchase. It is history, in no field of the program: with it
a property can say that a slot still means the purchase it meant before.

### GateControl

Levels are zero or not (0 or 1), because closing the gate means writing zero.
The engine visits `pause`, `cycle`, `reload`, `session`, `gate` and `tick` in the
order of the loop; `Press` is the TUI thread raising a flag at any moment,
`SessionClock` the wall clock, `StreamLost` a failed read. `SlowPath` is the slow
path from the drain to the cooldown override. `fills` (what waits in the pool) and
`holdings` (open positions) are counts: a trade that passes the gate is a fill, a fill
is opened or refused in the next tick of trading, an exit takes a position away, and a
stop loss needs a position to take. Without them stop losses would come from nowhere, and
with them a cooldown that restarts for ever needs purchases that come for ever. `streak` is
history.

### MarketStream

What the exchange sends arrives in TLS records (`wire`, the socket); reading one
decrypts all its frames (`buffered`, what `SSL_pending` counts). `TcpConnect`,
`TlsSetup` and `WsHandshake` are the layers of `BinanceStream_Init`, each of which
can fail; `Reconnect` is `BinanceStream_Close` and the clearing of the structure.
`Poll`, `StreamKeys`, `Session`, `EngineTick` and `Cleanup` are the loop of `main.cpp`;
`Decrypt`, `ReadTrade`, `SkipFrame` and `LoseStream` are `BinanceStream_ReadTick`,
which blocks in state `read` when there is nothing on either side. The frames are
trades, pings, others (a message that is no trade, an unknown opcode), a close
frame, and a read that fails. `SessionClock` is the session's 23 h 30 min, longer
than an iteration. `looping` is the loop's `running`. `lost` is history. This module and
`Persistence` share no name, so that one module can prove about both.

### Persistence

The books are four sets of lots: `spent` (the cost has left the balance), `open`
(held), `pending` (in the exit buffer), `booked` (the proceeds are in the
balance). `Save` is the `fopen` of `SaveSnapshot`, which empties the file, and
`Flush` the write; the fields fit one buffer of the C library (2.8 KB), so a crash
in between leaves an empty file and never a part. `Save` has the code's four
callers: `StreamLost`, `SessionEnds`, `Snapshot` (the slow path, in warmup too) and
`Shutdown`. `SessionEnds`, `ForceClose`, `Closed` and `NewSession` are the session
boundary of `main.cpp` step by step. `Crash` can come between any two steps;
`Restart` is `PortfolioController_Init` and `LoadSnapshot`. `bought`, `stranded` and
`starts` are history. Whether a session is over, the slow path due or a level hit
is left open.

### LiveOrders

The engine's own steps are coarse here (`PortfolioController` has them in detail):
`ExitGate` clears a bit and leaves a record, `Fill` takes the lowest free slot,
`SlowTick` drains the records and closes some old positions by time. What main.cpp
does around them is step by step: `SaveExits` copies the pending slots,
`AfterTick` decides on orders, `Buy` and `Undo` are the two loops after a fill,
`NothingToSell`, `SellAll` and `SellOne` the three branches after an exit,
`QueryFails` to `OrphansSold` the reconciliation of the slow path, `StartFails` to
`StartSwept` that of the start, `SessionEnds` the sale before a reconnect.

`order` is the request that `binance_retry_request` works on, with the attempts
left and the place to go back to. `Filled` is an answer 200; `Refused` a client
error, which is not repeated; `Unanswered` everything else, where the exchange may
have executed the order all the same; `GiveUp` the last of these. `Answered` is what
the caller then does to `live_position_bitmap`: a purchase sets its bit if it was
answered, a sale clears its bits in any case.

A position is one unit of BTC and a live bit stands for one. `drift` is history:
"surplus" when the account may hold BTC without a bit, "shortfall" when a bit may
lack its BTC; the actions that add to it are the ways in which the code cannot
know better. `missed` remembers the orphans of a failed query, `reused` the slots
filled while their bit was still set. Money, fees, rounding and dust are left out,
and so is an answer 200 to an order that was not executed.

### Books

The controller of the paper engine again, reduced to what moves money. `books` holds
the amounts and counts of `PortfolioController`; `Sale` is the arithmetic every exit
repeats, and `ExitBooked`, `TimeExitBooked` and `ForcedCloseBooked` are the three ways
the code writes it down. Amounts are integers, `Portion` truncates as `FPN_Mul`
does, so a property cannot hide in rounding. `trade_buf` is the ring of `TradeLog.hpp`
with its head and count, `csv` the file. `journal` (what was logged, in order),
`dropped`, `exact` and the lot and fee in a position are history.

`exact` is about the two ways the amounts can lie: an exit booked for the lot that
has taken the slot since, and an entry fee computed again at a rate that a reload
has changed. `CashExplained` is what holds while neither has happened.

How long a position was held is open (`TimeExit` asks for its gain only), as are the
limits on exposure and drawdown. Slippage is zero. Live mode's undo and the balance
it takes from the exchange are left out, and so are restored portfolios and the drain
during warmup, which `Persistence` has.

### Levels

A position is its entry, its two levels and the strategy that bought it. `Buy` sets
the levels, `Floored` keeps the stop in proportion, `Widened`, `Tightened` and
`CutShort` are the branches of `Regime_AdjustPositions`, `Trail` is
`Momentum_ExitAdjust`, `ExitGate` the test. `SlowPath` is the order in which the code
calls them: statistics, regime, adjustment, strategy. `Restart` keeps levels and
regime and forgets statistics, as the snapshot does. Prices, volatility, the regime
detected and whether the trend is strong enough to hold on are inputs.

`exits` counts the records in the exit buffer. A hit is recorded, and its position closed,
while there is room; a hit that meets a full buffer leaves the position open, past its
level, for the rest of the tick and the slow path to see. The buffer is drained by the slow
path and by a warmup tick.

`trailed`, `widened` and `tightened` say what happened to a slot's levels; `late`
marks fills that waited in the pool since the warmup, whose price may be past their
target when they are bought; `overdue` marks positions whose target was reached while the
buffer was full. `ratio` is the `min_sl_tp_ratio` in force when the levels were last
set: it is one of the fields a reload replaces (`PortfolioController.hpp:800`), and open
positions keep the levels the old one gave them.

### Display

The engine thread is cut at every access to shared memory: the plain stores of each
tick, the carrying over of the graphs, `TUI_CopySnapshot` in four groups of fields,
the append, the release store of `active_idx`, the exchange of each request flag. The
TUI thread chooses a buffer, draws the sections of its layout one by one, reads one
key. A field's value is the engine tick it was stored in: a frame with two versions
of slow fields is torn. `Interrupt` is a signal, with the handlers one of the two
interfaces installs.

The two threads share plain memory without a lock. A section is read atomically, which
the code does not guarantee for the words of one number; `InTime` says when the
engine has not come round to the buffer being drawn, and the properties about frames
hold under it.

### FixedPointN, FixedPoint64, Rounding, FixedPoint

`FixedPointN` translates the loops over words with their carries, borrows and masks,
for words of any width and numbers of any even length; `FixedPoint64` the 128-bit
arithmetic that replaces it for two words in a build with `USE_NATIVE_128`. `Rounding`
is the floating point both go through: a double is a whole number of `Mantissa` bits
times a power of two, and a conversion or a sum that is none becomes the nearest one, a
tie the even one. `FPN_ToDouble` rounds at every word it converts and at every sum;
`FP64_DivNoAssert` divides two doubles in a long double and rounds the quotient to a
double. None of the three has state. `FixedPoint` chains operations on a register, so that what one leaves
behind (a negative zero, a saturated magnitude) is the next one's operand, and
compares every result with the integers it stands for.

The constants are the format: `Bits` of a word, `N` words, half of them after the point;
`Radix` and `Places` are the digits of a string, ten and 20 in the code. `FormatAssumption`
asks for words of at least one bit, an even number of them, and as many digits as tell the
fractions apart (`DigitsOK`), as 20 decimal digits do for `FPN<64>`, whose fraction is
one word of 64 bits: 10^20 > 2^64. `Mantissa` and `LongMantissa` are 53 and 64 in the
code, so that a double holds less than a word and a long double one word; `Exponents`
bounds the powers of two that are tried as spacing. An action is one call; `last` is the history of which
it was and on what, and `Continue` forgets it.

Left out are square roots, which are forwarded to the 128-bit build as well and differ
there, and the transcendental helpers.

## 3. Runs

| Run | Configuration | Question | Result |
|---|---|---|---|
| `core` | 2 slots, 2 pool slots, 2 records, 2 prices, 2 purchases, restarts with 0 or 1 position and counters that fit it or not, two configurations | safety of the core and refinement of `LotLedger` | holds |
| `live` | same sizes, 1 purchase, time exit in force | exits booked, positions freed | holds |
| `pool_leak` | as `core`, 1 purchase | does the pool keep a free slot? | violated |
| `gate` | 2 detections, 3 keys, 2 configurations, 1 fill and 1 position at a time | do strategy and hysteresis hold, does buying resume? | holds |
| `gate_zero` | 4 detections | does a zero price close the gate? | violated |
| `stream` | records of 0 to 2 frames of every kind, 2 records in the socket, 3 descriptors | sockets accounted for, bursts drained, ticks and quitting go on while the market trades | holds |
| `session` | 4 lots, 2 slots, 2 records, 3 starts, interchangeable lots | are the books right over crashes, restarts and session ends? | holds |
| `orders` | 2 slots, 1 retry, 3 BTC, any snapshot and any balance at the start | do bitmap and account agree, is every fill backed, do orphans end? | holds |
| `books` | 2 slots, 2 records, ring of 2, 2 prices, 2 fee rates, 2 purchases | is the balance explained, is the log the journal, does it add up? | holds |
| `levels` | 1 slot, 1 record, 3 prices, 3 volatilities, 2 configurations with different ratios | stop below target, fees paid, who is trailed | holds |
| `display` | both interfaces, 3 layouts, graphs of 2 points, 3 keys, 3 ticks | whole frames in order, no key lost, both threads end | holds |
| `numbers` | 2 words of 4 bits, 2 decimal digits, a mantissa of 3 bits and a long one of 4, every operation, chains of any length | words against integers, one build against the other | holds |

What the properties say, and the theorem that proves each for every size, if one does:

| Property | Says | Theorem |
|---|---|---|
| `LotsAccounted` | every purchase is open in one slot, in one exit record or booked, and in one of them only | `LotsAlwaysAccounted` |
| `RefinesLedger` | the engine implements `LotLedger` | `EngineRefinesLedger` |
| `CountersBalance` | purchases less open positions, waiting exits, wins and losses never change from what the snapshot left | `CountersAlwaysBalance` |
| `NewFillVisible` | a slot remembered as seen is still occupied | `NewFillAlwaysVisible` |
| `DistinctEntries` | no two open positions share an entry price | `EntriesAlwaysDistinct` |
| `FillsRespectCap` | no purchase exceeds the cap in force | `FillsAlwaysRespectCap` |
| `ExitsEventuallyBooked`, `TrappedPositionsFreed` | recorded exits are booked; a position that never gains is closed | |
| `StrategyFollowsRegime` | the strategy in use is the regime's, whoever changed the regime | `StrategyAlwaysFollows` |
| `HysteresisRespected` | a switch takes `threshold` detections in a row | `HysteresisAlwaysRespected` |
| `BuyingResumes` | no cooldown and no pause closes the gate for good, except a cooldown that purchases through the gate keep restarting | |
| `OnlyLostStreamsLeak` | only a lost stream leaves a socket or a TLS context behind | `LeaksAreLostStreams` |
| `DrainedBeforeTick` | the engine tick sees the last trade of a burst | `AlwaysDrainedBeforeTick` |
| `TicksGoOn`, `QuitEnds` | ticks come over lost streams; quitting ends the process | |
| `HeldIsPaid` | what is held or waits was paid for and has not been paid out | `HeldIsAlwaysPaid` |
| `OnlyStrandedMissing` | only exits waiting at a snapshot go missing | `OnlyStrandedGoMissing` |
| `SlowPathSavesAll` | the slow path's snapshot leaves no exit out | `SlowPathAlwaysSavesAll` |
| `QuitResumes` | a restart after quitting finds what was there | `QuitAlwaysResumes` |
| `LiveIsBacked` | a live bit has its BTC, but for the cases the code cannot see | `LiveAlwaysBacked` |
| `NoForgottenBtc` | BTC has a live bit, but for those cases | `NoBtcForgotten` |
| `OrphansAreKnown`, `OrphansEnd` | a live bit without a position is an exit of this burst or one no query has seen; it ends | `OrphansAlwaysKnown` for the first |
| `FillsAreBacked` | a fill of this tick has a real order or was taken back | `FillsAlwaysBacked` |
| `CashExplained`, `LogAddsUp` | the balance is what profit and investments say; the log adds up to the books | `CashIsExplained`, `LogIsTheBooks` |
| `LogIsJournal` | file and ring are the session's trades in order | `LogIsTheJournal`, with `ProfitIsSplit` beside it |
| `StopBelowTarget` | the stop is below the target, but for warmup fills and targets reached with the buffer full | `StopsBelowTargets` |
| `OnlyWidenedTrail` | only what a switch widened, the warmup left over or a full buffer kept open is trailed | `OnlyWidenedAreTrailed` |
| `TargetPays` | a target covers the fees unless a switch lowered it | `TargetsPay` |
| `FrameWhole`, `FramesNeverGoBack` | a frame drawn in time shows one slow path, and no earlier one than the frame before | `FramesWhole`, `FramesInOrder` |
| `GraphInOrder` | the charts are the last points published, in order | `ChartsInOrder` |
| `PressesServed`, `QuitEndsBoth` | a key is taken; quitting ends both threads and gives the terminal back | |
| `ArithmeticMatchesIntegers`, `OrderAndRounding`, `BuildsAgree` | the word loops are exact, truncated, saturated, wrapped or rounded as stated, ordered as their values, and the same in both builds for sums that fit and exact quotients | `FixedPointArithmeticCorrect`, `FixedPointOrderCorrect`, `FixedPointBuildsAgree` |
| `PoolHasRoom`, `ZeroPriceClosesGate` | what the documents say and the code does not do (section 4) | |

`PausedRegimesAlwaysClose` has no run of its own: after a slow path in a volatile or
falling market nothing passes the gate.

A type invariant that is proved for every size (`TypeCorrect`, `GateTypeCorrect`,
`StreamTypeCorrect`, `BooksTypeCorrect`, `OrdersTypeCorrect`, `MoneyTypeCorrect`,
`LevelsTypeCorrect`) is not checked again by a run. `display` and `numbers` check
theirs beside their proofs (`ScreenTypeCorrect`, `FixedPointTypeCorrect`). Each property of a run has a mutant in
`PROJECT.json`: a plausible slip in the code, in a definition of its own next to the
one it stands for, under which the property fails. Those definitions are marked
"Slip" and used by no specification.

**Bounds.** Two slots and two records are the smallest numbers for which slot
reuse, a full portfolio, a full buffer and a full pool all happen; two prices
give duplicates and neighbours; two purchases after a restored position make a
slot change hands while its record is pending; the counters restored fit the portfolio,
count an exit that no file has kept, or are zero beside a position, as from an old
file. `MaxBuys`, `MaxAge` and `MaxCount` bound counters in the guards and nothing else.
`MaxHeld` is the size of portfolio and pool in `gate`: stop losses may come for ever, one
for each purchase. The two detections of `gate` are a regime that buys and one
that pauses; `gate_zero` and the proofs have all four. Three descriptors let a stream be lost
twice and the next attempt fail for want of a descriptor; two records in the
socket put one behind a burst and behind the end of a stream. Four lots fill both slots, put two exits in
the buffer and leave two to buy; three starts let a restored state be saved and
restored again. Three BTC are both slots and one order executed twice, one retry is
an order sent again and then given up. In `books`
the ring of two wraps at every second record and overflows with the third; the two
prices are a unit apart, so that with one per cent of fee a sale at the higher price
still loses and profit and loss occur for either reason; amounts of a thousand leave
room for truncation. In `levels` one slot is enough because two positions meet only in the exit
buffer, and the buffer of one record is full as soon as a position is sold and another
bought in the same interval, which one slot does; the three prices lie on both sides of
the levels the two configurations set, and volatility 0 takes the per-cent branch. In `display` three ticks are
both buffers and one of them again, which is what it takes to overtake a frame;
graphs of two points are full and wrap. In `numbers`, two words of four
bits leave room for decimal digits, a mantissa of three bits is shorter than a word, as
53 is shorter than 64, so that words, sums and quotients are rounded, with ties, and the operands are zero, one bit, one and a half,
half the range and all of it; four words, where a carry runs through the middle, are left
to the proofs. The proofs hold without the bounds on slots, pool,
buffers, rings, prices, rates, volatilities, layouts, graphs, word sizes and
configurations.

**Fairness.** While the market trades the loop of `main.cpp` never blocks for good: `poll` has a timeout
and everything else returns, so the functions inside an iteration are weakly
fair. A burst of frames could in principle postpone the engine tick for ever; it
ends when the TLS buffer is empty, which reading outruns, so the engine tick is
strongly fair. The slow path is due every `poll_interval` ticks, and reloads can
change the interval but not stop the count, so it is strongly fair in
`GateControl`, where ticks are not counted. In `MarketStream` the engine
thread is weakly fair; each layer of a connection, tried again and again,
succeeds in the end (strong fairness on its success only, so any number of
failures may come first); and the exchange keeps sending trades, without which
a read that found a ping would wait for ever. In `LiveOrders` the engine thread is weakly
fair (retries are counted, sleeps are finite), the slow path strongly fair for the
reason given above, and of the queries that slow paths make one is answered in
the end (`QueryDone`, strongly fair); orders may be refused or lost every time.
In `Display` each thread is weakly fair and the two are not ordered: the engine's
poll has a timeout, and the TUI waits neither for keys nor for the engine. Nothing is
assumed of bursts, reloads, keys and outside sales.

Fairness of a whole slow path does not say which of its inputs occur. `BuyingResumes`
and `TrappedPositionsFreed` are therefore stated without assuming a favourable market:
a gate whose price stays zero is closed by the long window's trend again and again, with the
cooldown over, or it is not closed at all: trades pass it for ever (momentum's direction,
`gate_zero`) and the stop losses of what they buy restart the cooldown. Nothing bounds
those stop losses. A position open for ever is looked at by the time exit again and again
and found to gain.

## 4. Disagreements with the documents

Shown by a run:

* `pool_leak`: a fill seen at the cap is masked out of the fills that are
  consumed, and remembered as seen. It is never consumed or freed.
* `gate_zero`: pause, wind-down and cooldown zero the price and leave the
  direction. With the momentum strategy a zero price passes everything.

Stated in a module, refuted when checked, with no run of their own:

* `RecordsKeepTheirPosition` (`PortfolioController`): the comment on `ExitRecord`
  (`CoreFrameworks/Portfolio.hpp:43`) says that the slot keeps its data for the
  controller. A purchase in a tick between the exit and the slow path takes the lowest
  free slot, and the exit is booked with the newcomer's entry price and quantity. The
  number of lots is still right (`LotsAccounted` holds); the money is not
  (`CashExplained` holds only while `exact`).
* `LostStreamReopened` (`MarketStream`): the result of `BinanceStream_Reconnect` is
  ignored and nothing tries again.
* `NoOrphansAtReconnect` (`Persistence`): the guarantee at `main.cpp:40` is checked on
  `active_bitmap`. An exit recorded in the burst just read has cleared its bit and
  waits in the exit buffer, which the force-close does not drain and `Init` empties:
  its proceeds are never booked.
* `InterruptRestoresTerminal` (`Display`): `DOCS/changelogs/2026-03-21.md:452` and
  `DOCS/COMPONENTS.md:219` say that a signal leaves the terminal usable. The handlers
  that do (`DataStream/EngineTUI.hpp:131`) are installed by the legacy interface only;
  the ANSI one, the default, leaves raw mode and a hidden cursor.
* `StringsPreserveEveryBit` (`FixedPoint`): `FixedPoint/FixedPointN.hpp:203` says that
  the conversions to and from decimal strings preserve every bit; the last one can be
  lost.

Visible in the models:

* Sixteen exit records fill when slots are bought and closed within one
  interval; a hit that meets a full buffer is passed over (`ExitGateStep`). The position
  stays open past its target, and the slow path may then trail it: its stop can pass its
  target and its target can rise (`overdue` in `Levels`).
* The counters a snapshot restores count exits that were waiting when it was written and
  are lost: from then on purchases exceed what is open, won and lost (`LoadSnapshot`,
  `Unaccounted`).
* With `max_positions` 1, the default, a purchase in the tick that follows an exit
  takes the exit's slot, whose live bit is still set. No order is sent because an
  exit is pending (`AfterTick`), the undo trusts the bit (`Undo`), and the sale of the
  exit clears it: a paper position nothing stands behind, until the next query.
  `main.cpp:541` says that such positions are undone, `DOCS/CONFIGURATION.md:71` that
  they are rolled back. `FillsAreBacked` says that this is the only way.
* A reload that lowers `max_positions` to 1 while several positions are held makes
  the next exit sell all their BTC (`SellAll`), which
  `DOCS/changelogs/2026-03-24.md:11` says is avoided.
* A lost answer is answered by the same order without a client order id
  (`Unanswered`): it can be executed twice.
* Entry ticks are restored and `total_ticks` starts again, so the clock may reach the
  entry tick of a restored position: a fill in the same tick makes `Buy` order it
  again, or `Undo` take it back (`young`, `ahead`).
* The comment at `DataStream/BinanceOrderAPI.hpp:340` relies on no two requests in one
  tick; `SellAll` asks for the balance and sells at once.
* The sale of an orphan books proceeds, fee and loss that the time exit has booked
  already (`SellOrphan`; `main.cpp:701`).
* A crash between `fopen` and `fflush` leaves no snapshot at all, not the last one
  (`Save`, `Crash`); `DOCS/QUICKSTART.md:65` promises the last one.
* Quitting in an iteration whose burst recorded exits strands them
  (`OnlyStrandedMissing` says that nothing else is lost); `DOCS/QUICKSTART.md:42`
  promises a restart "with all state intact".
* A purchase since the last slow path is neither in the trade log nor in the
  snapshot; the comment at `DataStream/TradeLog.hpp:121` says the latter has it.
* The money a force-close books is in no file and `Init` resets it (`NewSession`).
* A pause is a zero in `buy_conds`, overwritten by the next slow path
  (`TogglePause`, `SlowPath`).
* In warmup the gate's price is zero, which the pause key takes for a pause: it
  arms the gate (`HandlePause`), although `PortfolioController.hpp:971` says that
  the gate stays disabled until warmup completes.
* A lost stream is marked as down before `BinanceStream_Close` looks at it, so
  its socket and TLS context are never released; `OnlyLostStreamsLeak` says that
  nothing else is.
* After a ping `BinanceStream_ReadTick` reads on without polling. On a quiet
  market the read blocks, and with it ticks, keys and the session clock.
* Built with `BUSY_POLL` (not modelled), the poll of a stream that is down spins
  for ever, and the request to quit is not looked at.
* `TargetPays` needs the exception for `tightened`: a switch out of a trend takes the
  target to a multiple of the standard deviation with no fee floor, below what
  `DOCS/CONFIGURATION.md:43` and `DOCS/COMPONENTS.md:122` promise of every target.
* Trailing never moves a target (`TargetsRaisedBySwitch`): a price past the first target
  is sold by the exit gate at the start of the tick, so only a position that a switch
  had widened is past its `original_tp` on the slow path. `README.md:81` and
  `DOCS/changelogs/2026-03-20.md:4` describe positions bought by momentum as trailed;
  none is (`OnlyWidenedTrail`).
* A trailed stop comes down when the next switch floors it (`Floored` in `Widened`),
  against "ratchet up only"; `StopRatchets` says that nothing else lowers one.
* The stop's floor is called a minimum of two to one reward to risk; it is the least
  distance of the stop, so it makes that ratio a maximum (`Floored`, `RewardToRisk`).
* From TRENDING_DOWN to RANGING both regimes run mean reversion: the branch of
  `Regime_AdjustPositions` for it is never reached (`Tightens`).
* The window momentum judges a trend by is fed by momentum only: its samples can be from
  before a pause in another regime (`feeder`).
* The fee of a purchase is computed again at the exit, at the rate of the day (`Sale`):
  after a reload profit and balance disagree. `exact` excludes it.
* `gross_losses` is a positive number (`CoreFrameworks/PortfolioController.hpp:59`); a
  time exit at a gain subtracts from it (`TimeExitBooked`), a force-close adds to
  neither sum. A take profit that does not cover its fees counts as a win.
* The row of a force-close has no fee and overtakes the rows in the ring, which `Init`
  then forgets (`ForceClose`, `NewSession`); quitting saves the snapshot without
  draining the ring. `DOCS/COMPONENTS.md:227` says that nothing is lost.
* The result of `TradeLog_Init` is ignored: without a file the ring fills and drops
  (`file_open`).
* A frame the engine overtakes twice mixes versions (`InTime` is there for it), and the
  values stored at every tick are newer than the rest of the frame. Two presses of a
  key between two iterations are one request. `DOCS/ARCHITECTURE.md:40` says that the
  copy is made every 10 ticks; it is made on every slow path.
* A sum that does not fit wraps in the word build, in a function called
  `FPN_AddSat`, and saturates in the native one (`SumsExactOrWrapped`, `BuildsAgree`).
* A quotient is cut off in the word build and rounded to a double in the native one
  (`DivNoAssert` of the two modules): in the format of `numbers` -8.0 / 1.5 is
  -(5 + 5/16) in the one and -5.0 in the other. They agree for a divisor of zero and where
  operands and exact quotient are doubles (`ExactQuotient`). `DOCS/changelogs/2026-03-21.md:396`
  and `CMakeLists.txt:50` call that build experimental and say nothing of results.
* A number that goes through a double comes back within three roundings
  (`RoundTrips`), not as it was: an `FPN<64>` has 128 bits, a double 53.
* The comment at `CoreFrameworks/PortfolioController.hpp:747` gives the cycle of
  regimes with TRENDING_DOWN before VOLATILE; line 751 takes them in numeric
  order, which is the other way round (`NextRegime`).

## 5. Proofs

`PortfolioControllerProofs` proves the safety properties of `core`. None of them is
inductive by itself. The argument:

1. `TypeCorrect`: the type invariant, action by action.
2. `LotInvariant`: the strengthening `LotInv`. It adds to `LotsAccounted` that open
   slots hold distinct lots below `next_lot`, that pending and booked lots are below
   it too, and that a loop's copy of the bitmap holds open slots only
   (`WalkIsOpen`): an exit-gate or time-exit step removes a bit it still
   holds, although it works on a copy read earlier.
3. `LotStep` names the five ways a step can treat lots (buy, exit, book, expire,
   none). `StepEffects` shows that every action is one of them; everything later is
   proved once for each of the five instead of once for each action.
4. `LotsAlwaysAccounted`, `EngineRefinesLedger` and `CountersAlwaysBalance` follow;
   the refinement needs that the map from open slots to open lots is injective, so
   that at most `NSlots` lots are open, and likewise for records. `CountersAlwaysBalance` counts:
   every step leaves `Unaccounted` as it is, whatever the snapshot made of it.
5. `EntriesAlwaysDistinct`, `FillsAlwaysRespectCap` and `NewFillAlwaysVisible` are
   inductive given the types.

`GateControlProofs` proves the safety properties of `gate`. `HysteresisRespected`
needs `CountIsEarned`: while a proposal is not current, the classifier's count
is at most the length of the run of detections. Cycling by hand moves the
proposal without resetting the count; it keeps the invariant because it makes the
proposal current.

`EngineLoopProofs` proves the safety properties of `stream` and of `session`, one after
the other; the two modules have no variable in common. For `stream`: `OnlyLostStreamsLeak`
says for every state what is open; to subtract in `Reconnect` and `Cleanup` the
invariant adds that no stream is up while one is being opened
(`FreshWhileConnecting`), and for the loss of a stream that only a stream that is up is
read (`ReadWhileUp`).

For `session`: what the properties
say of the memory must hold of the file as well (`FileIsPaid`), since a restart
makes one of the other; between `fopen` and `fflush` the lots that wait already
count as stranded (`SavingStrands`); no lot is bought twice (`BoughtOnce`). The
bounds on slots and records need that adding to a set with room fits
(`AddFits`).

`LiveOrdersProofs` proves the safety properties of `orders`. `Shape` names the three
kinds of order in flight (everything, one live slot, one position of this tick) and
that nothing is live before the start has looked. `MoneyInv` carries both money
properties through an order: while everything is being sold the account holds no more
than the order sells, and in every other state the number of bits and the balance are compared
(`MoneyQuiet`, `MoneyCleared`, `MoneySweep` and `MoneySellSlot` are the ways a step can
treat the two). `OrphanInv` and `FillInv` say for each place of the iteration what
`OrphansAreKnown` and `FillsAreBacked` say at its end; the latter needs that
no purchase is ordered while exits are saved.

`BooksProofs` proves every property of `books` with the types.

* `LogIsJournal` rests on `PushFacts`: for a ring of any size, pushing a row appends it to
  what the ring holds in order. `RingIndex` computes the wrapped index of the k-th oldest
  record by cases instead of by remainder; with it the pushed row lands where no waiting
  record is. `LogFacts` then carries file and ring together through every logged trade.
* `ProfitSplits` (no run repeats it) follows from `BookedFacts`, what each of the three
  ways to book a sale does to the two sums. That the balance never falls below zero is part of the type: a fee
  is at most the amount it is taken from (`FeeFacts`), and each purchase is checked
  against what the ones before it left.
* `CashExplained` and `LogAddsUp` sum over sets of any size. The sums are the folds of
  the community modules, for which no induction theorem can be cited here; the lemmas
  about them (a sum is an integer, a sum over a set with one element more or less, sums
  of equal functions) take a smallest set for which they fail and contradict it, with the
  well-founded order on naturals, so that no operator parameter is needed. The
  strengthening is `LotsApart`: every lot is below the next one, no two open slots hold
  the same lot, and no record's lot is held or recorded a second time.
  It is proved for each way money moves, as the profit is.

`LevelsProofs` proves all properties of `Levels`. The invariant `Held` states of one
position what the four properties say, relative to its history, and that the target is
above the entry, which none of them says and all need: it makes the distance that
`Floored` takes a portion of positive. `Unreached` adds that between the exit gate and
the end of the slow path no target is at or below the price, for positions that are neither
`late` nor `overdue`; this is why trailing does not raise their targets and meets the widened
ones among them only. The gate records the first hits that fit and marks the others
(`ExitGate`), for a buffer of any size. `RewardToRisk` speaks of `ratio`, so that a reload
needs no exception: the old ratio binds until a switch sets the levels anew. `FlooredFacts`, `SwitchFacts` and
`TrailFacts` describe the operators, `MovedFacts` a position after a switch and the
trailing behind it, and `SwitchHolds` is proved once for the slow path and the key.
Three of the theorems (`RiskInProportion`, `StopsRatchet`, `TargetsOnlyRaisedBySwitch`)
state properties that TLC confirmed on the instance of `levels` and that no run
repeats.

`DisplayProofs` proves `FrameWhole`, `FramesNeverGoBack` and `GraphInOrder` with the
types, for any layouts, any length of the graphs and any number of ticks. The invariant
says what the two buffers are: the one in front is the last publication, whole
(`FrontWhole`); the one behind is the publication before it, until the slow path copies
into it, after which its graphs are those of the front, then with the new point, and the
groups copied so far are of this tick (`BackWhole`). `FrameOfBuffer` ties the frame to
them by the number of publications since it was begun: with none its buffer is in front, with one
behind, and drawn in time it shows that buffer's slow path. `FramesNeverGoBack` needs
more, `NotOlder`: what the last complete frame showed is not newer than the publication
in front, than what the rest of the TUI's buffer has, and than the frame so far. A ring
is described by `Holds`, which element of the sequence lies on which slot; that a point appended
keeps it and that a chart reads the end of the sequence is arithmetic of
remainders (`ModShift`, `ModApart`, `PointAppended`, `ChartShows`), for a length that is
a constant.

`FixedPointProofs` proves the four invariants of `numbers`, from `FormatAssumption` alone:
for any even number of words of any width, any operands, any digits that tell the
fractions apart, any mantissas, the long one not the shorter. Its first parts are about one operation each. Sums and differences
of `FPN<F>` are exact or wrapped, products truncated and saturated, comparisons those of
the values, floor, ceiling and rounding the nearest whole numbers, and the guards (`Min`,
`Max`, `Abs`, `Sign`) pick what their names say. Quotients are truncated, remainders
smaller than the divisor, an interpolation stays between its ends, and a smooth step
between zero and one.

* The loops over words are recursive functions. What one computes follows from
  `Iteration`, which builds it from a step function, and `IntervalInduction`, which takes
  a set instead of a predicate; no theorem with an operator parameter is needed.
  `Tails` is what the words from one on are worth. `CarriedSum` says what a row of carries
  does to these: two words and a carry in, a word and a carry out (`OneWordAdded`,
  `OneWordTaken`, `RowWords`) make sum, difference and row of a product what they should
  be, up to the weight of the last carry.
* A product is the sum of its rows (`ProductValue`); the words kept are its quotient by
  one unit, and the words above them are zero exactly when it fits (`MiddleWords`).
* Rounding clears the words below the point and lets a carry through those above
  (`BumpedFacts`); it is exact as long as a unit more fits, which the theorem requires.
* The division shifts one bit a round, through twice the words. `RoundStep` shows what a
  round leaves alone: what is left of the dividend, and the divisor times the bits that the
  quotient has so far and has still to come, add up to the dividend (`DivisionRounds`).
  A word of the quotient has room for the bits to come (`Left`), so that adding a bit is
  no carry. `DivisionFits` is what `QuotientsTruncate` asks for beyond a divisor other than
  zero: that the quotient fits, and that the top bit of the divisor is free. `CondSub`
  compares after a shift whose last bit is lost, which the second condition rules out;
  for `FPN<64>`, whose units are 2^-64, a divisor below 2^63.
* `PowersOfTwo` counts the subsets of an interval, because the provers know nothing of
  an exponent that is not a literal.

* Strings. Writing multiplies the fraction by the radix, a digit leaving at the top each
  time, and divides the integer part, a digit leaving below; reading does the opposite,
  the last fraction digit first. Integer digits come back exactly, because each round of
  reading undoes one of writing and nothing overflows (`OneDigitBack`, `IntegerReturns`).
  A fraction comes back short: with k digits still to be read, what has been read is at
  most what was left to write after k digits, and short of it by at most the radix to the
  power k (`OneFractionBack`). It starts with nothing read, which is where as many digits
  as tell the fractions apart are needed (`DigitsOK`), and ends short by at most one unit
  (`TextLosesAtMostOneUnit`). A digit put on top of the fraction is divided away again
  (`DigitDown`). An `FP64` comes back for two words (`NarrowReturns`).
* Doubles. `SpacingFacts` says what the spacing is, `RoundedFacts` that a rounding errs by
  at most the number divided by two to the power of its mantissa, `RoundExact` that a number
  a double holds is left alone. Two words go through three roundings, the integer word, the
  fraction word and their sum (`TwoRounds`), so that what comes back differs by at most
  three such errors (`RoundsNear`), and is the number if a double holds it, since then a
  double holds both words (`HalvesFit`). `SameMagnitude`
  and `SameRounding` show that the other build, which counts in other units, rounds to the
  same double.
* `FixedPoint64` adds and subtracts with the result clamped, for every word of more than
  one value. For two words of the same width the two builds compute the same sums and
  differences as long as they fit, bit for bit, the same products, comparisons, guards,
  roundings, interpolations and conversions through a double (`BuildsAgreeOnResults`,
  `GuardsAgree`, `RoundingsAgree`, `BlendsAgree`, `DoublesReturn`), and the same quotients where
  no rounding happens (`QuotientsAgree`).
* The chain. `FixedPointInv` adds to the types that the history explains the register:
  `last` names an operation, and `acc` is what that operation makes of the operands
  in `last` (`Explained`, `Made`). It is needed because the properties speak of the
  operands and the invariant of a chain cannot look back; `OneOperation` and `ChainSteps`
  show it of every action from the closure lemmas, which say that each operation on
  numbers gives a number, whatever wraps or is shifted out. The four theorems
  (`FixedPointTypeCorrect`, `FixedPointArithmeticCorrect`, `FixedPointOrderCorrect`,
  `FixedPointBuildsAgree`) follow from it and the operations' own lemmas.

Assumptions are the named ones of the modules: sizes are positive,
`max_positions` is between one and the number of slots (the parser clamps it),
`poll_interval` is positive (the parser does not clamp it; every configuration in
the repository is), a layout draws at least one section (each of the code's does).

Only model-checked: the liveness properties, which need fairness, and the statements of
the violation runs, which do not hold. Every invariant and action property of the other
runs is a theorem. Nothing is claimed of the quotients of `FixedPoint64` that are not exact or not
doubles, nor of doubles made of more than two words, nor of strings with fewer digits than `DigitsOK` asks for,
which `FPN<F>` writes when it has more than one word of fraction.

## 6. Not modelled

* The scores of the regime detector, the sums of the rolling window, regressions and
  rates of change: numerics whose results are inputs here (which regime is detected,
  the volatility, whether a trend is strong). The adaptive filters of the two strategies
  move the gate's price and volume by such a regression; control never asks for more
  than whether they are zero. Three remarks from reading them: the clamp of
  `live_stddev_mult` in `MeanReversion.hpp` is applied whether or not the filter was
  adjusted, the idle squeeze to zero is undone by it, and momentum's `live_vol_mult`
  can only fall.
* What the interface draws: colours, columns, widgets, and the two other drawing
  libraries, which read the same fields.
* Square roots in both builds, and the overflow of a quotient that leaves the range of
  the 128-bit build's conversion, which is undefined there.
* Parsing: configuration files, WebSocket payloads, JSON answers, symbol filters;
  signing and clock calibration. The fields they yield are inputs.
* The metrics file, a line per slow path that nothing reads back.
* `FauxFIX.hpp` and `MockGenerator.hpp`, which feed tests; `BuddyAllocator.hpp` and
  `GateControlNetwork.hpp`, which the engine does not include; `SellGate`,
  `MeanReversion_ExitAdjust` and other functions nobody calls.
* The build with `BUSY_POLL` and the one without a TUI thread; an `SSL_read` that never
  returns on a connection cut without a reset, where nothing of the program can act;
  a `poll_interval` of zero, which no configuration has.
* Undo in live mode within `Books` and `Levels`; `LiveOrders` has it without amounts.
