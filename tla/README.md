# TLA+ verification of async-futures-v2

The bot trades perpetual futures from one asyncio process. This directory holds TLA+ models of its
core, the configurations TLC checks them with, and machine-checked proofs. Every definition is read
from the Python source (paths below are relative to `src/` of the tree, e.g. `src/main.py`);
`PROJECT.json` names the lines each one stands for, the mutation every property is known to reject,
the hazards, and the places where code and documentation disagree.

## 1. Inventory

One process, one event loop, eight or nine tasks (`src/main.py`, `run_bot`). Code between two
`await`s runs alone; files are written in threads that are awaited.

    exchange --ws--> listener --q--> fan-out --q--> strategy --q--> order router ---+
                                        |                                          |  place_order
                                        +----q----> position manager --route_exit--+-----------> exchange
                                        |              |      \-- journal (trades.jsonl)
                                        |              +--------- open-position store (open_positions.json)
                                        +----q----> risk worker --> kill switch --read by--> router, manager

| component | state | operations | what is hard | what makes it correct |
|---|---|---|---|---|
| Order router `execution/order_router.py` | pending entries, last exit per coin | `route_entry`, `on_mark`, `route_exit` | checks before two awaits, lost answers, cooldown stamped late | one trade per coin; at most one entry after a trip; no entry in the cooldown |
| Position manager `execution/position_manager.py` | positions, peaks, last marks | `on_price_update`, exits, `panic_close_all`, `recover_positions` | runs beside the router, restarts, retries | nothing at the exchange is unmanaged; stops only tighten; the hold window ends trades |
| Open-position store `core/open_position_store.py` | dictionary, file, lock | `load`, `upsert`, `remove` | two writers, swallowed errors, crashes | the file names what is managed |
| Trade journal `core/trade_journal.py` | append-only file | `record_closed_trade`, statistics | written before the exit | an exit never lacks its line |
| Kill switch, risk worker `risk/kill_switch.py`, `main.py` | day, high-water mark, tripped; last equity and mark | `check_drawdown`, `trip`, unlock | sleeping debounce, midnight, order of reports | a drawdown of the day locks; a new day opens |
| Margin manager `risk/margin_manager.py` | none | snapshot, size | boundaries of the limits | an entry stays below its part of the free margin |
| REST client `exchange/hyperliquid_rest.py` | asset map, leverage cache, session | `place_order`, positions | two tasks over one cache, lost answers, errors in a 200 | no order under another leverage than the settings' |
| WebSocket listener `exchange/hyperliquid_ws.py` | connection, backoff, queue | connect, receive, enqueue | reconnects, overflow | order kept, reconnects for ever, fresh data only |
| Fan-out and queues `main.py` | four bounded queues | `market_fanout` | one slow reader holds up all, recorder errors | every consumer keeps being served |
| Momentum strategy `strategy/momentum_oi.py` | trades window, OI, pending breakout, regime | `on_market_event` | two-step confirmation across events | a signal needs regime and OI at the same event |
| DVSLA strategy `strategy/dvsla.py` | bars, rolling statistics, last signal bar | `on_market_event` | gate order, cooldown, queue full | signals at least the cooldown apart |
| Market breadth `strategy/market_breadth.py` | queue of moves | `record`, `is_synchronized` | times out of order | no move of the window is missed, none older by more than window and skew is counted |
| Microstructure `strategy/microstructure/` | windows, open bar | updates | volume split over bars | volume conserved, windows exact |
| Session log `core/session_log.py` | marker and log file | `begin`, `touch`, `finish` | thread outliving its task, crash | one record per session, clean only if clean |
| Recorder, compaction `backtest/recorder.py`, `scripts/compact_recordings.py` | buffer, day files, archives | record, flush, compact | two processes on one file | no line lost or read twice |
| Telegram notifier / poller `core/telegram.py`, `telegram/commands.py` | session, offset, backoff | notify, poll | long outages | commands once each, poller never dies |
| Heartbeat, activity `main.py` | none | log | - | - |
| Configuration `core/config.py`, `config_fingerprint.py` | settings, registry file | load, register | - | - |
| Backtest `backtest/simulator.py`, `replay.py`, `metrics.py`, `sweep.py` | open and pending trades | `run` | must agree with the live rules | each signal a trade or a skip, the same money as the journal |
| Analysis scripts `scripts/` | none shared | - | - | - |

`PROJECT.json` "hazards" lists, at their lines, the situations in this code a test hardly reaches.

## 2. What is modelled

    Feed  ----marks----> Execution (router, manager, store, journal) ---- StopEngine (one position's prices)
      |  \---reports---> KillSwitch ---- trips ----> Execution
      |  \---events----> Strategy = MarketBreadth + (Momentum or Dvsla) ---- Microstructure (a bar's direction)
      \------lines-----> Recording -----replayed----> Simulator = Accounting, implements TradeLife
    Clients = Rest + Telegram             Sessions (marker, log, registry)

**`Execution`** - order router, position manager, store, journal, recovery, and the exchange around
them. An action is one stretch of a task between two suspension points; `pc` of `router` and `pm`
names the await a task is in:

    router   snapshot (collateral) -> order (sent) -> filled (executed, answer under way) -> persist (upsert)
    pm       filling -> registered | saving -> saved | arming -> armed  (upserts of a mark)
             journal -> exit (sent) -> exited (executed) -> removing (store)        each exit

`positions`, `pending`, `cooling`, `storeMem`, `disk`, `lock` are the attributes of the classes;
`exch` and `resting` are the account; `booked`, `recent`, `blind`, `late` are ghosts. The order's
execution is a step of its own, so it may be answered, refused, or its answer lost. `Faults` switches
on restarts at any await, lost answers, failing file operations, liquidations and orphans without a price.

**`KillSwitch`** - `KillSwitch.check_drawdown` and the worker that feeds it, with the queue that grows
while the worker sleeps, missing equities, a late first mark, day changes, and midnight between the
clock reads of one check. Equity and day are chosen by the environment.

**`StopEngine`** - one position of the manager, long or short, with prices: peak, break-even, hard and
trailing stop, reversion, hold window, stale gaps, what the file holds, what a crash brings back, and
the limit `route_exit` asks for. Levels are integers scaled by `Unit`; a tick is one step.

**`Feed`** - the listener (`connect`, `_send_all_subscriptions`, `run` with its backoff, `_put_event`),
`market_fanout` with the recorder it awaits and its one-after-the-other puts, the three bounded queues,
consumers that take an event and may be busy with it, and `shutdown`. `stage` is where the fan-out task
is suspended. `feed`, `dropped`, `got` are ghosts: what was received, dropped, and taken by whom.

**`Recording`** - the recorder's flush day by day with a file handle that survives an unlink, kills in
the middle of a write, `compact()` cut at its system calls (copy, verify, replace, unlink), and
`recording_files` / `iter_market_events` as the reader. A file is a sequence of tokens, since a torn
row is about where its newline went. Its specification is `RecordingSpec`, with fairness `FairRecording`, so
that one proof module can extend it beside `Feed`; likewise `StatsSpec` of `Microstructure`.

**`Sessions`** - `SessionLog` and the configuration registry over several runs: `_write_state` cut at
open, write and replace in two threads, `_roll_over_stale_state` cut at read, append and unlink, kills
between any two, markers that cannot be read, refused and short writes, the thread a cancelled refresh leaves behind.

**`MarketBreadth`, `Momentum`, `Dvsla`, `Strategy`** - the breadth tracker as operators; either engine's
`on_market_event` as one step (there is no await in it); the strategy task, its bounded signal queue and
the router that takes from it. `fired`, `made`, `reports`, `moves` are ghosts.

**`Microstructure`** - `RollingStats`, `OIZScoreTracker`, `FlowImbalanceTracker` and the gates of a bar
that rest on them, with exact comparisons of z-scores in integers (squared, no square root). It is the
part of a bar that `Dvsla` leaves open as a choice of `Verdicts`.

**`Simulator`, `Accounting`, `TradeLife`** - the backtest, print by print; the money of a trade as the
backtest and as the live journal compute it, the period statistics and the scorecard; and what a
backtest promises of its signals, which the simulator implements.

**`Clients`** (`Rest`, `Telegram`) - the two clients that keep state of their own: orders with the
leverage cache that the router's and the manager's tasks share, and the command poller with its offset
and backoff. They run in one process and restart together.

The modules are coupled where the code is, by a choice on one side that the other side determines:
`Mark` of Execution leaves to chance which exit a mark leads to, which `Decision` of StopEngine says;
`Trip` / `Unlock` may come at any time, KillSwitch says when they do; signals come at any time, Strategy
says when; how long a consumer is busy in Feed is what Execution and KillSwitch do meanwhile.

Abstractions, beyond data a property does not tell apart:
- *Lots, not sizes and sides* (Execution). An entry buys one lot; partial fills of an immediate order
  and side mismatches at recovery are not represented (see the hazards).
- *The store's dictionary and file change in one step.* Both happen under the lock, and a reader of
  the file exists only after a restart, when `os.replace` has or has not happened.
- *The lock's queue is its holder and the other task's `pc`*: each task has one operation outstanding,
  and `asyncio.Lock` serves in order of arrival.
- *A request given up by the client but executed later* is a lost answer; the model does not let it
  execute after further steps of the task that sent it.
- *The order of a panic close* is nondeterministic (the code takes dictionary order). The guard
  `_panic_in_progress` and the "position not tracked" return of `route_exit` are unreachable: a
  single task runs both.
- *A graceful shutdown* cancels the tasks at their awaits and is the same step as a crash (`Stop`) in
  Execution; Feed and Sessions have it with the threads that outlive it.
- *Mode settings* (`dryRun`, `makerEntry`, `engine`, `maker`, `dry`) are the same at every start;
  BOT_SYMBOLS (`watch`) may change.
- *`KillSwitch.reset`* has no caller in the source; Execution covers it in `Unlock`, KillSwitch leaves
  it out. The switch's locks are never contended, so only the debounce suspends the worker.
- *The ATR stop* is any width of `StopWidths`, the reversion target any price that allows the exit, and
  an entry is at the last mark. `StopEngine` writes its file without failures, which Execution has.
- *The recorder of Feed* writes one file; days, handles and torn rows are Recording's.
- *Momentum's volume gate, its EMA, the Hurst exponent and every confidence* are choices.
- *Floating point and Decimal* are exact integers: no claim is made about rounding.
- *The simulator's prints* carry their time as a counter, the strategy's answer is any side at the
  price of this print, of the one before it, or none.

## 3. Runs

All bounds are constants or guards. The settings that select a mode are variables that never change, so
one run covers all modes. Symmetry over coins (or configurations) is used where they are treated alike
and no liveness is checked; in `exec_faults` the two watch lists (both coins, none) are symmetric too.

| run | question | states |
|---|---|---|
| `exec` | live and dry run, taker and post-only, restarts at any await: `TypeOK`, `OneTradePerCoin`, `PositionsAreReal`, `AtMostOneLateEntry`, `FileAgrees`, `FileKnowsManaged`, `ExitsAreJournaled`, `NoEarlyReentry`, and under fairness `PanicReachesAll` | 281 000 |
| `exec_faults` | `EveryLotManaged` under lost answers, file faults, liquidations, orphans without a price, changing watch lists and restarts, taker and resting entries | 1 659 475 |
| `ks` | `TypeOK`, `DrawdownLocks`, `NewDayOpens`, and under fairness `LossAnswered`: reports, marks, days, midnight inside a check, restarts | 15 800 |
| `stop` | `ArmedNeverUnderwater`, `HoldEnds`, `PeakLagBounded`, `StopNeverLoosens`, with exits taken (dry) and refused (live) | 95 172 |
| `feed` | `NothingLostInside`, `RecordingFollowsStrategy`, `BackoffGrows`, and under fairness `MarksServed`: overflow, slow consumers, reconnects, a failing disk, shutdown anywhere | 89 517 |
| `recording` | `CompactionLosesNothing`, `ReplayInOrder`, `OneLinePerTear`, and under fairness `FinishedDaysArchived`: recorder beside compaction, interrupted at any step | 335 061 |
| `sessions` | `NoRunForgotten`, `CleanMeansStopped`, `CoverageCountsOnce`, `Attributable`: runs killed or stopped at any step, markers that cannot be read, refused and torn writes | 2 137 412 |
| `strategy` | `SignalBacked`, `SignalsSpaced`, `BarsCounted`, `BreadthBounds`: trades, reports and marks of two coins in every order, trades that close several bars, a full signal queue and the error it raises, moves recorded out of order | 351 783 |
| `micro` | `WindowsExact`: every history of five inputs against what the last window of the history gives | 121 035 |
| `simulator` | `Accounted`, `BooksAgree`, `KeepsTheBook`: crossing and resting entries, all exits, the end of the recording | 111 251 |
| `clients` | `OrdersCovered`, `OnceEach`: two tasks over one leverage cache, lost and refused answers; lost polls, failing answers, restarts | 1 667 256 |
| `exec_offwatch` | expected to fail: `RecoveryAdoptsAll`, see below | |

Why the bounds are enough:
- Execution: every rule concerns one coin or a pair (an entry of one during an exit of the other, a panic
  close with a position left over), hence two coins. `MaxLots` is 1 at the exchange: more lots of one coin
  arise only for a coin the process has lost track of, which `EveryLotManaged` exempts anyway; the
  theorem has any number of lots.
- KillSwitch: three equities around a limit of 3 % (97 is a loss at the limit exactly, 99 is below it),
  three days, and a queue of up to three: a high, a fall and a recovery can be queued together.
- StopEngine: an entry price of 1000, the next price above the break-even trigger, one beyond the trail
  and one below the stop, and clocks that reach both sides of every limit (min hold 3, max hold 6, gap 4,
  debounce 5, steps up to 5, time up to 12); a stop width of 0 is the ATR floor collapsing.
- Feed: a listener queue of two with three events overflows while the fan-out waits; queues of one block
  it at any consumer; a buffer of two flushes, and leaves a rest for the shutdown.
- Recording: two days, four lines, two faults: a tear, a line after it, a compaction interrupted between
  any two system calls and another run after it.
- Sessions: two runs and two faults reach a kill in the roll-over of a killed run.
- Strategy: the run holds three instances side by side (`MCBounds`; one instance with all their bounds is beyond
  TLC). Momentum with interests one growth apart, two coins of which one is the regime's: a breakout waits
  over reports and regimes. Momentum with a clock of three steps and three marks, a window of one step and
  moves up to one step late: a move behind a newer one outlives the window, is kept up to the bound exactly,
  and is dropped as soon as the newer one is. DVSLA, where trades of size 3 at a threshold of 2 close two
  bars at once and a queue of one refuses a signal, so that a bar goes uncounted; four bars and the second of
  a trade leave room for a signal after that.
- Microstructure: windows of two evict from the third value on.
- Simulator: one place for two coins; prices at which each exit, and two at once, are reached.
- Clients: a poll fails up to the overflow, two updates; collateral that is enough and that is not, and risk on
  both sides of the gate.

**What the code says of itself and does not do.** One disagreement is a run of its own (and the
finding of `PROJECT.json`), `exec_offwatch`: a saved coin that left BOT_SYMBOLS is removed from the file and,
having been saved, is not adopted either (`RecoveryAdoptsAll`; `position_manager.py:256-261` says that
exchange positions the bot has no record of are taken over).

Eight more are stated in the modules beside the properties that hold; adding the line to the configuration
shows the counterexample:

| module | definition | add to | what happens |
|---|---|---|---|
| `Execution` | `CooldownBlocksReentry` | `exec.cfg`, PROPERTY | the cooldown starts after the store's write, a signal in between re-enters |
| `Execution` | `TradeBookedOnce` | `exec.cfg`, INVARIANT | each retry of a refused exit writes another closed trade |
| `KillSwitch` | `SpikeDismissed` | `ks.cfg`, PROPERTY | the second look of the debounce sees the first equity |
| `StopEngine` | `ExitsFill` | `stop.cfg`, PROPERTY | the exit's limit hangs on the peak and misses the market at a hard stop |
| `Feed` | `MarksServedWhateverTheDisk` | `feed.cfg`, PROPERTY | a failed write of the recorder ends the fan-out, and with it every mark |
| `Recording` | `SourceIsAuthoritative` | `recording.cfg`, INVARIANT | a line written to a day that is already archived makes a new plain file that shadows the archive |
| `Sessions` | `LeftoverIsLogged` | `sessions.cfg`, PROPERTY | the roll-over catches `OSError` beside `ValueError` and unlinks an intact marker that could not be read at this start: the run it recorded is in no file, although "any leftover state file is rolled into this log" (`session_log.py:15-16`) |
| `Strategy` | `CountIsOfWindow` | `strategy.cfg`, INVARIANT | marks are pruned up to the first recent one, so an older one behind it counts as a coin moving "within the window" (`market_breadth.py:51`) |

Further disagreements seen while modelling, visible in a guard or an exemption:
- The thread of a cancelled refresh may write the marker again after `finish` has removed it, so that a
  run that was stopped is logged twice, the second time as one that was not (`NoRunForgotten` exempts it).
- A coin adopted from outside BOT_SYMBOLS gets no marks (`Mark` needs `c \in watch`), so its stop is
  never evaluated although `position_manager.py:258-259` says adoption "puts it under stop management".
- A live post-only entry that rests is registered as a position although nothing has filled, the state
  the comment at `order_router.py:224-225` wants to avoid; `PositionsAreReal`
  excludes that mode, and fails in it.
- A refused `updateLeverage` is cached like an accepted one (`hyperliquid_rest.py:326-328`), although
  `order_rejection` (62-78) knows that a 200 may carry a refusal; `OrdersCovered` exempts it.
- The docstring of the simulator (`backtest/simulator.py:10-11`) still has the entry charged the maker fee; the
  code takes the rate of the mode (244-246), which is the taker's for a crossing entry.
- A tripped switch cannot always close: the exit's limit is the peak less 1 % (`order_router.py:353-354`), and
  while tripped `on_price_update` leaves before the peak is updated (`position_manager.py:552-554`). Beyond
  that limit the exchange refuses at every mark, which is why `PanicReachesAll` promises the request, not
  the exit.
- The confidence scaling comes after the check of the minimum notional, so an order may be below it.
- At the 1025th failure in a row `_note_failure` of the poller overflows before its `min`: no wait from
  there on, and an error is logged at every tick (`Telegram!Overflow`).
- A journal line whose number is none (`Decimal("abc")`) raises through `load_closed_trades`, which
  skips other broken lines; the rest of the batch of commands is not answered (`AnswerFails`).
- The simulator books a stop at its level although the print has jumped past it, and dates the closing of
  what is left at the end with its entry.

**Fairness.** Safety is checked and proved for `Spec`; `FairSpec` matters to the four liveness
properties only. The loop returns to every ready task and awaited reads, writes and answers end (HTTP
timeout of 30 s), hence weak fairness of each task's own steps.
- `PanicReachesAll`: `RouterStep`, `RecoveryStep`, the store, journal and answer steps of the manager, and
  marks of a watched coin that keep coming while the switch is tripped (weak fairness of `Panic`). Nothing of
  the exchange: it may refuse every exit. In `exec` both coins are watched; with an unwatched coin alone no
  mark comes and nothing is asked. A restart opens the switch and so ends the obligation.
- `LossAnswered` (of a loss that lasts; one that a later report has recovered may be dismissed, as the debounce
  is meant to): the worker's `Process` and `Wake`; nothing of reports, marks, clock or restarts.
- `MarksServed`: the fan-out's `Take`, `Write` and `Resume`, each consumer's `Get` and `Done`, the
  listener's own steps; nothing of the exchange or the disk: a failed write ends the obligation.
- `FinishedDaysArchived`: a compaction that is started for a day that still needs one, again and again
  (`Begin`), and that goes on (`Compaction`). It is run by hand or by cron, so this is the operator's part;
  kills are bounded by `MaxFaults`.

`CHECK_DEADLOCK FALSE` is set where a bounded clock or history ends (`ks`, `stop`, `recording`, `sessions`,
`strategy`, `micro`, `simulator`); `exec`, `exec_faults`, `feed` and `clients` are checked for deadlock.

## 4. Proofs

TLAPS proves, for every value of the constants that satisfies the named assumptions (any set of coins,
all modes, any number of lots, any faults; any limit, equities and queue; any prices and rates; any
number of runs of the process; any sizes of queues, buffers and windows; histories of any length):

| module | theorem | states |
|---|---|---|
| `ExecutionProofs` | `TypeCorrect` | `Spec => []TypeOK` |
| | `LateEntries` | `Spec => []AtMostOneLateEntry` |
| | `OneTrade` | `Spec => []OneTradePerCoin` |
| | `ReentryGap` | `Spec => NoEarlyReentry`, an action property |
| | `NoUnmanagedExposure` | `Spec => []EveryLotManaged` |
| | `ExitsHaveTheirLine` | `Spec => ExitsAreJournaled`, an action property |
| | `NoPhantom` | `Spec => []PositionsAreReal`, if `NoSurprise` |
| | `FileMatches` | `Spec => []FileAgrees` |
| | `ManagedIsSaved` | `Spec => []FileKnowsManaged` |
| `KillSwitchProofs` | `TypeCorrect` | `Spec => []TypeOK` |
| | `DrawdownsLock` | `Spec => []DrawdownLocks` |
| | `DayOpens` | `Spec => NewDayOpens`, an action property |
| `StopEngineProofs` | `StopsTighten` | `Spec => StopNeverLoosens`, an action property |
| | `ArmedCovers` | `Spec => []ArmedNeverUnderwater` |
| | `HoldIsBounded` | `Spec => []HoldEnds` |
| | `LagIsBounded` | `Spec => []PeakLagBounded` |
| `ClientsProofs` | `OrdersAreCovered` | `Spec => []OrdersCovered` |
| | `CommandsOnceEach` | `Spec => []OnceEach` |
| `FeedProofs` | `EverythingIsHanded` | `Spec => []NothingLostInside` |
| | `RecordingFollows` | `Spec => []RecordingFollowsStrategy` |
| | `WaitsGrow` | `Spec => BackoffGrows`, an action property |
| | `ArchivesKeepTheDay` | `RecordingSpec => []CompactionLosesNothing` |
| | `ReplaysAreOrdered` | `RecordingSpec => []ReplayInOrder` |
| | `TearsCostOneLine` | `RecordingSpec => []OneLinePerTear` |
| `StrategyProofs` | `SignalBackedHolds` | `Spec => []SignalBacked` |
| | `SignalsSpacedHolds` | `Spec => []SignalsSpaced` |
| | `BarsCountedHolds` | `Spec => []BarsCounted` |
| | `BreadthBoundsHolds` | `Spec => []BreadthBounds` |
| | `WindowsAreExact` | `StatsSpec => []WindowsExact` |
| `SessionsProofs` | `RunsAreFound` | `Spec => []NoRunForgotten` |
| | `CleanRunsWereStopped` | `Spec => []CleanMeansStopped` |
| | `RunsHaveTheirParameters` | `Spec => []Attributable` |
| | `CoverageIsExact` | `Spec => []CoverageCountsOnce` |
| `SimulatorProofs` | `Refinement` | `Spec => KeepsTheBook`: the simulator implements TradeLife |
| | `SignalsAccounted` | `KeepsTheBook => [](Life!TypeOK /\ Life!Accounted)`: what TradeLife promises |
| | `NothingLost` | `Spec => []Accounted` |
| | `BooksAlwaysAgree` | `Spec => []BooksAgree` |

The assumptions are what the code fixes: sizes, limits and bounds are natural numbers, positive where
a zero has no meaning, and the backoff of the listener is in whole seconds (1 and 60 in the code; the
model counts tenths, because the jitter does). `FileAgrees`, `FileKnowsManaged` and `ExitsAreJournaled`
themselves speak of writes that succeed. One theorem has a hypothesis of its own: `NoSurprise`,
`Faults \cap {"lost", "liquidation"} = {}`. Without it `PositionsAreReal` is false and the code means it
to be: an exit that executed and whose answer was lost stays managed and is tried again, and a liquidation is
noticed at the next restart. `exec` meets the hypothesis; restarts, failing files and orphans remain.

How the arguments go:
- `LateEntries`. "At most one" is not inductive: `LateInv` adds that the one late entry has left the two
  awaits before its execution, and that nothing is counted while the switch is open.
- `OneTrade`. `TradeInv` adds that before the tasks run no entry is in flight or pending. An entry's
  check stays true over its awaits because the only other writer of a coin's position is the fill of
  a pending entry, which the checks exclude.
- `ReentryGap`. `Stamped`: a coin inside the window of an accepted exit is either cooling already or
  the manager still awaits the store for that very exit. That await is the exemption of the property, and
  the invariant shows it is the only gap.
- `NoUnmanagedExposure`. The exchange is related to the dictionary by `ExposureInv`: what the tasks
  know while suspended (`Working`: an exit is for a coin still managed; `Closed`: once it has executed
  nothing of the coin is left; `RestingKnown`), where a recovery stands (`Recovered`: a coin still to do
  is bounded by what was read, a coin done by what is managed), and `TradeInv`. Lots made invisible by a
  fault are named in `blind`, and only there; so is an order that still rests at a start, since
  nobody looks for resting orders then. That the settings are fixed is `SettingsFixed`.
- `ExitsHaveTheirLine`. `Booked`: between the request and the end of an exit its coin has a line in
  the journal. Nothing resets it meanwhile: a registration, which starts a new trade, goes to a coin nobody
  holds (`TradeInv`), and the coin of an exit is held (`Working`).
- `NoPhantom`. `Backed`: an entry that has executed is at the exchange, a recovery takes no more than
  is there, and a held coin is there unless its exit has just executed. Its steps lean on the
  exposure's: only the manager's own exit takes lots away. `Parked`: a parked entry is a dry run's.
- `FileMatches`, `ManagedIsSaved`. Dictionary and file differ most of the time; what is inductive is about
  the write that comes last. `Settled`: the last write of a coin still outstanding, or the file if there is
  none, agrees with the dictionary. Which write is last is what the lock's queue says (`Queue`, `PMLast`);
  `Restored` is the same during a recovery, and `Mirrored` relates the store's own dictionary to its file.
- `DrawdownsLock`. `HighKnown`: the day's highest report is still queued or already in the high-water
  mark; `Checked`: with the queue empty the switch reflects the last check; `LossMonotone`: a loss
  against a balance is a loss against every higher one. `DayOpens` needs `TypeOK` only: the three reads of
  the clock in one check agree unless midnight falls between them, and then the property says nothing.
- `StopsTighten`, `ArmedCovers`. `StopInv`: position and file differ in the peak only, and an armed
  stop covers entry and fees; `UpdateTightens` and `SavedAgrees` are the facts of one mark.
- `HoldIsBounded` rests on the order of the tests of a mark: whatever puts off a stop (a young position, a
  gap) does not put off the hold window. `LagIsBounded` needs `LagInv`: the file last held the position's
  peak no earlier than the last save, from which the debounce is measured.
- `OrdersAreCovered`. The router's and the manager's tasks look at `_leverage_applied`, await, and mark it. `Told`:
  the cache names no coin the exchange was not told of; `Ready`: a task that awaits an order has found or
  put its coin there. So it does not matter that both may set the leverage of one coin; that a failed
  request leaves the cache alone does. `SizeBelowGate` is the arithmetic of an entry's margin.
- `CommandsOnceEach`. `Polling`: an offset is past all that a poll has brought and all that was answered, so
  the next poll begins behind it; what the loop over a poll's updates makes of them rises.
- `EverythingIsHanded`. `Windowed`: the listener's queue is the last of the events, without a gap, so one number
  (`Left`) says what has left it. Each step of the fan-out or of a consumer moves an event across
  one border, and what a consumer was handed is what is owed to it up to that border, in order.
- `RecordingFollows`. The property compares a prefix; the equality behind it is `Following`: what the strategy
  has taken, then its queue, then the event on its way to it, are the lines of file, thread and buffer.
  It holds because the strategy is the first the fan-out puts to (`ServeStrategy`): an event is in its queue,
  or the fan-out waits for just that. `Hands` is where the lines are and how many, which gives the bound
  of less than a buffer. After a shutdown the taken events are a beginning of the lines.
- `ArchivesKeepTheDay`. Files come and go, so the invariant speaks of the day's text (`written`, all that
  was ever put into its files). `Covering`: the archive is a beginning of it, the plain file an end of it, and
  nothing owed lies between. `Compacting` says how far a compaction has come: before `replace` its copy
  begins the day and lacks nothing owed, before `unlink` the archive does. Lines that were appended after
  the copy was read are owed no more (`raced`), as in the property. `Handling` is the handle that outlives
  its file.
- `ReplaysAreOrdered`. `Ordered`: what waits in memory follows what is written of its day, and rows rise within
  a day; the reader takes either the archive or the plain file, both of them parts of the day.
- `TearsCostOneLine`. `Tally`: the lines lost and the days that end in an open row are together no more than
  the tears. A tear opens a row; the next line either joins it, so that a lost line takes the open row's
  place, or is torn itself. `Ended`: a write that has returned ended its rows, so no later text spoils them.
- `WaitsGrow` is arithmetic (`Longer`): twice the backoff at the least jitter exceeds the backoff at the
  most, also after rounding, as soon as the backoff is a second.
- `RunsAreFound`. A row of the log is worth something only if no later append can spoil it, so the
  invariant speaks of `Safe` rows: all but an unfinished one. `Kept`: a begun run is logged safely or on the
  marker; the marker's is the last one to roll over; what the roll-over holds in hand is what it read. `Disk`
  and `Threads` say what the temporary file holds for the thread about to replace it. A run that was
  stopped in the middle of a refresh leaves a second thread on that file and is excused in the property;
  for it `Disk` promises nothing, which the next run's start repairs before it begins. So is the run of a
  marker that could not be read: every other run that is due is then in a safe row already.
- `CleanRunsWereStopped`, `RunsHaveTheirParameters`. `CleanStopped` and `Registered` hold of every session
  in any place (`Everywhere`: rows, files, threads), and no step makes a session that is not one of
  them or the run's own (`Sources`).
- `CoverageIsExact`. The sum of the merged spans is the number of moments that some session covers. It is a
  statement about the two loops of the report (take the earliest, then merge it or begin a new span): after
  each turn the merged spans lie apart in ascending order, cover the moments of the sessions taken so far, and
  all that is left begins no earlier (`SoFar`, `TurnKeeps`, `MergeKeeps`). The only fact about
  the state is that no session ends before it starts (`Started`).
- `Refinement`. The mapping takes a coin's stage, two counters and the number of trades. It needs only
  `Shape` of the simulator: every entry of the book has a stage, the counters count, the trades are a
  list. `SettledStage` is the case of one print and one coin, `EventMaps` adds the strategy's answer,
  `EndMaps` the end of the recording, where a finite set becomes a list of its size (`Listed`).
- `SignalsAccounted`, `NothingLost`. One step moves at most one coin, and the number of coins under way moves
  with it (`CountOfOne`, `AfterStage`). `NothingLost` is where it pays: the signals' half of `Accounted` is that
  theorem, which speaks of TradeLife's state as the mapping gives it (`SignalsOf`), the orders' half is counted in
  `Orders`.
- `BooksAlwaysAgree`. `Money`: a held coin has the price, side and time of its entry, and every trade booked is
  one the journal would record with the same result and fees (`BookedAgrees`: the two formulas agree for either
  side). That the statistics of the period and the scorecard are those of their definitions is a property
  of a list of trades (`SumsAre`, `ScoredKeeps`, `MetricsScore`), the greatest drawdown among them.
- `SignalBackedHolds`. `MomentumInv`: a coin's open interest and the one before it are the last two reports, and a
  breakout that waits was measured against the last but one (`Informed`). So whatever reports and regimes
  came while it waited, the report that decides it is compared with one of the two before it.
- `SignalsSpacedHolds`, `BarsCountedHolds`. `BarsInv`: the bars made since the last signal are no fewer than
  those counted since (`Spaced`). An error between the bars of one trade leaves the count behind the
  bars, which is why `Spaced` compares and does not equate. Bars made and open volume are quotient and
  remainder of the volume by the threshold (`Banked`); a trade closes any number of bars.
- `BreadthBoundsHolds`. `Kept`: the queue of moves is out of order by the skew at most, so that removing from its
  head alone keeps every move of the window and none older by more than window and skew.
- `WindowsAreExact`. `StatsInv`: the property, that the last reading is remembered, and what the ghosts are. The work
  is in what the definitions say of a longer history: a change more (`ChangesAppend`), the window slid by
  one (`RecentSlides`, `MappedSlides`), a total without its first and with a new last (`SumSlides`); with
  them a running sum with its eviction is the sum over the window (`UpdatedIsRecent`).

**Loops.** What the code computes over a list is written in the modules as a recursive function on `0..n` and
proved of every length by least counterexample (`LeastNumber`, `UpTo`, from well-foundedness of `<`
on the naturals): first that a function with the recursion's equation exists on `0..n` (`LoopExists`,
`UpdateAfterUpdate`), which is what its definition by CHOOSE needs, then that each turn keeps the loop's
invariant (`LoopIs`).

The inductive invariants were first checked by TLC on the instances above.

Only model-checked: the four liveness properties (`PanicReachesAll`, `LossAnswered`, `MarksServed`,
`FinishedDaysArchived`), because fairness and ENABLED are beyond the prover. Every invariant and every action
property that a passing run checks is a theorem. Operators
that take an operator (`SelectSeq`, the folds, `SortSeq`) are out of its reach too: no definition that a theorem
rests on uses one, which is why the loops above are functions.

To repeat: `tlc -config exec.cfg MCExecution.tla`, `tlc -config feed.cfg Feed.tla`,
`tlapm FeedProofs.tla`, and so on; `PROJECT.json` pairs configurations with modules.

## 5. What the checks do not cover

- Some hazards of `PROJECT.json` have no property, and say why: data that the models do not have (partial
  fills, sides at recovery, prices in journal lines), and behaviour that is the code's (a second journal
  line per retry, the limit price far from the peak, midnight inside a check, a failed recorder, the
  poller's overflow).
- `PanicReachesAll` does not say that an exit is taken.
- Equity, prices and signals are chosen freely: no claim about profit.
- `NewDayOpens` exempts a check during which midnight falls: the date may then change past the unlock,
  and a tripped switch stays locked the whole new day (`MidnightRace`; the property fails without the
  exemption).
- `CompactionLosesNothing` exempts lines appended after the archive has read the file (`raced`): the code
  compares with the size read at its start, and loses them.
- `NoRunForgotten` exempts runs whose row the disk refused or found behind an unfinished one, runs whose marker
  could not be read at the roll-over (`RollReadFails`), and runs stopped
  in the middle of a refresh.
- `MarksServed` and `RecordingFollowsStrategy` are about a fan-out that has not failed.
- After a restart the day's high is measured anew: `DrawdownLocks` speaks of one process.

Not modelled: signing and nonces, HTTP, parsing of the environment and of messages, logging, message
texts and the notifier that sends them (nothing waits for it and no state depends on it), the Hurst
exponent and float rounding, confidence scores, the sweep around the simulator, and the analysis scripts
(offline studies that share no state with the bot).

## 6. Plan

What a further version of these models would add, in order:
1. `Execution` with sizes (partial fills of an immediate order) and sides in recovery: two of the hazards
   that no property covers.
2. `DurablePositions`, a map that survives crashes and is set and cleared one coin at a time, as the
   specification that the store of `Execution` implements; `FileMatches` and `ManagedIsSaved` state its
   substance as invariants.
