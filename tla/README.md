# A verification project for TradeGenius (stock-spike-monitor)

TradeGenius is a Python bot that day-trades a dozen US stocks with an
opening-range breakout strategy ("v10 ORB"). One process runs a scan loop every
15 seconds; three portfolios (`main`, `val`, `gene`) trade the same signals
independently: `main` on paper, `val` and `gene` through Alpaca accounts of
their own. The process is redeployed while it trades, so much of the code is
about getting its memory back.

This directory holds TLA+ models of the parts of the bot that keep the money
safe, TLC runs that check them on small instances, and theorems that TLAPS
proves for every instance. `PROJECT.json` lists runs, mutants, the source lines
each definition stands for, findings, hazards and theorems.

    cd tla
    tlc -config MCOrbEngine.cfg MCOrbEngine     # one run
    tlapm OrbEngineProofs.tla                   # one set of proofs

## 1. The system

### Components

| component | state it keeps | operations | talks to | modelled in |
|---|---|---|---|---|
| Risk book (`orb/risk_book.py`) | tickets, open risk and notional, realized P&L and its peak, loss locks, kill latch | admit, release, half release, record P&L, update equity, reset | engine, adapter, persistence, all under one lock | `OrbBook`, `OrbRiskBook` |
| Day state (`orb/state.py`) | opening-range window per ticker, row (phase, in position, trades) per portfolio and ticker | add_bar, lock, transition, can_enter | engine | `OrbState`, `OrbWindow` |
| Engine (`orb/engine.py`) | the two above, wash-sale counters | start session, bar arrival, lock and arm, try_enter, partial, exit, phantom sweep, purge | adapter, live runtime | `OrbEngine` |
| Adapter and live runtime (`orb/live_adapter.py`, `orb/live_runtime.py`) | open positions, ticker map, rollback history, session date, persist throttle | check entry, check exit, rollback, equity refresh, rehydrate, prune, purge, inject, persist | scan loop, executors | `OrbEngine`, `OrbRecovery` |
| Snapshot (`orb/persistence.py`) | `orb_state_<date>.json` | serialize, dump, load, apply | live runtime | `OrbRecovery`, `OrbWindow` |
| Scan loop (`engine/scan.py`) | cycle-local data, bar cache | one cycle: sweeps, dump, per-ticker ticks, exits, EOD pass, persist | everything | `OrbRecovery`, `OrbWindow`, `EodExecutor` |
| Executors (`executors/base.py`) | rows per ticker, mirrored to SQLite | submit, partial close, close, reconcile, EOD_CLOSE_ALL, operator `/close` and `/halt` | broker, engine | `OrbRecovery`, `EodExecutor` |
| Broker (Alpaca) | positions | market orders, close-only orders, client order ids | executors | external, in the two above |
| Exit rules (`orb/exits.py`) | stop, break-even, partial, MFE of a position | evaluate, arm, apply a partial | adapter, scan loop | `OrbExits` |
| EOD reversal (`orb/eod_reversal.py`) | open legs and the attempted mark, in memory | picks, entries, stop pass, close pass | scan loop, executors | `EodExecutor` |
| Main's path (`broker/orders.py`, `broker/lifecycle.py`, `paper_state.py`, timed jobs of `trade_genius.py`) | cash, positions, P&L, halt; `paper_state.json`; fired set | execute, partial, close, daily limit, eod_close, save, load | scan loop, engine's rows, saver thread | `MainBook` |
| Sentinel (`engine/sentinel.py`, `engine/alarm_f_trail.py`, `broker/positions.py`) | trail, P&L samples and hysteresis counter of each position | one look per position and cycle | main's path | `Sentinel` |
| Ingest (`ingest/*`, `engine/ingest_gate.py`) | connection, age of the last bar, colour, gate per ticker | connect, deliver, back off, ask | websocket, `execute_breakout` | `Ingest` |
| Earnings watcher (`earnings_watcher/*`) | positions file, evaluated cache, rows in the books | window cycle, exit cycle, reconcile at boot | Alpaca, portfolio books | `Earnings` |
| Backtest (`tools/orb_backtest.py`) | one position | its loop over finished bars | none | `OrbExits` |
| Day gates (`orb/day_gates.py`) | none | verdict on a day and its tickers | engine | a choice, in `OrbEngine` |
| Portfolio books, dashboard, Telegram, regimes, forensics, tools | views and logs | - | - | not modelled |

### How they interact

`scan_loop` reads the clock, clears the bar cache, manages main's positions
(the v10 exit rules where the adapter finds the position, the sentinel where it
does not), starts the session if the date is new (which rehydrates the
snapshot), replays bars into unlocked windows after 10:00, sweeps phantoms
(rows, purge, inject), dumps the state, refreshes equity, ticks every ticker
(feeds one bar, tries an entry), runs the exit pass of `val` and `gene`, the EOD
pass, and persists at most every 30 seconds.

`scheduler_thread` calls it, runs the timed jobs and, outside the session, the
earnings watcher (`trade_genius.py:7318-7338`): these never run beside each other.
Other threads do. Each executor runs a Telegram bot whose `/close` closes a
position between any two steps of the scan thread, and a thread of its own for
each message of the bus, `EOD_CLOSE_ALL` at 15:57 among them. The ingest loop and
the periodic save of main's paper book have one each.

### What is hard

* **One position, five records.** Engine rows, risk tickets, adapter positions
  (with a ticker map), the snapshot, the executor's rows and the broker change in
  different steps; a broker call stands between two of them, and the process
  may die between any two. Main has cash, two position dicts and a file; the
  watcher a file and rows in two books.
* **Restart.** A boot merges three memories of different ages. The snapshot
  holds a position's risk twice (sections C and G), the purge subtracts one.
  What is in memory only (EOD admissions, trail stages, hysteresis counters, the
  window key of the watcher) starts over beside what is on disk.
* **Counters clamped at zero** hide drift.
* **Kill, peak halt, loss lock, trade limit, daily halt** are latches that have to
  survive any order of gains, losses, equity refreshes, rollbacks and restarts.
* **The opening range** is built from a feed with gaps, by three paths, some of
  which feed the same minute again.
* **The forming bar.** Exits are evaluated every few seconds on a bar that still
  changes and a quote of another source that need not lie in it, against a stop
  and a share count that move in between.
* **The sweep at 15:57** closes everything in a thread of its own while the scan
  thread sends what it had decided before.
* **Clocks that are sampled.** The colour of the feed is computed when the
  connection changes state, the gate's hysteresis moves when it is asked, timed
  jobs compare a minute, and the sentinel counts looks, not bars.

The hazards, each at its line and with the properties that watch it, are in
`PROJECT.json`.

### What makes each component correct

* Risk book: counters equal the tickets; caps hold; kill, halt and lock follow
  from the day's history of P&L.
* Engine: rows, tickets, positions and map agree; limits on trades; blocks are
  final; a kill admits nothing more; partial P&L is not lost.
* Recovery: tickets and positions stay paired over crashes; nothing recorded is
  forgotten; nothing closed comes back; what the broker has becomes tracked.
* Window: not frozen early, never redrawn, row and range decided together, gaps
  healed, locked in the end.
* Exit rules: after 1R the stop at the entry protects as far as the bar can show
  it; what the backtest would have done.
* Executor in the afternoon: one entry per leg, flat after the sweep but for what
  is no close-only order, nothing held that no row shows.
* Main's book: it balances; halted or flushed it is flat; nothing is overwritten.
* Sentinel: a stop is confirmed, a trail earned, a flash loss real; a position
  beyond its stop leaves.
* Ingest: red means dead; the gate follows from what it was asked.
* Earnings: exposure grows under the cap only; books show the file; orders are not
  repeated; positions close.

## 2. The modules

    OrbBook ──────────┬── OrbRiskBook ── implements ── RiskBudget
    (book as a value) │      └ MCOrbRiskBook, TicketProofs
    OrbBookProofs     │
    OrbState ─────────┼── OrbEngine ─── implements ── TradingDay
    (day-state row)   │      └ MCOrbEngine, OrbEngineProofs
                      └── OrbRecovery
                             └ MCOrbRecovery, TicketProofs
    Totals ───── TotalsProofs                   (sums, used by the books below)
    OrbWindow ── MCOrbWindow  ─┐
    OrbExits ─── MCOrbExits   ─┴ OrbRulesProofs (range; engine against backtest)
    Ingest ───── MCIngest     ─┐
    Sentinel ─── MCSentinel   ─┴ FeedGuardProofs
    EodExecutor  MCEodExecutor ┐                (scan, sweep, bot, broker)
    Earnings ─── MCEarnings   ─┴ ExecutorProofs
    MainBook ─── MCMainBook, MainBookProofs     (scheduler, saver, file)

Two independent modules that share a proof module have different names for what
both have (`IngestInit`, `ExitInit`, `EwInit` and so on), so that one module can
extend both.

Every method of `RiskBook` runs under the book's lock and is therefore one step;
`OrbBook` gives each as a function from a book to the next one, and the modules
that have a book use those functions. `OrbState` does the same for the row of a
portfolio and ticker. A rejected call changes telemetry only and is no step.

**`OrbBook`, `OrbRiskBook`** — `book` is one `RiskBook`: `live` and `tickets` are
the dict `_open_tickets`, the other fields carry the names of the attributes
without the underscore. `release` looks the ticket up by id, subtracts what is
stored and floors at zero; `release_partial` halves the stored ticket (the
integer half stands for the float half: the ticket keeps what the counter
keeps). `record_realized_pnl` updates P&L, peak, lock and latch in the order of
the code, and equity and session-start equity are separate because the kill goes
by the second. `OrbRiskBook` calls the methods in any order and keeps three
history variables (`crest`, `trough`, `worst`) from which the properties, and
nothing else, are stated.

**`RiskBudget`** — what the book promises without its counters: holders draw from
a capacity, give back some or all of it, and never hold more than it together.

**`OrbEngine`** — one process from session start to session start. `rows` are the
day states, `books` the risk books, `open` and `active` the adapter's
`_open_positions` and `_ticker_to_ticket`, `locked` the locked windows,
`rollbacks` the cooldown history, `pending` the broker call the scan thread is
in. `CheckEntry` is `check_entry` with `try_enter` and the two maps of the adapter;
`ConfirmEntry` or `RollbackAdmit` ends it. `OnExit` is `check_exit` with
`on_exit`: release, record P&L with what the partial booked, close the row, block
the portfolio if this call latched the kill, drop the position. `cash` is history.

**`TradingDay`** — a slot per portfolio and ticker holding at most one position, a
count of trades, a halt that only a new day lifts. `OrbEngine` maps its rows to
slots (in position: held, blocked: shut, else free) and the kill to the halt.

**`OrbRecovery`** — one executor portfolio over crashes. `engine` is its memory,
`disk` the snapshot, `held` the executor's rows (written through to SQLite, so
they survive), `broker` signed shares. `stage` and `todo` walk the cycle (sweep, dump,
entries, exits, persist), `call` is the broker call between two engine steps,
`recent` the persist throttle. The phantom sweep lists the phantoms
(`FindPhantoms`), clears them one by one (`ClearPhantom`, each through the P&L and
the kill of the book) and then reads the rows again to purge and inject
(`Sweep`): a `/close` may come in between. The purge, inject, restore and prune
of the code are loops whose order makes no difference; the model takes the set of
tickets they drop or write at once. Ticket ids carry how many `recover-` prefixes
restarts have put in front of them, because the code asks for that prefix. A
boot is one step: executor rows, reconcile if the broker answers, snapshot,
sections C and G, purge of tickets without position, prune of positions without
row. `OperatorClose` is `/close` on the bot's thread, enabled between any two
steps.

**`OrbWindow`** — one ticker's window from the open to after 10:00. A bar is its
minute; `window.minutes` is the set that went into high and low, `window.seen`
is `bars_seen` up to half the range, above which nothing looks at it. A cycle
reads the clock (`Begin`), fetches once (`Fetch`, cached), sweeps (`Sweep`: the
first-cycle hook, then the post-range sweep) and feeds one bar (`Feed`), while
the clock runs on between the steps. `disk` is the window and row of the
snapshot.

**`OrbExits`** — one position twice, on one market. `live` is the `OrbPosition` as
the scan calls `evaluate` on the forming bar (`Cycle`, any number of times between
two trades: break-even and partial, circuit breaker, stop, target, the rules by
the clock, in the order of the code); `back` is the loop of the backtest, which
takes the finished bar in `NextMinute`. The bar is the source's last one: it grows by
`Trade`, and its last trade is its close, which only the backtest uses. A cycle
hands `evaluate` the bar's high and low with a quote of any price for its close
(`Quoted`), because `current_price` comes from FMP and the arrays from Alpaca; or the
quote alone where the arrays have no prices (`Readings`). Minute 0 is the bar
that is the last one when the position is opened: cycles may read it, the
backtest, which enters at the next bar, does not. `plain` is history: no bar so
far touched two levels (1R is one while the position is not protected yet) or a
level and a rule by the clock, none gave back enough for the circuit breaker and
closed above it, because a cycle sees the giveback and the backtest only the
close, and every reading was `Fair`: the bar's own prices, a quote on the same
side of the circuit breaker as the last trade, and nothing of minute 0 that left
a trace. `seen` says that the last cycle read the whole bar.

**`EodExecutor`** — the last hour of one executor. `pos` is the account, `ids` the
client order ids used in this minute, `row` and `orb` the executor's row and the
adapter's map, `eod` the reversal engine. Three threads: `scan` walks exit pass,
EOD entries, stop pass and close pass, each order in two steps (send, record).
What the exit pass does with a position is a choice at any minute: a fetch may
fail or bring bars older than the exit cutoff, so that a position is held,
halved (`ExitPartial`, which `evaluate` asks for before the cutoff) or closed before
the sweep, during it and after it. A full exit of the scan thread is a close-only
order (`CloseOnly`), a partial and a `/close` are plain market orders. `sweep` closes
all, then wipes the rows and reconciles them with the account; `bot` closes or
halts. An answer may be lost, a command may come at any time, and the process
may die; a boot reconciles with the account. `hist.late` and `hist.blind` record
what the two properties have to tell apart: a plain market order that reached
the account after the sweep closed all, and a ticker whose exposure the process
may not know.

**`MainBook`** — the paper book over two days. `mem` and `disk` are cash, positions,
P&L and halt in memory and in the file; `op` is where the scheduler thread is in
`execute_breakout`, `close_breakout` or `partial_close_breakout`, split between
the writes of cash, position and file; `saver` is the periodic thread, whose
snapshot of the book is not atomic; `fired` the jobs run. The daily loss limit
closes everything one by one; `eod_close` too; the 09:30 reset clears the halt
and sets the date in memory, not in the file: `hist.undated` records a boot that
read a file no handler had saved since that reset.

**`Sentinel`** — the exit loop of main for a position the v10 rules do not find,
as after every restart. One action `Look` is `_run_sentinel` for one position and
cycle with what `manage_positions` does with its verdict: sample of the P&L, hard
loss, price stop with its counter (`Counted`), velocity, trail
(`Advanced`, `Proposes`), one winner, hold gate, and the close or the tightened
stop. Prices are distances from the entry, so a short is the mirror image. A
cycle without a look (`Pass`) moves the samples on, and may take half.

**`Ingest`** — `health` and `loop` are connection and backoff of the websocket
thread, `lastBar` the stamp of the last bar, `sla` the colour, `gate` the state per
ticker. The writes of the ingest thread are under different locks or none and
are a step each: the stamp (`OnBar`), the connection state (`MarkLive`, `Connect`,
`StreamFails` and so on), the reading of the age (`ReadAge`) and the colour
(`Recolor`); `update` says which is to come. `evaluate_gate` is two steps, `AskGate`
(the colour is read) and `MoveGate` (under the gate's lock), with `asking` in
between; any step of the other thread and of the clock may lie between any two
of these. `log`, `stalled` and `asking.fresh` are history.

**`Earnings`** — one day of the watcher. `thread` walks the window cycle (per
strategy and ticker: order, position file, rows) and the exit cycle (order, rows,
file), every write a step of its own. A window cycle reads the account equity anew,
any value of `Equities`; orders and cap are shares of it (`CapOf`, `Sized`). `file`
and `evaluated` survive a crash, `lastKey` and `rows` do not. `EarningsConstants`
has every premarket minute before every minute after hours, as `runner.py:689-690`
has (04:00 to 09:29 and 16:00 to 20:00): the window key changes once a day.

What is abstracted everywhere: prices (a breakout, an exit and its P&L are
choices, except in the exit rules, which are about them), sizing, texts,
timestamps, telemetry.

## 3. Runs

| run | distinct states | question |
|---|---|---|
| `risk_book` | 106 168 | do counters, kill and loss rules survive any order of calls, and is it a `RiskBudget`? |
| `engine` | 6 086 | do four records of a trade agree, are P&L and blocks kept, is it a `TradingDay`? |
| `recovery` | 1 248 526 | do tickets, positions, snapshot, rows and broker fit over two crashes? |
| `recovery_live` | 22 805 | do ghosts leave, and is what the executor has a row for tracked in the end? |
| `window` | 378 458 | is the range final and complete, and does a ticker that trades get one? |
| `exits` | 4 503 358 | how far is a position safe after 1R, and does it leave as in the backtest? |
| `executor` | 7 878 286 | does the afternoon end flat, with each leg entered once and all exposure tracked? |
| `main` | 2 794 246 | does the paper book balance, stay flat after halt and EOD, and overwrite nothing? |
| `sentinel` | 28 871 | does the fallback exit close for good reasons, and does it close at all? |
| `ingest` | 6 731 391 | is red true, and does the gate follow from what it was asked? |
| `earnings` | 454 210 | do cap, books, orders and exits of the watcher hold over a crash? |
| `recovery_resume` (violation) | | can a restored position be exited, as a doc says (section 6)? |

Properties of `risk_book`: `CountersMatchTickets` (both counters equal the live
tickets), `KillMatchesLow` (the latch follows from the day's low),
`NoEntryAgainstRecord` (no admission after a kill, under the peak halt or on a
locked pair, judged by history), `NotionalGrowsOnlyUnderCap`, `BudgetSpec`.

Of `engine`: `RecordsAgree`, `PnlComplete` (nothing a partial booked is lost on its
way to the kill), `BlocksAreFinal`, `DaySpec`.

Of `recovery`: `TicketsBacked` (a ticket for each position and the other way
round, and a map that leads to a position, always), `RiskMatchesTickets`,
`SweptAgrees` (what one sweep guarantees), `NoGhostAfterBoot`,
`SnapshotNeverForgets`. Of `recovery_live`: `GhostsLeave`, `HeldGetsTracked`.

Of `window`: `RangeIsFinal`, `SweepHealsGaps`, `WindowLocks`.

Of `exits`: `ProtectedAfterOneR` (after 1R a loss is booked by the circuit breaker, or
by a rule of the clock that sells at a quote below a bar which lies above the
entry, and by nothing else), `MatchesOnPlainBars` (same minute, reason and shares as
the backtest as long as no bar is ambiguous and no quote told the circuit breaker
something else than the bar).

Of `executor`: `EodEntryOnce` (one filled entry per leg and boot, and never two in a
minute), `FlatAfterSweep` (after the sweep no entry and no close-only order leaves
anything open: what is, comes from a partial or a `/close` that arrived since),
`ExposureIsTracked` (what the account holds has a row; a lost answer, a command in
between, a crash, and a partial after the sweep's reconciliation are the
exceptions, each until the next reconciliation).

Of `main`: `BookBalances` (cash, cost of what is open and realized P&L, between any
two handlers), `HaltedIsFlat`, `FlatAfterEod`, `OverwriteNeedsGap` (an entry writes
over a position only after a crash in an entry or a position kept overnight),
`HaltHolds` (after a breach nothing is opened that day, unless a crash cut the
forced close short or a boot read a file not saved since the reset).

Of `sentinel`: `StopConfirmed` (two looks in a row with mark and close beyond the
stop, or a deep breach, over skipped cycles, tightened stops, refused exits and a
restart), `TrailEarned`, `FlashSameSize`, `BeyondStopExits`.

Of `ingest`: `RedIsReal` (a red feed has been silent for longer than `AgeRed`, but for
the moments in which a bar is in and its update on the way), `GateFollowsAskings`
(the gate equals a function of the log that does not know its clocks),
`ClosesOnDeadFeed` (what closes a gate is a colour that was true when it was read,
with the same exception).

Of `earnings`: `ExposureCapped` (the notional grows only in an entry that leaves it
within the cap of its cycle's equity, summed over strategies and both windows; an
equity that falls may leave it above), `RowsFollowFile`, `OnceInALife` (an order once per
window while the process lives, none where strategies disagreed),
`EveryPositionCloses`.

Each has a mutant in `PROJECT.json`, a plausible bug in a mapped definition (the
operators commented `Mutant`) that makes TLC report a violation of it.

### Bounds and why they are enough

* `risk_book`: three tickets, so that two can be held while a third comes and goes;
  a cap of 7 with risks 2 and 4 has admissions that fill it (2+4, with a half
  released to 1 in between) and refusals just beyond; legs of -3, -1, 2 lie on both
  sides of the loss lock, the kill (2 or 4) and the halt. The assumption
  `TotalIsSum` of `MCOrbRiskBook` has TLC compare `Total` with `SumFunction`.
  `PnlBound` stops the P&L at 4 on both sides, beyond the largest kill limit.
  Tickets and pairs are symmetric.
* `engine`: one portfolio, because portfolios share nothing but the windows and the
  gates, and the proofs cover any number; two tickers and tickets, so that a kill
  by one finds the other open, armed, closed or blocked; two trades; a rollback
  limit of one. `RollbackLimit` also bounds the history counter.
* `recovery`: one ticker and lots of two, two uuids, two crashes. The second uuid
  lets a ticker be entered again beside an old position; the second crash stacks
  prefixes and loads a snapshot written after a recovery. `ExitBound` and
  `MaxRestarts` bound the run. Two tickers pass eight million states within five
  minutes without an end in sight; the interplay of tickers through the book is in
  `engine`. A submit that raised but reached the broker is taken only while the
  broker has nothing of the ticker.
* `recovery_live`: one uuid, one crash, one trade.
* `window`: a range of four minutes with one before and one after it, one bar lost
  per fetch, one crash. Half the range is two, so a window can be thin; a cycle
  can be slower than a minute; the end is far enough to lock by the fallback.
  `seen` is capped at the value above which no code compares it.
* `exits`: prices in quarters of the risk: beyond the stop, a loss too small for
  the circuit breaker, the entry, half a risk (the floor of the stale exit), 1R,
  2R and the target, so that every level lies between two prices and some fall
  on one. The breaker has the thresholds of production (armed at 1R, fires after
  1.5R given back) and can fire before the stop and alone. The quotes are the
  same seven prices, each beside any bar. The rules by the clock bite in minutes
  2, 3 and 4 of five. Lots of two have a partial; lots of one
  and of five, and a breaker that fires earlier, were checked too.
* `executor`: one ticker (tickers share only the clock and the attempted mark, and
  both sides of a leg are there), entries in two minutes, so an id can be repeated
  within a minute and not across two; the sweep and the EOD exit follow, and ORB
  exits and partials come in any minute. `MaxScans` and `MaxTroubles` bound the
  passes and the losses, commands and crashes: one of them, at any place.
* `main`: two tickers, long and short, room for two positions, a price below and
  one above the entry, a loss limit that one full or two half losses reach, two
  days with every order of jobs, one crash, one save by the second thread.
* `sentinel`: gains from three risks lost to two won; a deep gap, a deep
  loss, a flash and a hard loss each between two of them; a hold of four and a
  warm-up of three cycles, so that each alarm can come before and after the
  others; two confirmations; one crash. Every exit reason, both chandelier stages
  and a raised stop are reached.
* `ingest`: ages and waits of a few ticks in the order of the defaults, three waits,
  the first shorter than a tick, so that the third failure in a row is reached; two
  askings that close a gate and two that open it again, so four askings of one
  ticker (tickers share only the colour; the theorems are for any number), a clock
  that leaves the session.
* `earnings`: two tickers, one in each window, an equity of nothing, one or two
  units, so that it may fall under what is open, two orders that overrun the cap
  (three and two shares of five), bars that stop, trigger or
  keep, one crash.

### Fairness

* `recovery_live`: weak fairness of the cycle, of the return of a broker call (the
  SDK's calls end in an answer or an exception, both caught), and of the restart
  (Railway restarts a dead process). Entries, exits, operator and crashes are not
  fair.
* `window`: weak fairness of the clock, the cycle and the restart; strong fairness
  of a fetch that returns what was printed: a source that is asked again and
  again is not down forever. Without it `WindowLocks` is false, as it should be:
  no code locks a range without a bar.
* `sentinel`: weak fairness of a look with some bar (the scan goes on, and a cycle
  has bars again and again) and of the restart. What the bar shows is not fair:
  `BeyondStopExits` holds because a position whose looks keep finding it beyond its
  stop has to be closed.
* `earnings`: weak fairness of the thread; strong fairness of managing a ticker
  with a bar: without bars no rule closes anything, the time stop included.

Deadlock is checked except in `exits`, `executor`, `main` and `ingest`, where the day or
the bounded clock ends.

## 4. What is proved

All theorems hold for every value of the constants that satisfies the named
assumptions (`BookConstants`, `RiskBookConstants`, `StateConstants`,
`EngineConstants`, `WindowConstants` and so on), which say little more than that
numbers are numbers and that the markers for "none" are not values. TLC
evaluates them in every run.

**Sums** (`TotalsProofs`). Five of the invariants speak of sums, and what a fold over a
set computes needs an induction over data that the installed provers cannot
instantiate. `Totals` therefore defines the sum of a function as a difference of two
cardinalities, the units of its positive values and those of its negative ones,
and the library's facts about finite sets give what the proofs need: the total
after one value changed, of a function that is zero but at finitely many points,
and of a zero function. TLC confirms that it is the sum (`TotalIsSum`).

**Risk book** (`OrbBookProofs`, `TicketProofs`). `OrbBookProofs` has the lemmas
about single methods: each maps books to books, and releases only free.
`TypeCorrect` and `RiskCapHolds` (`RiskWithinCap`) follow from them directly.
`KillIsEarned` (`KillMatchesLow`) and `EntriesRespectRecord`
(`NoEntryAgainstRecord`) rest on the invariant `FlagsMatchHistory`: peak, lock set
and latch are functions of `crest`, `worst` and `trough`. `KillMatchesLow` alone is
not inductive, because the latch compares the current P&L while the property
speaks of the day's low. `CountersAreExact` (`CountersMatchTickets`) shows that the
floors at zero never clamp: what a release takes is a part of the counter.
`NotionalCapped` (`NotionalGrowsOnlyUnderCap`) and `ImplementsBudget` (`BudgetSpec`) go by
what each method does to the live tickets and their totals (`HoldingsStep`): each
call is a draw, a return or a stutter of `RiskBudget`.

**Engine** (`OrbEngineProofs`). The inductive invariant is

    Consistent == RecordsAgree /\ PendingHeld /\ UnlockedIdle

`RecordsAgree` alone is not inductive: `RollbackAdmit` is safe only because the
pending ticket is still the mapped one (`PendingHeld`), and `LockAndArm`, which
overwrites phases, only because a ticker whose window is not locked is in no
position (`UnlockedIdle`). There is one lemma per action. From it follow
`RecordsAlwaysAgree`, `KilledPortfoliosStayOut` (`NoEntryAfterKill`: only `CheckEntry`
enters, and it asks the book), `TradesStayBounded`, `BlocksStay` (`BlocksAreFinal`: a
lock, an exit and the kill each spare a blocked row, and a rollback meets none),
and `ImplementsTradingDay`: each action is shown to be a step of `TradingDay` or a
stutter (an exit is `Close`, with `halt` exactly when it latched the kill), with one
lemma per action again. `RiskStaysCapped` carries the cap of the book over to
every portfolio. `PnlStaysComplete` (`PnlComplete`) needs that only a halved position
has booked something, and that the pending one is not halved (`PnlInv`), for
otherwise a rollback would lose what a partial booked.

**Recovery** (`TicketProofs`). `RecoveryInv` has three parts besides the types: what
holds of the engine's memory while the process is up, what holds of the snapshot
always, and how the two relate.

    EngineInv(e)  == tickets, positions and map agree (Paired), the counter is
                     the sum (Counted), OneEach, Named, Whole
    DiskInv(d)    == every position of the snapshot has a ticket in it, the
                     counter is the sum, OneEach, Named, Whole
    Keeps(d, e)   == a kill and the trades that are in d are in e

None of the properties is inductive alone. A restore gives every position the id
with one more `recover-`, and would write over a ticket of section C if that id
were taken: `OneEach` says that no two ids have the same base, so it never is.
Inject keeps `OneEach` because a position with the base `recover-inject-<ticker>` is
one of that ticker (`Named`), which is then tracked and not injected. `Whole` (no
position without shares) makes the rows that a fill writes ones that inject can
use. `DiskInv` is weaker than `EngineInv`: the dump of each cycle writes tickets
without positions, and the restore has to be right from those snapshots too:
the tickets that sections C and G load twice are exactly those the purge
takes out (`RestoreCountsOnce`). For `SweepReconciles` the invariant adds that, while
phantoms are being cleared, a row in position without a row of the executor is
still on the list: one that appears after the list was made comes from a `/close`,
which closes the row itself. `Keeps` gives `SnapshotKeepsRecord`: a snapshot is
only written from a memory that has at least its trades and its kill, and a boot
reads them back. `BootResurrectsNothing` is a fact about one step, from the
types and `RehydratedFacts`. There is one lemma per action, and TLC checked
`RecoveryInv` on the run's 1.25 million states first.

The proof changed the model: its folds over sets of tickets became set
operations, and the one loop whose order matters (the clearing of phantoms) a
step for each phantom, which also lets a `/close` come in the middle of the sweep,
as in the code.

`TicketProofs` extends two modules that share `OrbBook`; the theorems on
`OrbRiskBook` cite its assumptions only, those on `OrbRecovery` those of
`OrbRecovery` and `OrbBook` only.

**The range and the exits** (`OrbRulesProofs`). For the window the inductive invariant
is

    RangeInv == TypeOK /\ Causal /\ LockNotEarly /\ PhaseFollowsLock
                /\ FollowsSnapshot /\ FeedsStarted

`Causal` (no bar of the future, no clock reading either) makes the lock by the last
bar late enough; `FollowsSnapshot` (a started process agrees with a snapshot
whose range is locked) makes the range survive a restart; `FeedsStarted` keeps the
first feed behind the rehydration. It gives `NeverFrozenEarly`,
`RowDecidedWithRange` and, as action properties, `RangeStaysFinal` and
`SweepLeavesNoGap` (`SweepHealsGaps`, both replays of a first cycle included).

For the exits, `OneRProtects` proves `ProtectedAfterOneR` for every lot, risk, target and
clock, and for any quote beside any bar. It speaks of one step: the invariant it
needs is that an armed position has its stop at the entry. `CycleProtects` then goes
through the rules in their order: a stop is filled at its level, the target lies
above the entry, and a rule of the clock is asked only once the stop was not due,
which is to say that the low of the reading lies above the entry; the bar's low
is that of the reading, or the reading is the quote alone, which is then above
the entry itself. An earlier form had the bar's close for the quote and no loss
at all; it is false of the code, where bar and quote have different sources.

`EngineFollowsBacktest` (`MatchesOnPlainBars`) relates two programs over a bar's whole
life. Its invariant `Follows` says of an open backtest position that, if the bar so
far touches one level at most, the live position either stays (`Stays`: it is the
backtest's with a later MFE, or what 1R made of it) or has left in this minute
for a rule whose level the bar touches (`Leaves`), and that a cycle that saw all of
the bar leaves it where the backtest will (`Tracks`). A quote is dealt with by two
lemmas: no rule but the circuit breaker decides by it whether to leave
(`PriceAside`), so that a fair reading does what the bar itself would have done
(`QuotedTracks`). The attempt corrected the
model's `Plain`, under which the property was false in two corners that the
runs of before did not contain: a circuit breaker that a cycle sees fire on a
giveback the bar's close has recovered from (production's thresholds let it
fire alone), and lots of one share, where no partial marks 1R, so that the
stop raised within a bar was the only level counted.

**Ingest and sentinel** (`FeedGuardProofs`). `RedIsTrue` and `GateClosesOnDeadFeed`
rest on two invariants. `UpdateInv` follows a bar through the writes of the ingest
thread: a red age that was read stays red, a colour other than green has a bar
behind it, and a LIVE feed shows red only if the bar that made it LIVE took so long
that its own age was. `AskInv` says what a call of `evaluate_gate` under way knows:
if it read red, then the feed was dead at that moment, a bar has come since, or the
colour it read was that of a bar on its way. `GateIsItsLog` and `RefusalsAreItsLog`
show, by an invariant that ties the two clocks of the gate to the log, that the gate
is the function `ClosedAfter` of its askings, for any number of them.

The invariant `Inv` of the sentinel says that all samples kept were taken with the
shares last known, that the peak of the trail is no higher than the best close
since the entry and at least one risk at the chandelier's stages, that a
counter above zero belongs to a named position whose last look was beyond the
stop, that what is open has no exit reason, and that a dead process remembers
none of it. Each action has a lemma; `OnlyLooksClose` (an exit reason can only
appear in `Look`) turns it into `StopsAreConfirmed`, `TrailsAreEarned` and
`FlashesCompareLike`.

**Main's book** (`MainBookProofs`). One lemma per action gives the types and what the
step does to the fields that matter; five invariants build on it. `EodInv` (for
`FlatAfterEod`): from the mark of `eod_close` on, what memory holds is what the
handler has still to close, and the file is flat unless the handler runs, so that
a boot cannot bring a position back. `HaltInv` (for `HaltedIsFlat`) says the same of
the forced close, for a file of today only, because a boot clears the halt of any
other date. `GapInv` (for `OverwriteNeedsGap`): without a gap a ticker is held on one
side, its row is in position in memory and in the dump but for the entry under
way, and the file holds no more than memory but for what is just being closed.
The two flatness properties are not inductive, since they speak of a process
between two handlers; neither is the third, which does not mention the rows.

`BooksBalance` (`BookBalances`) carries the balance through a handler: `BalanceInv` has
memory off by exactly what the handler owes (`Owed`: the cost of an entry not yet
debited, the proceeds of a close not yet credited), the file balanced if it is
clean, and the copy of cash that the saver holds still current unless it was
marked dirty. `HaltsHold` (`HaltHolds`) needs `FileInv` (the day's P&L in a file of today
is that of memory while nothing is being closed) and `KeptInv` (after the breach
memory and a file of today either say "halted" or hold enough losses to be
halted by the next check). An earlier form of the property exempted only a day
whose reset had not run, and the proof showed why that is too little: the
reset sets the date in memory only, so that a crash before the first save,
then a breach saved under the old date, then a second crash give a boot that
clears the halt (section 6).

**Executor and watcher** (`ExecutorProofs`). `EodInv` is the conjunction of `EodTypes`,
`PassInv` (what a pass has still to go through, and the order it waits for),
`SweepInv` (once the sweep was sent nothing but exits and partials is under way),
`FillInv` (the attempts a process has left: one per leg, used up by the order under
way) and `TrackInv` (a held ticker without a row waits for the row of an order; a
partial under way before the sweep has the row it was made from, unless a
command or a crash took it). TLC checked it on the run's 7.9 million states
before it was proved. `LateFacts` is what `FlatAfterSweep` comes down to: an exit that
reaches an account which is flat in a ticker changes nothing there. It gives
`EntriesFilledOnce`, `StaysFlat` and `RowsTrackExposure` for any number of tickers,
passes, crashes and lost answers.

`EwInv` is `EwTypes`, `EntryInv` (the exposure a window counts with is that of the
file, and the order under way fits under the cap beside it, which is what makes the
cap of the cycle hold over several orders), `ExitInv`, `RowsInv` (what the books
show at each point of a minute) and `OnceInv` (what this process sent stays
evaluated). It gives `NotionalsStayUnderCap`, `BooksFollowFile` and
`OrdersSentOnce`. The last is where the assumption on the order of the windows is
used: a window key that could come back would clear the evaluated sets, and an order
would be sent twice.

### Only model-checked

* Liveness: `GhostsLeave`, `HeldGetsTracked`, `WindowLocks`, `BeyondStopExits`,
  `EveryPositionCloses`. TLAPS has no rule for fairness and `ENABLED` that the
  installed provers could use.
* That `RestoredCanExit` fails: a counterexample is a run.

Every other property of a passing run, safety and action, is a theorem.

## 5. What is not modelled, and why

* Prices (but for the exit rules), indicators, sizing, ATR: data. Filters that
  only refuse entries (VWAP, RVOL, retracement, regime, wash sale) are part of
  the choice of a breakout.
* Yahoo's forming bar at the end of a fetch (the fallback source), a fetch whose
  last bar is older than that of the fetch before, minutes without any bar (in
  `OrbExits`), and partial fills at the broker.
* A crash between the 40410000 answer to a partial and the next write of the
  executor's row: `_partial_close_position_idempotent` does not persist the row on
  that path (`executors/base.py:1834`), which matters only until the boot reconciles.
* Main's variant of recovery: `restore_tickets`, `recover-held` tickets and the purge
  that spares main (`MainBook` has the file and the rows, not the tickets).
* The gap detector of the ingest and its backfill: no code starts the worker.
* The alarms of the sentinel that are switched off (B, C, D, E, early ditch).
* Promotion of earnings positions to the regular session; cooldowns, strike
  counters and the texts of Telegram.
* Day gates: pure functions whose verdict is a choice in `OrbEngine`.
* `ORB_ORPHAN_POSITIONS` (set by hand in the environment), scale-down for
  pyramiding and the concurrent-positions cap (off by default).
* `PHASE_OR_LOCKED` is declared in `orb/state.py` and assigned by no code.
* Dashboard, Telegram views, forensics, tools, other backtests, earlier strategies:
  no state the trading depends on. They are more than half of the lines of the
  repository.

## 6. Where documents and code disagree

`recovery_resume` is a run whose counterexample TLC finds: positions are restored
"so the exit engine can resume exit management", but the ticker map by which
exits find positions is not restored, and inject skips the ticker as tracked. The
quote and its line are in `PROJECT.json`.

Others met on the way, without a run of their own:

*Recovery and engine*

* The executor's rows are called "always accurate" (`engine/scan.py:980`); a close
  overwrites the row with the closing side (`executors/base.py:1577`).
* The per-cycle dump means that a redeploy "no longer loses in-memory state"; it
  passes no adapters and writes an empty positions section over the last
  complete one.
* The loss lock holds "for the rest of the day"; lock and peak are not in the
  snapshot.
* `_read_bars_from_archive` (`engine/scan.py:600`) takes rows with an integer
  `et_bucket` only, and every writer of the archive writes an "HHMM" string or null,
  so the replay of a restart in the range that `engine/scan.py:635` announces finds
  no bar. `OrbWindow` models the archive as what the reader returns.
* `orb/live_adapter.py:107` expects at most one open position per ticker, but
  `inject_missing_engine_positions` leaves the row armed, so that an injected
  ticker can be entered again. `OrbRecovery` has these states, and the purge and
  `SweptAgrees` reckon with them.
* The docstring of `release` (`orb/risk_book.py:296`) says that a second release
  returns True; it returns False. A restored position gets a ticket of its full
  original risk even after a partial. A comment in `orb/live_runtime.py` calls the
  rollback cooldown off by default; the code's default is three.
* "A thin window correctly blocks entries": `bars_seen` counts feeds, and a minute
  is fed in several cycles. Only bars "strictly inside [09:30, or_end)" are
  added: there is no lower bound, and the 09:30 cycle feeds a premarket bar.

*Exit rules*

* `orb/exits.py:10-11` has a "subsequent return to entry" trigger the break-even stop.
  The stop is moved to the entry as soon as 1R is seen, and the next cycle
  compares it with the low of the same bar, which may be older than the 1R.
* "Matches backtest order" (`orb/exits.py:22-24`, `230-235`): break-even and partial
  come before the stop, and the circuit breaker before the target, so that a bar
  with two levels may end differently. No caller calls `evaluate` again after a
  partial as its contract asks; the target of the bar of the partial is seen one
  cycle later. `on_partial_exit` runs before the order of the broker. The MFE is
  not in the snapshot.

* The stop at the entry does not keep a position without loss after 1R: it looks at
  the bar's low, and the rules by the clock (`orb/exits.py:330-361`) sell at the quote,
  which comes from another source and may be newer. With the bar above the entry
  and the quote below it, they book a loss; so may the circuit breaker, by design.

*Main's book*

* "No new entries until tomorrow" (`trade_genius.py:5552`): a load resets the halt
  of a file with another reset date (`paper_state.py:690`). A restart forgets it on a
  day whose 09:30 reset was missed; and since the reset itself saves nothing, two
  restarts can forget it on any day, if the first comes before a save and the
  breach is then saved under the date it loaded. `HaltHolds` exempts these boots.
* Timed jobs need their exact minute in a loop that sleeps 30 seconds, and are
  marked as run before they run. A forced close that a crash cut short is not
  resumed.
* A partial close does not save the book, and its row does not count towards the
  loss limit. The periodic save is not atomic with the handlers. Tickets in
  `paper_state.json` are restored by no boot. Cooldowns and strike counters are in
  memory only.

*End of day*

* A partial is asked for before the cutoff (`orb/exits.py:309`), a failed fetch
  leaves the position for a later cycle (`engine/scan.py:1999`), and the order is a
  plain market order (`executors/base.py:1813`). Decided around 15:57 it can reach
  an account the sweep has just flattened, opens the other side, and has no row if
  the sweep has reconciled by then. The position stays overnight; the next boot
  grafts it. A `/close` can do the same.
* The exit defaults to 15:58 in `from_env`, a comment says "15:58 -> 15:56"; 15:58
  is after the sweep of 15:57.

*Sentinel*

* "N consecutive 1m closes" (`engine/sentinel.py:255`, `684`): `evaluate_sentinel` passes
  the time of the look as that of the bar, so every cycle counts the same close.
  And a deep breach that the hold gate refuses leaves the counter as it was, even
  with the close back inside the stop.
* "Deeper rails still fire normally" (`broker/positions.py:632`): the price stop
  outranks velocity and trail, and the hold gate that refuses it silences them for
  the cycle. The deep stop that "fires immediately" inside the hold
  (`engine/sentinel.py:186`) is looked at only once the hysteresis let the price stop
  through.
* "-1% over 60s" compares with the newest sample that is 60 seconds old or older:
  after skipped cycles, any age.
* `bars_seen` of the trail counts cycles. `record_entry` starts it at break-even;
  "stage 0 until 1R" is true after a restart only. `propose_stop` remembers what the
  hold gate did not install.

*Ingest*

* `ingest_loop` never calls `AlgoPlusIngest.start()`, so gaps are never refilled.
* Nothing is locked from the stamp of a bar to its colour, nor from the reading of
  the colour to the move of the gate: a gate can close on a feed whose bar has
  just come, and the colour of a bar whose callback took longer than
  `SLA_BAR_AGE_RED_S` is red on a LIVE feed until the next change of the connection.
* The age is computed at changes of the connection only: red may come late
  (`ingest_config.py:48`), and a feed that never delivered is never red. "Continuous
  RED" (`ingest_gate.py:96`) is what the askings saw. `record_bar` stamps the age
  also when the write failed. The ceiling of 20 minutes is not implemented.

*Earnings*

* The cap is a share of the equity of the moment: what is open may lie above it once
  the equity has fallen. What is capped is the notional that is recorded; the
  order itself is at least one share, whatever that costs.
* A restart within a window clears the evaluated cache (`runner.py:681`), and an
  order may be sent again.
* `evaluate_exit` reads `direction`, which no record has: a short of the first
  strategy is managed as a long.
* A position is added whether or not the order fills; a close that is refused is
  recorded as closed; an exit is sent again after a crash between order and file.
* Without bars nothing closes, the time stop included. The windows are fixed in
  UTC and an hour off in winter.

## 7. Plan

Done: (1) risk book with `RiskBudget`; (2) engine with `TradingDay`; (3) recovery of
an executor portfolio; (4) the opening range; (5) exit rules against the
backtest; (6) the afternoon of an executor; (7) main's book and its fallback
exits; (8) the ingest gate; (9) the earnings watcher; with proofs of all.

To come, the most important first:

1. **Main's variant of recovery**: paper state and snapshot as two memories,
   `restore_tickets`, `recover-held`, no purge. Abstract specification: a durable
   set of positions that it and `OrbRecovery` implement.
2. **Composition**: two portfolios and the scan loop over `OrbEngine` and
   `OrbWindow`, so that a lock by the window arms the engine's rows.
3. **Day gates** as pure operators against a reference definition.
4. **Portfolio books** and the promotion of earnings positions.

Theorems to come: those of the modules above; that `OrbRecovery` implements the
durable set of positions of 1, with the snapshot and the rows of the executor as
the two copies of it.
