----------------------------- MODULE MainBook -----------------------------
(***************************************************************************)
(* The paper book of the main portfolio: broker/orders.py opens, halves    *)
(* and closes positions, paper_state.py writes the book to one JSON file   *)
(* and reads it at boot, trade_genius.py runs the scan and the timed jobs  *)
(* in one scheduler thread and starts a second thread for the periodic     *)
(* save.  A handler is split where the other thread or a crash can come    *)
(* between two of its writes.                                              *)
(*                                                                         *)
(* Simplifications: every entry is for Lot shares at EntryPrice; whether   *)
(* there is a breakout, and the filters that only refuse an entry          *)
(* (cooldowns, cancel-first guard, ingest gate, sizing), are the choice to *)
(* enter or not; the engine is one row per ticker, armed or in position;   *)
(* lost and clean of the book, and hist, are history no code reads.        *)
(***************************************************************************)
EXTENDS Integers, FiniteSets, Totals

CONSTANTS
    Tickers,
    StartCash,      \* PAPER_STARTING_CAPITAL
    EntryPrice, Lot, Half,
    Prices,         \* what a quote may say later
    LossLimit,      \* effective_limit of _check_daily_loss_limit
    MaxDay, MaxEntries, MaxCrashes, MaxSaves    \* bounds of the runs

ASSUME MainConstants ==
    /\ IsFiniteSet(Tickers)
    /\ StartCash \in Nat /\ EntryPrice \in Nat /\ Lot \in Nat
    /\ Half \in 1..(Lot - 1) /\ Prices \subseteq Nat /\ LossLimit \in Int
    /\ MaxDay \in Nat \ {0} /\ {MaxEntries, MaxCrashes, MaxSaves} \subseteq Nat

VARIABLES
    day, clock,     \* the date and the part of the day
    up,             \* the process runs
    mem, disk,      \* the book in memory and in paper_state_main.json
    row, rowDisk,   \* the engine's rows, in memory and in its snapshot
    fired,          \* persistence.fired_set: <<day, job>>
    op,             \* where the scheduler thread is in a handler
    saver,          \* the periodic save thread
    hist            \* breach: day of the last breach; undated: a boot since then
                    \* read a file of another date; cut: forced closes a crash cut
                    \* short; gap: a position the rows do not know may exist; the
                    \* counters

vars == <<day, clock, up, mem, disk, row, rowDisk, fired, op, saver, hist>>

Sides == {"long", "short"}
Slots == Tickers \X Sides

Sign(s) == IF s = "long" THEN 1 ELSE -1

\* realized_pnl, and minus entry_cash_delta = close_cash_delta, of side.py
RealizedPnl(s, price, shares) == Sign(s) * (price - EntryPrice) * shares
CashDelta(s, price, shares) == Sign(s) * price * shares

FreshBook ==
    [cash |-> StartCash, held |-> [x \in Slots |-> 0], longPnl |-> 0, shortPnl |-> 0,
     realized |-> 0, halted |-> FALSE, entryDate |-> 0, lost |-> 0, clean |-> TRUE]

HeldSlots(book) == {x \in Slots : book.held[x] > 0}
Holds(book, t) == \E s \in Sides : book.held[<<t, s>>] > 0
Exposure(book) == EntryPrice * Total(book.held)
SignedCost(book) == EntryPrice * Total([x \in Slots |-> Sign(x[2]) * book.held[x]])
Equity(book) == book.cash + SignedCost(book)

\* Today's P&L of _check_daily_loss_limit when every quote says price: the
\* SELL rows of paper_trades, the COVER rows, and the open positions.
TodayPnl(book, price) ==
    book.longPnl + book.shortPnl
      + Total([x \in Slots |-> RealizedPnl(x[2], price, book.held[x])])

NoSlot == <<>>
Idle == [stage |-> "idle", why |-> "none", slot |-> NoSlot, price |-> EntryPrice,
         shares |-> 0, todo |-> {}]
NoSave == [busy |-> FALSE, cash |-> 0, dirty |-> FALSE]

\* A handler writes cash or positions while the save thread copies them.
Touched == [saver EXCEPT !.dirty = saver.busy \/ @]

NoRows == [t \in Tickers |-> "armed"]

Init ==
    /\ day = 1 /\ clock = "open" /\ up = TRUE
    /\ mem = FreshBook /\ disk = FreshBook
    /\ row = NoRows /\ rowDisk = NoRows
    /\ fired = {} /\ op = Idle /\ saver = NoSave
    /\ hist = [breach |-> 0, cut |-> {}, gap |-> FALSE, undated |-> FALSE,
               entries |-> 0, crashes |-> 0, saves |-> 0]

Ready == up /\ op.stage = "idle"
Scanning == Ready /\ clock # "open"

(***************************************************************************)
(* execute_breakout, called by _orb_long_entry or _orb_short_entry for a   *)
(* row the engine has just moved to in position.                           *)
(***************************************************************************)
\* The 95% exposure cap of both sides, and the cash of a long.
CanAfford(book, s) ==
    /\ ~(Equity(book) > 0
         /\ 100 * (Exposure(book) + EntryPrice * Lot) > 95 * Equity(book))
    /\ ~(s = "long" /\ EntryPrice * Lot > book.cash)

Inserted(book, x) ==
    [book EXCEPT !.held[x] = Lot,
                 !.lost = @ + Sign(x[2]) * EntryPrice * book.held[x]]

\* Mutant: the cutoff of 15:44:59 is not tested.
OpenAnyHour(x) ==
    /\ Scanning /\ row[x[1]] = "armed" /\ hist.entries < MaxEntries
    /\ ~mem.halted /\ CanAfford(mem, x[2])
    /\ \E price \in Prices : TodayPnl(mem, price) > LossLimit
    /\ mem' = Inserted(mem, x)
    /\ row' = [row EXCEPT ![x[1]] = "in"]
    /\ op' = [Idle EXCEPT !.stage = "debit", !.why = "entry", !.slot = x]
    /\ saver' = Touched
    /\ hist' = [hist EXCEPT !.entries = @ + 1]
    /\ UNCHANGED <<day, clock, up, disk, rowDisk, fired>>

\* Mutant: the row is rolled back although the position was written.
OpenRolledBack(x) ==
    /\ Scanning /\ clock = "trade" /\ row[x[1]] = "armed" /\ hist.entries < MaxEntries
    /\ ~mem.halted /\ CanAfford(mem, x[2])
    /\ \E price \in Prices : TodayPnl(mem, price) > LossLimit
    /\ mem' = Inserted(mem, x)
    /\ op' = [Idle EXCEPT !.stage = "debit", !.why = "entry", !.slot = x]
    /\ saver' = Touched
    /\ hist' = [hist EXCEPT !.entries = @ + 1]
    /\ UNCHANGED <<day, clock, up, disk, row, rowDisk, fired>>

\* The gates let the entry through and the position dict is written, over
\* one that may be there.
Open(x) ==
    /\ Scanning /\ clock = "trade" /\ row[x[1]] = "armed" /\ hist.entries < MaxEntries
    /\ ~mem.halted /\ CanAfford(mem, x[2])
    /\ \E price \in Prices : TodayPnl(mem, price) > LossLimit
    /\ mem' = Inserted(mem, x)
    /\ row' = [row EXCEPT ![x[1]] = "in"]
    /\ op' = [Idle EXCEPT !.stage = "debit", !.why = "entry", !.slot = x]
    /\ saver' = Touched
    /\ hist' = [hist EXCEPT !.entries = @ + 1]
    /\ UNCHANGED <<day, clock, up, disk, rowDisk, fired>>

\* paper_cash changes after the position is in the dict.
Debit ==
    /\ op.stage = "debit"
    /\ mem' = [mem EXCEPT !.cash = @ - CashDelta(op.slot[2], EntryPrice, Lot)]
    /\ op' = [op EXCEPT !.stage = "save"]
    /\ saver' = Touched
    /\ UNCHANGED <<day, clock, up, disk, row, rowDisk, fired, hist>>

\* save_paper_state, under the lock; then the entry dumps the engine state.
SaveEntry ==
    /\ op.stage = "save" /\ op.why = "entry" /\ ~saver.busy
    /\ disk' = mem
    /\ op' = [op EXCEPT !.stage = "persist"]
    /\ UNCHANGED <<day, clock, up, mem, row, rowDisk, fired, saver, hist>>

PersistEntry ==
    /\ op.stage = "persist"
    /\ rowDisk' = row
    /\ op' = Idle
    /\ UNCHANGED <<day, clock, up, mem, disk, row, fired, saver, hist>>

(***************************************************************************)
(* _check_daily_loss_limit finds the day's P&L at the limit: halt, close   *)
(* what is open, and the entry it was asked for is refused and rolled back.*)
(***************************************************************************)
\* Mutant: only the longs are force-closed.
BreachLongs(price) ==
    /\ Scanning /\ (\E t \in Tickers : row[t] = "armed")
    /\ ~mem.halted /\ TodayPnl(mem, price) <= LossLimit
    /\ mem' = [mem EXCEPT !.halted = TRUE]
    /\ hist' = [hist EXCEPT !.breach = day, !.undated = FALSE]
    /\ LET todo == {x \in HeldSlots(mem) : x[2] = "long"} IN
         op' = IF todo = {} THEN Idle
               ELSE [Idle EXCEPT !.stage = "next", !.why = "halt", !.price = price, !.todo = todo]
    /\ UNCHANGED <<day, clock, up, disk, row, rowDisk, fired, saver>>

Breach(price) ==
    /\ Scanning /\ (\E t \in Tickers : row[t] = "armed")
    /\ ~mem.halted /\ TodayPnl(mem, price) <= LossLimit
    /\ mem' = [mem EXCEPT !.halted = TRUE]
    /\ hist' = [hist EXCEPT !.breach = day, !.undated = FALSE]
    /\ op' = IF HeldSlots(mem) = {} THEN Idle
             ELSE [Idle EXCEPT !.stage = "next", !.why = "halt", !.price = price,
                               !.todo = HeldSlots(mem)]
    /\ UNCHANGED <<day, clock, up, disk, row, rowDisk, fired, saver>>

(***************************************************************************)
(* close_breakout: pop, then cash and rows, then save.                     *)
(***************************************************************************)
Popped(x, price, rest) ==
    /\ mem' = [mem EXCEPT !.held[x] = 0]
    /\ op' = [op EXCEPT !.stage = "credit", !.slot = x, !.price = price,
                        !.shares = mem.held[x], !.todo = rest]
    /\ saver' = Touched

\* An exit in manage_positions: of the engine, which moves the row, or of the
\* legacy sentinel for a position the engine does not find, which does not.
Exit(x, price) ==
    /\ Scanning /\ mem.held[x] > 0
    /\ mem' = [mem EXCEPT !.held[x] = 0]
    /\ op' = [Idle EXCEPT !.stage = "credit", !.why = "exit", !.slot = x, !.price = price,
                          !.shares = mem.held[x]]
    /\ saver' = Touched
    /\ row' \in {row, [row EXCEPT ![x[1]] = "armed"]}
    /\ UNCHANGED <<day, clock, up, disk, rowDisk, fired, hist>>

\* The next position of a forced close.
CloseNext ==
    /\ op.stage = "next"
    /\ \E x \in op.todo : Popped(x, op.price, op.todo \ {x})
    /\ UNCHANGED <<day, clock, up, disk, row, rowDisk, fired, hist>>

\* Mutant: the cover of a short is booked as the sale of a long.
CreditedAsLong(book, x, price, shares) ==
    [book EXCEPT !.cash = @ + CashDelta("long", price, shares),
                 !.realized = @ + RealizedPnl(x[2], price, shares),
                 !.longPnl = @ + (IF x[2] = "long" THEN RealizedPnl("long", price, shares) ELSE 0),
                 !.shortPnl = @ + (IF x[2] = "short" THEN RealizedPnl("short", price, shares) ELSE 0)]

\* Cash, the history row, and the SELL or COVER row the loss limit adds up.
Credited(book, x, price, shares) ==
    [book EXCEPT !.cash = @ + CashDelta(x[2], price, shares),
                 !.realized = @ + RealizedPnl(x[2], price, shares),
                 !.longPnl = @ + (IF x[2] = "long" THEN RealizedPnl("long", price, shares) ELSE 0),
                 !.shortPnl = @ + (IF x[2] = "short" THEN RealizedPnl("short", price, shares) ELSE 0)]

Credit ==
    /\ op.stage = "credit"
    /\ mem' = Credited(mem, op.slot, op.price, op.shares)
    /\ op' = [op EXCEPT !.stage = "save"]
    /\ saver' = Touched
    /\ UNCHANGED <<day, clock, up, disk, row, rowDisk, fired, hist>>

SaveClose ==
    /\ op.stage = "save" /\ op.why # "entry" /\ ~saver.busy
    /\ disk' = mem
    /\ op' = IF op.todo = {} THEN Idle ELSE [op EXCEPT !.stage = "next"]
    /\ UNCHANGED <<day, clock, up, mem, row, rowDisk, fired, saver, hist>>

(***************************************************************************)
(* partial_close_breakout at 1R of profit: cash, then shares and a PARTIAL *)
(* row the loss limit does not count; it does not save.                    *)
(***************************************************************************)
Partial(x, price) ==
    /\ Scanning /\ mem.held[x] > Half /\ RealizedPnl(x[2], price, Half) > 0
    /\ mem' = [mem EXCEPT !.cash = @ + CashDelta(x[2], price, Half)]
    /\ op' = [Idle EXCEPT !.stage = "reduce", !.why = "partial", !.slot = x, !.price = price]
    /\ saver' = Touched
    /\ UNCHANGED <<day, clock, up, disk, row, rowDisk, fired, hist>>

Reduce ==
    /\ op.stage = "reduce"
    /\ mem' = [mem EXCEPT !.held[op.slot] = @ - Half,
                          !.realized = @ + RealizedPnl(op.slot[2], op.price, Half)]
    /\ op' = Idle
    /\ saver' = Touched
    /\ UNCHANGED <<day, clock, up, disk, row, rowDisk, fired, hist>>

(***************************************************************************)
(* The scheduler: a job whose minute it sees and that is not marked is     *)
(* marked, then run.  A long cycle or a restart can miss the minute.       *)
(***************************************************************************)
\* reset_daily_state at 09:30
ResetDaily ==
    /\ Ready /\ clock = "open" /\ <<day, "reset">> \notin fired
    /\ fired' = fired \cup {<<day, "reset">>}
    /\ mem' = [mem EXCEPT !.halted = FALSE, !.entryDate = day,
                          !.longPnl = IF mem.entryDate # day THEN 0 ELSE @]
    /\ UNCHANGED <<day, clock, up, disk, row, rowDisk, op, saver, hist>>

\* eod_close at 15:57; it saves at its end, also when it closed nothing.
Eod(price) ==
    /\ Ready /\ clock = "flush" /\ <<day, "eod">> \notin fired
    /\ fired' = fired \cup {<<day, "eod">>}
    /\ op' = [Idle EXCEPT !.stage = IF HeldSlots(mem) = {} THEN "save" ELSE "next",
                          !.why = "eod", !.price = price, !.todo = HeldSlots(mem)]
    /\ UNCHANGED <<day, clock, up, mem, disk, row, rowDisk, saver, hist>>

\* The phantom sweep of a cycle: a row in position without a position.
Sweep ==
    /\ Scanning
    /\ \E t \in Tickers : row[t] = "in" /\ ~Holds(mem, t)
    /\ row' = [t \in Tickers |-> IF Holds(mem, t) THEN row[t] ELSE "armed"]
    /\ UNCHANGED <<day, clock, up, mem, disk, rowDisk, fired, op, saver, hist>>

\* The dump of the engine state at the end of a cycle.
Dump ==
    /\ Scanning /\ rowDisk # row
    /\ rowDisk' = row
    /\ UNCHANGED <<day, clock, up, mem, disk, row, fired, op, saver, hist>>

(***************************************************************************)
(* The periodic save: a thread of its own, which takes the save lock but   *)
(* no lock of the handlers.  paper_cash is copied before the positions.    *)
(***************************************************************************)
StartSave ==
    /\ up /\ ~saver.busy /\ disk # mem
    /\ hist.saves < MaxSaves /\ hist.crashes < MaxCrashes  \* bounds: some boot may read it
    /\ saver' = [busy |-> TRUE, cash |-> mem.cash,
                 dirty |-> op.stage \in {"debit", "credit", "reduce"}]
    /\ hist' = [hist EXCEPT !.saves = @ + 1]
    /\ UNCHANGED <<day, clock, up, mem, disk, row, rowDisk, fired, op>>

EndSave ==
    /\ up /\ saver.busy
    /\ disk' = [mem EXCEPT !.cash = saver.cash, !.clean = @ /\ ~saver.dirty]
    /\ saver' = NoSave
    /\ UNCHANGED <<day, clock, up, mem, row, rowDisk, fired, op, hist>>

(***************************************************************************)
(* A crash, the boot, and time.                                            *)
(***************************************************************************)
Crash ==
    /\ up /\ hist.crashes < MaxCrashes
    /\ up' = FALSE /\ op' = Idle /\ saver' = NoSave /\ mem' = FreshBook /\ row' = NoRows
    /\ hist' = [hist EXCEPT !.crashes = @ + 1,
                            !.cut = IF op.why \in {"halt", "eod"} THEN @ \cup {op.why} ELSE @,
                            !.gap = @ \/ op.why = "entry"]
    /\ UNCHANGED <<day, clock, disk, rowDisk, fired>>

\* Mutant: the date is compared before it is read from the file.
LoadedUndated(book) ==
    [book EXCEPT !.longPnl = 0, !.halted = FALSE]

\* load_paper_state: on another date it clears the paper_trades and the
\* halt, and leaves the date.
Loaded(book) ==
    [book EXCEPT !.longPnl = IF book.entryDate # day THEN 0 ELSE @,
                 !.halted = @ /\ book.entryDate = day]

\* The tickets of the file are dropped, the engine is not there yet; the
\* rows come from the snapshot, and a position found without a ticket gets
\* one but no row.
Boot ==
    /\ ~up /\ up' = TRUE
    /\ mem' = Loaded(disk)
    /\ row' = rowDisk
    /\ hist' = [hist EXCEPT !.undated = @ \/ disk.entryDate # day]
    /\ UNCHANGED <<day, clock, disk, rowDisk, fired, op, saver>>

\* open is the minute 09:30, trade is until the cutoff of 15:44:59, flush is
\* the rest of the day with the minute 15:57.
Later == [open |-> "trade", trade |-> "flush"]

Tick ==
    /\ clock # "flush" /\ (up => op.stage = "idle")
    /\ clock' = Later[clock]
    /\ UNCHANGED <<day, up, mem, disk, row, rowDisk, fired, op, saver, hist>>

\* A new date: the rows start over, yesterday's trade rows no longer count.
NewDay ==
    /\ clock = "flush" /\ day < MaxDay /\ (up => op.stage = "idle")
    /\ day' = day + 1 /\ clock' = "open"
    /\ mem' = [mem EXCEPT !.longPnl = 0, !.shortPnl = 0]
    /\ disk' = [disk EXCEPT !.longPnl = 0, !.shortPnl = 0]
    /\ row' = NoRows /\ rowDisk' = NoRows
    /\ hist' = [hist EXCEPT !.cut = IF up /\ HeldSlots(mem) = {} THEN {} ELSE @,
                            !.gap = @ \/ HeldSlots(mem) # {} \/ HeldSlots(disk) # {}]
    /\ UNCHANGED <<up, fired, op, saver>>

Next ==
    \/ \E x \in Slots : Open(x) \/ (\E price \in Prices : Exit(x, price) \/ Partial(x, price))
    \/ \E price \in Prices : Breach(price) \/ Eod(price)
    \/ Debit \/ SaveEntry \/ PersistEntry \/ CloseNext \/ Credit \/ SaveClose \/ Reduce
    \/ ResetDaily \/ Sweep \/ Dump \/ StartSave \/ EndSave
    \/ Crash \/ Boot \/ Tick \/ NewDay

Spec == Init /\ [][Next]_vars

(***************************************************************************)
(* Properties                                                              *)
(***************************************************************************)
Books == [cash : Int, held : [Slots -> 0..Lot], longPnl : Int, shortPnl : Int,
          realized : Int, halted : BOOLEAN, entryDate : 0..MaxDay, lost : Int, clean : BOOLEAN]

Ops == [stage : {"idle", "debit", "save", "persist", "next", "credit", "reduce"},
        why : {"none", "entry", "exit", "halt", "eod", "partial"},
        slot : Slots \cup {NoSlot}, price : Int, shares : 0..Lot, todo : SUBSET Slots]

\* Types of the variables.
TypeOK ==
    /\ day \in 1..MaxDay /\ clock \in {"open", "trade", "flush"} /\ up \in BOOLEAN
    /\ mem \in Books /\ disk \in Books
    /\ row \in [Tickers -> {"armed", "in"}] /\ rowDisk \in [Tickers -> {"armed", "in"}]
    /\ fired \subseteq (1..MaxDay) \X {"reset", "eod"}
    /\ op \in Ops
    /\ saver \in [busy : BOOLEAN, cash : Int, dirty : BOOLEAN]
    /\ hist \in [breach : 0..MaxDay, cut : SUBSET {"halt", "eod"}, gap : BOOLEAN,
                 undated : BOOLEAN, entries : Nat, crashes : Nat, saves : Nat]

\* Between two handlers the book balances: cash and the cost of what is open
\* is the start capital and what was realized, a position an entry overwrote
\* aside, whatever was closed in parts, force-closed or reloaded after a crash.
\* Only a file written while a handler was between two writes is exempt.
BookBalances ==
    op.stage = "idle" /\ mem.clean =>
        mem.cash + SignedCost(mem) + mem.lost = StartCash + mem.realized

\* After a daily breach nothing is open, unless the forced close was cut short.
HaltedIsFlat ==
    mem.halted /\ Ready /\ "halt" \notin hist.cut => HeldSlots(mem) = {}

\* Once eod_close ran today nothing is open and nothing is opened again,
\* unless the process died in it.
FlatAfterEod ==
    Ready /\ <<day, "eod">> \in fired /\ "eod" \notin hist.cut => HeldSlots(mem) = {}

\* An entry writes over an open position only after the process died in an
\* entry or a position stayed open overnight.
OverwriteNeedsGap == mem.lost # 0 => hist.gap

\* A halt holds for its day, saved or not and over any number of restarts:
\* no position is opened after the breach unless a crash cut the forced close
\* short or a boot read a file that no handler had saved since the reset.
HaltHolds ==
    [][ \A x \in Slots : mem'.held[x] > mem.held[x] /\ up /\ hist.breach = day
          => hist.undated \/ "halt" \in hist.cut ]_vars
=============================================================================
