---------------------------- MODULE EodExecutor ----------------------------
(***************************************************************************)
(* The last hour of one executor portfolio (val or gene) and its broker    *)
(* account: engine/scan.py enters and leaves the legs of the end-of-day    *)
(* reversal and closes what the ORB engine still holds, executors/base.py  *)
(* turns each decision into a broker order and a row, the 15:57 job of     *)
(* trade_genius.py sends EOD_CLOSE_ALL, which every executor handles in a  *)
(* thread of its own, and the executor's own bot closes and halts.         *)
(*                                                                         *)
(* A position is a signed number of lots.  A row is executor.positions and *)
(* its copy in state.db (they are written together); orb is the ORB        *)
(* adapter's map.  Market orders fill when the broker accepts them.        *)
(*                                                                         *)
(* Simplifications: no ORB entry (they end at 11:00); the cooldown and the *)
(* 95% clamp, which only shrink or refuse an entry, are the outcome        *)
(* "refused"; prices, and how old the bars of the exit pass are, are the   *)
(* choice to exit, halve or keep.                                          *)
(***************************************************************************)
EXTENDS Integers, FiniteSets

CONSTANTS
    Tickers,
    Lot,                            \* shares of a leg
    Morning,                        \* what the account may hold before 15:00
    EntryEnd,                       \* entry_cutoff_et_minutes, 15:51
    SweepAt,                        \* the eod_close job, 15:57
    EodExitAt,                      \* exit_et_minutes, 15:58
    LastMinute,
    MaxScans,       \* bounds: scan cycles; and lost answers, crashes and
    MaxTroubles     \* commands together

ASSUME ClockOrder ==
    /\ {EntryEnd, SweepAt, EodExitAt, LastMinute} \subseteq Nat
    /\ 0 < EntryEnd /\ EntryEnd < SweepAt /\ SweepAt <= EodExitAt /\ EodExitAt <= LastMinute
ASSUME LotAssumption == Lot \in Nat \ {0, 1}
ASSUME BoundsAssumption == Morning \subseteq Int /\ {MaxScans, MaxTroubles} \subseteq Nat

VARIABLES
    minute, up,
    pos,        \* the account: ticker -> signed lots
    ids,        \* client order ids used in this minute: <<ticker, direction>>
    row, orb,   \* ticker -> signed lots, 0 for no entry
    eod,        \* EodReversalEngine: open legs and entry_attempted
    scan,       \* the scheduler thread inside scan_loop
    sweep,      \* the thread that handles EOD_CLOSE_ALL
    bot,        \* the executor's Telegram thread
    hist        \* minutes in which an entry of a leg was filled, and whether
                \* one was filled twice in a minute (double); boots; tickers
                \* whose exposure the process may not know (blind); tickers
                \* of a /close or partial that reached the account after
                \* the sweep closed all (late); counters

vars == <<minute, up, pos, ids, row, orb, eod, scan, sweep, bot, hist>>

Sign(n) == IF n > 0 THEN 1 ELSE IF n < 0 THEN -1 ELSE 0
Abs(n) == IF n < 0 THEN -n ELSE n
Least(a, b) == IF a < b THEN a ELSE b
Legs == Tickers \X {-1, 1}
Flat == [t \in Tickers |-> 0]
Open(book) == {t \in Tickers : book[t] # 0}

NoOrder == [kind |-> "none", t |-> "none", side |-> 0, qty |-> 0, dir |-> "none", sent |-> FALSE]
NoScan == [stage |-> "idle", now |-> 0, todo |-> {}, order |-> NoOrder]
NoEod == [open |-> Flat, attempted |-> FALSE]
NoBot == [cmd |-> "none", order |-> NoOrder]

\* The direction part of the id: V10LONG and V10SHORT for entries and for
\* closes that go through fire_long or fire_short, EXIT and PARTIAL else.
Direction(kind, side) ==
    IF kind \in {"entry", "exit"} THEN <<"V10", side>> ELSE <<kind, -side>>
Order(kind, t, side, qty) ==
    [kind |-> kind, t |-> t, side |-> side, qty |-> qty, dir |-> Direction(kind, side), sent |-> FALSE]
CloseOrder(kind, t, held) == Order(kind, t, -Sign(held), Abs(held))

Init ==
    /\ minute = 1 /\ up = TRUE
    /\ pos \in [Tickers -> Morning] /\ row = pos /\ orb = pos
    /\ ids = {} /\ eod = NoEod /\ scan = NoScan /\ sweep = "no" /\ bot = NoBot
    /\ hist = [fills |-> [leg \in Legs |-> {}], double |-> FALSE, boots |-> 0, blind |-> {}, late |-> {},
             troubles |-> 0, scans |-> 0]

(***************************************************************************)
(* The broker.  An order with an id it has seen changes nothing and is     *)
(* looked up instead; position_intent caps a close at what is held and     *)
(* refuses one of nothing; any other order trades its full size.           *)
(***************************************************************************)
\* Mutant: a close goes out without position_intent.
CloseOnlyNever(o) == o.kind = "none"
CloseOnly(o) == o.kind = "exit"

\* Mutant: the id has seconds, a repeat is a new order.
SeenNever(o) == o.kind = "none"
Seen(o) == <<o.t, o.dir>> \in ids
Traded(o) ==
    IF CloseOnly(o) THEN Least(o.qty, Abs(pos[o.t])) ELSE o.qty
Closes(o) == pos[o.t] * o.side < 0

Accept(o) ==
    /\ ~Seen(o)
    /\ CloseOnly(o) => Closes(o)
    /\ pos' = [pos EXCEPT ![o.t] = @ + o.side * Traded(o)]
    /\ ids' = ids \cup {<<o.t, o.dir>>}

\* _submit_order_idempotent returns: the order is in, now or since before.
Answered(o) ==
    \/ Accept(o)
    \/ Seen(o) /\ UNCHANGED <<pos, ids>>

SweepClosed == sweep \in {"closed", "wiped", "done"}
Late(o) == IF SweepClosed THEN {o.t} ELSE {}

\* History: an entry, or a partial, that reaches the account; nothing writes
\* a row for a partial that comes after the reconciliation of the sweep.
Filled(o) ==
    CASE o.kind = "entry" /\ ~Seen(o) ->
            [hist EXCEPT !.fills[<<o.t, o.side>>] = @ \cup {minute},
                         !.double = @ \/ minute \in hist.fills[<<o.t, o.side>>]]
      [] o.kind = "PARTIAL" /\ ~Seen(o) ->
            [hist EXCEPT !.late = @ \cup Late(o),
                         !.blind = IF sweep = "done" THEN @ \cup {o.t} ELSE @]
      [] OTHER -> hist

\* It raises: refused, or accepted and the answer lost.
Raised(o) ==
    \/ UNCHANGED <<pos, ids>> /\ hist' = hist
    \/ /\ hist.troubles < MaxTroubles
       /\ Accept(o)
       /\ hist' = [Filled(o) EXCEPT !.troubles = @ + 1, !.blind = @ \cup {o.t}]

(***************************************************************************)
(* scan_loop: engine sweep, exit pass, end-of-day pass.                    *)
(***************************************************************************)
AtStage(s) == up /\ scan.stage = s /\ scan.order = NoOrder

\* purge_phantom_engine_positions, then inject_missing_engine_positions.
BeginScan ==
    /\ AtStage("idle") /\ hist.scans < MaxScans
    /\ orb' = [t \in Tickers |-> IF row[t] = 0 THEN 0 ELSE IF orb[t] = 0 THEN row[t] ELSE orb[t]]
    /\ scan' = [NoScan EXCEPT !.stage = "exits", !.now = minute, !.todo = Open(orb')]
    /\ hist' = [hist EXCEPT !.scans = @ + 1]
    /\ UNCHANGED <<minute, up, pos, ids, row, eod, sweep, bot>>

\* Nothing to do, or the bars are missing or older than the cutoff.
ExitHold(t) ==
    /\ AtStage("exits") /\ t \in scan.todo
    /\ scan' = [scan EXCEPT !.todo = @ \ {t}]
    /\ UNCHANGED <<minute, up, pos, ids, row, orb, eod, sweep, bot, hist>>

ExitFull(t) ==
    /\ AtStage("exits") /\ t \in scan.todo
    /\ orb' = [orb EXCEPT ![t] = 0]
    /\ scan' = [scan EXCEPT !.todo = @ \ {t}, !.order = CloseOrder("exit", t, orb[t])]
    /\ UNCHANGED <<minute, up, pos, ids, row, eod, sweep, bot, hist>>

\* evaluate asks for the partial before the cutoff, so it may come at any
\* minute.  The engine books one lot; _partial_close_position_idempotent takes
\* the side from the row and refuses to close all of it.
ExitPartial(t) ==
    /\ AtStage("exits") /\ t \in scan.todo /\ Abs(orb[t]) = Lot
    /\ orb' = [orb EXCEPT ![t] = @ - Sign(@)]
    /\ scan' = [scan EXCEPT !.todo = @ \ {t},
                            !.order = IF Abs(row[t]) > 1 THEN Order("PARTIAL", t, -Sign(row[t]), 1)
                                                         ELSE NoOrder]
    /\ UNCHANGED <<minute, up, pos, ids, row, eod, sweep, bot, hist>>

\* is_entry_window and is_exit_window, on the minute the cycle began.
EntryWindow(m) == m <= EntryEnd
ExitWindow(m) == m >= EodExitAt

PassOrEnd(s, todo) == IF todo = {} THEN NoScan ELSE [scan EXCEPT !.stage = s, !.todo = todo]

\* select_signals never puts one ticker on both sides.
Picks == {legs \in SUBSET Legs :
            \A a, b \in legs : a # b => a[1] # b[1] /\ a[2] # b[2]}

\* No signal returns before the stop check.
NoSignal ==
    /\ AtStage("exits") /\ scan.todo = {} /\ EntryWindow(scan.now)
    /\ scan' = NoScan
    /\ UNCHANGED <<minute, up, pos, ids, row, orb, eod, sweep, bot, hist>>

BeginEntries ==
    /\ AtStage("exits") /\ scan.todo = {} /\ EntryWindow(scan.now) /\ ~eod.attempted
    /\ \E legs \in Picks \ {{}} : scan' = [scan EXCEPT !.stage = "entries", !.todo = legs]
    /\ UNCHANGED <<minute, up, pos, ids, row, orb, eod, sweep, bot, hist>>

BeginEodExits ==
    /\ AtStage("exits") /\ scan.todo = {}
    /\ EntryWindow(scan.now) => eod.attempted
    /\ scan' = PassOrEnd(IF ExitWindow(scan.now) THEN "close" ELSE "stop", Open(eod.open))
    /\ UNCHANGED <<minute, up, pos, ids, row, orb, eod, sweep, bot, hist>>

\* admit returns a leg that is already open; the order goes out all the same.
EnterLeg(leg) ==
    /\ AtStage("entries") /\ leg \in scan.todo
    /\ eod' = [eod EXCEPT !.open[leg[1]] = IF @ = 0 THEN leg[2] * Lot ELSE @]
    /\ scan' = [scan EXCEPT !.todo = @ \ {leg}, !.order = Order("entry", leg[1], leg[2], Lot)]
    /\ UNCHANGED <<minute, up, pos, ids, row, orb, sweep, bot, hist>>

EndEntries ==
    /\ AtStage("entries") /\ scan.todo = {}
    /\ eod' = [eod EXCEPT !.attempted = TRUE]
    /\ scan' = PassOrEnd("stop", Open(eod.open))
    /\ UNCHANGED <<minute, up, pos, ids, row, orb, sweep, bot, hist>>

\* The engine books the exit before the order goes out.
CloseLeg(t) ==
    /\ AtStage("stop") \/ AtStage("close")
    /\ t \in scan.todo
    /\ eod' = [eod EXCEPT !.open[t] = 0]
    /\ scan' = [scan EXCEPT !.todo = @ \ {t}, !.order = CloseOrder("exit", t, eod.open[t])]
    /\ UNCHANGED <<minute, up, pos, ids, row, orb, sweep, bot, hist>>

\* The stop is not hit, or there are no bars.
KeepLeg(t) ==
    /\ AtStage("stop") \/ AtStage("close")
    /\ t \in scan.todo
    /\ scan' = PassOrEnd(scan.stage, scan.todo \ {t})
    /\ UNCHANGED <<minute, up, pos, ids, row, orb, eod, sweep, bot, hist>>

EndScan ==
    /\ AtStage("stop") \/ AtStage("close")
    /\ scan.todo = {}
    /\ scan' = NoScan
    /\ UNCHANGED <<minute, up, pos, ids, row, orb, eod, sweep, bot, hist>>

(***************************************************************************)
(* The order of the scan thread: submit, then write the row.               *)
(***************************************************************************)
Submit ==
    /\ up /\ scan.order # NoOrder /\ ~scan.order.sent
    /\ Answered(scan.order)
    /\ scan' = [scan EXCEPT !.order.sent = TRUE]
    /\ hist' = Filled(scan.order)
    /\ UNCHANGED <<minute, up, row, orb, eod, sweep, bot>>

SubmitFails ==
    /\ up /\ scan.order # NoOrder /\ ~scan.order.sent
    /\ Raised(scan.order)
    /\ scan' = [scan EXCEPT !.order = NoOrder]
    /\ UNCHANGED <<minute, up, row, orb, eod, sweep, bot>>

\* 40410000 on a partial: the row shrinks all the same.
PartialGone ==
    /\ up /\ scan.order.kind = "PARTIAL" /\ ~scan.order.sent /\ pos[scan.order.t] = 0
    /\ scan' = [scan EXCEPT !.order.sent = TRUE]
    /\ UNCHANGED <<minute, up, pos, ids, row, orb, eod, sweep, bot, hist>>

\* _record_position writes the side of the order, a close's too.  A partial
\* shrinks the row it was made from: one grafted since has the other side, and
\* one removed since stays away.
Recorded(o, r) ==
    IF o.kind # "PARTIAL" THEN o.side * o.qty
    ELSE IF Sign(r) = -o.side /\ Abs(r) > 1 THEN r - Sign(r) ELSE r

Record ==
    /\ up /\ scan.order.sent
    /\ row' = [row EXCEPT ![scan.order.t] = Recorded(scan.order, @)]
    /\ scan' = [scan EXCEPT !.order = NoOrder]
    /\ UNCHANGED <<minute, up, pos, ids, orb, eod, sweep, bot, hist>>

(***************************************************************************)
(* eod_close runs in the scheduler thread and starts the sweep thread.     *)
(***************************************************************************)
EmitSweep ==
    /\ AtStage("idle") /\ minute = SweepAt /\ sweep = "no"
    /\ sweep' = "due"
    /\ UNCHANGED <<minute, up, pos, ids, row, orb, eod, scan, bot, hist>>

SweepCloseAll ==
    /\ up /\ sweep = "due"
    /\ sweep' = "closed"
    /\ pos' = Flat
    /\ UNCHANGED <<minute, up, ids, row, orb, eod, scan, bot, hist>>

\* The call raises: no row is touched, and nothing tries again.
SweepFails ==
    /\ up /\ sweep = "due"
    /\ sweep' = "failed"
    /\ UNCHANGED <<minute, up, pos, ids, row, orb, eod, scan, bot, hist>>

SweepWipe ==
    /\ up /\ sweep = "closed"
    /\ sweep' = "wiped"
    /\ row' = Flat
    /\ UNCHANGED <<minute, up, pos, ids, orb, eod, scan, bot, hist>>

\* Mutant: it drops stale rows and grafts nothing.
ReconciledDrop == [t \in Tickers |-> IF pos[t] = 0 THEN 0 ELSE row[t]]

\* _reconcile_broker_positions compares tickers only: a row of a ticker the
\* account holds is kept, whatever its side.
Reconciled == [t \in Tickers |-> IF pos[t] = 0 THEN 0 ELSE IF row[t] = 0 THEN pos[t] ELSE row[t]]

SweepReconcile ==
    /\ up /\ sweep = "wiped"
    /\ sweep' = "done"
    /\ row' = Reconciled
    /\ hist' = [hist EXCEPT !.blind = @ \cap {scan.order.t, bot.order.t}]
    /\ UNCHANGED <<minute, up, pos, ids, orb, eod, scan, bot>>

(***************************************************************************)
(* /close and /halt of the executor's bot.                                 *)
(***************************************************************************)
CmdClose(t) ==
    /\ up /\ bot = NoBot /\ hist.troubles < MaxTroubles /\ row[t] # 0
    /\ bot' = [cmd |-> "close", order |-> CloseOrder("EXIT", t, row[t])]
    /\ hist' = [hist EXCEPT !.troubles = @ + 1, !.blind = @ \cup {t}]
    /\ UNCHANGED <<minute, up, pos, ids, row, orb, eod, scan, sweep>>

CmdCloseSubmit ==
    /\ up /\ bot.cmd = "close" /\ ~bot.order.sent
    /\ \/ Answered(bot.order)
       \/ pos[bot.order.t] = 0 /\ UNCHANGED <<pos, ids>>       \* 40410000
    /\ bot' = [bot EXCEPT !.order.sent = TRUE]
    /\ hist' = [hist EXCEPT !.late = @ \cup Late(bot.order)]
    /\ UNCHANGED <<minute, up, row, orb, eod, scan, sweep>>

CmdCloseFails ==
    /\ up /\ bot.cmd = "close" /\ ~bot.order.sent
    /\ UNCHANGED <<pos, ids, hist>>
    /\ bot' = NoBot
    /\ UNCHANGED <<minute, up, row, orb, eod, scan, sweep>>

CmdCloseRemove ==
    /\ up /\ bot.cmd = "close" /\ bot.order.sent
    /\ row' = [row EXCEPT ![bot.order.t] = 0]
    /\ bot' = NoBot
    /\ UNCHANGED <<minute, up, pos, ids, orb, eod, scan, sweep, hist>>

CmdHalt ==
    /\ up /\ bot = NoBot /\ hist.troubles < MaxTroubles
    /\ pos' = Flat
    /\ bot' = [NoBot EXCEPT !.cmd = "halt"]
    /\ hist' = [hist EXCEPT !.troubles = @ + 1]
    /\ UNCHANGED <<minute, up, ids, row, orb, eod, scan, sweep>>

\* A fill between the two steps loses its row, and an order under way finds
\* none to write to.
CmdHaltWipe ==
    /\ up /\ bot.cmd = "halt"
    /\ row' = Flat
    /\ bot' = NoBot
    /\ hist' = [hist EXCEPT !.blind = @ \cup Open(pos) \cup ({scan.order.t} \cap Tickers)]
    /\ UNCHANGED <<minute, up, pos, ids, orb, eod, scan, sweep>>

(***************************************************************************)
(* Time, crash and boot.                                                   *)
(***************************************************************************)
\* The minute is part of the order id.
NextMinute ==
    /\ minute < LastMinute
    /\ minute' = minute + 1 /\ ids' = {}
    /\ UNCHANGED <<up, pos, row, orb, eod, scan, sweep, bot, hist>>

Crash ==
    /\ up /\ hist.troubles < MaxTroubles
    /\ up' = FALSE
    /\ eod' = NoEod /\ scan' = NoScan /\ bot' = NoBot
    /\ sweep' = IF sweep \in {"due", "closed", "wiped"} THEN "cut" ELSE sweep
    /\ hist' = [hist EXCEPT !.troubles = @ + 1, !.blind = Tickers]
    /\ UNCHANGED <<minute, pos, ids, row, orb>>

\* The adapter's map comes back with the snapshot or not; a failed call to
\* the broker leaves the rows as they were loaded.
Boot ==
    /\ ~up
    /\ up' = TRUE
    /\ orb' \in {orb, Flat}
    /\ \/ /\ row' = Reconciled
          /\ hist' = [hist EXCEPT !.boots = @ + 1, !.blind = {}]
       \/ /\ row' = row
          /\ hist' = [hist EXCEPT !.boots = @ + 1]
    /\ UNCHANGED <<minute, pos, ids, eod, scan, sweep, bot>>

ScanNext ==
    \/ BeginScan \/ NoSignal \/ BeginEntries \/ BeginEodExits \/ EndEntries \/ EndScan
    \/ \E t \in Tickers : ExitHold(t) \/ ExitFull(t) \/ ExitPartial(t) \/ CloseLeg(t) \/ KeepLeg(t)
    \/ \E leg \in Legs : EnterLeg(leg)
    \/ Submit \/ SubmitFails \/ PartialGone \/ Record

SweepNext == EmitSweep \/ SweepCloseAll \/ SweepFails \/ SweepWipe \/ SweepReconcile

BotNext ==
    \/ \E t \in Tickers : CmdClose(t)
    \/ CmdCloseSubmit \/ CmdCloseFails \/ CmdCloseRemove \/ CmdHalt \/ CmdHaltWipe

Next == ScanNext \/ SweepNext \/ BotNext \/ NextMinute \/ Crash \/ Boot

Spec == Init /\ [][Next]_vars

-----------------------------------------------------------------------------
(***************************************************************************)
(* Properties.                                                             *)
(***************************************************************************)
OrderType ==
    [kind : {"none", "entry", "exit", "PARTIAL", "EXIT"}, t : Tickers \cup {"none"}, side : {-1, 0, 1},
     qty : Int, dir : {"none"} \cup ({"V10", "PARTIAL", "EXIT"} \X {-1, 0, 1}), sent : BOOLEAN]

\* Every variable stays in its type; the end-of-day pass only goes through
\* legs that are open, and a process that is down has nothing in memory.
TypeOK ==
    /\ minute \in 1..LastMinute /\ up \in BOOLEAN
    /\ {pos, row, orb, eod.open} \subseteq [Tickers -> Int] /\ eod.attempted \in BOOLEAN
    /\ ids \subseteq Tickers \X ({"V10", "PARTIAL", "EXIT"} \X {-1, 0, 1})
    /\ scan.stage \in {"idle", "exits", "entries", "stop", "close"} /\ scan.order \in OrderType
    /\ scan.now \in 0..LastMinute /\ bot.order \in OrderType
    /\ sweep \in {"no", "due", "closed", "wiped", "done", "failed", "cut"}
    /\ scan.stage \in {"stop", "close"} => scan.todo \subseteq Open(eod.open)
    /\ ~up => scan = NoScan /\ bot = NoBot /\ eod = NoEod

\* The end-of-day engine keeps its admissions in memory only.  One entry of
\* a ticker and side is filled per afternoon and one more per boot, and never
\* two in a minute, for the id of the minute swallows the repeat.
EodEntryOnce ==
    /\ ~hist.double
    /\ \A leg \in Legs : Cardinality(hist.fills[leg]) <= 1 + hist.boots

\* Once close_all_positions of EOD_CLOSE_ALL went through, the account stays
\* flat to the end of the day, although the scan thread goes on with entries
\* and exits it had decided.  A /close and a partial are plain market orders:
\* one that comes later opens the other side, and is the exception.
FlatAfterSweep == SweepClosed => Open(pos) \subseteq hist.late

\* With nothing under way, a ticker the account holds has a row, so the exit
\* pass and the operator can see it, unless an answer was lost, a command
\* came in between, the process died, or a partial came after the sweep, since
\* the last reconciliation.
ExposureIsTracked ==
    up /\ scan.order = NoOrder /\ bot = NoBot /\ sweep \notin {"closed", "wiped"}
      => \A t \in Tickers \ hist.blind : pos[t] # 0 => row[t] # 0
=============================================================================
