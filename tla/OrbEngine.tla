----------------------------- MODULE OrbEngine -----------------------------
(***************************************************************************)
(* The v10 opening-range engine inside one process, from session start to  *)
(* session start: the per-(portfolio, ticker) day-state rows of            *)
(* orb/state.py, the risk books, the adapters' open positions and ticker   *)
(* map, and the calls the scan loop makes on them (orb/engine.py,          *)
(* orb/live_adapter.py, orb/live_runtime.py).                              *)
(*                                                                         *)
(* An entry takes two steps of the scan thread: check_entry admits, then   *)
(* the broker call either confirms it or rollback_admit undoes it.  Prices *)
(* are abstracted: a breakout, an exit and its P&L are choices.  The       *)
(* process itself never stops here; OrbRecovery adds crash and restart.    *)
(***************************************************************************)
EXTENDS OrbBook, OrbState

CONSTANTS
    Pids,           \* portfolios: main, val, gene
    Sides,
    NoTicket,       \* no entry in _ticker_to_ticket
    NoPos,          \* no entry in _open_positions
    Idle,           \* the scan thread is not inside an entry
    RollbackLimit,  \* ORB_ROLLBACK_COOLDOWN_AFTER_N
    GateBlocks,     \* block phases the day gates may assign, a subset of DayBlocks
    Risks, Notionals, Equities,
    PartialGains,   \* what a partial at 1R books
    Legs            \* P&L of the shares closed by a full exit

Position == [ticker : Tickers, side : Sides, halved : BOOLEAN, booked : Int]
Admission == [pid : Pids, pair : Pairs, ticket : TicketIds]

ASSUME EngineConstants ==
    /\ Pairs = Tickers \X Sides
    /\ NoTicket \notin TicketIds /\ NoPos \notin Position /\ Idle \notin Admission
    /\ RollbackLimit \in Nat
    /\ GateBlocks \subseteq DayBlocks
    /\ Risks \subseteq Nat /\ Notionals \subseteq Nat /\ Equities \subseteq Nat
    /\ Equities # {} /\ PartialGains \subseteq Int /\ Legs \subseteq Int

VARIABLES
    locked,     \* the tickers whose OR window is locked
    rows,       \* day_states: one row per portfolio and ticker
    books,      \* one RiskBook per portfolio
    open,       \* adapter._open_positions, by portfolio and ticket
    active,     \* adapter._ticker_to_ticket, by portfolio and ticker
    pending,    \* the admission whose broker call is in flight, or Idle
    rollbacks,  \* _rollback_history: rollbacks in the window, by portfolio and pair
    cash        \* history: P&L booked by every fill of the session, by portfolio

vars == <<locked, rows, books, open, active, pending, rollbacks, cash>>

\* A uuid is never one that is still referred to somewhere.
Fresh(id) == \A p \in Pids : id \notin books[p].live /\ open[p][id] = NoPos

-----------------------------------------------------------------------------

\* The verdict of the day gates, the same for every portfolio: a blocked day
\* or a phase for each ticker.
DayVerdicts ==
    {[t \in Tickers |-> "blocked_vix"] : b \in GateBlocks \cap {"blocked_vix"}}
    \cup [Tickers -> {"warmup"} \cup (GateBlocks \ {"blocked_vix"})]

FreshDay(verdict, equity) ==
    /\ locked = {}
    /\ rows = [p \in Pids |-> [t \in Tickers |-> WarmRow(verdict[t])]]
    /\ books = [p \in Pids |-> NewBook(equity[p])]
    /\ open = [p \in Pids |-> [id \in TicketIds |-> NoPos]]
    /\ active = [p \in Pids |-> [t \in Tickers |-> NoTicket]]
    /\ cash = [p \in Pids |-> 0]

Init ==
    /\ \E v \in DayVerdicts, e \in [Pids -> Equities] : FreshDay(v, e)
    /\ pending = Idle
    /\ rollbacks = [p \in Pids |-> [k \in Pairs |-> 0]]

\* ensure_session_started on a new date: start_new_session takes the new
\* equities in before the books snapshot them, and the adapters forget.
StartSession(verdict, equity) ==
    /\ pending = Idle
    /\ locked' = {}
    /\ rows' = [p \in Pids |-> [t \in Tickers |-> WarmRow(verdict[t])]]
    /\ books' = [p \in Pids |-> SessionReset(EquityUpdated(books[p], equity[p]))]
    /\ open' = [p \in Pids |-> [id \in TicketIds |-> NoPos]]
    /\ active' = [p \in Pids |-> [t \in Tickers |-> NoTicket]]
    /\ cash' = [p \in Pids |-> 0]
    /\ UNCHANGED <<pending, rollbacks>>

\* Mutant: the lock arms the rows the gates blocked at session start too.
LockAndArmBlocked(t, verdict) ==
    /\ pending = Idle
    /\ t \notin locked
    /\ locked' = locked \cup {t}
    /\ rows' = [p \in Pids |-> [rows[p] EXCEPT ![t] = Moved(@, verdict, @.inPos)]]
    /\ UNCHANGED <<books, open, active, pending, rollbacks, cash>>

\* _lock_and_arm: the window of t locks once; every row that is not blocked
\* is armed, or blocked when the range or the number of bars is wrong.
LockAndArm(t, verdict) ==
    /\ pending = Idle
    /\ t \notin locked
    /\ locked' = locked \cup {t}
    /\ rows' = [p \in Pids |->
                  IF rows[p][t].phase \in Blocked THEN rows[p]
                  ELSE [rows[p] EXCEPT ![t] = Moved(@, verdict, @.inPos)]]
    /\ UNCHANGED <<books, open, active, pending, rollbacks, cash>>

-----------------------------------------------------------------------------

\* check_entry for a breakout of the right side: cooldown, detect_breakout,
\* try_enter, then the adapter's two maps.  The rejected calls change nothing.
CheckEntry(p, t, s, id, risk, notional) ==
    /\ pending = Idle
    /\ rollbacks[p][<<t, s>>] < RollbackLimit \/ RollbackLimit = 0
    /\ CanEnter(rows[p][t])
    /\ t \in locked
    /\ Fresh(id)
    /\ CanAdmit(books[p], risk, notional, <<t, s>>)
    /\ books' = [books EXCEPT ![p] = Admitted(@, id, risk, notional)]
    /\ rows' = [rows EXCEPT ![p][t] = Moved(@, "in_pos", TRUE)]
    /\ open' = [open EXCEPT ![p][id] =
                   [ticker |-> t, side |-> s, halved |-> FALSE, booked |-> 0]]
    /\ active' = [active EXCEPT ![p][t] = id]
    /\ pending' = [pid |-> p, pair |-> <<t, s>>, ticket |-> id]
    /\ UNCHANGED <<locked, rollbacks, cash>>

\* The broker call came back with a position.
ConfirmEntry ==
    /\ pending # Idle
    /\ pending' = Idle
    /\ UNCHANGED <<locked, rows, books, open, active, rollbacks, cash>>

\* Mutant: the rollback frees the ticket and the row, not the adapter.
RollbackAdmitOrphaning ==
    /\ pending # Idle
    /\ LET p == pending.pid
           t == pending.pair[1]
       IN /\ books' = [books EXCEPT ![p] = Released(@, pending.ticket)]
          /\ rows' = [rows EXCEPT ![p][t] = Moved(@, "armed", FALSE)]
    /\ pending' = Idle
    /\ UNCHANGED <<locked, open, active, rollbacks, cash>>

\* The broker call came back without one: rollback_admit.
RollbackAdmit ==
    /\ pending # Idle
    /\ LET p == pending.pid
           t == pending.pair[1]
           id == pending.ticket
       IN /\ books' = [books EXCEPT ![p] = Released(@, id)]
          /\ rows' = IF rows[p][t].phase = "in_pos" \/ rows[p][t].inPos
                     THEN [rows EXCEPT ![p][t] = Moved(@, "armed", FALSE)]
                     ELSE rows
          /\ open' = [open EXCEPT ![p][id] = NoPos]
          /\ active' = IF active[p][t] = id
                       THEN [active EXCEPT ![p][t] = NoTicket]
                       ELSE active
          /\ rollbacks' = [rollbacks EXCEPT ![p][pending.pair] =
                              IF @ < RollbackLimit THEN @ + 1 ELSE @]
    /\ pending' = Idle
    /\ UNCHANGED <<locked, cash>>

\* The oldest rollback of a pair leaves the sliding window.
RollbackAges(p, k) ==
    /\ rollbacks[p][k] > 0
    /\ rollbacks' = [rollbacks EXCEPT ![p][k] = @ - 1]
    /\ UNCHANGED <<locked, rows, books, open, active, pending, cash>>

-----------------------------------------------------------------------------

\* check_exit_by_ticker finds the position through the ticker map.
Found(p, t) ==
    /\ pending = Idle
    /\ active[p][t] # NoTicket
    /\ open[p][active[p][t]] # NoPos
    /\ open[p][active[p][t]].ticker = t

\* on_partial_exit: the position books the gain, the ticket gives back half.
\* The book does not see the P&L before the full exit.
OnPartialExit(p, t, gain) ==
    /\ Found(p, t)
    /\ LET id == active[p][t] IN
       /\ ~open[p][id].halved
       /\ open' = [open EXCEPT ![p][id] = [ticker |-> t, side |-> @.side, halved |-> TRUE, booked |-> gain]]
       /\ books' = [books EXCEPT ![p] = HalfReleased(@, id)]
    /\ cash' = [cash EXCEPT ![p] = @ + gain]
    /\ UNCHANGED <<locked, rows, active, pending, rollbacks>>

\* Mutant: the exit records its own leg and forgets what the partial booked.
OnExitLegOnly(p, t, leg) ==
    /\ Found(p, t)
    /\ LET id == active[p][t]
           released == Released(books[p], id)
           exited == [rows[p] EXCEPT ![t] =
                        [phase |-> "closed", inPos |-> FALSE, trades |-> @.trades + 1]]
       IN /\ books' = [books EXCEPT ![p] = PnlRecorded(released, leg, <<t, open[p][id].side>>)]
          /\ rows' = [rows EXCEPT ![p] =
                        IF KillJustTriggered(released, leg) THEN KillBlocked(exited) ELSE exited]
          /\ open' = [open EXCEPT ![p][id] = NoPos]
    /\ active' = [active EXCEPT ![p][t] = NoTicket]
    /\ cash' = [cash EXCEPT ![p] = @ + leg]
    /\ UNCHANGED <<locked, pending, rollbacks>>

\* A full exit: on_exit releases the ticket, records the P&L of the whole
\* trade, closes the row and, when this exit trips the kill, blocks the
\* portfolio; the adapter then drops the position.
OnExit(p, t, leg) ==
    /\ Found(p, t)
    /\ LET id == active[p][t]
           pos == open[p][id]
           total == leg + pos.booked
           released == Released(books[p], id)
           exited == [rows[p] EXCEPT ![t] =
                        [phase |-> "closed", inPos |-> FALSE, trades |-> @.trades + 1]]
       IN /\ books' = [books EXCEPT ![p] = PnlRecorded(released, total, <<t, pos.side>>)]
          /\ rows' = [rows EXCEPT ![p] =
                        IF KillJustTriggered(released, total) THEN KillBlocked(exited) ELSE exited]
          /\ open' = [open EXCEPT ![p][id] = NoPos]
    /\ active' = [active EXCEPT ![p][t] = NoTicket]
    /\ cash' = [cash EXCEPT ![p] = @ + leg]
    /\ UNCHANGED <<locked, pending, rollbacks>>

\* refresh_equity_from_books, every scan cycle.
RefreshEquity(p, equity) ==
    /\ pending = Idle
    /\ books' = [books EXCEPT ![p] = EquityUpdated(@, equity)]
    /\ UNCHANGED <<locked, rows, open, active, pending, rollbacks, cash>>

Next ==
    \/ \E v \in DayVerdicts, e \in [Pids -> Equities] : StartSession(v, e)
    \/ \E t \in Tickers, v \in {"armed", "blocked_range", "blocked_or_insufficient"} : LockAndArm(t, v)
    \/ \E p \in Pids, t \in Tickers, s \in Sides, id \in TicketIds, r \in Risks, n \in Notionals :
          CheckEntry(p, t, s, id, r, n)
    \/ ConfirmEntry
    \/ RollbackAdmit
    \/ \E p \in Pids, k \in Pairs : RollbackAges(p, k)
    \/ \E p \in Pids, t \in Tickers, g \in PartialGains : OnPartialExit(p, t, g)
    \/ \E p \in Pids, t \in Tickers, l \in Legs : OnExit(p, t, l)
    \/ \E p \in Pids, e \in Equities : RefreshEquity(p, e)

Spec == Init /\ [][Next]_vars

-----------------------------------------------------------------------------

\* Every structure of the engine has its type.
TypeOK ==
    /\ locked \subseteq Tickers
    /\ rows \in [Pids -> [Tickers -> Row]]
    /\ books \in [Pids -> Book]
    /\ open \in [Pids -> [TicketIds -> Position \cup {NoPos}]]
    /\ active \in [Pids -> [Tickers -> TicketIds \cup {NoTicket}]]
    /\ pending \in Admission \cup {Idle}
    /\ rollbacks \in [Pids -> [Pairs -> Nat]]
    /\ cash \in [Pids -> Int]

\* The four records of a trade agree in every portfolio: the row says "in
\* position" exactly when the ticker map has a ticket, that ticket is an
\* open position of that ticker holding a live ticket of the book, and
\* nothing else is open or reserved.
TickersAgree(p) ==
    \A t \in Tickers :
        /\ rows[p][t].inPos <=> active[p][t] # NoTicket
        /\ rows[p][t].inPos <=> rows[p][t].phase = "in_pos"
        /\ active[p][t] # NoTicket =>
              /\ open[p][active[p][t]] # NoPos
              /\ open[p][active[p][t]].ticker = t
TicketsAgree(p) ==
    \A id \in TicketIds :
        /\ open[p][id] # NoPos <=> id \in books[p].live
        /\ open[p][id] # NoPos => active[p][open[p][id].ticker] = id
RecordsAgree == \A p \in Pids : TickersAgree(p) /\ TicketsAgree(p)

\* A ticker never trades more often than allowed, counting the position
\* that is open; rolled-back admissions do not count.
TradesBounded ==
    \A p \in Pids, t \in Tickers :
        rows[p][t].trades + (IF rows[p][t].inPos THEN 1 ELSE 0) <= MaxTrades

\* What the open positions have booked and the book has not seen yet.
Opened(positions) == {id \in TicketIds : positions[id] # NoPos}
Booked(positions) == [id \in Opened(positions) |-> positions[id].booked]

\* P&L is neither lost nor counted twice on its way through a partial: what
\* the book recorded and what open positions booked is all the session made.
PnlComplete ==
    \A p \in Pids : cash[p] = books[p].pnl + Total(Booked(open[p]))

\* Each book's concurrent risk stays under its cap.
RiskCapped == \A p \in Pids : books[p].openRisk <= MaxRisk

\* Between two session starts a portfolio that was killed opens nothing,
\* even though a position that outlived the kill leaves its row "closed".
\* StartSession is the only step that may clear the kill.
NoEntryAfterKill ==
    [][ \A p \in Pids : books[p].killed /\ books'[p].killed =>
          \A t \in Tickers : rows'[p][t].inPos => rows[p][t].inPos ]_vars

\* A ticker the gates or its range blocked stays blocked until the next
\* session: neither a lock, nor an exit, nor a rollback arms its row.
BlocksAreFinal ==
    [][ (\A v \in DayVerdicts, e \in [Pids -> Equities] : ~StartSession(v, e)) =>
          \A p \in Pids, t \in Tickers :
             rows[p][t].phase \in Blocked => rows'[p][t].phase = rows[p][t].phase ]_vars

-----------------------------------------------------------------------------

\* A trading day's view of the engine.
daySlot == [s \in Pids \X Tickers |->
              LET row == rows[s[1]][s[2]] IN
              IF row.inPos THEN "held" ELSE IF row.phase \in Blocked THEN "shut" ELSE "free"]
dayUsed == [s \in Pids \X Tickers |-> rows[s[1]][s[2]].trades]
dayHalted == [p \in Pids |-> books[p].killed]

Day == INSTANCE TradingDay WITH slot <- daySlot, used <- dayUsed, halted <- dayHalted

\* The engine keeps the promise of a trading day: one position per portfolio
\* and ticker, MaxTrades of them, and a halt that only a new day lifts.
DaySpec == Day!Spec
=============================================================================
