----------------------------- MODULE OrbState -----------------------------
(***************************************************************************)
(* The day-state row of orb/state.py: one per portfolio and ticker, with   *)
(* the phase of the opening-range strategy for that ticker today.          *)
(***************************************************************************)
EXTENDS Integers

CONSTANTS
    Tickers,
    MaxTrades       \* max_trades_per_day

ASSUME StateConstants == MaxTrades \in Nat

DayBlocks == {"blocked_vix", "blocked_earnings", "blocked_gap", "blocked_blocklist"}

Blocked == DayBlocks \cup {"blocked_range", "blocked_or_insufficient", "blocked_daily_kill"}

Phases == {"warmup", "armed", "in_pos", "closed"} \cup Blocked

Row == [phase : Phases, inPos : BOOLEAN, trades : Nat]

\* TickerDayState.can_enter
CanEnter(row) ==
    /\ ~row.inPos
    /\ row.trades < MaxTrades
    /\ row.phase \in {"armed", "closed"}

\* transition and the in_position flag that goes with it.
Moved(row, phase, inPos) == [phase |-> phase, inPos |-> inPos, trades |-> row.trades]

WarmRow(phase) == [phase |-> phase, inPos |-> FALSE, trades |-> 0]

\* Mutant: the kill overwrites the row of a position that is still open.
KillBlockedOpenToo(tickerRows) ==
    [t \in Tickers |->
        IF tickerRows[t].phase \in Blocked THEN tickerRows[t]
        ELSE Moved(tickerRows[t], "blocked_daily_kill", FALSE)]

\* _block_portfolio_for_daily_kill spares blocked rows and open positions.
KillBlocked(tickerRows) ==
    [t \in Tickers |->
        IF tickerRows[t].phase \in Blocked \cup {"in_pos"} THEN tickerRows[t]
        ELSE Moved(tickerRows[t], "blocked_daily_kill", tickerRows[t].inPos)]
=============================================================================
