------------------------------ MODULE OrbBook ------------------------------
(***************************************************************************)
(* The data structure of orb/risk_book.py: one portfolio's risk book, and  *)
(* its methods as functions from a book to the next one.  Every method     *)
(* runs under the book's RLock, so a call is one step of whichever module  *)
(* uses it (OrbRiskBook alone, OrbEngine and OrbRecovery in composition).  *)
(*                                                                         *)
(* Dollars are integers; the admission epsilons (0.005 of risk, 0.5 of     *)
(* notional) absorb floating point noise and vanish with exact numbers.    *)
(***************************************************************************)
EXTENDS Integers, FiniteSets, Totals

CONSTANTS
    TicketIds,     \* the uuids try_admit can hand out
    Pairs,         \* the (ticker, side) pairs the loss lock is keyed on
    MaxRisk,       \* max_concurrent_risk_dollars
    NotionalMult,  \* max_concurrent_notional_mult
    KillPct,       \* daily_loss_kill_pct
    LossLock,      \* loss_lock_threshold_usd, 0 = rule off
    PeakHalt       \* peak_dd_halt_usd, 0 = rule off

ASSUME BookConstants ==
    /\ MaxRisk \in Nat /\ NotionalMult \in Nat /\ KillPct \in Nat
    /\ LossLock \in Nat /\ PeakHalt \in Nat

Ticket == [risk : Nat, notional : Nat]

\* _open_tickets is a dict: "live" is its key set, and an id outside it
\* carries the blank ticket.
Blank == [risk |-> 0, notional |-> 0]

Book == [live         : SUBSET TicketIds,
         tickets      : [TicketIds -> Ticket],
         openRisk     : Nat,
         openNotional : Nat,
         equity       : Nat,
         startEquity  : Nat,
         pnl          : Int,
         peak         : Nat,
         killed       : BOOLEAN,
         locked       : SUBSET Pairs]

NewBook(equity) ==
    [live |-> {}, tickets |-> [t \in TicketIds |-> Blank],
     openRisk |-> 0, openNotional |-> 0,
     equity |-> equity, startEquity |-> equity,
     pnl |-> 0, peak |-> 0, killed |-> FALSE, locked |-> {}]

\* max(0.0, x): no counter is ever driven below zero
AtLeastZero(x) == IF x < 0 THEN 0 ELSE x

\* The daily-loss threshold, in hundredths: the code compares pnl with
\* -session_start_equity * pct / 100.
KillLimit(b) == b.startEquity * KillPct
PastKill(b, pnl) == KillLimit(b) > 0 /\ 100 * pnl <= -KillLimit(b)

\* What each live ticket reserves.
RiskOf(b) == [t \in b.live |-> b.tickets[t].risk]
NotionalOf(b) == [t \in b.live |-> b.tickets[t].notional]

-----------------------------------------------------------------------------

\* Mutant: the notional cap is taken from the equity at session start.
CanAdmitStaleEquity(b, risk, notional, pair) ==
    /\ ~b.killed
    /\ ~(LossLock > 0 /\ pair \in b.locked)
    /\ ~(PeakHalt > 0 /\ b.peak - b.pnl >= PeakHalt)
    /\ b.openRisk + risk <= MaxRisk
    /\ b.openNotional + notional <= b.startEquity * NotionalMult

\* The checks of try_admit, in no particular order: the order only decides
\* which reject reason is logged.
CanAdmit(b, risk, notional, pair) ==
    /\ ~b.killed
    /\ ~(LossLock > 0 /\ pair \in b.locked)
    /\ ~(PeakHalt > 0 /\ b.peak - b.pnl >= PeakHalt)
    /\ b.openRisk + risk <= MaxRisk
    /\ b.openNotional + notional <= b.equity * NotionalMult

Admitted(b, id, risk, notional) ==
    [b EXCEPT !.live = @ \cup {id},
              !.tickets = [@ EXCEPT ![id] = [risk |-> risk, notional |-> notional]],
              !.openRisk = @ + risk,
              !.openNotional = @ + notional]

\* Mutant: the ticket stays in the dict after its dollars are freed.
ReleasedKeepingTicket(b, id) ==
    IF id \notin b.live THEN b
    ELSE [b EXCEPT !.openRisk = AtLeastZero(@ - b.tickets[id].risk),
                   !.openNotional = AtLeastZero(@ - b.tickets[id].notional)]

\* Taking a ticket out of the dict and its dollars out of the counters; an
\* id the book does not hold changes nothing (release returns False).
Released(b, id) ==
    IF id \notin b.live THEN b
    ELSE [b EXCEPT !.live = @ \ {id},
                   !.tickets = [@ EXCEPT ![id] = Blank],
                   !.openRisk = AtLeastZero(@ - b.tickets[id].risk),
                   !.openNotional = AtLeastZero(@ - b.tickets[id].notional)]

\* The half the one partial of a position frees (frac is 0.5 at every call).
Half(x) == x \div 2

\* Mutant: the ticket keeps its original size, so the close frees it again.
HalfReleasedTicketUntouched(b, id) ==
    IF id \notin b.live THEN b
    ELSE [b EXCEPT !.openRisk = AtLeastZero(@ - Half(b.tickets[id].risk)),
                   !.openNotional = AtLeastZero(@ - Half(b.tickets[id].notional))]

HalfReleased(b, id) ==
    IF id \notin b.live THEN b
    ELSE LET t == b.tickets[id] IN
         [b EXCEPT !.tickets = [@ EXCEPT ![id] = [risk |-> t.risk - Half(t.risk),
                                                  notional |-> t.notional - Half(t.notional)]],
                   !.openRisk = AtLeastZero(@ - Half(t.risk)),
                   !.openNotional = AtLeastZero(@ - Half(t.notional))]

\* Mutant: a later winner lifts the kill.
PnlRecordedUnlatched(b, amount, pair) ==
    LET pnl == b.pnl + amount IN
    [b EXCEPT !.pnl = pnl,
              !.peak = IF pnl > @ THEN pnl ELSE @,
              !.locked = IF LossLock > 0 /\ amount < -LossLock THEN @ \cup {pair} ELSE @,
              !.killed = PastKill(b, pnl)]

\* Mutant: the peak follows the P&L down.
PnlRecordedPeakFollows(b, amount, pair) ==
    LET pnl == b.pnl + amount IN
    [b EXCEPT !.pnl = pnl,
              !.peak = pnl,
              !.locked = IF LossLock > 0 /\ amount < -LossLock THEN @ \cup {pair} ELSE @,
              !.killed = @ \/ PastKill(b, pnl)]

\* record_realized_pnl: running total, peak, loss lock, kill latch.
PnlRecorded(b, amount, pair) ==
    LET pnl == b.pnl + amount IN
    [b EXCEPT !.pnl = pnl,
              !.peak = IF pnl > @ THEN pnl ELSE @,
              !.locked = IF LossLock > 0 /\ amount < -LossLock THEN @ \cup {pair} ELSE @,
              !.killed = @ \/ PastKill(b, pnl)]

\* The True that record_realized_pnl returns once, on the transition.
KillJustTriggered(b, amount) == ~b.killed /\ PastKill(b, b.pnl + amount)

EquityUpdated(b, equity) == [b EXCEPT !.equity = equity]

\* reset_session keeps nothing of the day before but the equity.
SessionReset(b) == NewBook(b.equity)
=============================================================================
