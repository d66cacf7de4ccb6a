---------------------------- MODULE OrbRiskBook ----------------------------
(***************************************************************************)
(* One portfolio's RiskBook (orb/risk_book.py) under any sequence of calls *)
(* a trading day can bring: admissions, releases (also of tickets already  *)
(* released), the half release of a partial, realized P&L, equity          *)
(* refreshes and session resets.  restore_tickets belongs to the restart   *)
(* and is an operation of OrbRecovery.                                     *)
(***************************************************************************)
EXTENDS OrbBook

CONSTANTS
    Risks,      \* risk_dollars a signal may ask for
    Notionals,  \* notional a signal may ask for
    Equities,   \* equities a refresh may report
    Legs,       \* realized P&L of one closed leg
    PnlBound    \* bound of the model: |pnl| stays within it

ASSUME RiskBookConstants ==
    /\ Risks \subseteq Nat /\ Notionals \subseteq Nat /\ Equities \subseteq Nat
    /\ Equities # {} /\ Legs \subseteq Int /\ PnlBound \in Nat

VARIABLES
    book,    \* the RiskBook
    \* what happened in this session, kept for the properties only
    crest,   \* highest realized P&L, at least 0
    trough,  \* lowest realized P&L, at most 0
    worst    \* the worst leg of each pair, at most 0

vars == <<book, crest, trough, worst>>
history == <<crest, trough, worst>>

NoHistory == crest = 0 /\ trough = 0 /\ worst = [p \in Pairs |-> 0]

Init ==
    /\ \E e \in Equities : book = NewBook(e)
    /\ NoHistory

\* A rejection leaves everything but telemetry alone, so only admissions step.
TryAdmit(id, risk, notional, pair) ==
    /\ id \notin book.live
    /\ CanAdmit(book, risk, notional, pair)
    /\ book' = Admitted(book, id, risk, notional)
    /\ UNCHANGED history

Release(id) ==
    /\ book' = Released(book, id)
    /\ UNCHANGED history

ReleasePartial(id) ==
    /\ book' = HalfReleased(book, id)
    /\ UNCHANGED history

RecordRealizedPnl(amount, pair) ==
    LET pnl == book.pnl + amount IN
    /\ pnl \in -PnlBound .. PnlBound
    /\ book' = PnlRecorded(book, amount, pair)
    /\ crest' = IF pnl > crest THEN pnl ELSE crest
    /\ trough' = IF pnl < trough THEN pnl ELSE trough
    /\ worst' = [worst EXCEPT ![pair] = IF amount < @ THEN amount ELSE @]

UpdateEquity(equity) ==
    /\ book' = EquityUpdated(book, equity)
    /\ UNCHANGED history

ResetSession ==
    /\ book' = SessionReset(book)
    /\ crest' = 0 /\ trough' = 0 /\ worst' = [p \in Pairs |-> 0]

Next ==
    \/ \E id \in TicketIds, r \in Risks, n \in Notionals, p \in Pairs : TryAdmit(id, r, n, p)
    \/ \E id \in TicketIds : Release(id) \/ ReleasePartial(id)
    \/ \E a \in Legs, p \in Pairs : RecordRealizedPnl(a, p)
    \/ \E e \in Equities : UpdateEquity(e)
    \/ ResetSession

Spec == Init /\ [][Next]_vars

-----------------------------------------------------------------------------

\* The book's value: every field has its type.
TypeOK ==
    /\ book \in Book
    /\ crest \in Nat
    /\ trough \in Int
    /\ worst \in [Pairs -> Int]

RiskHeld == Total(RiskOf(book))
NotionalHeld == Total(NotionalOf(book))

\* The two running counters, which every method adjusts on its own and
\* clamps at zero, always equal what the live tickets reserve: no sequence
\* of full, repeated and partial releases frees a dollar twice or leaks one.
CountersMatchTickets ==
    /\ book.openRisk = RiskHeld
    /\ book.openNotional = NotionalHeld

\* The concurrent-risk cap holds in every state, not only at admission.
RiskWithinCap == book.openRisk <= MaxRisk

\* The kill latch is up exactly when the day's low has crossed the limit
\* taken from the equity at session start, whatever equity refreshes and
\* recoveries of the P&L came afterwards.
KillMatchesLow == book.killed <=> PastKill(book, trough)

\* Nothing is admitted on a day whose record forbids it: not after the low
\* crossed the kill limit, not while the P&L is PeakHalt below the day's
\* crest, not on a pair that already lost more than LossLock in one leg.
\* The record is the history, not the book's own flags.
NoEntryAgainstRecord ==
    [][ \A p \in Pairs :
          (\E id \in TicketIds, r \in Risks, n \in Notionals : TryAdmit(id, r, n, p))
            => /\ ~PastKill(book, trough)
               /\ PeakHalt > 0 => crest - book.pnl < PeakHalt
               /\ LossLock > 0 => -worst[p] <= LossLock ]_vars

\* An equity drop can leave the book above its notional cap; from there the
\* notional held only shrinks until it is below the cap again.
NotionalGrowsOnlyUnderCap ==
    [][ NotionalHeld' > NotionalHeld => NotionalHeld' <= book'.equity * NotionalMult ]_vars

-----------------------------------------------------------------------------

\* The book is a counting semaphore over MaxRisk dollars, keyed by ticket:
\* the counter that guards admission is an implementation of the sum.
Budget == INSTANCE RiskBudget WITH
              Holders <- TicketIds,
              Capacity <- MaxRisk,
              held <- RiskOf(book)

BudgetSpec == Budget!Spec
=============================================================================
