---------------------------- MODULE TicketProofs ----------------------------
(***************************************************************************)
(* Theorems about the tickets of one risk book: under any sequence of its  *)
(* methods (OrbRiskBook), and in an executor portfolio that crashes and is *)
(* restored (OrbRecovery).                                                 *)
(***************************************************************************)
EXTENDS OrbRiskBook, OrbRecovery, OrbBookProofs

-----------------------------------------------------------------------------
(***************************************************************************)
(* Theorems about OrbRiskBook, for every set of tickets and pairs and      *)
(* every value of the limits.                                              *)
(***************************************************************************)

\* Every field and every history variable has its type in every state.
THEOREM TypeCorrect == Spec => []TypeOK
<1>1. Init => TypeOK
  BY RiskBookConstants, NewBookType DEF Init, NoHistory, TypeOK
<1>2. TypeOK /\ [Next]_vars => TypeOK'
  <2> SUFFICES ASSUME TypeOK, [Next]_vars PROVE TypeOK'
    OBVIOUS
  <2> USE BookMethodTypes, RiskBookConstants DEF TypeOK
  <2>1. ASSUME NEW id \in TicketIds, NEW r \in Risks, NEW n \in Notionals, NEW p \in Pairs,
               TryAdmit(id, r, n, p)
        PROVE  TypeOK'
    BY <2>1 DEF TryAdmit, history
  <2>2. ASSUME NEW id \in TicketIds, Release(id) \/ ReleasePartial(id)
        PROVE  TypeOK'
    BY <2>2 DEF Release, ReleasePartial, history
  <2>3. ASSUME NEW a \in Legs, NEW p \in Pairs, RecordRealizedPnl(a, p)
        PROVE  TypeOK'
    <3>1. book' \in Book
      BY <2>3 DEF RecordRealizedPnl
    <3>2. book.pnl + a \in Int /\ a \in Int
      BY DEF Book
    <3>3. crest' \in Nat /\ trough' \in Int
      BY <2>3, <3>2 DEF RecordRealizedPnl
    <3>4. worst' \in [Pairs -> Int]
      BY <2>3, <3>2 DEF RecordRealizedPnl
    <3> QED BY <3>1, <3>3, <3>4
  <2>4. ASSUME NEW e \in Equities, UpdateEquity(e)
        PROVE  TypeOK'
    BY <2>4 DEF UpdateEquity, history
  <2>5. ASSUME ResetSession
        PROVE  TypeOK'
    BY <2>5 DEF ResetSession
  <2>6. CASE UNCHANGED vars
    BY <2>6 DEF vars
  <2> QED BY <2>1, <2>2, <2>3, <2>4, <2>5, <2>6 DEF Next
<1> QED BY <1>1, <1>2, PTL DEF Spec

-----------------------------------------------------------------------------

\* The concurrent-risk cap holds in every state of every session: admission
\* is the only method that adds risk, and it checks the sum it leaves.
THEOREM RiskCapHolds == Spec => []RiskWithinCap
<1>1. Init => RiskWithinCap
  BY BookConstants DEF Init, RiskWithinCap, NewBook
<1>2. TypeOK /\ RiskWithinCap /\ [Next]_vars => RiskWithinCap'
  <2> SUFFICES ASSUME TypeOK, RiskWithinCap, [Next]_vars PROVE RiskWithinCap'
    OBVIOUS
  <2> USE BookConstants DEF TypeOK, RiskWithinCap
  <2>1. ASSUME NEW id \in TicketIds, NEW r \in Risks, NEW n \in Notionals, NEW p \in Pairs,
               TryAdmit(id, r, n, p)
        PROVE  RiskWithinCap'
    BY <2>1 DEF TryAdmit, CanAdmit, Admitted, Book
  <2>2. ASSUME NEW id \in TicketIds, Release(id) \/ ReleasePartial(id)
        PROVE  RiskWithinCap'
    <3>1. book.openRisk \in Nat /\ book'.openRisk <= book.openRisk
      BY <2>2, ReleaseOnlyFrees DEF Release, ReleasePartial, Book
    <3>2. book' \in Book
      BY <2>2, BookMethodTypes DEF Release, ReleasePartial
    <3> QED BY <3>1, <3>2 DEF Book
  <2>3. ASSUME NEW a \in Legs, NEW p \in Pairs, RecordRealizedPnl(a, p)
        PROVE  RiskWithinCap'
    BY <2>3 DEF RecordRealizedPnl, PnlRecorded, Book
  <2>4. ASSUME NEW e \in Equities, UpdateEquity(e)
        PROVE  RiskWithinCap'
    BY <2>4 DEF UpdateEquity, EquityUpdated, Book
  <2>5. ASSUME ResetSession
        PROVE  RiskWithinCap'
    BY <2>5 DEF ResetSession, SessionReset, NewBook
  <2>6. CASE UNCHANGED vars
    BY <2>6 DEF vars
  <2> QED BY <2>1, <2>2, <2>3, <2>4, <2>5, <2>6 DEF Next
<1> QED BY <1>1, <1>2, TypeCorrect, PTL DEF Spec

-----------------------------------------------------------------------------

\* The book's flags are exactly what the session's history says they are.
FlagsMatchHistory ==
    /\ crest = book.peak
    /\ KillMatchesLow
    /\ \A p \in Pairs : LossLock > 0 => (p \in book.locked <=> -worst[p] > LossLock)

\* Peak, lock set and kill latch are what the history says, in every state.
LEMMA FlagsInvariant == Spec => []FlagsMatchHistory
<1>1. Init => FlagsMatchHistory
  BY RiskBookConstants, BookConstants
     DEF Init, NoHistory, FlagsMatchHistory, KillMatchesLow, PastKill, KillLimit, NewBook
<1>2. TypeOK /\ FlagsMatchHistory /\ [Next]_vars => FlagsMatchHistory'
  <2> SUFFICES ASSUME TypeOK, FlagsMatchHistory, [Next]_vars PROVE FlagsMatchHistory'
    OBVIOUS
  <2> USE BookConstants, RiskBookConstants DEF TypeOK
  \* the steps that touch neither the flags nor the history
  <2>1. ASSUME UNCHANGED history, book'.peak = book.peak, book'.killed = book.killed,
               book'.locked = book.locked, book'.startEquity = book.startEquity
        PROVE  FlagsMatchHistory'
    BY <2>1 DEF FlagsMatchHistory, KillMatchesLow, PastKill, KillLimit, history
  <2>2. ASSUME NEW id \in TicketIds, NEW r \in Risks, NEW n \in Notionals, NEW p \in Pairs,
               TryAdmit(id, r, n, p)
        PROVE  FlagsMatchHistory'
    BY <2>1, <2>2 DEF TryAdmit, Admitted, Book
  <2>3. ASSUME NEW id \in TicketIds, Release(id) \/ ReleasePartial(id)
        PROVE  FlagsMatchHistory'
    BY <2>1, <2>3 DEF Release, ReleasePartial, Released, HalfReleased, Book
  <2>4. ASSUME NEW a \in Legs, NEW p \in Pairs, RecordRealizedPnl(a, p)
        PROVE  FlagsMatchHistory'
    <3> DEFINE pnl == book.pnl + a
    <3>1. /\ book'.peak = (IF pnl > book.peak THEN pnl ELSE book.peak)
          /\ book'.killed = (book.killed \/ PastKill(book, pnl))
          /\ book'.locked = (IF LossLock > 0 /\ a < -LossLock
                               THEN book.locked \cup {p} ELSE book.locked)
          /\ book'.startEquity = book.startEquity
      BY <2>4 DEF RecordRealizedPnl, PnlRecorded, Book
    <3>2. pnl \in Int /\ a \in Int /\ trough \in Int
      BY DEF Book
    <3>3. crest' = book'.peak
      BY <2>4, <3>1 DEF RecordRealizedPnl, FlagsMatchHistory
    <3>4. KillMatchesLow'
      <4>1. KillLimit(book) \in Int /\ KillLimit(book)' = KillLimit(book)
        BY <3>1, KillLimitType DEF KillLimit
      <4>2. trough' = (IF pnl < trough THEN pnl ELSE trough)
        BY <2>4 DEF RecordRealizedPnl
      <4>3. PastKill(book, trough)' <=> (PastKill(book, trough) \/ PastKill(book, pnl))
        BY <3>2, <4>1, <4>2 DEF PastKill
      <4> QED BY <3>1, <4>3 DEF FlagsMatchHistory, KillMatchesLow
    <3>5. ASSUME NEW q \in Pairs, LossLock > 0
          PROVE  q \in book'.locked <=> -worst'[q] > LossLock
      <4>1. q \in book.locked <=> -worst[q] > LossLock
        BY <3>5 DEF FlagsMatchHistory
      <4>2. worst'[q] = (IF q = p /\ a < worst[q] THEN a ELSE worst[q])
        BY <2>4 DEF RecordRealizedPnl
      <4> QED BY <3>1, <3>2, <3>5, <4>1, <4>2
    <3> QED BY <3>3, <3>4, <3>5 DEF FlagsMatchHistory
  <2>5. ASSUME NEW e \in Equities, UpdateEquity(e)
        PROVE  FlagsMatchHistory'
    BY <2>1, <2>5 DEF UpdateEquity, EquityUpdated, Book
  <2>6. ASSUME ResetSession
        PROVE  FlagsMatchHistory'
    BY <2>6 DEF ResetSession, SessionReset, NewBook, FlagsMatchHistory, KillMatchesLow,
                PastKill, KillLimit, Book
  <2>7. CASE UNCHANGED vars
    BY <2>1, <2>7 DEF vars, history
  <2> QED BY <2>2, <2>3, <2>4, <2>5, <2>6, <2>7 DEF Next
<1> QED BY <1>1, <1>2, TypeCorrect, PTL DEF Spec

\* The kill is latched exactly on the days whose low crossed the limit.
THEOREM KillIsEarned == Spec => []KillMatchesLow
<1>1. FlagsMatchHistory => KillMatchesLow
  BY DEF FlagsMatchHistory
<1> QED BY <1>1, FlagsInvariant, PTL

\* No admission goes against the day's record: neither the kill, nor the
\* peak drawdown halt, nor the loss lock of a pair can be slipped past.
THEOREM EntriesRespectRecord == Spec => NoEntryAgainstRecord
<1> DEFINE Respects ==
      \A p \in Pairs :
          (\E id \in TicketIds, r \in Risks, n \in Notionals : TryAdmit(id, r, n, p))
            => /\ ~PastKill(book, trough)
               /\ PeakHalt > 0 => crest - book.pnl < PeakHalt
               /\ LossLock > 0 => -worst[p] <= LossLock
<1>1. TypeOK /\ FlagsMatchHistory /\ [Next]_vars => [Respects]_vars
  <2> SUFFICES ASSUME TypeOK, FlagsMatchHistory,
                      NEW p \in Pairs, NEW id \in TicketIds, NEW r \in Risks,
                      NEW n \in Notionals, TryAdmit(id, r, n, p)
               PROVE  /\ ~PastKill(book, trough)
                      /\ PeakHalt > 0 => crest - book.pnl < PeakHalt
                      /\ LossLock > 0 => -worst[p] <= LossLock
    OBVIOUS
  <2>1. CanAdmit(book, r, n, p)
    BY DEF TryAdmit
  <2>2. ~PastKill(book, trough)
    BY <2>1 DEF CanAdmit, FlagsMatchHistory, KillMatchesLow
  <2>3. PeakHalt > 0 => crest - book.pnl < PeakHalt
    BY <2>1, BookConstants DEF CanAdmit, FlagsMatchHistory, TypeOK, Book
  <2>4. LossLock > 0 => -worst[p] <= LossLock
    BY <2>1, BookConstants DEF CanAdmit, FlagsMatchHistory, TypeOK
  <2> QED BY <2>2, <2>3, <2>4
<1>2. Spec => [][Respects]_vars
  BY <1>1, TypeCorrect, FlagsInvariant, PTL DEF Spec
<1> QED BY <1>2 DEF NoEntryAgainstRecord

-----------------------------------------------------------------------------

\* The counters equal what the tickets reserve, and there are finitely many
\* tickets to add up.
Balanced ==
    /\ IsFiniteSet(book.live)
    /\ CountersMatchTickets

\* What a call of each method does to the live tickets and their totals: an
\* admission adds within the caps, a release takes at most what its ticket
\* had left, nothing else touches them.
LEMMA HoldingsStep ==
    ASSUME TypeOK, Balanced, [Next]_vars
    PROVE  Balanced'
<1> USE BookConstants, RiskBookConstants DEF TypeOK
<1>0. /\ IsFiniteSet(book.live)
      /\ book.openRisk = Total(RiskOf(book)) /\ book.openNotional = Total(NotionalOf(book))
      /\ book.openRisk \in Nat /\ book.openNotional \in Nat
  BY DEF Balanced, CountersMatchTickets, RiskHeld, NotionalHeld, Book
\* the steps that leave tickets and counters alone
<1>1. ASSUME book'.live = book.live, book'.tickets = book.tickets,
             book'.openRisk = book.openRisk, book'.openNotional = book.openNotional
      PROVE  Balanced'
  BY <1>0, <1>1 DEF Balanced, CountersMatchTickets, RiskHeld, NotionalHeld, RiskOf, NotionalOf
<1>2. ASSUME NEW id \in TicketIds, NEW r \in Risks, NEW n \in Notionals, NEW p \in Pairs,
             TryAdmit(id, r, n, p)
      PROVE  Balanced'
  <2>1. id \notin book.live /\ book' = Admitted(book, id, r, n) /\ r \in Nat /\ n \in Nat
    BY <1>2 DEF TryAdmit
  <2>2. book'.openRisk = book.openRisk + r /\ book'.openNotional = book.openNotional + n
    BY <2>1 DEF Admitted, Book
  <2> QED BY <1>0, <2>1, <2>2, AdmittedTotals
          DEF Balanced, CountersMatchTickets, RiskHeld, NotionalHeld
<1>3. ASSUME NEW id \in TicketIds, Release(id)
      PROVE  Balanced'
  <2>1. book' = Released(book, id)
    BY <1>3 DEF Release
  <2>2. CASE id \notin book.live
    BY <1>1, <2>1, <2>2 DEF Released
  <2>3. CASE id \in book.live
    <3>1. /\ book'.openRisk = AtLeastZero(book.openRisk - book.tickets[id].risk)
          /\ book'.openNotional = AtLeastZero(book.openNotional - book.tickets[id].notional)
      BY <2>1, <2>3 DEF Released, Book
    <3>2. book.tickets[id].risk \in Nat /\ book.tickets[id].notional \in Nat
      BY DEF Book, Ticket
    <3>3. /\ book'.openRisk = book.openRisk - book.tickets[id].risk
          /\ book'.openNotional = book.openNotional - book.tickets[id].notional
      BY <1>0, <2>3, <3>1, <3>2, ReleasedTotals DEF AtLeastZero
    <3> QED BY <1>0, <2>1, <2>3, <3>3, ReleasedTotals
            DEF Balanced, CountersMatchTickets, RiskHeld, NotionalHeld
  <2> QED BY <2>2, <2>3
<1>4. ASSUME NEW id \in TicketIds, ReleasePartial(id)
      PROVE  Balanced'
  <2>1. book' = HalfReleased(book, id)
    BY <1>4 DEF ReleasePartial
  <2>2. CASE id \notin book.live
    BY <1>1, <2>1, <2>2 DEF HalfReleased
  <2>3. CASE id \in book.live
    <3> DEFINE r == book.tickets[id].risk  n == book.tickets[id].notional
    <3>1. /\ book'.openRisk = AtLeastZero(book.openRisk - Half(r))
          /\ book'.openNotional = AtLeastZero(book.openNotional - Half(n))
      BY <2>1, <2>3 DEF HalfReleased, Book
    <3>2. /\ Half(r) \in Nat /\ Half(r) <= r /\ Half(n) \in Nat /\ Half(n) <= n
          /\ r \in Nat /\ n \in Nat
      BY HalfBounds DEF Book, Ticket
    <3>3. r <= Total(RiskOf(book)) /\ n <= Total(NotionalOf(book))
      BY <1>0, <2>3, ReleasedTotals
    <3> HIDE DEF r, n
    <3>4. /\ book'.openRisk = book.openRisk - Half(r)
          /\ book'.openNotional = book.openNotional - Half(n)
      BY <1>0, <3>1, <3>2, <3>3 DEF AtLeastZero
    <3> QED BY <1>0, <2>1, <2>3, <3>4, HalfReleasedTotals
            DEF Balanced, CountersMatchTickets, RiskHeld, NotionalHeld, r, n
  <2> QED BY <2>2, <2>3
<1>5. ASSUME NEW a \in Legs, NEW p \in Pairs, RecordRealizedPnl(a, p)
      PROVE  Balanced'
  BY <1>1, <1>5 DEF RecordRealizedPnl, PnlRecorded, Book
<1>6. ASSUME NEW e \in Equities, UpdateEquity(e)
      PROVE  Balanced'
  BY <1>1, <1>6 DEF UpdateEquity, EquityUpdated, Book
<1>7. ASSUME ResetSession
      PROVE  Balanced'
  <2>1. book' = NewBook(book.equity)
    BY <1>7 DEF ResetSession, SessionReset
  <2> QED BY <2>1, EmptyBookTotals DEF Balanced, CountersMatchTickets, RiskHeld, NotionalHeld
<1>8. CASE UNCHANGED vars
  BY <1>1, <1>8 DEF vars
<1> QED BY <1>2, <1>3, <1>4, <1>5, <1>6, <1>7, <1>8 DEF Next

LEMMA BalancedAlways == Spec => []Balanced
<1>1. Init => Balanced
  BY EmptyBookTotals DEF Init, Balanced, CountersMatchTickets, RiskHeld, NotionalHeld
<1>2. TypeOK /\ Balanced /\ [Next]_vars => Balanced'
  BY HoldingsStep
<1> QED BY <1>1, <1>2, TypeCorrect, PTL DEF Spec

\* The counters every method adjusts on its own always equal what the live
\* tickets reserve, for every set of tickets and every sequence of calls.
THEOREM CountersAreExact == Spec => []CountersMatchTickets
<1>1. Balanced => CountersMatchTickets
  BY DEF Balanced
<1> QED BY <1>1, BalancedAlways, PTL

\* Above its notional cap a book only shrinks: the only method that adds
\* notional checks the sum it leaves against the equity of the moment.
THEOREM NotionalCapped == Spec => NotionalGrowsOnlyUnderCap
<1> DEFINE Capped == NotionalHeld' > NotionalHeld => NotionalHeld' <= book'.equity * NotionalMult
<1>1. TypeOK /\ Balanced /\ TypeOK' /\ Balanced' /\ [Next]_vars => [Capped]_vars
  <2> SUFFICES ASSUME TypeOK, Balanced, TypeOK', Balanced', Next PROVE Capped
    OBVIOUS
  <2>1. /\ NotionalHeld = book.openNotional /\ NotionalHeld' = book'.openNotional
        /\ book.openNotional \in Nat /\ book'.openNotional \in Nat
    BY DEF Balanced, CountersMatchTickets, TypeOK, Book
  <2>2. ASSUME book'.openNotional <= book.openNotional PROVE Capped
    BY <2>1, <2>2
  <2>3. ASSUME NEW id \in TicketIds, NEW r \in Risks, NEW n \in Notionals, NEW p \in Pairs,
               TryAdmit(id, r, n, p)
        PROVE  Capped
    <3>1. /\ book.openNotional + n <= book.equity * NotionalMult
          /\ book'.openNotional = book.openNotional + n /\ book'.equity = book.equity
      BY <2>3 DEF TryAdmit, CanAdmit, Admitted, TypeOK, Book
    <3> QED BY <2>1, <3>1
  <2>4. ASSUME NEW id \in TicketIds, Release(id) \/ ReleasePartial(id)
        PROVE  Capped
    BY <2>2, <2>4, ReleaseOnlyFrees DEF Release, ReleasePartial, TypeOK
  <2>5. ASSUME NEW a \in Legs, NEW p \in Pairs, RecordRealizedPnl(a, p)
        PROVE  Capped
    BY <2>1, <2>2, <2>5 DEF RecordRealizedPnl, PnlRecorded, TypeOK, Book
  <2>6. ASSUME NEW e \in Equities, UpdateEquity(e)
        PROVE  Capped
    BY <2>1, <2>2, <2>6 DEF UpdateEquity, EquityUpdated, TypeOK, Book
  <2>7. ASSUME ResetSession
        PROVE  Capped
    <3>1. book'.openNotional = 0
      BY <2>7 DEF ResetSession, SessionReset, NewBook
    <3> QED BY <2>1, <2>2, <3>1
  <2> QED BY <2>3, <2>4, <2>5, <2>6, <2>7 DEF Next
<1>2. Spec => [][Capped]_vars
  BY <1>1, TypeCorrect, BalancedAlways, PTL DEF Spec
<1> QED BY <1>2 DEF NotionalGrowsOnlyUnderCap

-----------------------------------------------------------------------------

\* Every call draws, reduces, leaves, clears or changes nothing of what is held.
LEMMA BudgetStep ==
    ASSUME TypeOK, Balanced, [Next]_vars
    PROVE  [Budget!Next]_(RiskOf(book))
<1> USE BookConstants, RiskBookConstants DEF TypeOK
<1> DEFINE h == RiskOf(book)  k == RiskOf(book')
<1>0. /\ DOMAIN h = book.live /\ DOMAIN k = book'.live
      /\ \A t \in book.live : h[t] = book.tickets[t].risk
      /\ \A t \in book'.live : k[t] = book'.tickets[t].risk
      /\ RiskOf(book)' = k
  BY DEF RiskOf
\* the steps that leave the tickets alone
<1>1. ASSUME book'.live = book.live, book'.tickets = book.tickets
      PROVE  UNCHANGED RiskOf(book)
  BY <1>1 DEF RiskOf
<1>2. ASSUME NEW id \in TicketIds, NEW r \in Risks, NEW n \in Notionals, NEW p \in Pairs,
             TryAdmit(id, r, n, p)
      PROVE  Budget!Draw(id)
  <2>1. /\ id \notin book.live /\ book' = Admitted(book, id, r, n) /\ r \in Nat /\ n \in Nat
        /\ book.openRisk + r <= MaxRisk
    BY <1>2 DEF TryAdmit, CanAdmit
  <2>2. /\ book'.live = book.live \cup {id}
        /\ \A t \in book.live : book'.tickets[t] = book.tickets[t]
    BY <2>1 DEF Admitted, Book
  <2>3. Total(k) <= MaxRisk
    <3>1. IsFiniteSet(book.live) /\ book.openRisk = Total(h)
      BY DEF Balanced, CountersMatchTickets, RiskHeld
    <3>2. Total(k) = Total(h) + r
      BY <2>1, <3>1, AdmittedTotals
    <3> QED BY <2>1, <3>1, <3>2
  <2>4. Budget!Total(k) = Total(k)
    BY DEF Budget!Total, Budget!Units, Budget!Negated, Total, Units, Negated, Budget!Cardinality, Cardinality
  <2> HIDE DEF h, k
  <2> QED BY <1>0, <2>1, <2>2, <2>3, <2>4 DEF Budget!Draw, h
<1>3. ASSUME NEW id \in TicketIds, Release(id), id \in book.live
      PROVE  Budget!Leave(id)
  <2>1. /\ book'.live = book.live \ {id}
        /\ \A t \in book.live \ {id} : book'.tickets[t] = book.tickets[t]
    BY <1>3 DEF Release, Released, Book
  <2> HIDE DEF h, k
  <2> QED BY <1>0, <1>3, <2>1 DEF Budget!Leave, h
<1>4. ASSUME NEW id \in TicketIds, ReleasePartial(id), id \in book.live
      PROVE  Budget!Reduce(id)
  <2> DEFINE r == book.tickets[id].risk
  <2>1. r \in Nat /\ Half(r) \in Nat /\ Half(r) <= r
    BY HalfBounds DEF Book, Ticket
  <2>2. /\ book'.live = book.live
        /\ \A t \in book.live \ {id} : book'.tickets[t] = book.tickets[t]
        /\ book'.tickets[id].risk = r - Half(r)
    BY <1>4, HalfReleasedTotals DEF ReleasePartial, Balanced
  <2> HIDE DEF h, k, r
  <2>3. k[id] \in 0 .. h[id]
    BY <1>0, <1>4, <2>1, <2>2 DEF r
  <2> QED BY <1>0, <1>4, <2>2, <2>3 DEF Budget!Reduce, h
<1>5. ASSUME NEW id \in TicketIds, Release(id) \/ ReleasePartial(id), id \notin book.live
      PROVE  UNCHANGED RiskOf(book)
  BY <1>1, <1>5 DEF Release, ReleasePartial, Released, HalfReleased
<1>6. ASSUME NEW a \in Legs, NEW p \in Pairs, RecordRealizedPnl(a, p)
      PROVE  UNCHANGED RiskOf(book)
  BY <1>1, <1>6 DEF RecordRealizedPnl, PnlRecorded, Book
<1>7. ASSUME NEW e \in Equities, UpdateEquity(e)
      PROVE  UNCHANGED RiskOf(book)
  BY <1>1, <1>7 DEF UpdateEquity, EquityUpdated, Book
<1>8. ASSUME ResetSession
      PROVE  Budget!Clear
  <2>1. book'.live = {}
    BY <1>8 DEF ResetSession, SessionReset, NewBook
  <2> HIDE DEF h, k
  <2> QED BY <1>0, <2>1 DEF Budget!Clear, h
<1>9. CASE UNCHANGED vars
  BY <1>1, <1>9 DEF vars
<1> QED BY <1>2, <1>3, <1>4, <1>5, <1>6, <1>7, <1>8, <1>9 DEF Next, Budget!Next

\* The book implements the shared budget of RiskBudget: an admission draws
\* what is left at most, although it is guarded by the counter and not by the
\* sum; a partial hands part back, a release all of it, also when it is
\* called twice; nothing else changes what is held.
THEOREM ImplementsBudget == Spec => BudgetSpec
<1>1. Init => Budget!Init
  BY DEF Init, NewBook, Budget!Init, RiskOf
<1>2. TypeOK /\ Balanced /\ [Next]_vars => [Budget!Next]_(RiskOf(book))
  BY BudgetStep
<1> QED BY <1>1, <1>2, TypeCorrect, BalancedAlways, PTL DEF Spec, BudgetSpec, Budget!Spec

-----------------------------------------------------------------------------
(***************************************************************************)
(* An executor portfolio over crashes, for any number of tickers, tickets, *)
(* restarts and closes.  The invariant says of the engine's memory, while  *)
(* the process is up, and of the snapshot what each operation needs to     *)
(* find there; one lemma per operation shows that it leaves it so.         *)
(***************************************************************************)

\* No two of the ids are the same ticket before and after a restart.
OneEach(ids) == \A i, j \in ids : i[1] = j[1] => i = j

\* An injected position is one of the ticker it is named for.
Named(positions) ==
    \A id \in OpenIds(positions), t \in Tickers :
        id[1] = InjectBase(t) => positions[id].ticker = t

Whole(positions) == \A id \in OpenIds(positions) : positions[id].shares > 0

\* The counter is the sum of the tickets.
Counted(b) == IsFiniteSet(b.live) /\ b.openRisk = Total(RiskOf(b))

\* Tickets, positions and map.
Paired(e) ==
    /\ e.book.live = OpenIds(e.open)
    /\ \A t \in Tickers : e.active[t] # NoTicket =>
         e.active[t] \in OpenIds(e.open) /\ e.open[e.active[t]].ticker = t

EngineInv(e) ==
    /\ e \in Engine /\ Paired(e) /\ Counted(e.book)
    /\ OneEach(OpenIds(e.open)) /\ Named(e.open) /\ Whole(e.open)

DiskInv(d) ==
    /\ d \in Snapshot /\ Counted(d.book)
    /\ OpenIds(d.open) \subseteq d.book.live
    /\ OneEach(d.book.live) /\ Named(d.open) /\ Whole(d.open)

\* What the day's trading has left in d is still in e.
Keeps(d, e) ==
    /\ d.book.killed => e.book.killed
    /\ \A t \in Tickers : d.rows[t].trades <= e.rows[t].trades

\* No row is in position that was not so before.
NoneEnters(d, e) == \A t \in Tickers : e.rows[t].inPos => d.rows[t].inPos

CallFits ==
    call # Idle =>
        /\ stage \in {"entries", "exits"}
        /\ call.shares > 0
        /\ call.kind = "entry" =>
             call.ticket \in TicketIds /\
             (engine.open[call.ticket] # NoPos => engine.open[call.ticket].ticker = call.ticker)

RecoveryInv ==
    /\ RecoveryTypeOK
    /\ stage # "down" => EngineInv(engine) /\ Keeps(disk, engine)
    /\ DiskInv(disk)
    /\ CallFits
    /\ \A t \in Tickers : held[t] # NoRow => held[t].qty > 0
    /\ stage = "clearing" =>
         \A t \in Tickers \ todo : engine.rows[t].inPos => held[t] # NoRow

-----------------------------------------------------------------------------
(* Ids and constants. *)

LEMMA Markers ==
    /\ NoTicket \notin TicketIds /\ NoPos \notin Position
    /\ NoRow \notin ExecutorRow /\ Idle \notin Call
    /\ Lot \in Nat /\ Lot > 0 /\ Equity \in Nat /\ PartialGain \in Int /\ ExitLegs \subseteq Int
    /\ MaxRestarts \in Nat /\ IsFiniteSet(Tickers) /\ TicketIds = Ids
BY RecoveryConstants

LEMMA IdParts ==
    ASSUME NEW id \in TicketIds
    PROVE  /\ id = <<id[1], id[2]>>
           /\ id[1] \in Uuids \cup {InjectBase(t) : t \in Tickers} /\ id[2] \in 0..MaxRestarts
BY Markers DEF Ids

LEMMA InjectIds ==
    ASSUME NEW t \in Tickers
    PROVE  /\ InjectId(t) \in TicketIds /\ InjectId(t)[1] = InjectBase(t)
           /\ InjectTicker(InjectId(t)) = t /\ ~IsUuid(InjectId(t))
           /\ \A u \in Tickers : InjectBase(u) = InjectBase(t) => u = t
<1>1. InjectId(t) = <<InjectBase(t), 0>> /\ 0 \in 0..MaxRestarts
  BY Markers DEF InjectId
<1>2. InjectBase(t) \in Uuids \cup {InjectBase(u) : u \in Tickers}
  OBVIOUS
<1>3. InjectId(t) \in TicketIds
  BY <1>1, <1>2, Markers DEF Ids
<1>4. InjectBase(t) \notin Uuids
  BY RecoveryConstants
<1> QED BY <1>1, <1>3, <1>4 DEF InjectTicker, InjectBase, IsUuid

-----------------------------------------------------------------------------
(* The operations on the book that take several tickets at once. *)

\* Written in beside the live ones, the tickets add their dollars.
LEMMA WithTicketsFacts ==
    ASSUME NEW b \in Book, Counted(b), NEW D \in SUBSET TicketIds, IsFiniteSet(D),
           D \cap b.live = {}, NEW risks \in [D -> Nat]
    PROVE  /\ WithTickets(b, risks) \in Book /\ Counted(WithTickets(b, risks))
           /\ WithTickets(b, risks).live = b.live \cup D
           /\ WithTickets(b, risks).killed = b.killed
<1> DEFINE c == WithTickets(b, risks)
<1>1. DOMAIN risks = D /\ risks \in [D -> Int]
  OBVIOUS
<1>2. Total(risks) \in Nat
  BY TotalNat
<1>3. /\ c.live = b.live \cup D /\ c.killed = b.killed
      /\ c.openRisk = b.openRisk + Total(risks)
      /\ \A id \in TicketIds : c.tickets[id] = IF id \in D THEN [risk |-> risks[id], notional |-> 0]
                                               ELSE b.tickets[id]
  BY <1>1 DEF WithTickets, Book
<1>4. c \in Book
  <2>1. \A id \in TicketIds :
           (IF id \in D THEN [risk |-> risks[id], notional |-> 0] ELSE b.tickets[id]) \in Ticket
    BY DEF Ticket, Book
  <2> DEFINE f == [id \in TicketIds |-> IF id \in D THEN [risk |-> risks[id], notional |-> 0]
                                        ELSE b.tickets[id]]
             n == b.openRisk + Total(risks)
  <2>2. f \in [TicketIds -> Ticket]
    BY <2>1
  <2>3. n \in Nat /\ b.live \cup D \in SUBSET TicketIds
    BY <1>2 DEF Book
  <2>4. c = [b EXCEPT !.live = b.live \cup D, !.tickets = f, !.openRisk = n]
    BY <1>1 DEF WithTickets, Book
  <2> HIDE DEF f, n, c
  <2> QED BY <2>2, <2>3, <2>4 DEF Book
<1> HIDE DEF c
<1>5. Counted(c)
  <2> DEFINE f == RiskOf(b)  g == RiskOf(c)  S == b.live
  <2>1. f \in [S -> Int] /\ g \in [S \cup D -> Int]
    <3>1. f \in [S -> Nat] /\ g \in [c.live -> Nat]
      BY <1>4, HoldingTypes
    <3> QED BY <1>3, <3>1
  <2>2. S \subseteq TicketIds
    BY DEF Book
  <2>3. (\A x \in S : g[x] = f[x]) /\ (\A x \in D : g[x] = risks[x])
    <3>1. ASSUME NEW x \in S PROVE g[x] = f[x]
      <4>1. x \in TicketIds /\ x \notin D /\ x \in c.live
        BY <1>3, <2>2
      <4>2. c.tickets[x] = b.tickets[x]
        BY <1>3, <4>1
      <4> QED BY <4>1, <4>2 DEF RiskOf
    <3>2. ASSUME NEW x \in D PROVE g[x] = risks[x]
      <4>1. x \in TicketIds /\ x \in c.live
        BY <1>3
      <4>2. c.tickets[x] = [risk |-> risks[x], notional |-> 0]
        BY <1>3, <4>1
      <4> QED BY <4>1, <4>2 DEF RiskOf
    <3> QED BY <3>1, <3>2
  <2>4. IsFiniteSet(S) /\ IsFiniteSet(S \cup D) /\ b.openRisk = Total(f)
    BY FS_Union DEF Counted
  <2>6. c.live = S \cup D /\ c.openRisk = b.openRisk + Total(risks)
    BY <1>3
  <2> HIDE DEF f, g, S
  <2>5. Total(g) = Total(f) + Total(risks)
    <3>1. S \cap D = {} /\ risks \in [D -> Int]
      BY <1>1 DEF S
    <3> QED BY <2>1, <2>3, <2>4, <3>1, TotalUnion
  <2> QED BY <2>4, <2>5, <2>6 DEF Counted, g
<1> QED BY <1>3, <1>4, <1>5 DEF c

\* Released, they take their dollars, all of them within what is held.
LEMMA WithoutTicketsFacts ==
    ASSUME NEW b \in Book, Counted(b), NEW ids
    PROVE  /\ WithoutTickets(b, ids) \in Book /\ Counted(WithoutTickets(b, ids))
           /\ WithoutTickets(b, ids).live = b.live \ ids
           /\ WithoutTickets(b, ids).killed = b.killed
<1> DEFINE c == WithoutTickets(b, ids)  D == b.live \cap ids  S == b.live \ ids
           h == [id \in D |-> b.tickets[id].risk]  n == [id \in D |-> b.tickets[id].notional]
           r == AtLeastZero(b.openRisk - Total(h))
           q == AtLeastZero(b.openNotional - Total(n))
           f == [id \in TicketIds |-> IF id \in D THEN Blank ELSE b.tickets[id]]
<1>1. IsFiniteSet(D) /\ IsFiniteSet(S) /\ D \subseteq TicketIds /\ S \subseteq TicketIds
  BY FS_Subset DEF Counted, Book
<1>2. h \in [D -> Nat] /\ n \in [D -> Nat]
  BY <1>1 DEF Book, Ticket
<1>3. c = [b EXCEPT !.live = S, !.tickets = f, !.openRisk = r, !.openNotional = q]
  BY DEF WithoutTickets, Book
<1>4. f \in [TicketIds -> Ticket]
  BY DEF Blank, Ticket, Book
<1>5. Total(h) \in Nat /\ Total(n) \in Nat
  <2> HIDE DEF h, n, D
  <2> QED BY <1>1, <1>2, TotalNat
<1>6. r \in Nat /\ q \in Nat
  <2> HIDE DEF h, n
  <2> QED BY <1>5, FloorBounds DEF Book
<1>7. c \in Book /\ c.live = S /\ c.tickets = f /\ c.openRisk = r /\ c.killed = b.killed
  <2> HIDE DEF f, r, q, S, c
  <2>1. S \in SUBSET TicketIds
    BY <1>1
  <2> QED BY <1>3, <1>4, <1>6, <2>1 DEF Book
<1> HIDE DEF c
<1>8. Counted(c)
  <2> DEFINE g == RiskOf(b)  k == RiskOf(c)
  <2>1. g \in [b.live -> Nat] /\ k \in [S -> Nat]
    BY <1>7, HoldingTypes
  <2>2. b.live = S \cup D /\ S \cap D = {}
    OBVIOUS
  <2>3. (\A x \in S : g[x] = k[x]) /\ (\A x \in D : g[x] = h[x])
    BY <1>1, <1>7 DEF RiskOf
  <2> HIDE DEF g, k, h, S, D, n, r, q, f
  <2>4. Total(g) = Total(k) + Total(h)
    <3>1. /\ g \in [b.live -> Int] /\ k \in [b.live \ ids -> Int] /\ h \in [b.live \cap ids -> Int]
          /\ \A x \in b.live \ ids : g[x] = k[x]
          /\ \A x \in b.live \cap ids : g[x] = h[x]
      <4>1. /\ g \in [b.live -> Int] /\ k \in [S -> Int] /\ h \in [D -> Int]
        BY <1>2, <2>1
      <4> QED BY <2>3, <4>1 DEF S, D
    <3>2. IsFiniteSet(b.live)
      BY DEF Counted
    <3> QED BY <3>1, <3>2, TotalSplit
  <2>5. Total(k) \in Nat /\ b.openRisk = Total(g)
    BY <1>1, <2>1, TotalNat DEF Counted, g
  <2>6. r = Total(k)
    BY <1>5, <2>4, <2>5 DEF AtLeastZero, r
  <2> QED BY <1>1, <1>7, <2>6 DEF Counted, k
<1> QED BY <1>7, <1>8 DEF c

\* What the single-ticket methods leave of a counted book.
LEMMA CountedMethods ==
    ASSUME NEW b \in Book, Counted(b), NEW id \in TicketIds
    PROVE  /\ Released(b, id) \in Book /\ Counted(Released(b, id))
           /\ Released(b, id).live = b.live \ {id} /\ Released(b, id).killed = b.killed
           /\ HalfReleased(b, id) \in Book /\ Counted(HalfReleased(b, id))
           /\ HalfReleased(b, id).live = b.live /\ HalfReleased(b, id).killed = b.killed
           /\ \A n \in Nat : id \notin b.live =>
                /\ Admitted(b, id, n, 0) \in Book /\ Counted(Admitted(b, id, n, 0))
                /\ Admitted(b, id, n, 0).live = b.live \cup {id}
                /\ Admitted(b, id, n, 0).killed = b.killed
<1> DEFINE r == b.tickets[id].risk
<1>1. /\ r \in Nat /\ Half(r) \in Nat /\ Half(r) <= r
      /\ IsFiniteSet(b.live) /\ b.openRisk = Total(RiskOf(b))
      /\ b.openRisk \in Nat
  BY HalfBounds DEF Book, Ticket, Counted
<1>2. /\ Released(b, id) \in Book /\ HalfReleased(b, id) \in Book
      /\ \A n \in Nat : Admitted(b, id, n, 0) \in Book
  BY BookMethodTypes
<1>3. /\ Released(b, id).live = b.live \ {id} /\ Released(b, id).killed = b.killed
      /\ HalfReleased(b, id).live = b.live /\ HalfReleased(b, id).killed = b.killed
  BY DEF Released, HalfReleased, Book
<1>4. Counted(Released(b, id)) /\ Counted(HalfReleased(b, id))
  <2>1. CASE id \notin b.live
    BY <2>1 DEF Released, HalfReleased
  <2>2. CASE id \in b.live
    <3>1. /\ Total(RiskOf(Released(b, id))) = Total(RiskOf(b)) - r /\ r <= Total(RiskOf(b))
          /\ IsFiniteSet(Released(b, id).live)
      BY <1>1, <2>2, ReleasedTotals
    <3>2. Total(RiskOf(HalfReleased(b, id))) = Total(RiskOf(b)) - Half(r)
      BY <1>1, <2>2, HalfReleasedTotals
    <3>3. /\ Released(b, id).openRisk = AtLeastZero(b.openRisk - r)
          /\ HalfReleased(b, id).openRisk = AtLeastZero(b.openRisk - Half(r))
      BY <2>2 DEF Released, HalfReleased, Book
    <3> HIDE DEF r
    <3>4. /\ AtLeastZero(b.openRisk - r) = b.openRisk - r
          /\ AtLeastZero(b.openRisk - Half(r)) = b.openRisk - Half(r)
      BY <1>1, <3>1 DEF AtLeastZero
    <3> QED BY <1>1, <1>3, <3>1, <3>2, <3>3, <3>4 DEF Counted
  <2> QED BY <2>1, <2>2
<1>5. ASSUME NEW n \in Nat, id \notin b.live
      PROVE  /\ Counted(Admitted(b, id, n, 0))
             /\ Admitted(b, id, n, 0).live = b.live \cup {id}
             /\ Admitted(b, id, n, 0).killed = b.killed
  <2>1. /\ IsFiniteSet(Admitted(b, id, n, 0).live)
        /\ Total(RiskOf(Admitted(b, id, n, 0))) = Total(RiskOf(b)) + n
    BY <1>1, <1>5, AdmittedTotals
  <2>2. /\ Admitted(b, id, n, 0).live = b.live \cup {id}
        /\ Admitted(b, id, n, 0).killed = b.killed
        /\ Admitted(b, id, n, 0).openRisk = b.openRisk + n
    BY DEF Admitted, Book
  <2> QED BY <1>1, <2>1, <2>2 DEF Counted
<1> QED BY <1>2, <1>3, <1>4, <1>5

\* A booked exit touches no ticket and lifts no kill.
LEMMA RecordedFacts ==
    ASSUME NEW b \in Book, Counted(b), NEW a \in Int, NEW p \in Pairs
    PROVE  /\ PnlRecorded(b, a, p) \in Book /\ Counted(PnlRecorded(b, a, p))
           /\ PnlRecorded(b, a, p).live = b.live
           /\ b.killed => PnlRecorded(b, a, p).killed
<1> DEFINE c == PnlRecorded(b, a, p)
<1>1. c \in Book
  BY BookMethodTypes
<1>2. /\ c.live = b.live /\ c.openRisk = b.openRisk /\ c.tickets = b.tickets
      /\ b.killed => c.killed
  BY DEF PnlRecorded, Book
<1> HIDE DEF c
<1>3. Counted(c)
  BY <1>2 DEF Counted, RiskOf
<1> QED BY <1>1, <1>2, <1>3 DEF c

-----------------------------------------------------------------------------
(* The operations on the engine's memory. *)

\* What is open, pointwise; a position has a ticker.
LEMMA EngineParts ==
    ASSUME NEW e \in Engine
    PROVE  /\ e.rows \in [Tickers -> Row] /\ e.book \in Book
           /\ e.open \in [TicketIds -> Position \cup {NoPos}]
           /\ e.active \in [Tickers -> TicketIds \cup {NoTicket}]
           /\ \A id \in TicketIds : id \in OpenIds(e.open) <=> e.open[id] # NoPos
           /\ \A id \in OpenIds(e.open) :
                /\ id \in TicketIds /\ e.open[id] \in Position /\ e.open[id].ticker \in Tickers
                /\ e.open[id].side \in Sides /\ e.open[id].shares \in Nat
                /\ e.open[id].risk \in Nat /\ e.open[id].booked \in Int
           /\ OpenIds(e.open) \subseteq TicketIds
BY DEF Engine, OpenIds, Position

\* What leaves the kill and the trades as they are keeps them.
LEMMA KeepsSame ==
    ASSUME NEW e \in Engine, NEW n, n.book.killed = e.book.killed,
           \A t \in Tickers : n.rows[t].trades = e.rows[t].trades
    PROVE  Keeps(e, n)
<1>1. \A t \in Tickers : e.rows[t].trades \in Nat
  BY EngineParts DEF Row
<1> QED BY <1>1 DEF Keeps

\* An operation that only takes positions away, with their tickets and map
\* entries, keeps the invariant.
LEMMA FewerPositions ==
    ASSUME NEW e \in Engine, EngineInv(e), NEW n \in Engine, Counted(n.book), NEW gone,
           n.book.live = e.book.live \ gone,
           \A id \in TicketIds : n.open[id] = IF id \in gone THEN NoPos ELSE e.open[id],
           \A t \in Tickers : n.active[t] # NoTicket => n.active[t] = e.active[t] /\ n.active[t] \notin gone
    PROVE  EngineInv(n) /\ Tracked(n) \subseteq Tracked(e)
<1>1. /\ OpenIds(n.open) = OpenIds(e.open) \ gone
      /\ \A id \in OpenIds(n.open) : n.open[id] = e.open[id]
  BY DEF OpenIds
<1>2. Paired(n)
  BY <1>1 DEF Paired, EngineInv
<1>3. OneEach(OpenIds(n.open)) /\ Named(n.open) /\ Whole(n.open)
  BY <1>1 DEF EngineInv, OneEach, Named, Whole
<1>4. Tracked(n) \subseteq Tracked(e)
  BY <1>1 DEF Tracked
<1> QED BY <1>2, <1>3, <1>4 DEF EngineInv

\* Positions dropped as a set.
LEMMA DroppedFacts ==
    ASSUME NEW e \in Engine, Counted(e.book), NEW ids
    PROVE  /\ Dropped(e, ids) \in Engine /\ Counted(Dropped(e, ids).book)
           /\ Dropped(e, ids).book.live = e.book.live \ ids
           /\ Dropped(e, ids).book.killed = e.book.killed
           /\ \A id \in TicketIds :
                Dropped(e, ids).open[id] = IF id \in ids THEN NoPos ELSE e.open[id]
           /\ Dropped(e, ids).rows = e.rows /\ Dropped(e, ids).active = e.active
<1> DEFINE c == WithoutTickets(e.book, ids)
           f == [id \in TicketIds |-> IF id \in ids THEN NoPos ELSE e.open[id]]
<1>1. e.book \in Book
  BY DEF Engine
<1>2. c \in Book /\ Counted(c) /\ c.live = e.book.live \ ids /\ c.killed = e.book.killed
  BY <1>1, WithoutTicketsFacts
<1>3. f \in [TicketIds -> Position \cup {NoPos}]
  BY DEF Engine
<1>4. Dropped(e, ids) = [e EXCEPT !.open = f, !.book = c]
  BY DEF Dropped, Engine
<1>5. \A id \in TicketIds : f[id] = IF id \in ids THEN NoPos ELSE e.open[id]
  OBVIOUS
<1> HIDE DEF c, f
<1> QED BY <1>2, <1>3, <1>4, <1>5 DEF Engine

\* The kill blocks rows; it counts no trade and puts none in position.
LEMMA KillBlockedFacts ==
    ASSUME NEW rows \in [Tickers -> Row]
    PROVE  /\ KillBlocked(rows) \in [Tickers -> Row]
           /\ \A t \in Tickers : /\ KillBlocked(rows)[t].inPos = rows[t].inPos
                                 /\ KillBlocked(rows)[t].trades = rows[t].trades
<1>1. ASSUME NEW t \in Tickers
      PROVE  /\ KillBlocked(rows)[t] \in Row
             /\ KillBlocked(rows)[t].inPos = rows[t].inPos
             /\ KillBlocked(rows)[t].trades = rows[t].trades
  BY DEF KillBlocked, Moved, Row, Phases, Blocked
<1>2. KillBlocked(rows) = [t \in Tickers |-> KillBlocked(rows)[t]]
  BY DEF KillBlocked
<1> QED BY <1>1, <1>2

\* An exit takes the position, its ticket and its map entry, and closes the
\* row of its ticker.
LEMMA ExitedFacts ==
    ASSUME NEW e, EngineInv(e), NEW id \in OpenIds(e.open), NEW amount \in Int
    PROVE  /\ EngineInv(Exited(e, id, amount)) /\ Keeps(e, Exited(e, id, amount))
           /\ NoneEnters(e, Exited(e, id, amount))
           /\ ~Exited(e, id, amount).rows[e.open[id].ticker].inPos
           /\ Exited(e, id, amount).open = [e.open EXCEPT ![id] = NoPos]
<1> DEFINE n == Exited(e, id, amount)  pos == e.open[id]  t == pos.ticker
           released == Released(e.book, id)
           closed == [e.rows EXCEPT ![t] = [phase |-> "closed", inPos |-> FALSE, trades |-> @.trades + 1]]
<1>0. e \in Engine /\ Counted(e.book) /\ Paired(e)
  BY DEF EngineInv
<1>1. id \in TicketIds /\ t \in Tickers /\ <<t, pos.side>> \in Pairs
  BY <1>0, EngineParts, RecoveryConstants
<1>2. /\ released \in Book /\ Counted(released)
      /\ released.live = e.book.live \ {id} /\ released.killed = e.book.killed
  BY <1>0, <1>1, EngineParts, CountedMethods
<1>3. PICK b \in Book : b = PnlRecorded(released, amount, <<t, pos.side>>)
  <2> HIDE DEF released, t, pos
  <2> QED BY <1>1, <1>2, RecordedFacts
<1>4. Counted(b) /\ b.live = e.book.live \ {id} /\ (e.book.killed => b.killed)
  <2> DEFINE pair == <<t, pos.side>>
  <2> HIDE DEF released, pair
  <2>1. pair \in Pairs /\ b = PnlRecorded(released, amount, pair)
    BY <1>1, <1>3 DEF pair
  <2>2. Counted(b) /\ b.live = released.live /\ (released.killed => b.killed)
    BY <1>2, <2>1, RecordedFacts
  <2> QED BY <1>2, <2>2
<1>5. /\ closed \in [Tickers -> Row]
      /\ \A u \in Tickers :
           /\ closed[u].inPos => e.rows[u].inPos
           /\ e.rows[u].trades <= closed[u].trades
      /\ ~closed[t].inPos
  <2> HIDE DEF t
  <2>1. /\ closed[t] = [phase |-> "closed", inPos |-> FALSE, trades |-> e.rows[t].trades + 1]
        /\ \A u \in Tickers \ {t} : closed[u] = e.rows[u]
        /\ closed[t] \in Row
        /\ \A u \in Tickers : e.rows[u] \in Row
    BY <1>0, <1>1, EngineParts DEF Row, Phases
  <2>2. closed \in [Tickers -> Row]
    BY <1>0, <1>1, <2>1, EngineParts
  <2> HIDE DEF closed
  <2>3. \A u \in Tickers : e.rows[u].trades \in Nat
    BY <2>1 DEF Row
  <2> QED BY <2>1, <2>2, <2>3
<1>6. /\ n.rows \in [Tickers -> Row]
      /\ \A u \in Tickers : n.rows[u].inPos = closed[u].inPos /\ n.rows[u].trades = closed[u].trades
  <2>1. n.rows = closed \/ n.rows = KillBlocked(closed)
    BY DEF Exited
  <2> HIDE DEF closed, n
  <2> QED BY <1>5, <2>1, KillBlockedFacts
<1>7. n = [rows |-> n.rows, book |-> b, open |-> [e.open EXCEPT ![id] = NoPos],
           active |-> IF e.active[t] = id THEN [e.active EXCEPT ![t] = NoTicket] ELSE e.active]
  BY <1>3 DEF Exited
<1> HIDE DEF n, closed, released
<1>8. n.book = b /\ n.open = [e.open EXCEPT ![id] = NoPos]
      /\ n.active = IF e.active[t] = id THEN [e.active EXCEPT ![t] = NoTicket] ELSE e.active
  BY <1>7
<1>9. n \in Engine
  <2>1. n.open \in [TicketIds -> Position \cup {NoPos}]
        /\ n.active \in [Tickers -> TicketIds \cup {NoTicket}]
    BY <1>0, <1>8, EngineParts
  <2> QED BY <1>3, <1>6, <1>7, <1>8, <2>1 DEF Engine
<1>10. \A i \in TicketIds : n.open[i] = IF i \in {id} THEN NoPos ELSE e.open[i]
  BY <1>0, <1>8, EngineParts
<1>11. \A u \in Tickers : n.active[u] # NoTicket => n.active[u] = e.active[u] /\ n.active[u] \notin {id}
  <2> SUFFICES ASSUME NEW u \in Tickers, n.active[u] # NoTicket
               PROVE  n.active[u] = e.active[u] /\ n.active[u] # id
    OBVIOUS
  <2>1. n.active[u] = e.active[u] /\ (u = t => e.active[u] # id)
    BY <1>0, <1>1, <1>8, EngineParts
  <2>2. e.active[u] = id => u = t
    BY <1>0, <2>1, Markers DEF Paired
  <2> QED BY <2>1, <2>2
<1>12. EngineInv(n)
  BY <1>0, <1>4, <1>8, <1>9, <1>10, <1>11, FewerPositions
<1>13. Keeps(e, n) /\ NoneEnters(e, n) /\ ~n.rows[t].inPos
  <2>1. e.book.killed => n.book.killed
    BY <1>4, <1>8
  <2>2. \A u \in Tickers : e.rows[u].trades <= n.rows[u].trades
    BY <1>5, <1>6
  <2>3. \A u \in Tickers : n.rows[u].inPos => e.rows[u].inPos
    BY <1>5, <1>6
  <2>4. ~n.rows[t].inPos
    BY <1>1, <1>5, <1>6
  <2> QED BY <2>1, <2>2, <2>3, <2>4 DEF Keeps, NoneEnters
<1> QED BY <1>8, <1>12, <1>13 DEF n

\* The unmirror exits the position, or at least closes the row.
LEMMA UnmirroredFacts ==
    ASSUME NEW e, EngineInv(e), NEW t \in Tickers
    PROVE  /\ EngineInv(Unmirrored(e, t)) /\ Keeps(e, Unmirrored(e, t))
           /\ NoneEnters(e, Unmirrored(e, t)) /\ ~Unmirrored(e, t).rows[t].inPos
           /\ \A id \in TicketIds : Unmirrored(e, t).open[id] \in {NoPos, e.open[id]}
<1> DEFINE id == e.active[t]  n == Unmirrored(e, t)
<1>0. e \in Engine /\ Paired(e)
  BY DEF EngineInv
<1>1. CASE id # NoTicket /\ IsUuid(id) /\ e.open[id] # NoPos
  <2>1. id \in OpenIds(e.open) /\ e.open[id].ticker = t /\ e.open[id].booked \in Int
    BY <1>0, <1>1, EngineParts DEF Paired
  <2>2. n = Exited(e, id, e.open[id].booked)
    BY <1>1 DEF Unmirrored
  <2> HIDE DEF n, id
  <2>3. n.open = [e.open EXCEPT ![id] = NoPos]
    BY <2>1, <2>2, ExitedFacts
  <2>4. \A i \in TicketIds : n.open[i] \in {NoPos, e.open[i]}
    BY <1>0, <2>3, EngineParts
  <2>5. EngineInv(n) /\ Keeps(e, n) /\ NoneEnters(e, n) /\ ~n.rows[t].inPos
    BY <2>1, <2>2, ExitedFacts
  <2> QED BY <2>4, <2>5 DEF n
<1>2. CASE ~(id # NoTicket /\ IsUuid(id) /\ e.open[id] # NoPos) /\ e.rows[t].inPos
  <2>1. PICK r \in Row : r = Moved(e.rows[t], IF e.rows[t].phase = "in_pos" THEN "closed" ELSE e.rows[t].phase, FALSE)
    BY <1>0, EngineParts DEF Moved, Row, Phases
  <2>2. n = [e EXCEPT !.rows = [e.rows EXCEPT ![t] = r]]
    BY <1>0, <1>2, <2>1 DEF Unmirrored, Engine
  <2>3. ~r.inPos /\ r.trades = e.rows[t].trades
    BY <2>1 DEF Moved
  <2> HIDE DEF n, id
  <2>4. /\ n \in Engine /\ n.book = e.book /\ n.open = e.open /\ n.active = e.active
        /\ n.rows = [e.rows EXCEPT ![t] = r]
    BY <1>0, <2>2 DEF Engine
  <2>5. EngineInv(n)
    BY <2>4 DEF EngineInv, Paired
  <2>6. \A u \in Tickers : n.rows[u] = IF u = t THEN r ELSE e.rows[u]
    BY <1>0, <2>4, EngineParts
  <2>7. Keeps(e, n) /\ NoneEnters(e, n) /\ ~n.rows[t].inPos
    <3>1. \A u \in Tickers : e.rows[u].trades \in Nat
      BY <1>0, EngineParts DEF Row
    <3> QED BY <2>3, <2>4, <2>6, <3>1 DEF Keeps, NoneEnters
  <2> QED BY <2>4, <2>5, <2>7 DEF n
<1>3. CASE ~(id # NoTicket /\ IsUuid(id) /\ e.open[id] # NoPos) /\ ~e.rows[t].inPos
  <2>1. n = e
    BY <1>3 DEF Unmirrored
  <2>2. \A u \in Tickers : e.rows[u].trades \in Nat
    BY <1>0, EngineParts DEF Row
  <2> HIDE DEF n, id
  <2> QED BY <1>3, <2>1, <2>2 DEF Keeps, NoneEnters, n
<1> QED BY <1>1, <1>2, <1>3

\* The position the purge takes for a ticker is one of that ticker.
LEMMA KnownIdFits ==
    ASSUME NEW e, EngineInv(e), NEW t \in Tickers, e.active[t] # NoTicket \/ t \in Tracked(e)
    PROVE  KnownId(e, t) \in OpenIds(e.open) /\ e.open[KnownId(e, t)].ticker = t
<1>1. CASE e.active[t] # NoTicket
  BY <1>1 DEF KnownId, EngineInv, Paired
<1>2. CASE e.active[t] = NoTicket
  <2>1. \E id \in OpenIds(e.open) : e.open[id].ticker = t
    BY <1>2 DEF Tracked
  <2>2. KnownId(e, t) = CHOOSE id \in OpenIds(e.open) : e.open[id].ticker = t
    BY <1>2 DEF KnownId
  <2> QED BY <2>1, <2>2
<1> QED BY <1>1, <1>2

\* The purge unmaps every ticker the executor has no row for.
LEMMA PurgedFacts ==
    ASSUME NEW e, EngineInv(e)
    PROVE  /\ EngineInv(Purged(e)) /\ Keeps(e, Purged(e)) /\ Purged(e).rows = e.rows
           /\ \A t \in Tickers : held[t] = NoRow => Purged(e).active[t] = NoTicket
<1> DEFINE gone == {t \in Tickers : held[t] = NoRow /\ (e.active[t] # NoTicket \/ t \in Tracked(e))}
           ids == {KnownId(e, t) : t \in gone}
           f == [t \in Tickers |-> IF t \in gone THEN NoTicket ELSE e.active[t]]
           m == Dropped(e, ids)
           n == Purged(e)
<1>0. e \in Engine /\ Paired(e) /\ Counted(e.book)
  BY DEF EngineInv
<1>1. /\ m \in Engine /\ Counted(m.book)
      /\ m.book.live = e.book.live \ ids
      /\ m.book.killed = e.book.killed
      /\ \A id \in TicketIds : m.open[id] = IF id \in ids THEN NoPos ELSE e.open[id]
      /\ m.rows = e.rows /\ m.active = e.active
  <2> HIDE DEF ids
  <2> QED BY <1>0, DroppedFacts
<1>2. f \in [Tickers -> TicketIds \cup {NoTicket}]
  BY <1>0, EngineParts
<1>3. n = [m EXCEPT !.active = f]
  <2>1. n = [m EXCEPT !.active = [t \in Tickers |-> IF t \in gone THEN NoTicket ELSE m.active[t]]]
    BY <1>1 DEF Purged, Engine
  <2> QED BY <1>1, <2>1
<1>4. ASSUME NEW t \in Tickers, f[t] # NoTicket
      PROVE  f[t] = e.active[t] /\ f[t] \notin ids
  <2>1. t \notin gone /\ f[t] = e.active[t]
    BY <1>4
  <2>2. \A u \in gone : e.open[KnownId(e, u)].ticker = u
    BY KnownIdFits
  <2>3. e.open[f[t]].ticker = t
    BY <1>0, <1>4, <2>1 DEF Paired
  <2> QED BY <2>1, <2>2, <2>3
<1>5. \A t \in Tickers : held[t] = NoRow => f[t] = NoTicket
  OBVIOUS
<1> HIDE DEF f, m, n, ids
<1>6. /\ n \in Engine /\ n.book = m.book /\ n.open = m.open /\ n.rows = m.rows /\ n.active = f
  BY <1>1, <1>2, <1>3 DEF Engine
<1>7. EngineInv(n)
  BY <1>0, <1>1, <1>4, <1>6, FewerPositions
<1>8. Keeps(e, n)
  BY <1>0, <1>1, <1>6, KeepsSame
<1> QED BY <1>1, <1>5, <1>6, <1>7, <1>8 DEF n

\* The injection gives every ticker it is called for a position, its ticket
\* and a map entry.
LEMMA WithInjectedFacts ==
    ASSUME NEW e, EngineInv(e), NEW new \in SUBSET Tickers, new \cap Tracked(e) = {},
           held \in [Tickers -> ExecutorRow \cup {NoRow}],
           \A t \in new : held[t] # NoRow /\ held[t].qty > 0
    PROVE  /\ EngineInv(WithInjected(e, new)) /\ Keeps(e, WithInjected(e, new))
           /\ WithInjected(e, new).rows = e.rows
           /\ Tracked(e) \cup new \subseteq Tracked(WithInjected(e, new))
           /\ \A t \in Tickers \ new : WithInjected(e, new).active[t] = e.active[t]
<1> DEFINE ids == {InjectId(t) : t \in new}
           risks == [id \in ids |-> held[InjectTicker(id)].qty]
           b == WithTickets(e.book, risks)
           f == [id \in TicketIds |-> IF id \in ids THEN InjectedPosition(InjectTicker(id)) ELSE e.open[id]]
           a == [t \in Tickers |-> IF t \in new THEN InjectId(t) ELSE e.active[t]]
           n == WithInjected(e, new)
<1>0. e \in Engine /\ Paired(e) /\ Counted(e.book)
  BY DEF EngineInv
<1>1. ids \in SUBSET TicketIds /\ IsFiniteSet(ids)
  <2>1. IsFiniteSet(new)
    BY Markers, FS_Subset
  <2>2. [t \in new |-> InjectId(t)] \in Surjection(new, ids)
    BY DEF Surjection
  <2>3. IsFiniteSet(ids)
    <3> DEFINE g == [t \in new |-> InjectId(t)]
    <3> HIDE DEF g, ids
    <3> QED BY <2>1, <2>2, FS_Surjection DEF g
  <2> QED BY <2>3, InjectIds
<1>2. \A id \in ids : /\ InjectTicker(id) \in new /\ id = InjectId(InjectTicker(id))
                      /\ id[1] = InjectBase(InjectTicker(id))
  BY InjectIds
<1>3. ASSUME NEW id \in ids
      PROVE  /\ held[InjectTicker(id)].qty \in Nat /\ held[InjectTicker(id)].qty > 0
             /\ InjectedPosition(InjectTicker(id)) \in Position
             /\ InjectedPosition(InjectTicker(id)).ticker = InjectTicker(id)
             /\ InjectedPosition(InjectTicker(id)).shares > 0
  <2>1. held[InjectTicker(id)] \in ExecutorRow /\ InjectTicker(id) \in Tickers
    BY <1>2
  <2>2. held[InjectTicker(id)].qty > 0
    BY <1>2
  <2> QED BY <2>1, <2>2 DEF InjectedPosition, Position, ExecutorRow
<1>4. risks \in [ids -> Nat]
  BY <1>3
<1>5. ASSUME NEW id \in ids, NEW j \in OpenIds(e.open) PROVE id[1] # j[1]
  <2>1. InjectTicker(id) \in new /\ id[1] = InjectBase(InjectTicker(id))
    BY <1>2
  <2>2. id[1] = j[1] => e.open[j].ticker = InjectTicker(id)
    BY <2>1 DEF EngineInv, Named
  <2>3. e.open[j].ticker \in Tracked(e)
    BY DEF Tracked
  <2> QED BY <2>1, <2>2, <2>3
<1>6. ids \cap e.book.live = {}
  BY <1>0, <1>5 DEF Paired
<1>7. /\ b \in Book /\ Counted(b) /\ b.live = e.book.live \cup ids /\ b.killed = e.book.killed
  <2>1. e.book \in Book
    BY <1>0, EngineParts
  <2> HIDE DEF ids, risks
  <2> QED BY <1>0, <1>1, <1>4, <1>6, <2>1, WithTicketsFacts
<1>8. n = [e EXCEPT !.book = b, !.open = f, !.active = a]
  BY <1>0 DEF WithInjected, Engine
<1>9. f \in [TicketIds -> Position \cup {NoPos}] /\ a \in [Tickers -> TicketIds \cup {NoTicket}]
  BY <1>0, <1>3, EngineParts, InjectIds
<1>10. /\ \A id \in ids : f[id] = InjectedPosition(InjectTicker(id))
       /\ \A id \in TicketIds \ ids : f[id] = e.open[id]
       /\ \A t \in new : a[t] = InjectId(t) /\ a[t] \in ids /\ InjectTicker(a[t]) = t
       /\ \A t \in Tickers \ new : a[t] = e.active[t]
  BY <1>1, InjectIds
<1> HIDE DEF ids, risks, b, f, a, n
<1>11. /\ n \in Engine /\ n.book = b /\ n.open = f /\ n.rows = e.rows /\ n.active = a
  BY <1>0, <1>7, <1>8, <1>9 DEF Engine
<1>12. /\ OpenIds(f) = OpenIds(e.open) \cup ids
       /\ \A id \in OpenIds(e.open) : id \notin ids /\ f[id] = e.open[id]
  <2>1. \A id \in ids : f[id] # NoPos
    BY <1>3, <1>10, Markers
  <2>2. \A id \in OpenIds(e.open) : id \notin ids /\ id \in TicketIds /\ f[id] = e.open[id]
    BY <1>5, <1>10 DEF OpenIds
  <2> QED BY <1>1, <1>10, <2>1, <2>2 DEF OpenIds
<1>13. Paired(n)
  <2>1. n.book.live = OpenIds(n.open)
    BY <1>0, <1>7, <1>11, <1>12 DEF Paired
  <2>2. ASSUME NEW t \in Tickers, a[t] # NoTicket
        PROVE  a[t] \in OpenIds(f) /\ f[a[t]].ticker = t
    <3>1. CASE t \in new
      BY <1>3, <1>10, <1>12, <3>1
    <3>2. CASE t \notin new
      <4>1. a[t] = e.active[t] /\ a[t] \in OpenIds(e.open) /\ e.open[a[t]].ticker = t
        BY <1>0, <1>10, <2>2, <3>2 DEF Paired
      <4> QED BY <1>12, <4>1
    <3> QED BY <3>1, <3>2
  <2> QED BY <1>11, <2>1, <2>2 DEF Paired
<1>14. OneEach(OpenIds(f))
  <2>1. \A i, j \in ids : i[1] = j[1] => i = j
    BY <1>2, InjectIds
  <2>2. \A i, j \in OpenIds(e.open) : i[1] = j[1] => i = j
    BY DEF EngineInv, OneEach
  <2> QED BY <1>5, <1>12, <2>1, <2>2 DEF OneEach
<1>15. Named(f)
  <2>1. ASSUME NEW id \in ids, NEW t \in Tickers, id[1] = InjectBase(t) PROVE f[id].ticker = t
    <3>1. InjectTicker(id) = t
      BY <1>2, <2>1, InjectIds
    <3> QED BY <1>3, <1>10, <3>1
  <2>2. \A id \in OpenIds(e.open), t \in Tickers : id[1] = InjectBase(t) => f[id].ticker = t
    BY <1>12 DEF EngineInv, Named
  <2> QED BY <1>12, <2>1, <2>2 DEF Named
<1>16. Whole(f)
  BY <1>3, <1>10, <1>12 DEF EngineInv, Whole
<1>17. Tracked(e) \cup new \subseteq Tracked(n)
  <2>1. ASSUME NEW t \in new PROVE t \in Tracked(n)
    <3>1. a[t] \in OpenIds(f) /\ f[a[t]].ticker = t
      BY <1>3, <1>10, <1>12, <2>1
    <3> QED BY <1>11, <3>1 DEF Tracked
  <2>2. ASSUME NEW id \in OpenIds(e.open) PROVE e.open[id].ticker \in Tracked(n)
    <3>1. id \in OpenIds(f) /\ f[id] = e.open[id]
      BY <1>12
    <3> QED BY <1>11, <3>1 DEF Tracked
  <2> QED BY <2>1, <2>2 DEF Tracked
<1>18. Keeps(e, n)
  BY <1>0, <1>7, <1>11, KeepsSame
<1>19. EngineInv(n)
  BY <1>7, <1>11, <1>13, <1>14, <1>15, <1>16 DEF EngineInv
<1> QED BY <1>10, <1>11, <1>17, <1>18, <1>19 DEF n

\* An admission under a new uuid.
LEMMA AdmitFacts ==
    ASSUME NEW e, EngineInv(e), NEW id \in TicketIds, IsUuid(id),
           \A j \in e.book.live \cup OpenIds(e.open) : id[1] # j[1],
           NEW pos \in Position, pos.shares > 0, pos.ticker \in Tickers, NEW n,
           n = [rows |-> [e.rows EXCEPT ![pos.ticker] = Moved(@, "in_pos", TRUE)],
                book |-> Admitted(e.book, id, Lot, 0),
                open |-> [e.open EXCEPT ![id] = pos],
                active |-> [e.active EXCEPT ![pos.ticker] = id]]
    PROVE  EngineInv(n) /\ Keeps(e, n)
<1> DEFINE t == pos.ticker
<1>0. e \in Engine /\ Paired(e) /\ Counted(e.book)
  BY DEF EngineInv
<1>1. id \notin e.book.live /\ id \notin OpenIds(e.open) /\ t \in Tickers /\ pos # NoPos
  BY Markers
<1>2. /\ n.book \in Book /\ Counted(n.book)
      /\ n.book.live = e.book.live \cup {id} /\ n.book.killed = e.book.killed
  <2>1. e.book \in Book /\ n.book = Admitted(e.book, id, Lot, 0) /\ Lot \in Nat
    BY <1>0, EngineParts, Markers
  <2> QED BY <1>0, <1>1, <2>1, CountedMethods
<1>3. /\ n.open \in [TicketIds -> Position \cup {NoPos}]
      /\ n.active \in [Tickers -> TicketIds \cup {NoTicket}]
      /\ n.open[id] = pos /\ \A j \in TicketIds \ {id} : n.open[j] = e.open[j]
      /\ n.active[t] = id /\ \A u \in Tickers \ {t} : n.active[u] = e.active[u]
  BY <1>0, <1>1, EngineParts
<1>4. /\ n.rows \in [Tickers -> Row]
      /\ \A u \in Tickers : n.rows[u].trades = e.rows[u].trades
  <2>1. Moved(e.rows[t], "in_pos", TRUE) \in Row /\ Moved(e.rows[t], "in_pos", TRUE).trades = e.rows[t].trades
    BY <1>0, <1>1, EngineParts DEF Moved, Row, Phases
  <2>2. n.rows = [e.rows EXCEPT ![t] = Moved(e.rows[t], "in_pos", TRUE)]
    OBVIOUS
  <2> QED BY <1>0, <1>1, <2>1, <2>2, EngineParts
<1>5. n \in Engine
  <2>1. n = [rows |-> n.rows, book |-> n.book, open |-> n.open, active |-> n.active]
    OBVIOUS
  <2> QED BY <1>2, <1>3, <1>4, <2>1 DEF Engine
<1> HIDE DEF t
<1>6. OpenIds(n.open) = OpenIds(e.open) \cup {id} /\ \A j \in OpenIds(e.open) : n.open[j] = e.open[j]
  BY <1>1, <1>3 DEF OpenIds
<1>7. Paired(n)
  <2>1. n.book.live = OpenIds(n.open)
    BY <1>0, <1>2, <1>6 DEF Paired
  <2>2. ASSUME NEW u \in Tickers, n.active[u] # NoTicket
        PROVE  n.active[u] \in OpenIds(n.open) /\ n.open[n.active[u]].ticker = u
    <3>1. CASE u = t
      BY <1>3, <1>6, <3>1 DEF t
    <3>2. CASE u # t
      <4>1. n.active[u] \in OpenIds(e.open) /\ e.open[n.active[u]].ticker = u
        BY <1>0, <1>3, <2>2, <3>2 DEF Paired
      <4> QED BY <1>6, <4>1
    <3> QED BY <3>1, <3>2
  <2> QED BY <2>1, <2>2 DEF Paired
<1>8. OneEach(OpenIds(n.open))
  BY <1>6 DEF EngineInv, OneEach
<1>9. Named(n.open)
  <2>1. \A u \in Tickers : id[1] # InjectBase(u)
    BY RecoveryConstants DEF IsUuid
  <2> QED BY <1>6, <2>1 DEF EngineInv, Named
<1>10. Whole(n.open)
  BY <1>3, <1>6 DEF EngineInv, Whole
<1>11. Keeps(e, n)
  BY <1>0, <1>2, <1>4, KeepsSame
<1> QED BY <1>2, <1>5, <1>7, <1>8, <1>9, <1>10, <1>11 DEF EngineInv

\* A rollback, of a position that may be gone already.
LEMMA RollbackFacts ==
    ASSUME NEW e, EngineInv(e), NEW t \in Tickers, NEW id \in TicketIds,
           e.open[id] # NoPos => e.open[id].ticker = t
    PROVE  EngineInv(RolledBack(e, t, id)) /\ Keeps(e, RolledBack(e, t, id))
<1> DEFINE n == RolledBack(e, t, id)
<1>0. /\ n.rows \in {e.rows, [e.rows EXCEPT ![t] = Moved(e.rows[t], "armed", FALSE)]}
      /\ n.book = Released(e.book, id) /\ n.open = [e.open EXCEPT ![id] = NoPos]
      /\ n.active = IF e.active[t] = id THEN [e.active EXCEPT ![t] = NoTicket] ELSE e.active
      /\ n = [rows |-> n.rows, book |-> n.book, open |-> n.open, active |-> n.active]
  BY DEF RolledBack
<1> HIDE DEF n
<1>1. e \in Engine /\ Paired(e) /\ Counted(e.book)
  BY DEF EngineInv
<1>2. /\ n.book \in Book /\ Counted(n.book)
      /\ n.book.live = e.book.live \ {id} /\ n.book.killed = e.book.killed
  <2>1. e.book \in Book /\ n.book = Released(e.book, id)
    BY <1>1, <1>0, EngineParts
  <2> QED BY <1>1, <2>1, CountedMethods
<1>3. /\ n.open \in [TicketIds -> Position \cup {NoPos}]
      /\ n.active \in [Tickers -> TicketIds \cup {NoTicket}]
      /\ \A j \in TicketIds : n.open[j] = IF j \in {id} THEN NoPos ELSE e.open[j]
      /\ \A u \in Tickers : n.active[u] = IF u = t /\ e.active[u] = id THEN NoTicket ELSE e.active[u]
  BY <1>1, <1>0, EngineParts
<1>4. /\ n.rows \in [Tickers -> Row]
      /\ \A u \in Tickers : n.rows[u].trades = e.rows[u].trades
  <2>1. Moved(e.rows[t], "armed", FALSE) \in Row /\ Moved(e.rows[t], "armed", FALSE).trades = e.rows[t].trades
    BY <1>1, EngineParts DEF Moved, Row, Phases
  <2> PICK r \in Row : r = Moved(e.rows[t], "armed", FALSE) /\ r.trades = e.rows[t].trades
    BY <2>1
  <2>2. e.rows \in [Tickers -> Row] /\ n.rows \in {e.rows, [e.rows EXCEPT ![t] = r]}
    BY <1>1, <1>0, EngineParts
  <2> QED BY <2>2
<1>5. n \in Engine
  BY <1>2, <1>3, <1>4, <1>0 DEF Engine
<1>6. ASSUME NEW u \in Tickers, n.active[u] # NoTicket
      PROVE  n.active[u] = e.active[u] /\ n.active[u] \notin {id}
  <2>1. n.active[u] = e.active[u] /\ ~(u = t /\ e.active[u] = id)
    BY <1>3, <1>6
  <2>2. e.active[u] = id => u = t
    BY <1>1, <1>6, <2>1, Markers DEF Paired, OpenIds
  <2> QED BY <2>1, <2>2
<1>7. EngineInv(n)
  BY <1>1, <1>2, <1>3, <1>5, <1>6, FewerPositions
<1>8. Keeps(e, n)
  BY <1>1, <1>2, <1>4, KeepsSame
<1> QED BY <1>7, <1>8 DEF n

\* A partial: the position shrinks and half of its ticket is freed.
LEMMA PartialFacts ==
    ASSUME NEW e, EngineInv(e), NEW id \in OpenIds(e.open), e.open[id].shares >= 2
    PROVE  EngineInv(PartlyExited(e, id)) /\ Keeps(e, PartlyExited(e, id))
<1> DEFINE old == e.open[id]
           pos == [ticker |-> old.ticker, side |-> old.side, shares |-> old.shares - Half(old.shares),
                   risk |-> old.risk, halved |-> TRUE, booked |-> old.booked + PartialGain]
           n == PartlyExited(e, id)
<1>0. e \in Engine /\ Paired(e) /\ Counted(e.book) /\ id \in TicketIds
  BY DEF EngineInv, OpenIds
<1>1. pos \in Position /\ pos.shares > 0 /\ pos.ticker = e.open[id].ticker
  <2>1. old \in Position /\ old.shares \in Nat /\ old.booked \in Int
    BY <1>0, EngineParts
  <2>2. old.shares - Half(old.shares) \in Nat /\ old.shares - Half(old.shares) > 0
    <3> DEFINE x == old.shares
    <3> HIDE DEF x
    <3>1. x \in Nat /\ x >= 2 => x - Half(x) \in Nat /\ x - Half(x) > 0
      BY SMT DEF Half
    <3> QED BY <2>1, <3>1 DEF x
  <2>3. old.booked + PartialGain \in Int
    BY <2>1, Markers
  <2> HIDE DEF old
  <2>4. pos \in Position /\ pos.shares = old.shares - Half(old.shares) /\ pos.ticker = old.ticker
    BY <2>1, <2>2, <2>3 DEF Position
  <2> QED BY <2>2, <2>4 DEF old
<1>2. n = [e EXCEPT !.open = [e.open EXCEPT ![id] = pos], !.book = HalfReleased(e.book, id)]
  BY DEF PartlyExited
<1> HIDE DEF pos, n, old
<1>3. /\ HalfReleased(e.book, id) \in Book /\ Counted(HalfReleased(e.book, id))
      /\ HalfReleased(e.book, id).live = e.book.live /\ HalfReleased(e.book, id).killed = e.book.killed
  BY <1>0, EngineParts, CountedMethods
<1>4. [e.open EXCEPT ![id] = pos] \in [TicketIds -> Position \cup {NoPos}]
  BY <1>0, <1>1, EngineParts
<1>5. /\ n \in Engine /\ n.rows = e.rows /\ n.active = e.active
      /\ n.book = HalfReleased(e.book, id) /\ n.open = [e.open EXCEPT ![id] = pos]
  BY <1>0, <1>3, <1>4, <1>2 DEF Engine
<1>6. /\ OpenIds(n.open) = OpenIds(e.open)
      /\ n.open[id] = pos /\ \A j \in OpenIds(e.open) \ {id} : n.open[j] = e.open[j]
  BY <1>0, <1>5, <1>1, Markers, EngineParts DEF OpenIds
<1>7. \A j \in OpenIds(e.open) : n.open[j].ticker = e.open[j].ticker /\ n.open[j].shares > 0
  BY <1>6, <1>1 DEF EngineInv, Whole
<1>8. Paired(n)
  BY <1>0, <1>3, <1>5, <1>6, <1>7 DEF Paired
<1>9. OneEach(OpenIds(n.open)) /\ Named(n.open) /\ Whole(n.open)
  BY <1>6, <1>7 DEF EngineInv, OneEach, Named, Whole
<1>10. Keeps(e, n)
  <2>1. n.book.killed = e.book.killed /\ \A t \in Tickers : n.rows[t].trades = e.rows[t].trades
    BY <1>3, <1>5
  <2> QED BY <1>0, <2>1, KeepsSame
<1> QED BY <1>3, <1>5, <1>8, <1>9, <1>10 DEF EngineInv, n

-----------------------------------------------------------------------------
(* The snapshot. *)

\* What is written of an engine fits on the disk and forgets nothing.
LEMMA SnapshotFits ==
    ASSUME NEW e, EngineInv(e)
    PROVE  /\ DiskInv(SnapshotOf(e)) /\ DiskInv([SnapshotOf(e) EXCEPT !.open = NothingOpen])
           /\ \A d : Keeps(d, e) => /\ Keeps(d, SnapshotOf(e))
                                    /\ Keeps(d, [SnapshotOf(e) EXCEPT !.open = NothingOpen])
           /\ Keeps(SnapshotOf(e), e) /\ Keeps([SnapshotOf(e) EXCEPT !.open = NothingOpen], e)
<1> DEFINE b == [e.book EXCEPT !.peak = 0, !.locked = {}]
           d == SnapshotOf(e)  c == [SnapshotOf(e) EXCEPT !.open = NothingOpen]
<1>0. e \in Engine /\ Paired(e) /\ Counted(e.book)
  BY DEF EngineInv
<1>1. /\ b \in Book /\ b.live = e.book.live /\ b.tickets = e.book.tickets
      /\ b.openRisk = e.book.openRisk /\ b.killed = e.book.killed
  BY <1>0, EngineParts DEF Book
<1>2. /\ d.rows = e.rows /\ d.book = b /\ d.open = e.open
      /\ c.rows = e.rows /\ c.book = b /\ c.open = NothingOpen
      /\ d = [rows |-> e.rows, book |-> b, open |-> e.open]
      /\ c = [rows |-> e.rows, book |-> b, open |-> NothingOpen]
  BY DEF SnapshotOf
<1>3. NothingOpen \in [TicketIds -> Position \cup {NoPos}] /\ OpenIds(NothingOpen) = {}
  BY DEF NothingOpen, OpenIds
<1> HIDE DEF b, c, d
<1>4. d \in Snapshot /\ c \in Snapshot
  BY <1>0, <1>1, <1>2, <1>3, EngineParts DEF Snapshot
<1>5. Counted(b)
  BY <1>0, <1>1 DEF Counted, RiskOf
<1>6. OpenIds(e.open) = b.live /\ OneEach(b.live)
  BY <1>0, <1>1 DEF Paired, EngineInv
<1>7. Named(e.open) /\ Whole(e.open) /\ Named(NothingOpen) /\ Whole(NothingOpen)
  BY <1>3 DEF EngineInv, Named, Whole
<1>8. DiskInv(d) /\ DiskInv(c)
  BY <1>2, <1>3, <1>4, <1>5, <1>6, <1>7 DEF DiskInv
<1>9. \A x : Keeps(x, e) => Keeps(x, d) /\ Keeps(x, c)
  BY <1>1, <1>2 DEF Keeps
<1>10. Keeps(d, e) /\ Keeps(c, e)
  <2>1. \A u \in Tickers : e.rows[u].trades \in Nat
    BY <1>0, EngineParts DEF Row
  <2> QED BY <1>1, <1>2, <2>1 DEF Keeps
<1> QED BY <1>8, <1>9, <1>10 DEF c, d

\* A restored position is one of the snapshot under its next id.
LEMMA RestoredOpenFacts ==
    ASSUME NEW d, DiskInv(d)
    PROVE  /\ RestoredOpen(d) \in [TicketIds -> Position \cup {NoPos}]
           /\ \A id \in OpenIds(RestoredOpen(d)) :
                /\ FormerId(id) \in OpenIds(d.open) /\ id[1] = FormerId(id)[1]
                /\ FormerId(id) # id
                /\ \A j \in TicketIds : FormerId(j) = FormerId(id) => j = id
                /\ RestoredOpen(d)[id] = d.open[FormerId(id)]
           /\ IsFiniteSet(OpenIds(RestoredOpen(d)))
           /\ OpenIds(RestoredOpen(d)) \cap d.book.live = {}
<1> DEFINE f == RestoredOpen(d)  D == OpenIds(f)
<1>0. d \in Snapshot /\ OpenIds(d.open) \subseteq d.book.live /\ OneEach(d.book.live)
      /\ IsFiniteSet(d.book.live) /\ d.book.live \subseteq TicketIds
      /\ d.open \in [TicketIds -> Position \cup {NoPos}]
  BY DEF DiskInv, Counted, Snapshot, Book
<1>1. ASSUME NEW id \in TicketIds, id[2] > 0
      PROVE  /\ FormerId(id) \in TicketIds /\ FormerId(id)[1] = id[1]
             /\ FormerId(id)[2] = id[2] - 1 /\ id[2] \in Nat /\ FormerId(id) # id
  <2>1. /\ id = <<id[1], id[2]>> /\ id[2] \in 0..MaxRestarts /\ MaxRestarts \in Nat
        /\ id[1] \in Uuids \cup {InjectBase(t) : t \in Tickers}
    BY IdParts, Markers
  <2>2. FormerId(id) = <<id[1], id[2] - 1>> /\ id[2] - 1 \in 0..MaxRestarts
    BY <1>1, <2>1 DEF FormerId
  <2> QED BY <2>1, <2>2, Markers DEF Ids
<1>2. f \in [TicketIds -> Position \cup {NoPos}]
  <2>1. ASSUME NEW id \in TicketIds
        PROVE  (IF id[2] > 0 THEN d.open[FormerId(id)] ELSE NoPos) \in Position \cup {NoPos}
    BY <1>0, <1>1
  <2> QED BY <2>1 DEF RestoredOpen
<1>3. ASSUME NEW id \in D
      PROVE  /\ id \in TicketIds /\ id[2] > 0
             /\ FormerId(id) \in OpenIds(d.open) /\ f[id] = d.open[FormerId(id)]
  <2>1. id \in TicketIds /\ f[id] # NoPos /\ f[id] = IF id[2] > 0 THEN d.open[FormerId(id)] ELSE NoPos
    BY DEF OpenIds, RestoredOpen
  <2> HIDE DEF f, D
  <2> QED BY <1>1, <2>1 DEF OpenIds
<1>4. ASSUME NEW id \in TicketIds, NEW j \in TicketIds, FormerId(j) = FormerId(id)
      PROVE  j = id
  <2>1. id = <<id[1], id[2]>> /\ j = <<j[1], j[2]>> /\ id[2] \in Int /\ j[2] \in Int
    BY IdParts, Markers
  <2>2. id[1] = j[1] /\ id[2] - 1 = j[2] - 1
    BY <1>4 DEF FormerId
  <2> QED BY <2>1, <2>2
<1> HIDE DEF f, D
<1>5. D \cap d.book.live = {}
  <2> SUFFICES ASSUME NEW id \in D, id \in d.book.live PROVE FALSE
    OBVIOUS
  <2>1. FormerId(id) \in d.book.live /\ FormerId(id)[1] = id[1] /\ FormerId(id) # id
    BY <1>0, <1>1, <1>3
  <2> QED BY <1>0, <2>1 DEF OneEach
<1>6. IsFiniteSet(D)
  <2> DEFINE g == [id \in D |-> FormerId(id)]
  <2>1. g \in Injection(D, d.book.live)
    <3>1. \A id \in D : g[id] \in d.book.live
      BY <1>0, <1>3
    <3>2. \A i, j \in D : g[i] = g[j] => i = j
      BY <1>3, <1>4
    <3> QED BY <3>1, <3>2 DEF Injection, IsInjective
  <2> HIDE DEF g
  <2> QED BY <1>0, <2>1, FS_Injection
<1> QED BY <1>1, <1>2, <1>3, <1>4, <1>5, <1>6 DEF D, f

\* A boot puts back what the executor still has a row for, each position
\* with its ticket; the rows and the kill are those of the snapshot.
LEMMA RehydratedFacts ==
    ASSUME NEW d, DiskInv(d), NEW rowsOf
    PROVE  /\ EngineInv(Rehydrated(d, rowsOf)) /\ Keeps(d, Rehydrated(d, rowsOf))
           /\ \A t \in Tracked(Rehydrated(d, rowsOf)) : rowsOf[t] # NoRow
<1> DEFINE f == RestoredOpen(d)  D == OpenIds(f)  b == RestoredBook(d)
           e == [rows |-> d.rows, book |-> b, open |-> f, active |-> NothingMapped]
           g == Backed(e)  n == Rehydrated(d, rowsOf)
           idle == {id \in OpenIds(g.open) : rowsOf[g.open[id].ticker] = NoRow}
<1>0. /\ d.rows \in [Tickers -> Row] /\ d.book \in Book /\ Counted(d.book)
      /\ OneEach(d.book.live) /\ OpenIds(d.open) \subseteq d.book.live
  BY DEF DiskInv, Snapshot
<1>1. /\ f \in [TicketIds -> Position \cup {NoPos}]
      /\ IsFiniteSet(D) /\ D \cap d.book.live = {} /\ D \in SUBSET TicketIds
      /\ \A id \in D : /\ FormerId(id) \in OpenIds(d.open) /\ id[1] = FormerId(id)[1]
                       /\ \A j \in TicketIds : FormerId(j) = FormerId(id) => j = id
                       /\ f[id] = d.open[FormerId(id)]
  BY RestoredOpenFacts DEF OpenIds
<1> HIDE DEF f
<1>2. b \in Book /\ Counted(b) /\ b.live = d.book.live \cup D /\ b.killed = d.book.killed
  <2> DEFINE risks == [id \in D |-> f[id].risk]
  <2>1. risks \in [D -> Nat]
    <3>1. \A id \in D : f[id] \in Position
      BY <1>1 DEF OpenIds
    <3> QED BY <3>1 DEF Position
  <2>2. b = WithTickets(d.book, risks)
    BY DEF RestoredBook, RestoredRisks, f
  <2> HIDE DEF risks, b, D
  <2> QED BY <1>0, <1>1, <2>1, <2>2, WithTicketsFacts
<1>3. NothingMapped \in [Tickers -> TicketIds \cup {NoTicket}] /\ \A t \in Tickers : NothingMapped[t] = NoTicket
  BY DEF NothingMapped
<1> HIDE DEF b
<1>4. /\ e \in Engine /\ e.rows = d.rows /\ e.book = b /\ e.open = f /\ e.active = NothingMapped
  BY <1>0, <1>1, <1>2, <1>3 DEF Engine
<1> HIDE DEF e
<1>5. /\ g \in Engine /\ g.rows = d.rows /\ g.open = f /\ g.active = NothingMapped
      /\ Counted(g.book) /\ g.book.live = D /\ g.book.killed = d.book.killed
  <2> DEFINE c == WithoutTickets(e.book, e.book.live \ OpenIds(e.open))
  <2>1. /\ c \in Book /\ Counted(c) /\ c.live = e.book.live \ (e.book.live \ OpenIds(e.open))
        /\ c.killed = e.book.killed
    BY <1>2, <1>4, WithoutTicketsFacts
  <2>2. c.live = D
    BY <1>2, <1>4, <2>1
  <2>3. g = [e EXCEPT !.book = c]
    BY <1>4 DEF Backed, Engine
  <2> HIDE DEF c, g, D
  <2> QED BY <1>2, <1>4, <2>1, <2>2, <2>3 DEF Engine
<1> HIDE DEF g, D
<1>6. EngineInv(g)
  <2>1. Paired(g)
    BY <1>3, <1>5 DEF Paired, D
  <2>2. OneEach(D)
    <3> SUFFICES ASSUME NEW i \in D, NEW j \in D, i[1] = j[1] PROVE i = j
      BY DEF OneEach
    <3>1. FormerId(i) = FormerId(j)
      BY <1>0, <1>1 DEF OneEach
    <3> QED BY <1>1, <3>1
  <2>3. Named(f) /\ Whole(f)
    BY <1>1 DEF DiskInv, Named, Whole, D
  <2> QED BY <1>5, <2>1, <2>2, <2>3 DEF EngineInv, D
<1>7. n = Dropped(g, idle)
  BY DEF Rehydrated, Pruned, g, e, b, f
<1>8. Counted(g.book) /\ g \in Engine
  BY <1>5
<1> HIDE DEF n, idle
<1>9. /\ n \in Engine /\ Counted(n.book)
      /\ n.book.live = g.book.live \ idle /\ n.book.killed = g.book.killed
      /\ \A id \in TicketIds : n.open[id] = IF id \in idle THEN NoPos ELSE g.open[id]
      /\ n.rows = g.rows /\ n.active = g.active
  BY <1>7, <1>8, DroppedFacts
<1>10. EngineInv(n)
  <2>1. \A t \in Tickers :
           n.active[t] # NoTicket => n.active[t] = g.active[t] /\ n.active[t] \notin idle
    BY <1>3, <1>5, <1>9
  <2> QED BY <1>6, <1>8, <1>9, <2>1, FewerPositions
<1>11. Keeps(d, n)
  <2>1. \A t \in Tickers : d.rows[t].trades \in Nat
    BY <1>0 DEF Row
  <2>2. n.rows = d.rows /\ n.book.killed = d.book.killed
    BY <1>5, <1>9
  <2> QED BY <2>1, <2>2 DEF Keeps
<1>12. \A t \in Tracked(n) : rowsOf[t] # NoRow
  <2> SUFFICES ASSUME NEW id \in OpenIds(n.open) PROVE rowsOf[n.open[id].ticker] # NoRow
    BY DEF Tracked
  <2>1. id \in TicketIds /\ n.open[id] # NoPos
    BY DEF OpenIds
  <2>2. id \notin idle /\ n.open[id] = g.open[id]
    BY <1>9, <2>1
  <2>3. id \in OpenIds(g.open)
    BY <2>1, <2>2 DEF OpenIds
  <2> QED BY <2>2, <2>3 DEF idle
<1> QED BY <1>10, <1>11, <1>12 DEF n

-----------------------------------------------------------------------------
(* The invariant, action by action. *)

\* What the invariant gives while the process is up.
LEMMA UpFacts ==
    ASSUME RecoveryInv, stage # "down"
    PROVE  /\ EngineInv(engine) /\ Keeps(disk, engine) /\ engine \in Engine
           /\ Paired(engine) /\ Counted(engine.book)
           /\ \A n : Keeps(engine, n) /\ (\A t \in Tickers : n.rows[t].trades \in Nat) => Keeps(disk, n)
<1>1. EngineInv(engine) /\ Keeps(disk, engine) /\ engine \in Engine
  BY DEF RecoveryInv, EngineInv
<1>2. \A t \in Tickers : disk.rows[t].trades \in Nat /\ engine.rows[t].trades \in Nat
  BY <1>1 DEF RecoveryInv, DiskInv, Snapshot, Engine, Row
<1>3. ASSUME NEW n, Keeps(engine, n), \A t \in Tickers : n.rows[t].trades \in Nat
      PROVE  Keeps(disk, n)
  <2>1. disk.book.killed => n.book.killed
    BY <1>1, <1>3 DEF Keeps
  <2>2. \A t \in Tickers : disk.rows[t].trades <= n.rows[t].trades
    BY <1>1, <1>2, <1>3 DEF Keeps
  <2> QED BY <2>1, <2>2 DEF Keeps
<1> QED BY <1>1, <1>3 DEF EngineInv

\* An operation that keeps the engine's trading keeps the snapshot's.
LEMMA KeepsOn ==
    ASSUME RecoveryInv, stage # "down", NEW n, EngineInv(n), Keeps(engine, n)
    PROVE  Keeps(disk, n)
<1>1. \A t \in Tickers : n.rows[t].trades \in Nat
  BY EngineParts DEF EngineInv, Row
<1> QED BY <1>1, UpFacts

\* The snapshot stays, or is written of an engine that keeps its trading.
LEMMA DiskWrites ==
    ASSUME RecoveryInv, NEW n, EngineInv(n), Keeps(disk, n),
           NEW w \in {disk, SnapshotOf(n), [SnapshotOf(n) EXCEPT !.open = NothingOpen]}
    PROVE  DiskInv(w) /\ Keeps(disk, w) /\ Keeps(w, n)
<1>1. CASE w = disk
  <2>1. DiskInv(disk) /\ \A t \in Tickers : disk.rows[t].trades \in Nat
    BY DEF RecoveryInv, DiskInv, Snapshot, Row
  <2>2. Keeps(disk, disk)
    BY <2>1 DEF Keeps
  <2> QED BY <1>1, <2>1, <2>2
<1>2. CASE w = SnapshotOf(n)
  BY <1>2, SnapshotFits
<1>3. CASE w = [SnapshotOf(n) EXCEPT !.open = NothingOpen]
  BY <1>3, SnapshotFits
<1> QED BY <1>1, <1>2, <1>3

LEMMA DiskStays ==
    ASSUME RecoveryInv
    PROVE  Keeps(disk, disk)
<1>1. \A t \in Tickers : disk.rows[t].trades \in Nat
  BY DEF RecoveryInv, DiskInv, Snapshot, Row
<1> QED BY <1>1 DEF Keeps

\* While no broker call is out, none can misfit.
LEMMA NoCallOutside ==
    ASSUME RecoveryInv, stage \notin {"entries", "exits"}
    PROVE  call = Idle
BY DEF RecoveryInv, CallFits

\* A fresh process on a day without a snapshot.
LEMMA RecoveryInvInit == RecoveryInit => RecoveryInv
<1> SUFFICES ASSUME RecoveryInit PROVE RecoveryInv
  OBVIOUS
<1> DEFINE e == FreshEngine  b == NewBook(Equity)
<1>1. b \in Book /\ Counted(b) /\ b.live = {}
  <2>1. b \in Book
    BY NewBookType, Markers
  <2>2. Counted(b)
    BY EmptyBookTotals DEF Counted
  <2> QED BY <2>1, <2>2 DEF NewBook
<1>2. /\ NothingOpen \in [TicketIds -> Position \cup {NoPos}] /\ OpenIds(NothingOpen) = {}
      /\ NothingMapped \in [Tickers -> TicketIds \cup {NoTicket}]
      /\ \A t \in Tickers : NothingMapped[t] = NoTicket
  BY DEF NothingOpen, NothingMapped, OpenIds
<1>3. [t \in Tickers |-> WarmRow("armed")] \in [Tickers -> Row]
  BY DEF WarmRow, Row, Phases
<1> HIDE DEF b
<1>4. e \in Engine /\ e.book = b /\ e.open = NothingOpen /\ e.active = NothingMapped
  BY <1>1, <1>2, <1>3 DEF FreshEngine, Engine, b
<1> HIDE DEF e
<1>5. EngineInv(e)
  BY <1>1, <1>2, <1>4 DEF EngineInv, Paired, OneEach, Named, Whole
<1>6. DiskInv(SnapshotOf(e)) /\ Keeps(SnapshotOf(e), e)
  BY <1>5, SnapshotFits
<1>7. /\ engine = e /\ disk = SnapshotOf(e) /\ stage = "ready" /\ call = Idle /\ todo = {}
      /\ recent = FALSE /\ restarts = 0
      /\ held = [t \in Tickers |-> NoRow] /\ broker = [t \in Tickers |-> 0]
  BY DEF RecoveryInit, e
<1>8. RecoveryTypeOK
  <2>1. engine \in Engine /\ disk \in Snapshot
    BY <1>4, <1>6, <1>7 DEF DiskInv
  <2>2. stage \in Stages /\ todo \subseteq Tickers /\ call \in Call \cup {Idle} /\ recent \in BOOLEAN
    BY <1>7 DEF Stages
  <2>3. /\ held \in [Tickers -> ExecutorRow \cup {NoRow}] /\ broker \in [Tickers -> Int]
        /\ restarts \in 0..MaxRestarts
    BY <1>7, Markers
  <2> QED BY <2>1, <2>2, <2>3 DEF RecoveryTypeOK
<1> QED BY <1>5, <1>6, <1>7, <1>8 DEF RecoveryInv, CallFits

\* The phantoms are listed.
LEMMA InvFindPhantoms ==
    ASSUME RecoveryInv, FindPhantoms
    PROVE  RecoveryInv' /\ Keeps(disk, disk')
<1>1. call = Idle /\ stage = "ready"
  BY NoCallOutside DEF FindPhantoms
<1>2. RecoveryTypeOK'
  BY DEF RecoveryInv, FindPhantoms, RecoveryTypeOK, Stages, Phantoms
<1>3. \A t \in Tickers \ todo' : engine'.rows[t].inPos => held'[t] # NoRow
  BY DEF FindPhantoms, Phantoms
<1>4. EngineInv(engine') /\ Keeps(disk', engine') /\ DiskInv(disk') /\ Keeps(disk, disk')
  BY <1>1, UpFacts, DiskStays DEF FindPhantoms, RecoveryInv
<1> QED BY <1>1, <1>2, <1>3, <1>4 DEF FindPhantoms, RecoveryInv, CallFits

\* A phantom is cleared; the rows of the others stay as they are.
LEMMA InvClearPhantom ==
    ASSUME RecoveryInv, NEW t \in Tickers, ClearPhantom(t)
    PROVE  RecoveryInv' /\ Keeps(disk, disk')
<1>1. call = Idle /\ stage = "clearing" /\ engine' = Unmirrored(engine, t)
  BY NoCallOutside DEF ClearPhantom
<1>2. /\ EngineInv(engine') /\ Keeps(engine, engine') /\ NoneEnters(engine, engine')
      /\ ~engine'.rows[t].inPos
  BY <1>1, UpFacts, UnmirroredFacts
<1>3. Keeps(disk, engine')
  BY <1>1, <1>2, KeepsOn
<1>4. RecoveryTypeOK'
  BY <1>2 DEF RecoveryInv, ClearPhantom, RecoveryTypeOK, EngineInv
<1>5. ASSUME NEW u \in Tickers \ todo', engine'.rows[u].inPos PROVE held'[u] # NoRow
  <2>1. u # t /\ u \notin todo /\ engine.rows[u].inPos
    BY <1>2, <1>5 DEF ClearPhantom, NoneEnters
  <2> QED BY <1>1, <2>1 DEF RecoveryInv, ClearPhantom
<1>6. Keeps(disk, disk') /\ DiskInv(disk')
  BY DiskStays DEF ClearPhantom, RecoveryInv
<1> QED BY <1>1, <1>2, <1>3, <1>4, <1>5, <1>6 DEF ClearPhantom, RecoveryInv, CallFits

\* What the sweep leaves of the engine.
LEMMA SweepFacts ==
    ASSUME RecoveryInv, Sweep
    PROVE  /\ EngineInv(engine') /\ Keeps(engine, engine') /\ engine'.rows = engine.rows
           /\ EngineInv(Purged(engine)) /\ Keeps(engine, Purged(engine)) /\ Keeps(Purged(engine), engine')
           /\ HeldTickers \subseteq Tracked(engine')
           /\ \A t \in Tickers : held[t] = NoRow => engine'.active[t] = NoTicket
<1> DEFINE p == Purged(engine)  new == {t \in HeldTickers \ Tracked(p) : held[t].qty > 0}
<1>1. stage = "clearing" /\ engine' = WithInjected(p, new)
  BY DEF Sweep, Injected
<1>2. /\ EngineInv(p) /\ Keeps(engine, p) /\ p.rows = engine.rows
      /\ \A t \in Tickers : held[t] = NoRow => p.active[t] = NoTicket
  BY <1>1, UpFacts, PurgedFacts
<1>3. /\ new \in SUBSET Tickers /\ new \cap Tracked(p) = {}
      /\ \A t \in new : held[t] # NoRow /\ held[t].qty > 0
  BY DEF HeldTickers
<1>4. HeldTickers \subseteq Tracked(p) \cup new
  BY DEF RecoveryInv, HeldTickers
<1>5. held \in [Tickers -> ExecutorRow \cup {NoRow}]
  BY DEF RecoveryInv, RecoveryTypeOK
<1>6. \A t \in Tickers : held[t] = NoRow => t \notin new
  BY <1>3
<1> HIDE DEF p, new
<1>7. /\ EngineInv(engine') /\ Keeps(p, engine') /\ engine'.rows = p.rows
      /\ Tracked(p) \cup new \subseteq Tracked(engine')
      /\ \A t \in Tickers \ new : engine'.active[t] = p.active[t]
  BY <1>1, <1>2, <1>3, <1>5, WithInjectedFacts
<1>8. Keeps(engine, engine')
  <2>1. engine.book.killed => engine'.book.killed
    BY <1>2, <1>7 DEF Keeps
  <2>2. \A t \in Tickers : engine.rows[t].trades <= engine'.rows[t].trades
    BY <1>2, <1>7 DEF Keeps
  <2> QED BY <2>1, <2>2 DEF Keeps
<1> QED BY <1>2, <1>4, <1>6, <1>7, <1>8 DEF p

\* The purge and the injection, and what the first of them writes.
LEMMA InvSweep ==
    ASSUME RecoveryInv, Sweep
    PROVE  RecoveryInv' /\ Keeps(disk, disk')
<1>1. stage = "clearing" /\ call = Idle
  BY NoCallOutside DEF Sweep
<1>2. Keeps(disk, engine') /\ Keeps(disk, Purged(engine))
  BY <1>1, SweepFacts, KeepsOn
<1>3. disk' \in {disk, SnapshotOf(Purged(engine)), SnapshotOf(engine')}
  BY DEF Sweep
<1>4. DiskInv(disk') /\ Keeps(disk, disk') /\ Keeps(disk', engine')
  <2>1. CASE disk' \in {disk, SnapshotOf(engine')}
    BY <1>2, <2>1, SweepFacts, DiskWrites
  <2>2. CASE disk' = SnapshotOf(Purged(engine))
    <3>1. DiskInv(disk') /\ Keeps(disk, disk')
      BY <1>2, <2>2, SweepFacts, DiskWrites
    <3>2. disk'.rows = Purged(engine).rows /\ disk'.book.killed = Purged(engine).book.killed
      <4>1. Purged(engine).book \in Book
        BY SweepFacts, EngineParts DEF EngineInv
      <4> QED BY <2>2, <4>1 DEF SnapshotOf, Book
    <3>3. Keeps(Purged(engine), engine')
      BY SweepFacts
    <3> QED BY <3>1, <3>2, <3>3 DEF Keeps
  <2> QED BY <1>3, <2>1, <2>2
<1>5. (recent \/ Injected(Purged(engine)) # engine) \in BOOLEAN
  OBVIOUS
<1>6. RecoveryTypeOK'
  BY <1>4, <1>5, SweepFacts DEF RecoveryInv, Sweep, RecoveryTypeOK, Stages, EngineInv, DiskInv
<1> QED BY <1>1, <1>4, <1>6, SweepFacts DEF Sweep, RecoveryInv, CallFits

\* The dump writes the rows and the book, without the positions.
LEMMA InvDump ==
    ASSUME RecoveryInv, Dump
    PROVE  RecoveryInv' /\ Keeps(disk, disk')
<1>1. stage = "swept" /\ call = Idle /\ engine' = engine
  BY NoCallOutside DEF Dump
<1>2. EngineInv(engine) /\ Keeps(disk, engine)
  BY <1>1, UpFacts
<1>3. DiskInv(disk') /\ Keeps(disk, disk') /\ Keeps(disk', engine)
  BY <1>2, DiskWrites DEF Dump
<1>4. RecoveryTypeOK'
  BY <1>3 DEF RecoveryInv, Dump, RecoveryTypeOK, Stages, DiskInv
<1> QED BY <1>1, <1>2, <1>3, <1>4 DEF Dump, RecoveryInv, CallFits

\* A breakout is admitted.
LEMMA InvCheckEntry ==
    ASSUME RecoveryInv, NEW t \in Tickers, NEW s \in EntrySides, NEW id \in TicketIds,
           CheckEntry(t, s, id)
    PROVE  RecoveryInv' /\ Keeps(disk, disk')
<1> DEFINE pos == [ticker |-> t, side |-> s, shares |-> Lot, risk |-> Lot, halved |-> FALSE, booked |-> 0]
           c == [kind |-> "entry", ticker |-> t, side |-> s, shares |-> Lot, ticket |-> id]
<1>1. stage = "entries" /\ stage' = "entries" /\ disk' = disk /\ held' = held
      /\ call' = c /\ IsUuid(id)
  BY DEF CheckEntry
<1>2. EngineInv(engine) /\ engine \in Engine
  BY <1>1, UpFacts
<1>3. s \in Sides /\ Lot \in Nat /\ Lot > 0
  BY RecoveryConstants
<1>4. pos \in Position /\ pos.shares > 0 /\ pos.ticker = t
  BY <1>3 DEF Position
<1>5. c \in Call
  BY <1>3, Markers DEF Call
<1>6. \A j \in engine.book.live \cup OpenIds(engine.open) : id[1] # j[1]
  BY DEF CheckEntry
<1>7. engine' = [rows |-> [engine.rows EXCEPT ![t] = Moved(@, "in_pos", TRUE)],
                 book |-> Admitted(engine.book, id, Lot, 0),
                 open |-> [engine.open EXCEPT ![id] = pos],
                 active |-> [engine.active EXCEPT ![t] = id]]
  BY DEF CheckEntry
<1>8. engine'.open[id] = pos
  BY <1>2, <1>7, EngineParts
<1> HIDE DEF pos
<1>9. EngineInv(engine') /\ Keeps(engine, engine')
  <2> DEFINE n == engine'
  <2>1. n = [rows |-> [engine.rows EXCEPT ![pos.ticker] = Moved(@, "in_pos", TRUE)],
             book |-> Admitted(engine.book, id, Lot, 0),
             open |-> [engine.open EXCEPT ![id] = pos],
             active |-> [engine.active EXCEPT ![pos.ticker] = id]]
    BY <1>4, <1>7
  <2> HIDE DEF n
  <2>2. EngineInv(n) /\ Keeps(engine, n)
    BY <1>1, <1>2, <1>4, <1>6, <2>1, AdmitFacts
  <2> QED BY <2>2 DEF n
<1>10. Keeps(disk, engine')
  BY <1>1, <1>9, KeepsOn
<1>11. RecoveryTypeOK'
  BY <1>5, <1>9 DEF RecoveryInv, CheckEntry, RecoveryTypeOK, EngineInv
<1>12. CallFits'
  BY <1>1, <1>3, <1>4, <1>8 DEF CallFits
<1> QED BY <1>1, <1>9, <1>10, <1>11, <1>12, DiskStays DEF RecoveryInv

\* The fill of an entry: the executor's row is one of some shares.
LEMMA InvEntryFilled ==
    ASSUME RecoveryInv, EntryFilled
    PROVE  RecoveryInv' /\ Keeps(disk, disk')
<1>1. /\ call \in Call /\ call.kind = "entry" /\ call.shares > 0 /\ call.shares \in Nat
      /\ call.ticker \in Tickers /\ call.side \in Sides
      /\ stage \in {"entries", "exits"}
  BY DEF EntryFilled, RecoveryInv, RecoveryTypeOK, CallFits, Call
<1>2. /\ call' = [call EXCEPT !.kind = "record"] /\ call' \in Call
      /\ call'.kind = "record" /\ call'.shares = call.shares
  BY <1>1 DEF EntryFilled, Call
<1>3. [side |-> call.side, qty |-> call.shares] \in ExecutorRow
  BY <1>1 DEF ExecutorRow
<1>4. /\ held' \in [Tickers -> ExecutorRow \cup {NoRow}]
      /\ \A t \in Tickers : held'[t] # NoRow => held'[t].qty > 0
  BY <1>1, <1>3 DEF EntryFilled, RecoveryInv, RecoveryTypeOK
<1>5. broker' \in [Tickers -> Int]
  BY <1>1 DEF EntryFilled, RecoveryInv, RecoveryTypeOK, Signed
<1>6. /\ UNCHANGED <<stage, todo, engine, recent, disk, restarts>>
  BY DEF EntryFilled
<1>7. RecoveryTypeOK'
  BY <1>2, <1>4, <1>5, <1>6 DEF RecoveryInv, RecoveryTypeOK
<1>8. CallFits'
  BY <1>1, <1>2, <1>6 DEF CallFits
<1> QED BY <1>1, <1>4, <1>6, <1>7, <1>8, DiskStays DEF RecoveryInv

\* A filled entry is written down at once.
LEMMA InvPersistEntry ==
    ASSUME RecoveryInv, PersistEntry
    PROVE  RecoveryInv' /\ Keeps(disk, disk')
<1>1. stage \in {"entries", "exits"} /\ engine' = engine
  BY DEF PersistEntry, RecoveryInv, CallFits
<1>2. EngineInv(engine) /\ Keeps(disk, engine)
  BY <1>1, UpFacts
<1>3. DiskInv(disk') /\ Keeps(disk, disk') /\ Keeps(disk', engine)
  BY <1>2, DiskWrites DEF PersistEntry
<1>4. RecoveryTypeOK'
  BY <1>3 DEF RecoveryInv, PersistEntry, RecoveryTypeOK, DiskInv
<1> QED BY <1>1, <1>2, <1>3, <1>4 DEF PersistEntry, RecoveryInv, CallFits

\* A refused entry is rolled back, also when the operator was quicker.
LEMMA InvEntryRefused ==
    ASSUME RecoveryInv, NEW reached \in BOOLEAN, EntryRefused(reached)
    PROVE  RecoveryInv' /\ Keeps(disk, disk')
<1> DEFINE t == call.ticker  id == call.ticket  n == engine'
<1>1. /\ call \in Call /\ stage \in {"entries", "exits"} /\ t \in Tickers /\ id \in TicketIds
      /\ call.side \in Sides /\ call.shares \in Nat
      /\ engine.open[id] # NoPos => engine.open[id].ticker = t
  BY Markers DEF EntryRefused, RecoveryInv, RecoveryTypeOK, CallFits, Call
<1>2. n = RolledBack(engine, t, id)
  BY DEF EntryRefused
<1> HIDE DEF t, id, n
<1>3. EngineInv(n) /\ Keeps(engine, n)
  <2>1. EngineInv(engine)
    BY <1>1, UpFacts
  <2>2. engine.open[id] # NoPos => engine.open[id].ticker = t
    BY <1>1
  <2> QED BY <1>1, <1>2, <2>1, <2>2, RollbackFacts
<1>4. Keeps(disk, n)
  BY <1>1, <1>3, KeepsOn
<1>5. disk' \in {disk, SnapshotOf(n)} /\ recent' = TRUE
  BY DEF EntryRefused, PersistThrottled, n
<1>6. DiskInv(disk') /\ Keeps(disk, disk') /\ Keeps(disk', n)
  BY <1>3, <1>4, <1>5, DiskWrites
<1>7. /\ call' = Idle /\ UNCHANGED <<stage, todo, held, restarts>>
  BY DEF EntryRefused
<1>8. broker' \in [Tickers -> Int]
  BY <1>1 DEF EntryRefused, RecoveryInv, RecoveryTypeOK, Signed, t
<1>9. RecoveryTypeOK'
  BY <1>3, <1>5, <1>6, <1>7, <1>8 DEF RecoveryInv, RecoveryTypeOK, EngineInv, DiskInv, n
<1> QED BY <1>1, <1>3, <1>6, <1>7, <1>9 DEF RecoveryInv, CallFits, n

\* The exit pass lists the open positions.
LEMMA InvStartExits ==
    ASSUME RecoveryInv, StartExits
    PROVE  RecoveryInv' /\ Keeps(disk, disk')
<1>1. stage = "entries"
  BY DEF StartExits
<1>2. EngineInv(engine) /\ Keeps(disk, engine) /\ Tracked(engine) \subseteq Tickers
  BY <1>1, UpFacts, EngineParts DEF Tracked
<1>3. RecoveryTypeOK'
  BY <1>2 DEF RecoveryInv, StartExits, RecoveryTypeOK, Stages
<1> QED BY <1>1, <1>2, <1>3, DiskStays DEF StartExits, RecoveryInv, CallFits

\* What the exit pass finds for a ticker is a position of it.
LEMMA FoundFacts ==
    ASSUME RecoveryInv, NEW t \in Tickers, Found(t)
    PROVE  /\ stage = "exits" /\ EngineInv(engine) /\ engine \in Engine
           /\ engine.active[t] \in OpenIds(engine.open)
           /\ engine.open[engine.active[t]] \in Position
           /\ engine.open[engine.active[t]].ticker = t
           /\ engine.open[engine.active[t]].shares > 0
<1>1. stage = "exits"
  BY DEF Found
<1>2. EngineInv(engine) /\ engine \in Engine /\ engine.active[t] \in OpenIds(engine.open)
  BY <1>1, UpFacts DEF Found, Paired
<1> QED BY <1>1, <1>2, EngineParts DEF Found, EngineInv, Whole

\* A partial leaves at least a share, and sells at least one.
LEMMA InvOnPartialExit ==
    ASSUME RecoveryInv, NEW t \in Tickers, OnPartialExit(t)
    PROVE  RecoveryInv' /\ Keeps(disk, disk')
<1> DEFINE id == engine.active[t]  pos == engine.open[id]
           c == [kind |-> "partial", ticker |-> t, side |-> pos.side,
                 shares |-> Half(pos.shares), ticket |-> NoTicket]
<1>1. /\ stage = "exits" /\ EngineInv(engine) /\ id \in OpenIds(engine.open) /\ pos \in Position
  BY FoundFacts DEF OnPartialExit
<1>2. /\ pos.shares >= 2 /\ call' = c /\ todo' = todo \ {t}
      /\ engine' = PartlyExited(engine, id)
      /\ UNCHANGED <<stage, recent, disk, held, broker, restarts>>
  BY DEF OnPartialExit
<1>3. pos.side \in Sides /\ pos.shares \in Nat
  BY <1>1 DEF Position
<1>4. Half(pos.shares) \in Nat /\ Half(pos.shares) > 0
  <2> DEFINE x == pos.shares
  <2> HIDE DEF x
  <2>1. x \in Nat /\ x >= 2 => Half(x) \in Nat /\ Half(x) > 0
    BY SMT DEF Half
  <2> QED BY <1>2, <1>3, <2>1 DEF x
<1>5. c \in Call /\ c.shares > 0 /\ c.kind # "entry"
  <2> HIDE DEF pos
  <2> QED BY <1>3, <1>4 DEF Call
<1>6. EngineInv(engine') /\ Keeps(engine, engine')
  BY <1>1, <1>2, PartialFacts
<1> HIDE DEF id, pos, c
<1>7. Keeps(disk, engine')
  BY <1>1, <1>6, KeepsOn
<1>8. RecoveryTypeOK'
  BY <1>2, <1>5, <1>6 DEF RecoveryInv, RecoveryTypeOK, EngineInv
<1>9. CallFits'
  BY <1>1, <1>2, <1>5 DEF CallFits
<1> QED BY <1>1, <1>2, <1>6, <1>7, <1>8, <1>9, DiskStays DEF RecoveryInv

\* A full exit closes at least a share.
LEMMA InvOnExit ==
    ASSUME RecoveryInv, NEW t \in Tickers, NEW leg \in ExitLegs, OnExit(t, leg)
    PROVE  RecoveryInv' /\ Keeps(disk, disk')
<1> DEFINE id == engine.active[t]  pos == engine.open[id]
           c == [kind |-> "exit", ticker |-> t, side |-> Opposite(pos.side),
                 shares |-> pos.shares, ticket |-> NoTicket]
<1>1. /\ stage = "exits" /\ EngineInv(engine) /\ engine \in Engine
      /\ id \in OpenIds(engine.open) /\ pos \in Position /\ pos.ticker = t /\ pos.shares > 0
  BY FoundFacts DEF OnExit
<1>2. /\ call' = c /\ todo' = todo \ {t} /\ engine' = Exited(engine, id, leg + pos.booked)
      /\ UNCHANGED <<stage, recent, disk, held, broker, restarts>>
  BY DEF OnExit
<1>3. leg + pos.booked \in Int
  BY <1>1, Markers DEF Position
<1>4. c \in Call /\ c.shares > 0 /\ c.kind # "entry"
  <2>1. pos.shares \in Nat /\ Opposite(pos.side) \in Sides
    BY <1>1 DEF Position, Opposite, Sides
  <2> HIDE DEF pos
  <2> QED BY <1>1, <2>1 DEF Call
<1> HIDE DEF id, pos, c
<1>5. EngineInv(engine') /\ Keeps(engine, engine')
  BY <1>1, <1>2, <1>3, ExitedFacts
<1>6. Keeps(disk, engine')
  BY <1>1, <1>5, KeepsOn
<1>7. RecoveryTypeOK'
  BY <1>2, <1>4, <1>5 DEF RecoveryInv, RecoveryTypeOK, EngineInv
<1>8. CallFits'
  BY <1>1, <1>2, <1>4 DEF CallFits
<1> QED BY <1>1, <1>2, <1>5, <1>6, <1>7, <1>8, DiskStays DEF RecoveryInv

\* A partial close leaves the executor's row with some shares.
LEMMA InvPartialClosed ==
    ASSUME RecoveryInv, PartialClosed
    PROVE  RecoveryInv' /\ Keeps(disk, disk')
<1> DEFINE t == call.ticker  row == held[t]
           left == [side |-> row.side, qty |-> row.qty - call.shares]
<1>1. /\ call \in Call /\ t \in Tickers /\ call.shares \in Nat /\ stage \in {"entries", "exits"}
      /\ row # NoRow /\ call.shares < row.qty /\ call' = Idle
      /\ UNCHANGED <<stage, todo, engine, recent, disk, restarts>>
  BY DEF PartialClosed, RecoveryInv, RecoveryTypeOK, CallFits, Call
<1>2. row \in ExecutorRow /\ row.side \in Sides /\ row.qty \in Nat
  BY <1>1 DEF RecoveryInv, RecoveryTypeOK, ExecutorRow
<1>3. held' = [held EXCEPT ![t] = left]
  BY DEF PartialClosed
<1>4. broker' = [broker EXCEPT ![t] = broker[t] - Signed(row.side, call.shares)]
  BY DEF PartialClosed
<1> HIDE DEF t, row
<1>5. left \in ExecutorRow /\ left.qty > 0 /\ Signed(row.side, call.shares) \in Int
  BY <1>1, <1>2 DEF ExecutorRow, Signed
<1> HIDE DEF left
<1>6. /\ held' \in [Tickers -> ExecutorRow \cup {NoRow}]
      /\ \A u \in Tickers : held'[u] # NoRow => held'[u].qty > 0
  BY <1>1, <1>3, <1>5 DEF RecoveryInv, RecoveryTypeOK
<1>7. broker' \in [Tickers -> Int]
  BY <1>1, <1>4, <1>5 DEF RecoveryInv, RecoveryTypeOK
<1>8. RecoveryTypeOK'
  BY <1>1, <1>6, <1>7 DEF RecoveryInv, RecoveryTypeOK
<1> QED BY <1>1, <1>6, <1>8, DiskStays DEF RecoveryInv, CallFits

\* A close order that fills leaves a number of shares at the broker and a
\* row of some shares at the executor.
LEMMA InvExitFilled ==
    ASSUME RecoveryInv, ExitFilled
    PROVE  RecoveryInv' /\ Keeps(disk, disk')
<1> DEFINE t == call.ticker  row == [side |-> call.side, qty |-> call.shares]
           rest == AfterClose(t, call.side, call.shares)
<1>1. /\ call \in Call /\ t \in Tickers /\ call.shares \in Nat /\ call.shares > 0
      /\ call.side \in Sides /\ stage \in {"entries", "exits"} /\ call' = Idle
      /\ UNCHANGED <<stage, todo, engine, recent, disk, restarts>>
      /\ held' = [held EXCEPT ![t] = row] /\ broker' = [broker EXCEPT ![t] = rest]
  BY DEF ExitFilled, RecoveryInv, RecoveryTypeOK, CallFits, Call
<1>2. broker[t] \in Int
  BY <1>1 DEF RecoveryInv, RecoveryTypeOK
<1> HIDE DEF t
<1>3. row \in ExecutorRow /\ row.qty > 0 /\ rest \in Int
  BY <1>1, <1>2 DEF ExecutorRow, AfterClose, Signed
<1> HIDE DEF row, rest
<1>4. /\ held' \in [Tickers -> ExecutorRow \cup {NoRow}] /\ broker' \in [Tickers -> Int]
      /\ \A u \in Tickers : held'[u] # NoRow => held'[u].qty > 0
  BY <1>1, <1>3 DEF RecoveryInv, RecoveryTypeOK
<1>5. RecoveryTypeOK'
  BY <1>1, <1>4 DEF RecoveryInv, RecoveryTypeOK
<1> QED BY <1>1, <1>4, <1>5, DiskStays DEF RecoveryInv, CallFits

\* A failed close order changes nothing but that it is over.
LEMMA InvCloseRefused ==
    ASSUME RecoveryInv, CloseRefused
    PROVE  RecoveryInv' /\ Keeps(disk, disk')
<1>1. RecoveryTypeOK'
  BY DEF RecoveryInv, CloseRefused, RecoveryTypeOK
<1> QED BY <1>1, DiskStays DEF CloseRefused, RecoveryInv, CallFits

\* The persist at the end of a cycle.
LEMMA InvEndCycle ==
    ASSUME RecoveryInv, EndCycle
    PROVE  RecoveryInv' /\ Keeps(disk, disk')
<1>1. /\ stage = "exits" /\ stage' = "ready" /\ todo' = {} /\ engine' = engine /\ recent' = TRUE
      /\ disk' \in {disk, SnapshotOf(engine)} /\ call' = Idle
      /\ UNCHANGED <<held, broker, restarts>>
  BY DEF EndCycle, PersistThrottled
<1>2. EngineInv(engine) /\ Keeps(disk, engine)
  BY <1>1, UpFacts
<1>3. DiskInv(disk') /\ Keeps(disk, disk') /\ Keeps(disk', engine)
  BY <1>1, <1>2, DiskWrites
<1>4. RecoveryTypeOK'
  BY <1>1, <1>3 DEF RecoveryInv, RecoveryTypeOK, Stages, DiskInv
<1> QED BY <1>1, <1>2, <1>3, <1>4 DEF RecoveryInv, CallFits

\* The throttle expires.
LEMMA InvThrottleExpires ==
    ASSUME RecoveryInv, ThrottleExpires
    PROVE  RecoveryInv' /\ Keeps(disk, disk')
<1>1. RecoveryTypeOK'
  BY DEF RecoveryInv, ThrottleExpires, RecoveryTypeOK
<1> QED BY <1>1, DiskStays DEF ThrottleExpires, RecoveryInv, CallFits

\* An operator's close, between any two steps of the scan thread.
LEMMA InvOperatorClose ==
    ASSUME RecoveryInv, NEW t \in Tickers, OperatorClose(t)
    PROVE  RecoveryInv' /\ Keeps(disk, disk')
<1>1. /\ stage # "down" /\ held[t] # NoRow /\ engine' = Unmirrored(engine, t)
      /\ broker' = [broker EXCEPT ![t] = broker[t] - Signed(held[t].side, held[t].qty)]
      /\ held' = [held EXCEPT ![t] = NoRow]
      /\ UNCHANGED <<stage, todo, call, recent, disk, restarts>>
  BY DEF OperatorClose
<1>2. EngineInv(engine)
  BY <1>1, UpFacts
<1>3. /\ EngineInv(engine') /\ Keeps(engine, engine') /\ NoneEnters(engine, engine')
      /\ ~engine'.rows[t].inPos
      /\ \A id \in TicketIds : engine'.open[id] \in {NoPos, engine.open[id]}
  BY <1>1, <1>2, UnmirroredFacts
<1>4. Keeps(disk, engine')
  BY <1>1, <1>3, KeepsOn
<1>5. Signed(held[t].side, held[t].qty) \in Int
  <2>1. held[t] \in ExecutorRow
    BY <1>1 DEF RecoveryInv, RecoveryTypeOK
  <2> QED BY <2>1 DEF ExecutorRow, Signed
<1>6. /\ held' \in [Tickers -> ExecutorRow \cup {NoRow}] /\ broker' \in [Tickers -> Int]
      /\ \A u \in Tickers : held'[u] = IF u = t THEN NoRow ELSE held[u]
  BY <1>1, <1>5 DEF RecoveryInv, RecoveryTypeOK
<1>7. RecoveryTypeOK'
  BY <1>1, <1>3, <1>6 DEF RecoveryInv, RecoveryTypeOK, EngineInv
<1>8. CallFits'
  <2>1. CallFits
    BY DEF RecoveryInv
  <2> QED BY <1>1, <1>3, <2>1 DEF CallFits
<1>9. ASSUME stage = "clearing", NEW u \in Tickers \ todo, engine'.rows[u].inPos
      PROVE  held'[u] # NoRow
  <2>1. u # t /\ engine.rows[u].inPos
    BY <1>3, <1>9 DEF NoneEnters
  <2> QED BY <1>6, <1>9, <2>1 DEF RecoveryInv
<1>10. \A u \in Tickers : held'[u] # NoRow => held'[u].qty > 0
  BY <1>6 DEF RecoveryInv
<1> QED BY <1>1, <1>3, <1>4, <1>7, <1>8, <1>9, <1>10, DiskStays DEF RecoveryInv

\* A crash takes the memory, not the files.
LEMMA InvCrash ==
    ASSUME RecoveryInv, Crash
    PROVE  RecoveryInv' /\ Keeps(disk, disk')
<1>1. restarts' \in 0..MaxRestarts
  <2>1. restarts \in 0..MaxRestarts /\ restarts < MaxRestarts /\ restarts' = restarts + 1
    BY DEF RecoveryInv, RecoveryTypeOK, Crash
  <2> QED BY <2>1, Markers
<1>2. RecoveryTypeOK'
  BY <1>1 DEF RecoveryInv, Crash, RecoveryTypeOK, Stages
<1> QED BY <1>2, DiskStays DEF Crash, RecoveryInv, CallFits

\* The executor's rows after its reconcile: of some shares, and only where
\* the broker has something.
LEMMA ReconciledFacts ==
    ASSUME RecoveryInv
    PROVE  /\ Reconciled \in [Tickers -> ExecutorRow \cup {NoRow}]
           /\ \A t \in Tickers : Reconciled[t] # NoRow => Reconciled[t].qty > 0 /\ broker[t] # 0
<1> DEFINE r(t) == IF broker[t] = 0 THEN NoRow
                   ELSE IF held[t] # NoRow THEN held[t]
                   ELSE IF broker[t] > 0 THEN [side |-> "long", qty |-> broker[t]]
                   ELSE [side |-> "short", qty |-> -broker[t]]
<1>1. ASSUME NEW t \in Tickers
      PROVE  /\ r(t) \in ExecutorRow \cup {NoRow}
             /\ r(t) # NoRow => r(t).qty > 0 /\ broker[t] # 0
  <2>1. broker[t] \in Int /\ held[t] \in ExecutorRow \cup {NoRow} /\ (held[t] # NoRow => held[t].qty > 0)
    BY DEF RecoveryInv, RecoveryTypeOK
  <2>2. CASE broker[t] = 0
    BY <2>2
  <2>3. CASE broker[t] # 0 /\ held[t] # NoRow
    BY <2>1, <2>3
  <2>4. CASE broker[t] > 0 /\ held[t] = NoRow
    <3>1. r(t) = [side |-> "long", qty |-> broker[t]] /\ broker[t] \in Nat
      BY <2>1, <2>4
    <3> QED BY <2>4, <3>1 DEF ExecutorRow, Sides
  <2>5. CASE broker[t] < 0 /\ held[t] = NoRow
    <3>1. r(t) = [side |-> "short", qty |-> -broker[t]] /\ -broker[t] \in Nat /\ -broker[t] > 0
      BY <2>1, <2>5
    <3> QED BY <2>5, <3>1 DEF ExecutorRow, Sides
  <2> QED BY <2>1, <2>2, <2>3, <2>4, <2>5
<1>2. Reconciled = [t \in Tickers |-> r(t)]
  BY DEF Reconciled
<1> HIDE DEF r
<1> QED BY <1>1, <1>2

\* A boot: nothing is open that the executor has no row for.
LEMMA InvRestart ==
    ASSUME RecoveryInv, NEW answered \in BOOLEAN, Restart(answered)
    PROVE  RecoveryInv' /\ Keeps(disk, disk')
<1>1. /\ stage' = "ready" /\ engine' = Rehydrated(disk, held') /\ call = Idle
      /\ held' \in {Reconciled, held}
      /\ UNCHANGED <<todo, call, recent, disk, broker, restarts>>
  BY NoCallOutside DEF Restart
<1>2. DiskInv(disk)
  BY DEF RecoveryInv
<1>3. EngineInv(engine') /\ Keeps(disk, engine')
  BY <1>1, <1>2, RehydratedFacts
<1>4. /\ held' \in [Tickers -> ExecutorRow \cup {NoRow}]
      /\ \A t \in Tickers : held'[t] # NoRow => held'[t].qty > 0
  BY <1>1, ReconciledFacts DEF RecoveryInv, RecoveryTypeOK
<1>5. RecoveryTypeOK'
  BY <1>1, <1>3, <1>4 DEF RecoveryInv, RecoveryTypeOK, Stages, EngineInv
<1> QED BY <1>1, <1>2, <1>3, <1>4, <1>5, DiskStays DEF RecoveryInv, CallFits

\* Every step keeps the invariant and what the snapshot has recorded.
LEMMA RecoveryInvNext ==
    ASSUME RecoveryInv, [RecoveryNext]_recoveryVars
    PROVE  RecoveryInv' /\ Keeps(disk, disk')
<1>1. CASE UNCHANGED recoveryVars
  <2>1. /\ RecoveryTypeOK' /\ CallFits' /\ UNCHANGED <<stage, todo, engine, disk, held>>
    BY <1>1 DEF recoveryVars, RecoveryInv, RecoveryTypeOK, CallFits
  <2> QED BY <2>1, DiskStays DEF RecoveryInv
<1>2. CASE RecoveryNext
  BY <1>2, InvFindPhantoms, InvClearPhantom, InvSweep, InvDump, InvStartExits, InvEndCycle,
     InvCheckEntry, InvEntryFilled, InvPersistEntry, InvPartialClosed, InvExitFilled,
     InvCloseRefused, InvEntryRefused, InvOnPartialExit, InvOnExit, InvThrottleExpires,
     InvOperatorClose, InvCrash, InvRestart
     DEF RecoveryNext
<1> QED BY <1>1, <1>2

LEMMA RecoveryInvariant == RecoverySpec => []RecoveryInv
<1>1. RecoveryInit => RecoveryInv
  BY RecoveryInvInit
<1>2. RecoveryInv /\ [RecoveryNext]_recoveryVars => RecoveryInv'
  BY RecoveryInvNext
<1> QED BY <1>1, <1>2, PTL DEF RecoverySpec

-----------------------------------------------------------------------------

\* Memory, snapshot, rows and broker have their types in every state.
THEOREM RecoveryTypeCorrect == RecoverySpec => []RecoveryTypeOK
<1>1. RecoveryInv => RecoveryTypeOK
  BY DEF RecoveryInv
<1> QED BY <1>1, RecoveryInvariant, PTL

\* Tickets, positions and map agree whenever the process is up, for any
\* number of tickers, tickets, crashes and operator closes.
THEOREM TicketsStayBacked == RecoverySpec => []TicketsBacked
<1>1. RecoveryInv => TicketsBacked
  BY DEF RecoveryInv, EngineInv, Paired, TicketsBacked
<1> QED BY <1>1, RecoveryInvariant, PTL

\* The open risk is the sum of the tickets, also after a restore.
THEOREM RestoreCountsOnce == RecoverySpec => []RiskMatchesTickets
<1>1. RecoveryInv => RiskMatchesTickets
  BY DEF RecoveryInv, EngineInv, Counted, RiskMatchesTickets
<1> QED BY <1>1, RecoveryInvariant, PTL

\* A sweep leaves engine and executor with the same tickers.
THEOREM SweepReconciles == RecoverySpec => SweptAgrees
<1>1. ASSUME RecoveryInv, Sweep
      PROVE  /\ HeldTickers \subseteq Tracked(engine')
             /\ \A t \in Tickers \ HeldTickers : ~engine'.rows[t].inPos /\ engine'.active[t] = NoTicket
  <2>1. stage = "clearing" /\ todo = {}
    BY <1>1 DEF Sweep
  <2>2. \A t \in Tickers : engine.rows[t].inPos => held[t] # NoRow
    BY <1>1, <2>1 DEF RecoveryInv
  <2> QED BY <1>1, <2>2, SweepFacts DEF HeldTickers
<1> QED BY <1>1, RecoveryInvariant, PTL DEF RecoverySpec, SweptAgrees

\* A boot that reached the broker restores nothing the broker does not have.
THEOREM BootResurrectsNothing == RecoverySpec => NoGhostAfterBoot
<1>1. ASSUME RecoveryInv, Restart(TRUE)
      PROVE  \A t \in Tracked(engine') : broker[t] # 0
  <2>1. held' = Reconciled /\ engine' = Rehydrated(disk, held') /\ DiskInv(disk)
    BY <1>1 DEF Restart, RecoveryInv
  <2>2. EngineInv(engine') /\ \A t \in Tracked(engine') : held'[t] # NoRow
    BY <2>1, RehydratedFacts
  <2>3. Tracked(engine') \subseteq Tickers
    BY <2>2, EngineParts DEF Tracked, EngineInv
  <2> QED BY <1>1, <2>1, <2>2, <2>3, ReconciledFacts
<1> QED BY <1>1, RecoveryInvariant, PTL DEF RecoverySpec, NoGhostAfterBoot

\* The snapshot never takes back a kill or a trade it has recorded.
THEOREM SnapshotKeepsRecord == RecoverySpec => SnapshotNeverForgets
<1>1. ASSUME RecoveryInv, [RecoveryNext]_recoveryVars
      PROVE  /\ disk.book.killed => disk'.book.killed
             /\ \A t \in Tickers : disk.rows[t].trades <= disk'.rows[t].trades
  BY <1>1, RecoveryInvNext DEF Keeps
<1> QED BY <1>1, RecoveryInvariant, PTL DEF RecoverySpec, SnapshotNeverForgets
=============================================================================
