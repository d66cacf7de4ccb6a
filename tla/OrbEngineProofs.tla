-------------------------- MODULE OrbEngineProofs --------------------------
(***************************************************************************)
(* Theorems about OrbEngine, for every set of portfolios, tickers, sides   *)
(* and tickets and every value of the limits.                              *)
(***************************************************************************)
EXTENDS OrbEngine, OrbBookProofs

\* What a session start leaves is well typed.
LEMMA WarmRowType ==
    ASSUME NEW v \in DayVerdicts, NEW t \in Tickers
    PROVE  WarmRow(v[t]) \in Row /\ v[t] \in {"warmup"} \cup Blocked
<1>1. v \in [Tickers -> {"warmup"} \cup Blocked]
  BY EngineConstants DEF DayVerdicts, Blocked, DayBlocks
<1> QED BY <1>1 DEF WarmRow, Row, Phases, Blocked, DayBlocks

\* Every field and every history variable has its type in every state.
THEOREM TypeCorrect == Spec => []TypeOK
<1>1. Init => TypeOK
  <2> SUFFICES ASSUME NEW v \in DayVerdicts, NEW e \in [Pids -> Equities], FreshDay(v, e),
                      pending = Idle, rollbacks = [p \in Pids |-> [k \in Pairs |-> 0]]
               PROVE  TypeOK
    BY DEF Init
  <2>1. \A p \in Pids : NewBook(e[p]) \in Book
    BY EngineConstants, NewBookType
  <2> QED BY <2>1, WarmRowType DEF FreshDay, TypeOK
<1>2. TypeOK /\ [Next]_vars => TypeOK'
  <2> SUFFICES ASSUME TypeOK, [Next]_vars PROVE TypeOK'
    OBVIOUS
  <2> USE DEF TypeOK
  <2>1. ASSUME NEW v \in DayVerdicts, NEW e \in [Pids -> Equities], StartSession(v, e)
        PROVE  TypeOK'
    <3>1. \A p \in Pids : SessionReset(EquityUpdated(books[p], e[p])) \in Book
      BY EngineConstants, BookMethodTypes
    <3> QED BY <2>1, <3>1, WarmRowType DEF StartSession
  <2>2. ASSUME NEW t \in Tickers, NEW v \in {"armed", "blocked_range", "blocked_or_insufficient"},
               LockAndArm(t, v)
        PROVE  TypeOK'
    <3>1. \A p \in Pids : Moved(rows[p][t], v, rows[p][t].inPos) \in Row
      BY DEF Moved, Row, Phases, Blocked
    <3> QED BY <2>2, <3>1 DEF LockAndArm
  <2>3. ASSUME NEW p \in Pids, NEW t \in Tickers, NEW s \in Sides, NEW id \in TicketIds,
               NEW r \in Risks, NEW n \in Notionals, CheckEntry(p, t, s, id, r, n)
        PROVE  TypeOK'
    <3>1. Admitted(books[p], id, r, n) \in Book
      BY EngineConstants, BookMethodTypes
    <3>2. [ticker |-> t, side |-> s, halved |-> FALSE, booked |-> 0] \in Position
      BY DEF Position
    <3>3. [pid |-> p, pair |-> <<t, s>>, ticket |-> id] \in Admission
      BY EngineConstants DEF Admission
    <3>4. Moved(rows[p][t], "in_pos", TRUE) \in Row
      BY DEF Moved, Row, Phases
    <3> QED BY <2>3, <3>1, <3>2, <3>3, <3>4 DEF CheckEntry
  <2>4. ASSUME ConfirmEntry PROVE TypeOK'
    BY <2>4 DEF ConfirmEntry
  <2>5. ASSUME RollbackAdmit PROVE TypeOK'
    <3>1. pending \in Admission
      BY <2>5 DEF RollbackAdmit
    <3>2. /\ pending.pid \in Pids /\ pending.pair \in Pairs /\ pending.ticket \in TicketIds
          /\ pending.pair[1] \in Tickers
      BY <3>1, EngineConstants DEF Admission
    <3>3. Released(books[pending.pid], pending.ticket) \in Book
      BY <3>2, BookMethodTypes
    <3>4. Moved(rows[pending.pid][pending.pair[1]], "armed", FALSE) \in Row
      BY <3>2 DEF Moved, Row, Phases
    <3>5. rows' \in [Pids -> [Tickers -> Row]] /\ books' \in [Pids -> Book]
      BY <2>5, <3>2, <3>3, <3>4 DEF RollbackAdmit
    <3>6. open' \in [Pids -> [TicketIds -> Position \cup {NoPos}]]
      BY <2>5, <3>2 DEF RollbackAdmit
    <3>7. active' \in [Pids -> [Tickers -> TicketIds \cup {NoTicket}]]
      BY <2>5, <3>2 DEF RollbackAdmit
    <3>8. rollbacks' \in [Pids -> [Pairs -> Nat]]
      BY <2>5, <3>2 DEF RollbackAdmit
    <3> QED BY <2>5, <3>5, <3>6, <3>7, <3>8 DEF RollbackAdmit
  <2>6. ASSUME NEW p \in Pids, NEW k \in Pairs, RollbackAges(p, k) PROVE TypeOK'
    BY <2>6 DEF RollbackAges
  <2>7. ASSUME NEW p \in Pids, NEW t \in Tickers, NEW g \in PartialGains, OnPartialExit(p, t, g)
        PROVE  TypeOK'
    <3>1. active[p][t] \in TicketIds /\ open[p][active[p][t]] \in Position
      BY <2>7 DEF OnPartialExit, Found
    <3>2. HalfReleased(books[p], active[p][t]) \in Book
      BY <3>1, BookMethodTypes
    <3>3. g \in Int
      BY EngineConstants
    <3>4. [ticker |-> t, side |-> open[p][active[p][t]].side, halved |-> TRUE, booked |-> g] \in Position
      BY <3>1, <3>3 DEF Position
    <3> QED BY <2>7, <3>1, <3>2, <3>3, <3>4 DEF OnPartialExit
  <2>8. ASSUME NEW p \in Pids, NEW t \in Tickers, NEW l \in Legs, OnExit(p, t, l)
        PROVE  TypeOK'
    <3> DEFINE id == active[p][t]
               total == l + open[p][id].booked
               exited == [rows[p] EXCEPT ![t] =
                            [phase |-> "closed", inPos |-> FALSE, trades |-> @.trades + 1]]
    <3>1. id \in TicketIds /\ open[p][id] \in Position
      BY <2>8 DEF OnExit, Found
    <3>2. l \in Int /\ total \in Int /\ <<t, open[p][id].side>> \in Pairs
      BY <3>1, EngineConstants DEF Position
    <3>3. Released(books[p], id) \in Book
      BY <3>1, BookMethodTypes
    <3>4. PnlRecorded(Released(books[p], id), total, <<t, open[p][id].side>>) \in Book
      BY <3>2, <3>3, BookMethodTypes
    <3>5. exited \in [Tickers -> Row]
      BY DEF Row, Phases
    <3>6. KillBlocked(exited) \in [Tickers -> Row]
      BY <3>5 DEF KillBlocked, Moved, Row, Phases, Blocked
    <3>7. rows' \in [Pids -> [Tickers -> Row]] /\ books' \in [Pids -> Book]
      BY <2>8, <3>4, <3>5, <3>6 DEF OnExit
    <3>8. open' \in [Pids -> [TicketIds -> Position \cup {NoPos}]]
      BY <2>8, <3>1 DEF OnExit
    <3>9. active' \in [Pids -> [Tickers -> TicketIds \cup {NoTicket}]]
      BY <2>8 DEF OnExit
    <3>10. cash' \in [Pids -> Int]
      BY <2>8, <3>2 DEF OnExit
    <3> QED BY <2>8, <3>7, <3>8, <3>9, <3>10 DEF OnExit
  <2>9. ASSUME NEW p \in Pids, NEW e \in Equities, RefreshEquity(p, e) PROVE TypeOK'
    BY <2>9, EngineConstants, BookMethodTypes DEF RefreshEquity
  <2>10. CASE UNCHANGED vars
    BY <2>10 DEF vars
  <2> QED BY <2>1, <2>2, <2>3, <2>4, <2>5, <2>6, <2>7, <2>8, <2>9, <2>10 DEF Next
<1> QED BY <1>1, <1>2, PTL DEF Spec

-----------------------------------------------------------------------------

\* RecordsAgree is not inductive alone.  A rollback undoes the right position
\* only because the admission in flight is still the one the maps hold, and a
\* lock finds no position only because entries wait for the lock.
PendingHeld ==
    pending # Idle => active[pending.pid][pending.pair[1]] = pending.ticket
UnlockedIdle ==
    \A p \in Pids, t \in Tickers :
        t \notin locked => rows[p][t].phase \in {"warmup"} \cup Blocked
Consistent == RecordsAgree /\ PendingHeld /\ UnlockedIdle

\* What a step does not touch still agrees.
LEMMA SameRecordsAgree ==
    ASSUME NEW p \in Pids, TickersAgree(p), TicketsAgree(p),
           rows'[p] = rows[p], books'[p].live = books[p].live,
           open'[p] = open[p], active'[p] = active[p]
    PROVE  TickersAgree(p)' /\ TicketsAgree(p)'
BY DEF TickersAgree, TicketsAgree

\* The keys of the dict of tickets after each method of the book.
LEMMA LiveTickets ==
    ASSUME NEW b \in Book, NEW id \in TicketIds
    PROVE  /\ \A r \in Nat, n \in Nat : Admitted(b, id, r, n).live = b.live \cup {id}
           /\ Released(b, id).live = b.live \ {id}
           /\ HalfReleased(b, id).live = b.live
           /\ \A e \in Nat : EquityUpdated(b, e).live = b.live
           /\ \A a \in Int, k \in Pairs : PnlRecorded(b, a, k).live = b.live
BY DEF Admitted, Released, HalfReleased, EquityUpdated, PnlRecorded, Book

\* A fresh day has no position, no ticket and nothing pending.
LEMMA ConsistentInit == Init => Consistent
<1> SUFFICES ASSUME NEW v \in DayVerdicts, NEW e \in [Pids -> Equities], FreshDay(v, e),
                    pending = Idle
             PROVE  Consistent
  BY DEF Init
<1>1. ASSUME NEW p \in Pids, NEW t \in Tickers
      PROVE  /\ rows[p][t].phase \in {"warmup"} \cup Blocked
             /\ rows[p][t].phase # "in_pos" /\ rows[p][t].inPos = FALSE
  BY WarmRowType DEF FreshDay, WarmRow, Blocked, DayBlocks
<1>2. RecordsAgree
  BY <1>1 DEF FreshDay, RecordsAgree, TickersAgree, TicketsAgree, NewBook
<1> QED BY <1>1, <1>2 DEF Consistent, PendingHeld, UnlockedIdle

\* A new session forgets all four records of every trade together.
LEMMA ConsistentStartSession ==
    ASSUME NEW v \in DayVerdicts, NEW e \in [Pids -> Equities], StartSession(v, e)
    PROVE  Consistent'
<1>1. ASSUME NEW p \in Pids, NEW t \in Tickers
      PROVE  /\ rows'[p][t].phase \in {"warmup"} \cup Blocked
             /\ rows'[p][t].phase # "in_pos" /\ rows'[p][t].inPos = FALSE
  BY WarmRowType DEF StartSession, WarmRow, Blocked, DayBlocks
<1>2. RecordsAgree'
  BY <1>1 DEF StartSession, RecordsAgree, TickersAgree, TicketsAgree, NewBook, SessionReset
<1> QED BY <1>1, <1>2 DEF Consistent, PendingHeld, UnlockedIdle, StartSession

\* The lock of a window only meets rows that are in no position.
LEMMA ConsistentLockAndArm ==
    ASSUME TypeOK, Consistent,
           NEW t \in Tickers, NEW v \in {"armed", "blocked_range", "blocked_or_insufficient"},
           LockAndArm(t, v)
    PROVE  Consistent'
<1> USE DEF TypeOK
<1>1. ASSUME NEW p \in Pids, NEW u \in Tickers
      PROVE  /\ u # t => rows'[p][u] = rows[p][u]
             /\ rows'[p][u].inPos = rows[p][u].inPos
             /\ rows'[p][u].inPos <=> rows'[p][u].phase = "in_pos"
  <2>1. rows[p][u].inPos <=> rows[p][u].phase = "in_pos"
    BY DEF Consistent, RecordsAgree, TickersAgree
  <2>2. rows[p][t].phase \in {"warmup"} \cup Blocked /\ (rows[p][t].inPos <=> rows[p][t].phase = "in_pos")
    BY DEF LockAndArm, Consistent, UnlockedIdle, RecordsAgree, TickersAgree
  <2>3. rows[p][t].phase # "in_pos" /\ v # "in_pos"
    BY <2>2 DEF Blocked, DayBlocks
  <2> QED BY <2>1, <2>2, <2>3 DEF LockAndArm, Moved
<1>2. RecordsAgree'
  BY <1>1 DEF LockAndArm, Consistent, RecordsAgree, TickersAgree, TicketsAgree
<1>3. UnlockedIdle'
  BY <1>1 DEF LockAndArm, Consistent, UnlockedIdle
<1> QED BY <1>2, <1>3 DEF LockAndArm, Consistent, PendingHeld

\* An admission writes row, ticket, position and map together.
LEMMA ConsistentCheckEntry ==
    ASSUME TypeOK, Consistent,
           NEW p \in Pids, NEW t \in Tickers, NEW s \in Sides, NEW id \in TicketIds,
           NEW r \in Risks, NEW n \in Notionals, CheckEntry(p, t, s, id, r, n)
    PROVE  Consistent'
<1> USE EngineConstants DEF TypeOK, Consistent
<1>1. active[p][t] = NoTicket /\ open[p][id] = NoPos
  BY DEF CheckEntry, CanEnter, RecordsAgree, TickersAgree, Fresh
<1>2. books'[p].live = books[p].live \cup {id}
  BY LiveTickets DEF CheckEntry
<1>3. [ticker |-> t, side |-> s, halved |-> FALSE, booked |-> 0] # NoPos
  <2>1. [ticker |-> t, side |-> s, halved |-> FALSE, booked |-> 0] \in Position
    BY DEF Position
  <2> QED BY <2>1
<1>4. TickersAgree(p)'
  BY <1>1, <1>3 DEF CheckEntry, RecordsAgree, TickersAgree, TicketsAgree, Moved, Fresh
<1>5. TicketsAgree(p)'
  BY <1>1, <1>2, <1>3 DEF CheckEntry, RecordsAgree, TicketsAgree, TickersAgree, Position
<1>6. ASSUME NEW q \in Pids, q # p PROVE TickersAgree(q)' /\ TicketsAgree(q)'
  BY <1>6, SameRecordsAgree DEF CheckEntry, RecordsAgree
<1>7. UnlockedIdle'
  BY DEF CheckEntry, UnlockedIdle, Moved
<1>8. PendingHeld'
  <2>1. active'[p][t] = id
    BY DEF CheckEntry
  <2> QED BY <2>1 DEF CheckEntry, PendingHeld
<1> QED BY <1>4, <1>5, <1>6, <1>7, <1>8 DEF RecordsAgree

\* A rollback takes back exactly what the pending admission wrote.
LEMMA ConsistentRollbackAdmit ==
    ASSUME TypeOK, Consistent, RollbackAdmit
    PROVE  Consistent'
<1> USE EngineConstants DEF TypeOK, Consistent
<1>1. PICK p \in Pids, t \in Tickers, id \in TicketIds :
          p = pending.pid /\ t = pending.pair[1] /\ id = pending.ticket
  BY DEF RollbackAdmit, Admission
<1>2. active[p][t] = id /\ rows[p][t].inPos /\ open[p][id] # NoPos /\ open[p][id].ticker = t
  BY <1>1 DEF RollbackAdmit, PendingHeld, RecordsAgree, TickersAgree
<1>3. /\ rows' = [rows EXCEPT ![p][t] = Moved(@, "armed", FALSE)]
      /\ open' = [open EXCEPT ![p][id] = NoPos]
      /\ active' = [active EXCEPT ![p][t] = NoTicket]
  BY <1>1, <1>2 DEF RollbackAdmit
<1>4. books'[p].live = books[p].live \ {id} /\ \A q \in Pids : q # p => books'[q] = books[q]
  BY <1>1, LiveTickets DEF RollbackAdmit
<1>5. TickersAgree(p)'
  <2> SUFFICES ASSUME NEW u \in Tickers
               PROVE  /\ rows'[p][u].inPos <=> active'[p][u] # NoTicket
                      /\ rows'[p][u].inPos <=> rows'[p][u].phase = "in_pos"
                      /\ active'[p][u] # NoTicket =>
                            /\ open'[p][active'[p][u]] # NoPos
                            /\ open'[p][active'[p][u]].ticker = u
    BY DEF TickersAgree
  <2>1. CASE u = t
    BY <1>1, <1>3, <2>1 DEF Moved
  <2>2. CASE u # t
    <3>1. rows'[p][u] = rows[p][u] /\ active'[p][u] = active[p][u]
      BY <1>1, <1>3, <2>2
    <3>2. ASSUME active[p][u] # NoTicket
          PROVE  open'[p][active[p][u]] = open[p][active[p][u]]
      <4>1. active[p][u] \in TicketIds /\ open[p][active[p][u]].ticker = u
        BY <1>1, <3>2 DEF RecordsAgree, TickersAgree
      <4>2. active[p][u] # id
        BY <1>2, <2>2, <4>1
      <4> QED BY <1>1, <1>3, <4>1, <4>2
    <3> QED BY <1>1, <3>1, <3>2 DEF RecordsAgree, TickersAgree
  <2> QED BY <2>1, <2>2
<1>6. TicketsAgree(p)'
  <2> SUFFICES ASSUME NEW k \in TicketIds
               PROVE  /\ open'[p][k] # NoPos <=> k \in books'[p].live
                      /\ open'[p][k] # NoPos => active'[p][open'[p][k].ticker] = k
    BY DEF TicketsAgree
  <2>1. CASE k = id
    BY <1>1, <1>3, <1>4, <2>1
  <2>2. CASE k # id
    <3>1. open'[p][k] = open[p][k] /\ (k \in books'[p].live <=> k \in books[p].live)
      BY <1>1, <1>3, <1>4, <2>2
    <3>2. ASSUME open[p][k] # NoPos PROVE active'[p][open[p][k].ticker] = k
      <4>1. active[p][open[p][k].ticker] = k /\ open[p][k].ticker \in Tickers
        BY <1>1, <3>2 DEF RecordsAgree, TicketsAgree, Position
      <4>2. open[p][k].ticker # t
        BY <1>2, <2>2, <4>1
      <4> QED BY <1>1, <1>3, <4>1, <4>2
    <3> QED BY <1>1, <3>1, <3>2 DEF RecordsAgree, TicketsAgree
  <2> QED BY <2>1, <2>2
<1>7. ASSUME NEW q \in Pids, q # p PROVE TickersAgree(q)' /\ TicketsAgree(q)'
  <2>1. rows'[q] = rows[q] /\ open'[q] = open[q] /\ active'[q] = active[q] /\ books'[q] = books[q]
    BY <1>1, <1>3, <1>4, <1>7
  <2> QED BY <2>1, SameRecordsAgree DEF RecordsAgree
<1>8. UnlockedIdle'
  <2>1. t \in locked
    <3>1. rows[p][t].phase = "in_pos"
      BY <1>1, <1>2 DEF RecordsAgree, TickersAgree
    <3> QED BY <1>1, <3>1 DEF UnlockedIdle, Blocked, DayBlocks
  <2>2. locked' = locked
    BY DEF RollbackAdmit
  <2>3. \A q \in Pids, u \in Tickers : u # t => rows'[q][u] = rows[q][u]
    BY <1>1, <1>3
  <2> QED BY <2>1, <2>2, <2>3 DEF UnlockedIdle
<1>9. PendingHeld'
  BY DEF RollbackAdmit, PendingHeld
<1> QED BY <1>5, <1>6, <1>7, <1>8, <1>9 DEF RecordsAgree

\* A partial leaves position, ticket and map where they are.
LEMMA ConsistentOnPartialExit ==
    ASSUME TypeOK, Consistent,
           NEW p \in Pids, NEW t \in Tickers, NEW g \in PartialGains, OnPartialExit(p, t, g)
    PROVE  Consistent'
<1> USE EngineConstants DEF TypeOK, Consistent
<1> DEFINE id == active[p][t]
<1>1. id \in TicketIds /\ open[p][id] # NoPos /\ open[p][id].ticker = t
  BY DEF OnPartialExit, Found
<1>2. open' = [open EXCEPT ![p][id] = [ticker |-> t, side |-> open[p][id].side, halved |-> TRUE, booked |-> g]]
  BY DEF OnPartialExit
<1>3. books'[p].live = books[p].live /\ \A q \in Pids : q # p => books'[q] = books[q]
  BY <1>1, LiveTickets DEF OnPartialExit
<1>4. open'[p][id] # NoPos
  <2>1. open[p][id].side \in Sides /\ g \in Int
    BY <1>1 DEF Position
  <2>2. [ticker |-> t, side |-> open[p][id].side, halved |-> TRUE, booked |-> g] \in Position
    BY <2>1 DEF Position
  <2>3. open'[p][id] = [ticker |-> t, side |-> open[p][id].side, halved |-> TRUE, booked |-> g]
    BY <1>1, <1>2
  <2> QED BY <2>2, <2>3
<1>5. /\ open'[p][id].ticker = t
      /\ \A k \in TicketIds : k # id => open'[p][k] = open[p][k]
      /\ \A q \in Pids : q # p => open'[q] = open[q]
  BY <1>1, <1>2
<1>6. UNCHANGED <<locked, rows, active, pending>>
  BY DEF OnPartialExit
<1> HIDE DEF id
<1>7. \A k \in TicketIds :
        /\ open'[p][k] # NoPos <=> open[p][k] # NoPos
        /\ open'[p][k].ticker = open[p][k].ticker
  BY <1>1, <1>4, <1>5
<1>8. TickersAgree(p)'
  <2>1. \A u \in Tickers : active[p][u] # NoTicket => active[p][u] \in TicketIds
    OBVIOUS
  <2>2. TickersAgree(p) /\ rows'[p] = rows[p] /\ active'[p] = active[p]
    BY <1>6 DEF RecordsAgree
  <2> HIDE DEF TypeOK, Consistent
  <2> QED BY <1>7, <2>1, <2>2 DEF TickersAgree
<1>9. TicketsAgree(p)'
  <2>1. TicketsAgree(p) /\ active'[p] = active[p]
    BY <1>6 DEF RecordsAgree
  <2> HIDE DEF TypeOK, Consistent
  <2> QED BY <1>3, <1>7, <2>1 DEF TicketsAgree
<1>10. ASSUME NEW q \in Pids, q # p PROVE TickersAgree(q)' /\ TicketsAgree(q)'
  BY <1>3, <1>5, <1>6, <1>10, SameRecordsAgree DEF RecordsAgree
<1> QED BY <1>6, <1>8, <1>9, <1>10 DEF RecordsAgree, UnlockedIdle, PendingHeld

\* An exit clears the four records of the position it found, and only those.
LEMMA ConsistentOnExit ==
    ASSUME TypeOK, Consistent,
           NEW p \in Pids, NEW t \in Tickers, NEW l \in Legs, OnExit(p, t, l)
    PROVE  Consistent'
<1> USE EngineConstants DEF TypeOK, Consistent
<1> DEFINE id == active[p][t]
           exited == [rows[p] EXCEPT ![t] =
                        [phase |-> "closed", inPos |-> FALSE, trades |-> @.trades + 1]]
<1>1. id \in TicketIds /\ open[p][id] # NoPos /\ open[p][id].ticker = t /\ rows[p][t].inPos
  BY DEF OnExit, Found, RecordsAgree, TickersAgree
<1>2. /\ open' = [open EXCEPT ![p][id] = NoPos]
      /\ active' = [active EXCEPT ![p][t] = NoTicket]
      /\ pending = Idle /\ UNCHANGED <<locked, pending>>
      /\ \A q \in Pids : q # p => rows'[q] = rows[q] /\ books'[q] = books[q]
  BY DEF OnExit, Found
<1>3. books'[p].live = books[p].live \ {id}
  <2>1. l + open[p][id].booked \in Int /\ <<t, open[p][id].side>> \in Pairs
    BY <1>1 DEF Position
  <2>2. Released(books[p], id) \in Book
    BY <1>1, BookMethodTypes
  <2> DEFINE b == Released(books[p], id)
             a == l + open[p][id].booked
             k == <<t, open[p][id].side>>
  <2>3. b.live = books[p].live \ {id}
    BY <1>1, LiveTickets
  <2>4. books'[p] = PnlRecorded(b, a, k)
    BY DEF OnExit
  <2>5. a \in Int /\ k \in Pairs /\ b \in Book
    BY <2>1, <2>2
  <2> HIDE DEF a, b, k
  <2>6. PnlRecorded(b, a, k).live = b.live
    BY <1>1, <2>5, LiveTickets
  <2> QED BY <2>3, <2>4, <2>6
<1>4. rows'[p] = exited \/ rows'[p] = KillBlocked(exited)
  BY DEF OnExit
<1>5. ASSUME NEW u \in Tickers
      PROVE  /\ rows'[p][u].inPos <=> u # t /\ rows[p][u].inPos
             /\ rows'[p][u].inPos <=> rows'[p][u].phase = "in_pos"
             /\ u \notin locked => rows'[p][u].phase \in {"warmup"} \cup Blocked
  <2>1. /\ rows[p][u].inPos <=> rows[p][u].phase = "in_pos"
        /\ u \notin locked => rows[p][u].phase \in {"warmup"} \cup Blocked
        /\ t \in locked
    BY <1>1 DEF RecordsAgree, TickersAgree, UnlockedIdle, Blocked, DayBlocks
  <2>2. exited[u] = IF u = t THEN [phase |-> "closed", inPos |-> FALSE, trades |-> rows[p][t].trades + 1]
                    ELSE rows[p][u]
    OBVIOUS
  <2>3. CASE rows'[p] = exited
    BY <2>1, <2>2, <2>3
  <2>4. CASE rows'[p] = KillBlocked(exited)
    <3>1. rows'[p][u] = IF exited[u].phase \in Blocked \cup {"in_pos"} THEN exited[u]
                        ELSE Moved(exited[u], "blocked_daily_kill", exited[u].inPos)
      BY <2>4 DEF KillBlocked
    <3> QED BY <2>1, <2>2, <3>1 DEF Moved, Blocked, DayBlocks
  <2> QED BY <1>4, <2>3, <2>4
<1> HIDE DEF id, exited
<1>6. TickersAgree(p)'
  BY <1>1, <1>2, <1>5 DEF RecordsAgree, TickersAgree, TicketsAgree
<1>7. TicketsAgree(p)'
  <2> SUFFICES ASSUME NEW k \in TicketIds
               PROVE  /\ open'[p][k] # NoPos <=> k \in books'[p].live
                      /\ open'[p][k] # NoPos => active'[p][open'[p][k].ticker] = k
    BY DEF TicketsAgree
  <2>1. CASE k = id
    BY <1>1, <1>2, <1>3, <2>1
  <2>2. CASE k # id
    <3>1. open'[p][k] = open[p][k] /\ (k \in books'[p].live <=> k \in books[p].live)
      BY <1>1, <1>2, <1>3, <2>2
    <3>2. ASSUME open[p][k] # NoPos PROVE active'[p][open[p][k].ticker] = k
      <4>1. active[p][open[p][k].ticker] = k /\ open[p][k].ticker \in Tickers
        BY <1>1, <3>2 DEF RecordsAgree, TicketsAgree, Position
      <4>2. open[p][k].ticker # t
        BY <1>1, <2>2, <4>1 DEF id
      <4> QED BY <1>1, <1>2, <4>1, <4>2
    <3> QED BY <1>1, <3>1, <3>2 DEF RecordsAgree, TicketsAgree
  <2> QED BY <2>1, <2>2
<1>8. ASSUME NEW q \in Pids, q # p PROVE TickersAgree(q)' /\ TicketsAgree(q)'
  <2>1. rows'[q] = rows[q] /\ open'[q] = open[q] /\ active'[q] = active[q] /\ books'[q] = books[q]
    BY <1>1, <1>2, <1>8
  <2> QED BY <2>1, SameRecordsAgree DEF RecordsAgree
<1>9. UnlockedIdle'
  BY <1>2, <1>5 DEF UnlockedIdle
<1> QED BY <1>2, <1>6, <1>7, <1>8, <1>9 DEF RecordsAgree, PendingHeld

\* Every action keeps the inductive invariant.
LEMMA ConsistentStep == TypeOK /\ Consistent /\ [Next]_vars => Consistent'
<1> SUFFICES ASSUME TypeOK, Consistent, [Next]_vars PROVE Consistent'
  OBVIOUS
<1>1. ASSUME ConfirmEntry \/ (\E p \in Pids, k \in Pairs : RollbackAges(p, k)) \/ UNCHANGED vars
      PROVE  Consistent'
  BY <1>1 DEF ConfirmEntry, RollbackAges, vars, Consistent, RecordsAgree, TickersAgree,
              TicketsAgree, PendingHeld, UnlockedIdle
<1>2. ASSUME NEW p \in Pids, NEW e \in Equities, RefreshEquity(p, e) PROVE Consistent'
  <2>1. UNCHANGED <<locked, rows, open, active, pending>>
    BY <1>2 DEF RefreshEquity
  <2>2. \A q \in Pids : books'[q].live = books[q].live
    BY <1>2 DEF RefreshEquity, EquityUpdated, TypeOK, Book
  <2> QED BY <2>1, <2>2 DEF Consistent, RecordsAgree, TickersAgree, TicketsAgree, PendingHeld,
                            UnlockedIdle
<1> QED BY <1>1, <1>2, ConsistentStartSession, ConsistentLockAndArm, ConsistentCheckEntry,
           ConsistentRollbackAdmit, ConsistentOnPartialExit, ConsistentOnExit DEF Next

\* Row, ticker map, adapter and book agree in every portfolio, in every
\* state: through admissions rolled back, partials, exits, kills and new
\* sessions.
THEOREM RecordsAlwaysAgree == Spec => []RecordsAgree
<1>1. Consistent => RecordsAgree
  BY DEF Consistent
<1> QED BY <1>1, ConsistentInit, ConsistentStep, TypeCorrect, PTL DEF Spec

-----------------------------------------------------------------------------

\* The row of the position that exits, and every other row.
LEMMA ExitRows ==
    ASSUME TypeOK, Consistent,
           NEW p \in Pids, NEW t \in Tickers, NEW l \in Legs, OnExit(p, t, l),
           NEW q \in Pids, NEW u \in Tickers, NEW halt \in BOOLEAN,
           halt = KillJustTriggered(Released(books[p], active[p][t]),
                                    l + open[p][active[p][t]].booked)
    PROVE  /\ rows[p][t].inPos /\ rows[p][t].phase = "in_pos"
           /\ ~rows'[p][t].inPos /\ rows'[p][t].trades = rows[p][t].trades + 1
           /\ rows'[p][t].phase \in Blocked <=> halt
           /\ q # p \/ u # t =>
                /\ rows'[q][u].inPos = rows[q][u].inPos
                /\ rows'[q][u].trades = rows[q][u].trades
                /\ rows[q][u].inPos \/ rows[q][u].phase \in Blocked \/ q # p \/ ~halt
                     => rows'[q][u] = rows[q][u]
                /\ q = p /\ halt /\ ~rows[q][u].inPos => rows'[q][u].phase \in Blocked
<1> DEFINE exited == [rows[p] EXCEPT ![t] =
                        [phase |-> "closed", inPos |-> FALSE, trades |-> @.trades + 1]]
<1>1. rows[p][t].inPos /\ rows[p][t].phase = "in_pos"
  BY DEF TypeOK, Consistent, OnExit, Found, RecordsAgree, TickersAgree
<1>2. /\ q # p => rows'[q] = rows[q]
      /\ ~halt => rows'[p] = exited
      /\ halt => rows'[p] = KillBlocked(exited)
  BY DEF TypeOK, OnExit
<1>3. /\ rows[q][u].inPos <=> rows[q][u].phase = "in_pos"
      /\ rows[q] \in [Tickers -> Row] /\ rows[p] \in [Tickers -> Row]
  BY DEF TypeOK, Consistent, RecordsAgree, TickersAgree
<1>4. /\ exited[t] = [phase |-> "closed", inPos |-> FALSE, trades |-> rows[p][t].trades + 1]
      /\ u # t => exited[u] = rows[p][u]
  BY <1>3
<1>5. \A w \in Tickers : KillBlocked(exited)[w] =
          IF exited[w].phase \in Blocked \cup {"in_pos"} THEN exited[w]
          ELSE Moved(exited[w], "blocked_daily_kill", exited[w].inPos)
  BY DEF KillBlocked
<1> HIDE DEF exited
<1>6. ~rows'[p][t].inPos /\ rows'[p][t].trades = rows[p][t].trades + 1
  <2>1. CASE ~halt
    BY <1>2, <1>4, <2>1
  <2>2. CASE halt
    <3>1. exited[t].phase \notin Blocked \cup {"in_pos"}
      BY <1>4 DEF Blocked, DayBlocks
    <3>2. rows'[p][t] = Moved(exited[t], "blocked_daily_kill", exited[t].inPos)
      BY <1>2, <1>5, <2>2, <3>1
    <3> QED BY <1>4, <3>2 DEF Moved
  <2> QED BY <2>1, <2>2
<1>7. rows'[p][t].phase \in Blocked <=> halt
  <2>1. exited[t].phase \notin Blocked \cup {"in_pos"}
    BY <1>4 DEF Blocked, DayBlocks
  <2>2. CASE ~halt
    BY <1>2, <2>1, <2>2
  <2>3. CASE halt
    <3>1. rows'[p][t] = Moved(exited[t], "blocked_daily_kill", exited[t].inPos)
      BY <1>2, <1>5, <2>1, <2>3
    <3> QED BY <2>3, <3>1 DEF Moved, Blocked
  <2> QED BY <2>2, <2>3
<1>8. ASSUME q = p, u # t
      PROVE  /\ rows'[q][u].inPos = rows[q][u].inPos
             /\ rows'[q][u].trades = rows[q][u].trades
             /\ rows[q][u].inPos \/ rows[q][u].phase \in Blocked \/ ~halt => rows'[q][u] = rows[q][u]
             /\ halt /\ ~rows[q][u].inPos => rows'[q][u].phase \in Blocked
  <2>1. CASE ~halt
    BY <1>2, <1>4, <1>8, <2>1
  <2>2. CASE halt
    <3>1. rows'[q][u] = IF rows[q][u].phase \in Blocked \cup {"in_pos"} THEN rows[q][u]
                        ELSE Moved(rows[q][u], "blocked_daily_kill", rows[q][u].inPos)
      BY <1>2, <1>4, <1>5, <1>8, <2>2
    <3>2. rows[q][u].phase = "in_pos" => rows'[q][u] = rows[q][u]
      BY <3>1
    <3>3. rows[q][u].phase # "in_pos" => rows'[q][u].phase \in Blocked
      BY <3>1 DEF Moved, Blocked
    <3>4. rows'[q][u].inPos = rows[q][u].inPos /\ rows'[q][u].trades = rows[q][u].trades
      BY <3>1 DEF Moved
    <3> QED BY <1>3, <2>2, <3>1, <3>2, <3>3, <3>4
  <2> QED BY <2>1, <2>2
<1>9. q # p => rows'[q][u] = rows[q][u]
  BY <1>2
<1> QED BY <1>1, <1>6, <1>7, <1>8, <1>9

\* The book of the portfolio that exits is killed afterwards if it was or if
\* this exit crosses the limit; no other book's latch moves.
LEMMA ExitKill ==
    ASSUME TypeOK, NEW p \in Pids, NEW t \in Tickers, NEW l \in Legs, OnExit(p, t, l)
    PROVE  LET halt == KillJustTriggered(Released(books[p], active[p][t]),
                                         l + open[p][active[p][t]].booked)
           IN /\ books'[p].killed = (books[p].killed \/ halt)
              /\ \A q \in Pids : q # p => books'[q] = books[q]
<1> DEFINE b == Released(books[p], active[p][t])
           a == l + open[p][active[p][t]].booked
           k == <<t, open[p][active[p][t]].side>>
<1>1. active[p][t] \in TicketIds /\ books[p] \in Book
  BY DEF TypeOK, OnExit, Found
<1>2. b \in Book /\ b.killed = books[p].killed
  BY <1>1, BookMethodTypes DEF Released, Book
<1>3. books' = [books EXCEPT ![p] = PnlRecorded(b, a, k)]
  BY DEF OnExit
<1> HIDE DEF a, b, k
<1>4. PnlRecorded(b, a, k).killed = (b.killed \/ PastKill(b, b.pnl + a))
  BY <1>2 DEF PnlRecorded, Book
<1>5. books'[p].killed = (b.killed \/ PastKill(b, b.pnl + a)) /\ \A q \in Pids : q # p => books'[q] = books[q]
  BY <1>3, <1>4 DEF TypeOK
<1> QED BY <1>2, <1>5 DEF KillJustTriggered, a, b

-----------------------------------------------------------------------------

\* Only an admission puts a row in position.
LEMMA OnlyCheckEntryEnters ==
    ASSUME TypeOK, Consistent, [Next]_vars, NEW q \in Pids, NEW u \in Tickers,
           rows'[q][u].inPos, ~rows[q][u].inPos
    PROVE  /\ CanEnter(rows[q][u]) /\ ~books[q].killed
           /\ rows'[q][u].trades = rows[q][u].trades
<1>1. ASSUME NEW v \in DayVerdicts, NEW e \in [Pids -> Equities], StartSession(v, e) PROVE FALSE
  BY <1>1 DEF TypeOK, StartSession, WarmRow
<1>2. ASSUME NEW t \in Tickers, NEW v \in {"armed", "blocked_range", "blocked_or_insufficient"},
             LockAndArm(t, v)
      PROVE  FALSE
  BY <1>2 DEF TypeOK, LockAndArm, Moved
<1>3. ASSUME NEW p \in Pids, NEW t \in Tickers, NEW s \in Sides, NEW id \in TicketIds,
             NEW r \in Risks, NEW n \in Notionals, CheckEntry(p, t, s, id, r, n)
      PROVE  /\ CanEnter(rows[q][u]) /\ ~books[q].killed
             /\ rows'[q][u].trades = rows[q][u].trades
  <2>1. q = p /\ u = t
    BY <1>3 DEF TypeOK, CheckEntry
  <2> QED BY <1>3, <2>1 DEF TypeOK, CheckEntry, CanAdmit, Moved
<1>4. ASSUME NEW p \in Pids, NEW t \in Tickers, NEW l \in Legs, OnExit(p, t, l) PROVE FALSE
  <2>1. PICK halt \in BOOLEAN : halt = KillJustTriggered(Released(books[p], active[p][t]),
                                                         l + open[p][active[p][t]].booked)
    BY DEF KillJustTriggered
  <2>2. ~rows'[p][t].inPos /\ (q # p \/ u # t => rows'[q][u].inPos = rows[q][u].inPos)
    BY <1>4, <2>1, ExitRows
  <2> QED BY <2>2
<1>5. ASSUME RollbackAdmit PROVE FALSE
  <2>1. pending.pid \in Pids /\ pending.pair[1] \in Tickers
    BY <1>5, EngineConstants DEF TypeOK, RollbackAdmit, Admission
  <2> QED BY <1>5, <2>1 DEF TypeOK, RollbackAdmit, Moved
<1>6. ASSUME UNCHANGED rows PROVE FALSE
  BY <1>6
<1> QED BY <1>1, <1>2, <1>3, <1>4, <1>5, <1>6
        DEF Next, ConfirmEntry, RollbackAges, OnPartialExit, RefreshEquity, vars

\* A killed portfolio opens nothing before the next session, whatever its
\* rows say.
THEOREM KilledPortfoliosStayOut == Spec => NoEntryAfterKill
<1>1. TypeOK /\ Consistent /\ [Next]_vars =>
        [ \A p \in Pids : books[p].killed /\ books'[p].killed =>
            \A t \in Tickers : rows'[p][t].inPos => rows[p][t].inPos ]_vars
  BY OnlyCheckEntryEnters
<1> QED BY <1>1, TypeCorrect, ConsistentInit, ConsistentStep, PTL DEF Spec, NoEntryAfterKill

\* No action but a new session unblocks a row.
LEMMA OnlySessionsUnblock ==
    ASSUME TypeOK, Consistent, [Next]_vars,
           \A v \in DayVerdicts, e \in [Pids -> Equities] : ~StartSession(v, e),
           NEW q \in Pids, NEW u \in Tickers, rows[q][u].phase \in Blocked
    PROVE  rows'[q][u].phase = rows[q][u].phase
<1>0. /\ ~rows[q][u].inPos /\ rows \in [Pids -> [Tickers -> Row]]
      /\ rows[q][u].phase \notin {"in_pos", "armed", "closed"}
  BY DEF TypeOK, Consistent, RecordsAgree, TickersAgree, Blocked, DayBlocks
<1>1. ASSUME NEW t \in Tickers, NEW v \in {"armed", "blocked_range", "blocked_or_insufficient"},
             LockAndArm(t, v)
      PROVE  rows'[q][u].phase = rows[q][u].phase
  BY <1>1 DEF LockAndArm
<1>2. ASSUME NEW p \in Pids, NEW t \in Tickers, NEW s \in Sides, NEW id \in TicketIds,
             NEW r \in Risks, NEW n \in Notionals, CheckEntry(p, t, s, id, r, n)
      PROVE  rows'[q][u].phase = rows[q][u].phase
  BY <1>0, <1>2 DEF CheckEntry, CanEnter
<1>3. CASE RollbackAdmit
  <2>1. PICK p \in Pids, t \in Tickers : p = pending.pid /\ t = pending.pair[1]
    BY <1>3, EngineConstants DEF RollbackAdmit, TypeOK, Admission
  <2>2. CASE rows[p][t].phase = "in_pos" \/ rows[p][t].inPos
    BY <1>0, <1>3, <2>1, <2>2 DEF RollbackAdmit
  <2>3. CASE ~(rows[p][t].phase = "in_pos" \/ rows[p][t].inPos)
    BY <1>3, <2>1, <2>3 DEF RollbackAdmit
  <2> QED BY <2>2, <2>3
<1>4. ASSUME NEW p \in Pids, NEW t \in Tickers, NEW l \in Legs, OnExit(p, t, l)
      PROVE  rows'[q][u].phase = rows[q][u].phase
  <2>1. PICK halt \in BOOLEAN :
            halt = KillJustTriggered(Released(books[p], active[p][t]),
                                     l + open[p][active[p][t]].booked)
    BY DEF KillJustTriggered
  <2>2. rows[p][t].phase = "in_pos" /\ (q # p \/ u # t => rows'[q][u] = rows[q][u])
    BY <1>4, <2>1, ExitRows
  <2> QED BY <1>0, <2>2
<1>5. ASSUME UNCHANGED rows PROVE rows'[q][u].phase = rows[q][u].phase
  BY <1>5
<1> QED BY <1>1, <1>2, <1>3, <1>4, <1>5
        DEF Next, ConfirmEntry, RollbackAges, OnPartialExit, RefreshEquity, vars

\* A ticker that is blocked stays blocked until the next session, for every
\* lock, exit, rollback and kill in between.
THEOREM BlocksStay == Spec => BlocksAreFinal
<1> DEFINE Kept == (\A v \in DayVerdicts, e \in [Pids -> Equities] : ~StartSession(v, e)) =>
                     \A p \in Pids, t \in Tickers :
                        rows[p][t].phase \in Blocked => rows'[p][t].phase = rows[p][t].phase
<1>1. TypeOK /\ Consistent /\ [Next]_vars => [Kept]_vars
  BY OnlySessionsUnblock
<1> QED BY <1>1, ConsistentInit, ConsistentStep, TypeCorrect, PTL DEF Spec, BlocksAreFinal

\* No ticker trades more often than MaxTrades a day, the open position
\* included.
THEOREM TradesStayBounded == Spec => []TradesBounded
<1>1. Init => TradesBounded
  BY EngineConstants, StateConstants, WarmRowType DEF Init, FreshDay, WarmRow, TradesBounded
<1>2. TypeOK /\ Consistent /\ TradesBounded /\ [Next]_vars => TradesBounded'
  <2> SUFFICES ASSUME TypeOK, Consistent, TradesBounded, [Next]_vars, NEW q \in Pids, NEW u \in Tickers
               PROVE  rows'[q][u].trades + (IF rows'[q][u].inPos THEN 1 ELSE 0) <= MaxTrades
    BY DEF TradesBounded
  <2>1. /\ rows[q][u].trades \in Nat /\ MaxTrades \in Nat
        /\ rows[q][u].trades + (IF rows[q][u].inPos THEN 1 ELSE 0) <= MaxTrades
    BY EngineConstants, StateConstants DEF TypeOK, TradesBounded, Row
  <2>2. CASE rows'[q][u].inPos /\ ~rows[q][u].inPos
    BY <2>1, <2>2, OnlyCheckEntryEnters DEF CanEnter
  <2>3. ASSUME rows'[q][u].trades = rows[q][u].trades, rows'[q][u].inPos => rows[q][u].inPos
        PROVE  rows'[q][u].trades + (IF rows'[q][u].inPos THEN 1 ELSE 0) <= MaxTrades
    BY <2>1, <2>3
  <2>4. ASSUME NEW v \in DayVerdicts, NEW e \in [Pids -> Equities], StartSession(v, e)
        PROVE  rows'[q][u].trades + (IF rows'[q][u].inPos THEN 1 ELSE 0) <= MaxTrades
    BY <2>1, <2>4 DEF StartSession, WarmRow
  <2>5. ASSUME NEW p \in Pids, NEW t \in Tickers, NEW l \in Legs, OnExit(p, t, l)
        PROVE  rows'[q][u].trades + (IF rows'[q][u].inPos THEN 1 ELSE 0) <= MaxTrades
    <3>1. PICK halt \in BOOLEAN : halt = KillJustTriggered(Released(books[p], active[p][t]),
                                                           l + open[p][active[p][t]].booked)
      BY DEF KillJustTriggered
    <3>2. CASE q = p /\ u = t
      <4>1. /\ rows[p][t].inPos /\ ~rows'[p][t].inPos
            /\ rows'[p][t].trades = rows[p][t].trades + 1
        BY <2>5, <3>1, ExitRows
      <4> QED BY <2>1, <3>2, <4>1
    <3>3. CASE q # p \/ u # t
      <4>1. rows'[q][u].inPos = rows[q][u].inPos /\ rows'[q][u].trades = rows[q][u].trades
        BY <2>5, <3>1, <3>3, ExitRows
      <4> QED BY <2>3, <4>1
    <3> QED BY <3>2, <3>3
  <2>6. ASSUME (\E t \in Tickers, v \in {"armed", "blocked_range", "blocked_or_insufficient"} : LockAndArm(t, v))
               \/ (\E p \in Pids, t \in Tickers, s \in Sides, id \in TicketIds, r \in Risks, n \in Notionals :
                     CheckEntry(p, t, s, id, r, n))
               \/ RollbackAdmit \/ UNCHANGED rows
        PROVE  rows'[q][u].trades = rows[q][u].trades
    <3>1. RollbackAdmit => pending.pid \in Pids /\ pending.pair[1] \in Tickers
      BY EngineConstants DEF RollbackAdmit, Admission, TypeOK
    <3>2. CASE RollbackAdmit
      BY <3>1, <3>2 DEF TypeOK, RollbackAdmit, Moved
    <3>3. CASE \E t \in Tickers, v \in {"armed", "blocked_range", "blocked_or_insufficient"} : LockAndArm(t, v)
      BY <3>3 DEF TypeOK, LockAndArm, Moved
    <3>4. CASE \E p \in Pids, t \in Tickers, s \in Sides, id \in TicketIds, r \in Risks, n \in Notionals :
                  CheckEntry(p, t, s, id, r, n)
      BY <3>4 DEF TypeOK, CheckEntry, Moved
    <3> QED BY <2>6, <3>2, <3>3, <3>4
  <2> QED BY <2>2, <2>3, <2>4, <2>5, <2>6
          DEF Next, ConfirmEntry, RollbackAges, OnPartialExit, RefreshEquity, vars
<1> QED BY <1>1, <1>2, TypeCorrect, ConsistentInit, ConsistentStep, PTL DEF Spec

-----------------------------------------------------------------------------

\* A slot of the trading day, read off its row.
LEMMA SlotOf ==
    ASSUME NEW p \in Pids, NEW t \in Tickers
    PROVE  /\ daySlot[<<p, t>>] = IF rows[p][t].inPos THEN "held"
                                  ELSE IF rows[p][t].phase \in Blocked THEN "shut" ELSE "free"
           /\ dayUsed[<<p, t>>] = rows[p][t].trades
           /\ dayHalted[p] = books[p].killed
BY DEF daySlot, dayUsed, dayHalted

\* The slot of a row after a step, by the same three cases.
LEMMA SlotOfNext ==
    ASSUME NEW p \in Pids, NEW t \in Tickers
    PROVE  /\ daySlot'[<<p, t>>] = IF rows'[p][t].inPos THEN "held"
                                   ELSE IF rows'[p][t].phase \in Blocked THEN "shut" ELSE "free"
           /\ dayUsed'[<<p, t>>] = rows'[p][t].trades
           /\ dayHalted'[p] = books'[p].killed
BY DEF daySlot, dayUsed, dayHalted

\* A fresh day of the engine is a new day of TradingDay.
LEMMA DayInit == Init => Day!Init
<1> SUFFICES ASSUME NEW v \in DayVerdicts, NEW e \in [Pids -> Equities], FreshDay(v, e)
             PROVE  Day!Init
  BY DEF Init
<1>1. ASSUME NEW p \in Pids, NEW t \in Tickers
      PROVE  rows[p][t].inPos = FALSE /\ rows[p][t].trades = 0
  BY <1>1 DEF FreshDay, WarmRow
<1>2. daySlot \in [Day!Slots -> {"free", "shut"}]
  BY <1>1 DEF daySlot, Day!Slots
<1>3. dayUsed = [s \in Day!Slots |-> 0]
  BY <1>1 DEF dayUsed, Day!Slots
<1>4. dayHalted = [p \in Pids |-> FALSE]
  BY DEF dayHalted, FreshDay, NewBook
<1> QED BY <1>2, <1>3, <1>4 DEF Day!Init, Day!NewDay

\* A session start is StartDay.
LEMMA DayStartSession ==
    ASSUME NEW v \in DayVerdicts, NEW e \in [Pids -> Equities], StartSession(v, e)
    PROVE  Day!StartDay
<1>1. ASSUME NEW p \in Pids, NEW t \in Tickers
      PROVE  rows'[p][t].inPos = FALSE /\ rows'[p][t].trades = 0
  BY <1>1 DEF StartSession, WarmRow
<1>2. daySlot' \in [Day!Slots -> {"free", "shut"}]
  BY <1>1 DEF daySlot, Day!Slots
<1>3. dayUsed' = [s \in Day!Slots |-> 0]
  BY <1>1 DEF dayUsed, Day!Slots
<1>4. dayHalted' = [p \in Pids |-> FALSE]
  BY DEF dayHalted, StartSession, SessionReset, NewBook
<1> QED BY <1>2, <1>3, <1>4 DEF Day!StartDay

\* Rows whose three visible facts do not change are the same slots.
LEMMA SameDay ==
    ASSUME \A p \in Pids, t \in Tickers :
              /\ rows'[p][t].inPos = rows[p][t].inPos
              /\ rows'[p][t].phase \in Blocked <=> rows[p][t].phase \in Blocked
              /\ rows'[p][t].trades = rows[p][t].trades,
           \A p \in Pids : books'[p].killed = books[p].killed
    PROVE  UNCHANGED <<daySlot, dayUsed, dayHalted>>
BY DEF daySlot, dayUsed, dayHalted

\* A lock shuts the slots whose range is refused.
LEMMA DayLockAndArm ==
    ASSUME TypeOK, Consistent,
           NEW t \in Tickers, NEW v \in {"armed", "blocked_range", "blocked_or_insufficient"},
           LockAndArm(t, v)
    PROVE  \E gone \in SUBSET Day!Slots : Day!Shut(gone)
<1> DEFINE gone == {s \in Day!Slots : daySlot[s] = "free" /\ daySlot'[s] = "shut"}
<1>1. ASSUME NEW p \in Pids, NEW u \in Tickers
      PROVE  /\ rows'[p][u].inPos = rows[p][u].inPos /\ rows'[p][u].trades = rows[p][u].trades
             /\ rows[p][u].phase \in Blocked => rows'[p][u].phase \in Blocked
  BY DEF LockAndArm, TypeOK, Moved
<1>2. ASSUME NEW s \in Day!Slots
      PROVE  daySlot'[s] = IF s \in gone THEN "shut" ELSE daySlot[s]
  <2>1. PICK p \in Pids, u \in Tickers : s = <<p, u>>
    BY DEF Day!Slots
  <2> QED BY <1>1, <2>1, SlotOf, SlotOfNext
<1>3. daySlot' = [s \in Day!Slots |-> IF s \in gone THEN "shut" ELSE daySlot[s]]
  BY <1>2 DEF daySlot, Day!Slots
<1>4. UNCHANGED <<dayUsed, dayHalted>>
  BY <1>1 DEF dayUsed, dayHalted, LockAndArm
<1> QED BY <1>3, <1>4 DEF Day!Shut

\* One slot changes when one row changes what it shows.
LEMMA OneSlot ==
    ASSUME NEW p \in Pids, NEW t \in Tickers, NEW x,
           daySlot'[<<p, t>>] = x,
           \A q \in Pids, u \in Tickers : q # p \/ u # t => daySlot'[<<q, u>>] = daySlot[<<q, u>>]
    PROVE  daySlot' = [daySlot EXCEPT ![<<p, t>>] = x]
<1>1. ASSUME NEW s \in Pids \X Tickers
      PROVE  daySlot'[s] = IF s = <<p, t>> THEN x ELSE daySlot[s]
  <2>1. PICK q \in Pids, u \in Tickers : s = <<q, u>>
    OBVIOUS
  <2> QED BY <2>1
<1>2. /\ daySlot' = [s \in Pids \X Tickers |-> daySlot'[s]]
      /\ daySlot = [s \in Pids \X Tickers |-> daySlot[s]]
  BY DEF daySlot
<1> QED BY <1>1, <1>2

\* An admission is Enter: the row was free, under its limit, the book not killed.
LEMMA DayCheckEntry ==
    ASSUME TypeOK, Consistent,
           NEW p \in Pids, NEW t \in Tickers, NEW s \in Sides, NEW id \in TicketIds,
           NEW r \in Risks, NEW n \in Notionals, CheckEntry(p, t, s, id, r, n)
    PROVE  Day!Enter(<<p, t>>)
<1>1. rows' = [rows EXCEPT ![p][t] = Moved(@, "in_pos", TRUE)]
  BY DEF CheckEntry
<1>2. daySlot[<<p, t>>] = "free" /\ dayUsed[<<p, t>>] < MaxTrades /\ ~dayHalted[p]
  BY SlotOf DEF CheckEntry, CanEnter, CanAdmit, Blocked, DayBlocks
<1>3. daySlot' = [daySlot EXCEPT ![<<p, t>>] = "held"]
  <2>1. rows'[p][t].inPos /\ \A q \in Pids, u \in Tickers : q # p \/ u # t => rows'[q][u] = rows[q][u]
    BY <1>1 DEF Moved, TypeOK
  <2> QED BY <2>1, OneSlot, SlotOf, SlotOfNext
<1>4. dayUsed' = dayUsed
  BY <1>1 DEF dayUsed, Moved, TypeOK
<1>5. dayHalted' = dayHalted
  <2>1. Admitted(books[p], id, r, n).killed = books[p].killed
    BY DEF Admitted, TypeOK, Book
  <2>2. \A q \in Pids : books'[q].killed = books[q].killed
    BY <2>1 DEF CheckEntry, TypeOK
  <2> QED BY <2>2 DEF dayHalted
<1> QED BY <1>2, <1>3, <1>4, <1>5 DEF Day!Enter

\* A rollback is Cancel.
LEMMA DayRollbackAdmit ==
    ASSUME TypeOK, Consistent, RollbackAdmit
    PROVE  Day!Cancel(<<pending.pid, pending.pair[1]>>) /\ pending.pid \in Pids /\ pending.pair[1] \in Tickers
<1>1. PICK p \in Pids, t \in Tickers, id \in TicketIds :
          p = pending.pid /\ t = pending.pair[1] /\ id = pending.ticket
  BY EngineConstants DEF RollbackAdmit, Admission, TypeOK
<1>2. rows[p][t].inPos
  BY <1>1, EngineConstants DEF RollbackAdmit, Consistent, PendingHeld, RecordsAgree, TickersAgree
<1>3. rows' = [rows EXCEPT ![p][t] = Moved(@, "armed", FALSE)]
  BY <1>1, <1>2 DEF RollbackAdmit
<1>4. daySlot[<<p, t>>] = "held"
  BY <1>2, SlotOf
<1>5. daySlot' = [daySlot EXCEPT ![<<p, t>>] = "free"]
  <2>1. /\ ~rows'[p][t].inPos /\ rows'[p][t].phase = "armed"
        /\ \A q \in Pids, u \in Tickers : q # p \/ u # t => rows'[q][u] = rows[q][u]
    BY <1>3 DEF Moved, TypeOK
  <2>2. daySlot'[<<p, t>>] = "free"
    BY <2>1, SlotOfNext DEF Blocked, DayBlocks
  <2> QED BY <2>1, <2>2, OneSlot, SlotOf, SlotOfNext
<1>6. dayUsed' = dayUsed
  BY <1>3 DEF dayUsed, Moved, TypeOK
<1>7. dayHalted' = dayHalted
  <2>1. Released(books[p], id).killed = books[p].killed
    BY <1>1 DEF Released, TypeOK, Book
  <2>2. \A q \in Pids : books'[q].killed = books[q].killed
    BY <1>1, <2>1 DEF RollbackAdmit, TypeOK
  <2> QED BY <2>2 DEF dayHalted
<1> QED BY <1>1, <1>4, <1>5, <1>6, <1>7 DEF Day!Cancel

\* An exit is Close, halting exactly when it latches the kill.
LEMMA DayOnExit ==
    ASSUME TypeOK, Consistent,
           NEW p \in Pids, NEW t \in Tickers, NEW l \in Legs, OnExit(p, t, l)
    PROVE  \E halt \in BOOLEAN : Day!Close(<<p, t>>, halt)
<1>1. PICK halt \in BOOLEAN : halt = KillJustTriggered(Released(books[p], active[p][t]),
                                                       l + open[p][active[p][t]].booked)
  BY DEF KillJustTriggered
<1>2. daySlot[<<p, t>>] = "held"
  BY <1>1, ExitRows, SlotOf
<1>3. ASSUME NEW q \in Pids, NEW u \in Tickers
      PROVE  /\ daySlot'[<<q, u>>] =
                  IF halt /\ q = p /\ (<<q, u>> = <<p, t>> \/ daySlot[<<q, u>>] = "free") THEN "shut"
                  ELSE IF <<q, u>> = <<p, t>> THEN "free" ELSE daySlot[<<q, u>>]
             /\ dayUsed'[<<q, u>>] =
                  IF <<q, u>> = <<p, t>> THEN dayUsed[<<p, t>>] + 1 ELSE dayUsed[<<q, u>>]
  <2>1. CASE q = p /\ u = t
    <3>1. /\ ~rows'[p][t].inPos /\ rows'[p][t].trades = rows[p][t].trades + 1
          /\ rows'[p][t].phase \in Blocked <=> halt
      BY <1>1, ExitRows
    <3> QED BY <2>1, <3>1, SlotOf, SlotOfNext
  <2>2. CASE q # p \/ u # t
    <3>1. /\ rows'[q][u].inPos = rows[q][u].inPos
          /\ rows'[q][u].trades = rows[q][u].trades
          /\ rows[q][u].inPos \/ rows[q][u].phase \in Blocked \/ q # p \/ ~halt
               => rows'[q][u] = rows[q][u]
          /\ q = p /\ halt /\ ~rows[q][u].inPos => rows'[q][u].phase \in Blocked
      <4> USE <1>1, <2>2
      <4>1. /\ rows'[q][u].inPos = rows[q][u].inPos
            /\ rows'[q][u].trades = rows[q][u].trades
        BY ExitRows
      <4>2. rows[q][u].inPos \/ rows[q][u].phase \in Blocked \/ q # p \/ ~halt
              => rows'[q][u] = rows[q][u]
        BY ExitRows
      <4>3. q = p /\ halt /\ ~rows[q][u].inPos => rows'[q][u].phase \in Blocked
        BY ExitRows
      <4> QED BY <4>1, <4>2, <4>3
    <3> QED BY <2>2, <3>1, SlotOf, SlotOfNext
  <2> QED BY <2>1, <2>2
<1>4. ASSUME NEW s \in Day!Slots
      PROVE  /\ daySlot'[s] = IF halt /\ s[1] = p /\ (s = <<p, t>> \/ daySlot[s] = "free") THEN "shut"
                              ELSE IF s = <<p, t>> THEN "free" ELSE daySlot[s]
             /\ dayUsed'[s] = IF s = <<p, t>> THEN dayUsed[<<p, t>>] + 1 ELSE dayUsed[s]
  <2>1. PICK q \in Pids, u \in Tickers : s = <<q, u>>
    BY DEF Day!Slots
  <2> QED BY <1>3, <2>1
<1>5. daySlot' = [s \in Day!Slots |->
                    IF halt /\ s[1] = p /\ (s = <<p, t>> \/ daySlot[s] = "free") THEN "shut"
                    ELSE IF s = <<p, t>> THEN "free" ELSE daySlot[s]]
  <2>1. daySlot' = [s \in Day!Slots |-> daySlot'[s]]
    BY DEF daySlot, Day!Slots
  <2> QED BY <1>4, <2>1
<1>6. dayUsed' = [dayUsed EXCEPT ![<<p, t>>] = @ + 1]
  <2>1. /\ dayUsed' = [s \in Day!Slots |-> dayUsed'[s]]
        /\ dayUsed = [s \in Day!Slots |-> dayUsed[s]]
    BY DEF dayUsed, Day!Slots
  <2> QED BY <1>4, <2>1
<1>7. dayHalted' = [dayHalted EXCEPT ![p] = @ \/ halt]
  <2>1. books'[p].killed = (books[p].killed \/ halt) /\ \A q \in Pids : q # p => books'[q] = books[q]
    BY <1>1, ExitKill
  <2> QED BY <2>1 DEF dayHalted
<1> QED BY <1>2, <1>5, <1>6, <1>7 DEF Day!Close

\* Every behaviour of the engine, seen through its rows and its kills only,
\* is a behaviour of a trading day.
THEOREM ImplementsTradingDay == Spec => DaySpec
<1>1. TypeOK /\ Consistent /\ [Next]_vars => [Day!Next]_(Day!vars)
  <2> SUFFICES ASSUME TypeOK, Consistent, [Next]_vars PROVE [Day!Next]_(Day!vars)
    OBVIOUS
  <2>1. ASSUME NEW v \in DayVerdicts, NEW e \in [Pids -> Equities], StartSession(v, e)
        PROVE  Day!Next
    BY <2>1, DayStartSession DEF Day!Next
  <2>2. ASSUME NEW t \in Tickers, NEW v \in {"armed", "blocked_range", "blocked_or_insufficient"},
               LockAndArm(t, v)
        PROVE  Day!Next
    BY <2>2, DayLockAndArm DEF Day!Next
  <2>3. ASSUME NEW p \in Pids, NEW t \in Tickers, NEW s \in Sides, NEW id \in TicketIds,
               NEW r \in Risks, NEW n \in Notionals, CheckEntry(p, t, s, id, r, n)
        PROVE  Day!Next
    BY <2>3, DayCheckEntry DEF Day!Next, Day!Slots
  <2>4. ASSUME RollbackAdmit PROVE Day!Next
    BY <2>4, DayRollbackAdmit DEF Day!Next, Day!Slots
  <2>5. ASSUME NEW p \in Pids, NEW t \in Tickers, NEW l \in Legs, OnExit(p, t, l)
        PROVE  Day!Next
    BY <2>5, DayOnExit DEF Day!Next, Day!Slots
  <2>6. ASSUME UNCHANGED rows, \A p \in Pids : books'[p].killed = books[p].killed
        PROVE  UNCHANGED Day!vars
    BY <2>6, SameDay DEF Day!vars
  <2>7. ASSUME NEW p \in Pids, NEW t \in Tickers, NEW g \in PartialGains, OnPartialExit(p, t, g)
        PROVE  UNCHANGED Day!vars
    <3>1. HalfReleased(books[p], active[p][t]).killed = books[p].killed
      BY <2>7 DEF HalfReleased, TypeOK, Book, OnPartialExit, Found
    <3> QED BY <2>6, <2>7, <3>1 DEF OnPartialExit, TypeOK
  <2>8. ASSUME NEW p \in Pids, NEW e \in Equities, RefreshEquity(p, e)
        PROVE  UNCHANGED Day!vars
    <3>1. EquityUpdated(books[p], e).killed = books[p].killed
      BY DEF EquityUpdated, TypeOK, Book
    <3> QED BY <2>6, <2>8, <3>1 DEF RefreshEquity, TypeOK
  <2>9. ASSUME ConfirmEntry \/ (\E p \in Pids, k \in Pairs : RollbackAges(p, k)) \/ UNCHANGED vars
        PROVE  UNCHANGED Day!vars
    BY <2>6, <2>9 DEF ConfirmEntry, RollbackAges, vars
  <2> QED BY <2>1, <2>2, <2>3, <2>4, <2>5, <2>7, <2>8, <2>9 DEF Next
<1> QED BY <1>1, DayInit, TypeCorrect, ConsistentInit, ConsistentStep, PTL
        DEF Spec, DaySpec, Day!Spec

-----------------------------------------------------------------------------

\* The concurrent-risk cap of every portfolio's book holds in every state of
\* the engine.
THEOREM RiskStaysCapped == Spec => []RiskCapped
<1>1. Init => RiskCapped
  BY BookConstants DEF Init, FreshDay, RiskCapped, NewBook
<1>2. TypeOK /\ RiskCapped /\ [Next]_vars => RiskCapped'
  <2> SUFFICES ASSUME TypeOK, RiskCapped, [Next]_vars, NEW q \in Pids
               PROVE  books'[q].openRisk <= MaxRisk
    BY DEF RiskCapped
  <2>1. books[q] \in Book /\ books[q].openRisk <= MaxRisk
    BY DEF TypeOK, RiskCapped
  <2>2. ASSUME NEW v \in DayVerdicts, NEW e \in [Pids -> Equities], StartSession(v, e)
        PROVE  books'[q].openRisk <= MaxRisk
    BY <2>2, BookConstants DEF StartSession, SessionReset, NewBook
  <2>3. ASSUME NEW p \in Pids, NEW t \in Tickers, NEW s \in Sides, NEW id \in TicketIds,
               NEW r \in Risks, NEW n \in Notionals, CheckEntry(p, t, s, id, r, n)
        PROVE  books'[q].openRisk <= MaxRisk
    <3>1. Admitted(books[p], id, r, n).openRisk = books[p].openRisk + r
      BY DEF Admitted, TypeOK, Book
    <3>2. books' = [books EXCEPT ![p] = Admitted(books[p], id, r, n)] /\ books[p].openRisk + r <= MaxRisk
      BY <2>3 DEF CheckEntry, CanAdmit
    <3> QED BY <2>1, <3>1, <3>2 DEF TypeOK
  <2>4. ASSUME NEW p \in Pids, NEW id \in TicketIds, NEW b,
               b = Released(books[p], id) \/ b = HalfReleased(books[p], id)
        PROVE  b \in Book /\ b.openRisk <= MaxRisk
    <3>1. books[p] \in Book /\ books[p].openRisk \in Nat /\ books[p].openRisk <= MaxRisk
      BY DEF TypeOK, RiskCapped, Book
    <3>2. b \in Book /\ b.openRisk <= books[p].openRisk
      BY <2>4, <3>1, BookMethodTypes, ReleaseOnlyFrees
    <3>3. b.openRisk \in Nat
      BY <3>2 DEF Book
    <3> QED BY <3>1, <3>2, <3>3, BookConstants
  <2>5. ASSUME RollbackAdmit PROVE books'[q].openRisk <= MaxRisk
    <3>1. PICK p \in Pids, id \in TicketIds : p = pending.pid /\ id = pending.ticket
      BY <2>5, EngineConstants DEF RollbackAdmit, Admission, TypeOK
    <3>2. books' = [books EXCEPT ![p] = Released(books[p], id)]
      BY <2>5, <3>1 DEF RollbackAdmit
    <3> QED BY <2>1, <2>4, <3>2 DEF TypeOK
  <2>6. ASSUME NEW p \in Pids, NEW t \in Tickers, NEW g \in PartialGains, OnPartialExit(p, t, g)
        PROVE  books'[q].openRisk <= MaxRisk
    <3>1. active[p][t] \in TicketIds /\ books' = [books EXCEPT ![p] = HalfReleased(books[p], active[p][t])]
      BY <2>6 DEF OnPartialExit, Found, TypeOK
    <3> QED BY <2>1, <2>4, <3>1 DEF TypeOK
  <2>7. ASSUME NEW p \in Pids, NEW t \in Tickers, NEW l \in Legs, OnExit(p, t, l)
        PROVE  books'[q].openRisk <= MaxRisk
    <3> DEFINE b == Released(books[p], active[p][t])
               c == PnlRecorded(b, l + open[p][active[p][t]].booked, <<t, open[p][active[p][t]].side>>)
    <3>1. active[p][t] \in TicketIds
      BY <2>7 DEF OnExit, Found, TypeOK
    <3>2. b \in Book /\ b.openRisk <= MaxRisk
      BY <2>4, <3>1
    <3>3. books' = [books EXCEPT ![p] = c]
      BY <2>7 DEF OnExit
    <3> HIDE DEF b
    <3>4. c.openRisk = b.openRisk
      BY <3>2 DEF PnlRecorded, Book
    <3> HIDE DEF c
    <3> QED BY <2>1, <3>2, <3>3, <3>4 DEF TypeOK
  <2>8. ASSUME NEW p \in Pids, NEW e \in Equities, RefreshEquity(p, e)
        PROVE  books'[q].openRisk <= MaxRisk
    BY <2>1, <2>8 DEF RefreshEquity, EquityUpdated, TypeOK, Book
  <2>9. ASSUME UNCHANGED books PROVE books'[q].openRisk <= MaxRisk
    BY <2>1, <2>9
  <2> QED BY <2>2, <2>3, <2>5, <2>6, <2>7, <2>8, <2>9
          DEF Next, LockAndArm, ConfirmEntry, RollbackAges, vars
<1> QED BY <1>1, <1>2, TypeCorrect, PTL DEF Spec

-----------------------------------------------------------------------------

Positions == [TicketIds -> Position \cup {NoPos}]

\* What open positions have booked is a number each.
LEMMA BookedType ==
    ASSUME NEW w \in Positions
    PROVE  Booked(w) \in [Opened(w) -> Int]
BY EngineConstants DEF Positions, Position, Booked, Opened

\* A position that is written, whether over nothing or over another one,
\* changes what is booked by the difference; one that goes takes its own.
LEMMA PositionWritten ==
    ASSUME NEW w \in Positions, IsFiniteSet(Opened(w)), NEW id \in TicketIds, NEW pos \in Position
    PROVE  /\ IsFiniteSet(Opened([w EXCEPT ![id] = pos]))
           /\ Total(Booked([w EXCEPT ![id] = pos])) =
                Total(Booked(w)) + pos.booked - (IF w[id] = NoPos THEN 0 ELSE w[id].booked)
<1> DEFINE v == [w EXCEPT ![id] = pos]
           S == Opened(w)  f == Booked(w)  g == Booked(v)
<1>1. v \in Positions /\ v[id] = pos /\ pos # NoPos /\ \A x \in TicketIds \ {id} : v[x] = w[x]
  BY EngineConstants DEF Positions
<1> HIDE DEF v
<1>2. Opened(v) = S \cup {id} /\ (id \in S <=> w[id] # NoPos)
  BY <1>1 DEF Opened
<1>3. IsFiniteSet(Opened(v))
  BY <1>2, FS_AddElement
<1>4. f \in [S -> Int] /\ g \in [S \cup {id} -> Int]
  BY <1>1, <1>2, BookedType
<1>5. g[id] = pos.booked /\ \A x \in S \ {id} : g[x] = f[x]
  BY <1>1, <1>2 DEF Booked, Opened
<1>6. pos.booked \in Int
  BY DEF Position
<1>7. CASE w[id] = NoPos
  <2>1. id \notin S /\ IsFiniteSet(S) /\ \A x \in S : g[x] = f[x]
    BY <1>2, <1>5, <1>7
  <2> HIDE DEF S, f, g
  <2>2. Total(g) = Total(f) + g[id]
    BY <1>4, <2>1, TotalAdd
  <2>3. Total(f) \in Int
    BY <1>4, <2>1, TotalType
  <2> QED BY <1>3, <1>5, <1>6, <1>7, <2>2, <2>3 DEF v, f, g
<1>8. CASE w[id] # NoPos
  <2>1. id \in S /\ f[id] = w[id].booked
    BY <1>2, <1>8 DEF Booked, Opened
  <2> HIDE DEF S, f, g
  <2>2. g \in [S -> Int]
    BY <1>4, <2>1
  <2>3. Total(g) = Total(f) + g[id] - f[id]
    BY <1>4, <1>5, <2>1, <2>2, TotalChange DEF S
  <2> QED BY <1>3, <1>5, <1>8, <2>1, <2>3 DEF v, f, g
<1> QED BY <1>7, <1>8

LEMMA PositionDropped ==
    ASSUME NEW w \in Positions, IsFiniteSet(Opened(w)), NEW id \in TicketIds, w[id] # NoPos
    PROVE  /\ IsFiniteSet(Opened([w EXCEPT ![id] = NoPos]))
           /\ Total(Booked([w EXCEPT ![id] = NoPos])) = Total(Booked(w)) - w[id].booked
<1> DEFINE v == [w EXCEPT ![id] = NoPos]
           S == Opened(w)  f == Booked(w)  g == Booked(v)
<1>1. v \in Positions /\ v[id] = NoPos /\ \A x \in TicketIds \ {id} : v[x] = w[x]
  BY DEF Positions
<1> HIDE DEF v
<1>2. Opened(v) = S \ {id} /\ id \in S
  BY <1>1 DEF Opened
<1>3. IsFiniteSet(Opened(v))
  BY <1>2, FS_RemoveElement
<1>4. f \in [S -> Int] /\ g \in [S \ {id} -> Int]
  BY <1>1, <1>2, BookedType
<1>5. f[id] = w[id].booked /\ \A x \in S \ {id} : g[x] = f[x]
  BY <1>1, <1>2 DEF Booked, Opened
<1> HIDE DEF S, f, g
<1>6. Total(g) = Total(f) - f[id]
  BY <1>2, <1>4, <1>5, TotalRemove DEF S
<1> QED BY <1>3, <1>5, <1>6 DEF v, f, g

\* With nothing open nothing is booked.
LEMMA NothingBooked ==
    ASSUME NEW w, w = [id \in TicketIds |-> NoPos]
    PROVE  IsFiniteSet(Opened(w)) /\ Total(Booked(w)) = 0
<1> DEFINE f == Booked(w)
<1>1. Opened(w) = {}
  BY DEF Opened
<1>2. f \in [{} -> Int]
  BY <1>1 DEF Booked
<1> HIDE DEF f
<1>3. Total(f) = 0
  BY <1>2, TotalZero
<1> QED BY <1>1, <1>3, FS_EmptySet DEF f

\* PnlComplete is not inductive alone: a rollback drops a position and a
\* partial writes over what was booked, and neither loses a dollar only
\* because a position that was not halved has booked nothing.
PnlOf(p) ==
    /\ IsFiniteSet(Opened(open[p]))
    /\ \A id \in TicketIds : open[p][id] # NoPos /\ ~open[p][id].halved => open[p][id].booked = 0
    /\ cash[p] = books[p].pnl + Total(Booked(open[p]))
PendingWhole ==
    pending # Idle => ~open[pending.pid][pending.ticket].halved
PnlInv == PendingWhole /\ \A p \in Pids : PnlOf(p)

\* A method of the book other than record_realized_pnl leaves its P&L alone.
LEMMA SamePnl ==
    ASSUME NEW b \in Book
    PROVE  /\ \A id \in TicketIds, r \in Nat, n \in Nat : Admitted(b, id, r, n).pnl = b.pnl
           /\ \A id \in TicketIds : Released(b, id).pnl = b.pnl /\ HalfReleased(b, id).pnl = b.pnl
           /\ \A e \in Nat : EquityUpdated(b, e).pnl = b.pnl
BY DEF Admitted, Released, HalfReleased, EquityUpdated, Book

\* What a step does not touch is still complete.
LEMMA SamePnlOf ==
    ASSUME NEW p \in Pids, PnlOf(p),
           open'[p] = open[p], books'[p].pnl = books[p].pnl, cash'[p] = cash[p]
    PROVE  PnlOf(p)'
BY DEF PnlOf

LEMMA PnlFreshDay ==
    ASSUME NEW p \in Pids, open[p] = [id \in TicketIds |-> NoPos], books[p].pnl = 0, cash[p] = 0
    PROVE  PnlOf(p)
BY NothingBooked DEF PnlOf

LEMMA PnlFreshDayNext ==
    ASSUME NEW p \in Pids, open'[p] = [id \in TicketIds |-> NoPos], books'[p].pnl = 0, cash'[p] = 0
    PROVE  PnlOf(p)'
BY NothingBooked DEF PnlOf

LEMMA PnlCheckEntry ==
    ASSUME TypeOK, PnlInv,
           NEW p \in Pids, NEW t \in Tickers, NEW s \in Sides, NEW id \in TicketIds,
           NEW r \in Risks, NEW n \in Notionals, CheckEntry(p, t, s, id, r, n)
    PROVE  PnlInv'
<1> DEFINE pos == [ticker |-> t, side |-> s, halved |-> FALSE, booked |-> 0]
           w == open[p]  v == [w EXCEPT ![id] = pos]
<1>0. pos \in Position /\ ~pos.halved /\ pos.booked = 0
  BY DEF Position
<1>1. w \in Positions /\ pos # NoPos /\ w[id] = NoPos
  <2>1. w \in Positions
    BY DEF Positions, TypeOK
  <2>2. w[id] = NoPos
    BY DEF CheckEntry, Fresh
  <2> QED BY <1>0, <2>1, <2>2, EngineConstants
<1>2. open' = [open EXCEPT ![p][id] = pos] /\ cash' = cash
  BY DEF CheckEntry
<1>3. books' = [books EXCEPT ![p] = Admitted(books[p], id, r, n)]
  BY DEF CheckEntry
<1> HIDE DEF pos
<1>4. /\ open'[p] = v /\ v[id] = pos /\ \A x \in TicketIds \ {id} : v[x] = w[x]
      /\ \A q \in Pids \ {p} : open'[q] = open[q]
  BY <1>1, <1>2 DEF Positions, TypeOK
<1>5. \A q \in Pids : books'[q].pnl = books[q].pnl
  <2>1. Admitted(books[p], id, r, n).pnl = books[p].pnl
    BY SamePnl, EngineConstants DEF TypeOK
  <2> HIDE DEF v
  <2> QED BY <1>3, <2>1 DEF TypeOK
<1> HIDE DEF w, v
<1>6. PnlOf(p)'
  <2>1. IsFiniteSet(Opened(w)) /\ cash[p] = books[p].pnl + Total(Booked(w))
    BY DEF PnlInv, PnlOf, w
  <2>2. IsFiniteSet(Opened(v)) /\ Total(Booked(v)) = Total(Booked(w)) + 0 - 0
    BY <1>0, <1>1, <2>1, PositionWritten DEF v
  <2>3. Total(Booked(w)) \in Int
    BY <1>1, <2>1, BookedType, TotalType
  <2>4. cash'[p] = books'[p].pnl + Total(Booked(v))
    BY <1>2, <1>5, <2>1, <2>2, <2>3
  <2>5. \A x \in TicketIds : v[x] # NoPos /\ ~v[x].halved => v[x].booked = 0
    BY <1>0, <1>1, <1>4 DEF PnlInv, PnlOf, w
  <2> QED BY <1>4, <2>2, <2>4, <2>5 DEF PnlOf
<1>7. ASSUME NEW q \in Pids \ {p} PROVE PnlOf(q)'
  BY <1>2, <1>4, <1>5, <1>7, SamePnlOf DEF PnlInv
<1>8. PendingWhole'
  <2>1. pending' = [pid |-> p, pair |-> <<t, s>>, ticket |-> id]
    BY DEF CheckEntry
  <2> QED BY <1>0, <1>1, <1>4, <2>1 DEF PendingWhole
<1> QED BY <1>6, <1>7, <1>8 DEF PnlInv

LEMMA PnlRollbackAdmit ==
    ASSUME TypeOK, Consistent, PnlInv, RollbackAdmit
    PROVE  PnlInv'
<1>1. PICK p \in Pids, t \in Tickers, id \in TicketIds :
          p = pending.pid /\ t = pending.pair[1] /\ id = pending.ticket
  BY EngineConstants DEF RollbackAdmit, Admission, TypeOK
<1> DEFINE w == open[p]  v == [w EXCEPT ![id] = NoPos]
<1>2. w \in Positions /\ w[id] # NoPos /\ w[id].booked = 0
  <2>1. active[p][t] = id /\ w[id] # NoPos
    BY <1>1, EngineConstants
       DEF RollbackAdmit, Consistent, PendingHeld, RecordsAgree, TickersAgree
  <2>2. ~w[id].halved
    BY <1>1 DEF PnlInv, PendingWhole, RollbackAdmit
  <2> QED BY <2>1, <2>2 DEF PnlInv, PnlOf, Positions, TypeOK
<1>3. /\ open' = [open EXCEPT ![p][id] = NoPos] /\ cash' = cash /\ pending' = Idle
      /\ books' = [books EXCEPT ![p] = Released(@, id)]
  BY <1>1 DEF RollbackAdmit
<1>4. /\ open'[p] = v /\ v[id] = NoPos /\ \A x \in TicketIds \ {id} : v[x] = w[x]
      /\ \A q \in Pids \ {p} : open'[q] = open[q]
  BY <1>2, <1>3 DEF Positions, TypeOK
<1>5. \A q \in Pids : books'[q].pnl = books[q].pnl
  <2>1. Released(books[p], id).pnl = books[p].pnl
    BY SamePnl DEF TypeOK
  <2> HIDE DEF v
  <2> QED BY <1>3, <2>1 DEF TypeOK
<1> HIDE DEF w, v
<1>6. PnlOf(p)'
  <2>1. IsFiniteSet(Opened(w)) /\ cash[p] = books[p].pnl + Total(Booked(w))
    BY DEF PnlInv, PnlOf, w
  <2>2. IsFiniteSet(Opened(v)) /\ Total(Booked(v)) = Total(Booked(w)) - 0
    BY <1>2, <2>1, PositionDropped DEF v
  <2>3. Total(Booked(w)) \in Int
    BY <1>2, <2>1, BookedType, TotalType
  <2>4. cash'[p] = books'[p].pnl + Total(Booked(v))
    BY <1>3, <1>5, <2>1, <2>2, <2>3
  <2>5. \A x \in TicketIds : v[x] # NoPos /\ ~v[x].halved => v[x].booked = 0
    BY <1>4 DEF PnlInv, PnlOf, w
  <2> QED BY <1>4, <2>2, <2>4, <2>5 DEF PnlOf
<1>7. ASSUME NEW q \in Pids \ {p} PROVE PnlOf(q)'
  BY <1>3, <1>4, <1>5, <1>7, SamePnlOf DEF PnlInv
<1>8. PendingWhole'
  BY <1>3 DEF PendingWhole
<1> QED BY <1>6, <1>7, <1>8 DEF PnlInv

LEMMA PnlOnPartialExit ==
    ASSUME TypeOK, PnlInv,
           NEW p \in Pids, NEW t \in Tickers, NEW g \in PartialGains, OnPartialExit(p, t, g)
    PROVE  PnlInv'
<1> DEFINE id == active[p][t]  w == open[p]
           pos == [ticker |-> t, side |-> w[id].side, halved |-> TRUE, booked |-> g]
           v == [w EXCEPT ![id] = pos]
<1>1. /\ id \in TicketIds /\ w \in Positions /\ w[id] # NoPos /\ ~w[id].halved /\ pending = Idle
  BY DEF OnPartialExit, Found, TypeOK, Positions
<1>2. g \in Int /\ pos \in Position /\ pos.halved /\ pos.booked = g
  <2>1. w[id] \in Position
    BY <1>1 DEF Positions
  <2> QED BY <2>1, EngineConstants DEF Position
<1>3. /\ open' = [open EXCEPT ![p][id] = pos] /\ pending' = pending
      /\ cash' = [cash EXCEPT ![p] = @ + g]
      /\ books' = [books EXCEPT ![p] = HalfReleased(@, id)]
  BY DEF OnPartialExit
<1> HIDE DEF pos, id
<1>4. /\ open'[p] = v /\ v[id] = pos /\ \A x \in TicketIds \ {id} : v[x] = w[x]
      /\ \A q \in Pids \ {p} : open'[q] = open[q]
  BY <1>1, <1>3 DEF Positions, TypeOK
<1>5. \A q \in Pids : books'[q].pnl = books[q].pnl
  <2>1. HalfReleased(books[p], id).pnl = books[p].pnl
    BY <1>1, SamePnl DEF TypeOK
  <2> HIDE DEF v
  <2> QED BY <1>3, <2>1 DEF TypeOK
<1>6. cash'[p] = cash[p] + g /\ \A q \in Pids \ {p} : cash'[q] = cash[q]
  BY <1>3 DEF TypeOK
<1> HIDE DEF w, v
<1>7. PnlOf(p)'
  <2>1. /\ IsFiniteSet(Opened(w)) /\ cash[p] = books[p].pnl + Total(Booked(w))
        /\ w[id].booked = 0 /\ books[p].pnl \in Int
    BY <1>1 DEF PnlInv, PnlOf, w, TypeOK, Book
  <2>2. IsFiniteSet(Opened(v)) /\ Total(Booked(v)) = Total(Booked(w)) + g - 0
    BY <1>1, <1>2, <2>1, PositionWritten DEF v
  <2>3. Total(Booked(w)) \in Int
    BY <1>1, <2>1, BookedType, TotalType
  <2>4. cash'[p] = books'[p].pnl + Total(Booked(v))
    BY <1>2, <1>5, <1>6, <2>1, <2>2, <2>3
  <2>5. \A x \in TicketIds : v[x] # NoPos /\ ~v[x].halved => v[x].booked = 0
    BY <1>2, <1>4 DEF PnlInv, PnlOf, w
  <2> QED BY <1>4, <2>2, <2>4, <2>5 DEF PnlOf
<1>8. ASSUME NEW q \in Pids \ {p} PROVE PnlOf(q)'
  BY <1>4, <1>5, <1>6, <1>8, SamePnlOf DEF PnlInv
<1>9. PendingWhole'
  BY <1>1, <1>3 DEF PendingWhole
<1> QED BY <1>7, <1>8, <1>9 DEF PnlInv

LEMMA PnlOnExit ==
    ASSUME TypeOK, PnlInv,
           NEW p \in Pids, NEW t \in Tickers, NEW l \in Legs, OnExit(p, t, l)
    PROVE  PnlInv'
<1> DEFINE id == active[p][t]  w == open[p]  v == [w EXCEPT ![id] = NoPos]
           b == Released(books[p], id)  total == l + w[id].booked
           c == PnlRecorded(b, total, <<t, w[id].side>>)
<1>1. id \in TicketIds /\ w \in Positions /\ w[id] # NoPos /\ pending = Idle
  BY DEF OnExit, Found, TypeOK, Positions
<1>2. l \in Int /\ w[id].booked \in Int
  <2>1. w[id] \in Position
    BY <1>1 DEF Positions
  <2> QED BY <2>1, EngineConstants DEF Position
<1>3. /\ open' = [open EXCEPT ![p][id] = NoPos] /\ pending' = pending
      /\ cash' = [cash EXCEPT ![p] = @ + l]
      /\ books' = [books EXCEPT ![p] = c]
  BY DEF OnExit
<1>4. b \in Book /\ b.pnl = books[p].pnl /\ b.pnl \in Int
  BY <1>1, SamePnl, BookMethodTypes DEF TypeOK, Book
<1> HIDE DEF b, id
<1>5. c.pnl = b.pnl + total
  BY <1>4 DEF PnlRecorded, Book
<1> HIDE DEF c
<1>6. /\ open'[p] = v /\ v[id] = NoPos /\ \A x \in TicketIds \ {id} : v[x] = w[x]
      /\ \A q \in Pids \ {p} : open'[q] = open[q]
  BY <1>1, <1>3 DEF Positions, TypeOK
<1>7. books'[p].pnl = books[p].pnl + l + w[id].booked /\ \A q \in Pids \ {p} : books'[q] = books[q]
  BY <1>2, <1>3, <1>4, <1>5 DEF TypeOK
<1>8. cash'[p] = cash[p] + l /\ \A q \in Pids \ {p} : cash'[q] = cash[q]
  BY <1>3 DEF TypeOK
<1> HIDE DEF w, v
<1>9. PnlOf(p)'
  <2>1. /\ IsFiniteSet(Opened(w)) /\ cash[p] = books[p].pnl + Total(Booked(w))
        /\ books[p].pnl \in Int
    BY DEF PnlInv, PnlOf, w, TypeOK, Book
  <2>2. IsFiniteSet(Opened(v)) /\ Total(Booked(v)) = Total(Booked(w)) - w[id].booked
    BY <1>1, <2>1, PositionDropped DEF v
  <2>3. Total(Booked(w)) \in Int
    BY <1>1, <2>1, BookedType, TotalType
  <2>4. cash'[p] = books'[p].pnl + Total(Booked(v))
    BY <1>2, <1>7, <1>8, <2>1, <2>2, <2>3
  <2>5. \A x \in TicketIds : v[x] # NoPos /\ ~v[x].halved => v[x].booked = 0
    BY <1>6 DEF PnlInv, PnlOf, w
  <2> QED BY <1>6, <2>2, <2>4, <2>5 DEF PnlOf
<1>10. ASSUME NEW q \in Pids \ {p} PROVE PnlOf(q)'
  BY <1>6, <1>7, <1>8, <1>10, SamePnlOf DEF PnlInv
<1>11. PendingWhole'
  BY <1>1, <1>3 DEF PendingWhole
<1> QED BY <1>9, <1>10, <1>11 DEF PnlInv

LEMMA PnlStep == TypeOK /\ Consistent /\ PnlInv /\ [Next]_vars => PnlInv'
<1> SUFFICES ASSUME TypeOK, Consistent, PnlInv, [Next]_vars PROVE PnlInv'
  OBVIOUS
<1>1. ASSUME NEW v \in DayVerdicts, NEW e \in [Pids -> Equities], StartSession(v, e)
      PROVE  PnlInv'
  <2>1. \A q \in Pids : /\ open'[q] = [id \in TicketIds |-> NoPos]
                        /\ books'[q].pnl = 0 /\ cash'[q] = 0
    BY <1>1 DEF StartSession, SessionReset, NewBook
  <2>2. PendingWhole'
    BY <1>1 DEF StartSession, PendingWhole
  <2> QED BY <2>1, <2>2, PnlFreshDayNext DEF PnlInv
<1>2. ASSUME NEW p \in Pids, NEW t \in Tickers, NEW s \in Sides, NEW id \in TicketIds,
             NEW r \in Risks, NEW n \in Notionals, CheckEntry(p, t, s, id, r, n)
      PROVE  PnlInv'
  BY <1>2, PnlCheckEntry
<1>3. ASSUME RollbackAdmit PROVE PnlInv'
  BY <1>3, PnlRollbackAdmit
<1>4. ASSUME NEW p \in Pids, NEW t \in Tickers, NEW g \in PartialGains, OnPartialExit(p, t, g)
      PROVE  PnlInv'
  BY <1>4, PnlOnPartialExit
<1>5. ASSUME NEW p \in Pids, NEW t \in Tickers, NEW l \in Legs, OnExit(p, t, l)
      PROVE  PnlInv'
  BY <1>5, PnlOnExit
<1>6. ASSUME UNCHANGED <<open, cash>>, pending' \in {pending, Idle},
             \A q \in Pids : books'[q].pnl = books[q].pnl
      PROVE  PnlInv'
  <2>1. PendingWhole'
    BY <1>6 DEF PnlInv, PendingWhole
  <2> QED BY <1>6, <2>1, SamePnlOf DEF PnlInv
<1>7. ASSUME NEW p \in Pids, NEW e \in Equities, RefreshEquity(p, e) PROVE PnlInv'
  <2>1. EquityUpdated(books[p], e).pnl = books[p].pnl
    BY SamePnl, EngineConstants DEF TypeOK
  <2>2. \A q \in Pids : books'[q].pnl = books[q].pnl
    BY <1>7, <2>1 DEF RefreshEquity, TypeOK
  <2> QED BY <1>6, <1>7, <2>2 DEF RefreshEquity
<1>8. ASSUME UNCHANGED <<open, cash, books>>, pending' \in {pending, Idle} PROVE PnlInv'
  BY <1>6, <1>8
<1> QED BY <1>1, <1>2, <1>3, <1>4, <1>5, <1>7, <1>8
        DEF Next, LockAndArm, ConfirmEntry, RollbackAges, vars

\* P&L reaches the book complete, for every number of portfolios, tickers and
\* tickets: what the book recorded and what open positions have booked is all
\* the fills of the session made, through any interleaving of partials,
\* exits, rollbacks and session starts.
THEOREM PnlStaysComplete == Spec => []PnlComplete
<1>1. Init => PnlInv
  <2> SUFFICES ASSUME NEW v \in DayVerdicts, NEW e \in [Pids -> Equities], FreshDay(v, e),
                      pending = Idle
               PROVE  PnlInv
    BY DEF Init
  <2>1. \A q \in Pids : /\ open[q] = [id \in TicketIds |-> NoPos]
                        /\ books[q].pnl = 0 /\ cash[q] = 0
    BY DEF FreshDay, NewBook
  <2> QED BY <2>1, PnlFreshDay DEF PnlInv, PendingWhole
<1>2. PnlInv => PnlComplete
  BY DEF PnlInv, PnlOf, PnlComplete
<1> QED BY <1>1, <1>2, TypeCorrect, ConsistentInit, ConsistentStep, PnlStep, PTL DEF Spec
=============================================================================
