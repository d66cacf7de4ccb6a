---------------------------- MODULE OrbBookProofs ----------------------------
(***************************************************************************)
(* What the methods of one risk book return, for every set of tickets and  *)
(* pairs and every value of the limits.  TicketProofs and OrbEngineProofs  *)
(* cite these lemmas.                                                      *)
(***************************************************************************)
EXTENDS OrbBook, TotalsProofs

\* Half of a dollar amount is a dollar amount no larger than it.
LEMMA HalfBounds ==
    ASSUME NEW x \in Nat
    PROVE  Half(x) \in Nat /\ Half(x) <= x
BY SMT DEF Half

\* A floored difference of naturals is a natural, no larger than the first.
LEMMA FloorBounds ==
    ASSUME NEW x \in Nat, NEW y \in Nat
    PROVE  AtLeastZero(x - y) \in Nat /\ AtLeastZero(x - y) <= x
BY DEF AtLeastZero

\* The kill limit is a number.
LEMMA KillLimitType ==
    ASSUME NEW b \in Book
    PROVE  KillLimit(b) \in Int
BY BookConstants DEF KillLimit, Book

-----------------------------------------------------------------------------

\* A fresh book is a book.
LEMMA NewBookType ==
    ASSUME NEW e \in Nat
    PROVE  NewBook(e) \in Book
BY DEF NewBook, Book, Ticket, Blank

\* Every method of the book returns a book.
LEMMA BookMethodTypes ==
    ASSUME NEW b \in Book
    PROVE  /\ \A e \in Nat : EquityUpdated(b, e) \in Book
           /\ \A id \in TicketIds, r \in Nat, n \in Nat : Admitted(b, id, r, n) \in Book
           /\ \A id \in TicketIds : Released(b, id) \in Book /\ HalfReleased(b, id) \in Book
           /\ \A a \in Int, p \in Pairs : PnlRecorded(b, a, p) \in Book
           /\ SessionReset(b) \in Book
<1>2. ASSUME NEW e \in Nat PROVE EquityUpdated(b, e) \in Book
  BY <1>2 DEF EquityUpdated, Book
<1>3. ASSUME NEW id \in TicketIds, NEW r \in Nat, NEW n \in Nat
      PROVE  Admitted(b, id, r, n) \in Book
  <2>1. [risk |-> r, notional |-> n] \in Ticket
    BY DEF Ticket
  <2>2. [b.tickets EXCEPT ![id] = [risk |-> r, notional |-> n]] \in [TicketIds -> Ticket]
    BY <2>1 DEF Book
  <2>3. b.live \cup {id} \subseteq TicketIds
    BY DEF Book
  <2>4. b.openRisk + r \in Nat /\ b.openNotional + n \in Nat
    BY DEF Book
  <2> QED BY <2>2, <2>3, <2>4 DEF Admitted, Book
<1>4. ASSUME NEW id \in TicketIds PROVE Released(b, id) \in Book
  <2>1. b.tickets[id].risk \in Nat /\ b.tickets[id].notional \in Nat
    BY <1>4 DEF Book, Ticket
  <2>2. /\ AtLeastZero(b.openRisk - b.tickets[id].risk) \in Nat
        /\ AtLeastZero(b.openNotional - b.tickets[id].notional) \in Nat
    BY <2>1, FloorBounds DEF Book
  <2> QED BY <1>4, <2>2 DEF Released, Book, Ticket, Blank
<1>5. ASSUME NEW id \in TicketIds PROVE HalfReleased(b, id) \in Book
  <2> DEFINE t == b.tickets[id]
  <2>1. t.risk \in Nat /\ t.notional \in Nat
    BY <1>5 DEF Book, Ticket
  <2>2. /\ t.risk - Half(t.risk) \in Nat
        /\ t.notional - Half(t.notional) \in Nat
        /\ Half(t.risk) \in Nat /\ Half(t.notional) \in Nat
    BY <2>1, HalfBounds
  <2>3. /\ AtLeastZero(b.openRisk - Half(t.risk)) \in Nat
        /\ AtLeastZero(b.openNotional - Half(t.notional)) \in Nat
    BY <2>2, FloorBounds DEF Book
  <2> QED BY <1>5, <2>2, <2>3 DEF HalfReleased, Book, Ticket
<1>6. ASSUME NEW a \in Int, NEW p \in Pairs PROVE PnlRecorded(b, a, p) \in Book
  <2> DEFINE pnl == b.pnl + a
  <2>1. pnl \in Int /\ (IF pnl > b.peak THEN pnl ELSE b.peak) \in Nat
    BY DEF Book
  <2>2. (IF LossLock > 0 /\ a < -LossLock THEN b.locked \cup {p} ELSE b.locked) \in SUBSET Pairs
    BY DEF Book
  <2>3. (b.killed \/ PastKill(b, pnl)) \in BOOLEAN
    OBVIOUS
  <2> QED BY <2>1, <2>2, <2>3 DEF PnlRecorded, Book
<1>7. SessionReset(b) \in Book
  BY NewBookType DEF SessionReset, Book
<1> QED BY <1>2, <1>3, <1>4, <1>5, <1>6, <1>7


\* Releasing frees dollars and never adds any.
LEMMA ReleaseOnlyFrees ==
    ASSUME NEW b \in Book, NEW id \in TicketIds
    PROVE  /\ Released(b, id).openRisk <= b.openRisk
           /\ Released(b, id).openNotional <= b.openNotional
           /\ HalfReleased(b, id).openRisk <= b.openRisk
           /\ HalfReleased(b, id).openNotional <= b.openNotional
<1> DEFINE r == b.tickets[id].risk  n == b.tickets[id].notional
<1>1. b.openRisk \in Nat /\ b.openNotional \in Nat /\ r \in Nat /\ n \in Nat
  BY DEF Book, Ticket
<1>2. Half(r) \in Nat /\ Half(n) \in Nat
  BY <1>1, HalfBounds
<1>3. /\ AtLeastZero(b.openRisk - r) <= b.openRisk
      /\ AtLeastZero(b.openRisk - Half(r)) <= b.openRisk
      /\ AtLeastZero(b.openNotional - n) <= b.openNotional
      /\ AtLeastZero(b.openNotional - Half(n)) <= b.openNotional
  BY <1>1, <1>2, FloorBounds
<1>4. b.openRisk <= b.openRisk /\ b.openNotional <= b.openNotional
  BY <1>1
<1>5. CASE id \notin b.live
  BY <1>4, <1>5 DEF Released, HalfReleased
<1>6. CASE id \in b.live
  BY <1>3, <1>6 DEF Released, HalfReleased, Book
<1> QED BY <1>5, <1>6

-----------------------------------------------------------------------------

\* What a book holds: per live ticket, dollars; in all, naturals.
LEMMA HoldingTypes ==
    ASSUME NEW b \in Book
    PROVE  RiskOf(b) \in [b.live -> Nat] /\ NotionalOf(b) \in [b.live -> Nat]
BY DEF Book, Ticket, RiskOf, NotionalOf

\* An admission adds its dollars to what is held.
LEMMA AdmittedTotals ==
    ASSUME NEW b \in Book, IsFiniteSet(b.live), NEW id \in TicketIds, id \notin b.live,
           NEW r \in Nat, NEW n \in Nat
    PROVE  /\ IsFiniteSet(Admitted(b, id, r, n).live)
           /\ Total(RiskOf(Admitted(b, id, r, n))) = Total(RiskOf(b)) + r
           /\ Total(NotionalOf(Admitted(b, id, r, n))) = Total(NotionalOf(b)) + n
<1> DEFINE c == Admitted(b, id, r, n)
<1>1. c \in Book
  BY BookMethodTypes
<1>2. c.live = b.live \cup {id}
  BY DEF Admitted, Book
<1>3. c.tickets = [b.tickets EXCEPT ![id] = [risk |-> r, notional |-> n]]
  BY DEF Admitted, Book
<1>4. /\ c.tickets[id].risk = r /\ c.tickets[id].notional = n
      /\ \A t \in b.live : c.tickets[t] = b.tickets[t]
  BY <1>3 DEF Book
<1> HIDE DEF c
<1>5. IsFiniteSet(c.live)
  BY <1>2, FS_AddElement
<1> DEFINE S == b.live  fr == RiskOf(b)  gr == RiskOf(c)  fn == NotionalOf(b)  gn == NotionalOf(c)
<1>6. /\ fr \in [S -> Nat] /\ gr \in [S \cup {id} -> Nat]
      /\ fn \in [S -> Nat] /\ gn \in [S \cup {id} -> Nat]
  BY <1>1, <1>2, HoldingTypes
<1>7. /\ gr[id] = r /\ gn[id] = n
      /\ \A t \in S : gr[t] = fr[t] /\ gn[t] = fn[t]
  BY <1>2, <1>4 DEF RiskOf, NotionalOf
<1> HIDE DEF fr, gr, fn, gn
<1>8. Total(gr) = Total(fr) + gr[id] /\ Total(gn) = Total(fn) + gn[id]
  <2>1. /\ fr \in [S -> Int] /\ gr \in [S \cup {id} -> Int]
        /\ fn \in [S -> Int] /\ gn \in [S \cup {id} -> Int]
    BY <1>6
  <2> QED BY <1>7, <2>1, TotalAdd
<1> QED BY <1>5, <1>7, <1>8 DEF c, fr, gr, fn, gn

\* A release takes the dollars of its ticket, all of them within what is
\* held; it changes nothing when the book has no such ticket.
LEMMA ReleasedTotals ==
    ASSUME NEW b \in Book, IsFiniteSet(b.live), NEW id \in b.live
    PROVE  /\ IsFiniteSet(Released(b, id).live)
           /\ b.tickets[id].risk <= Total(RiskOf(b))
           /\ b.tickets[id].notional <= Total(NotionalOf(b))
           /\ Total(RiskOf(Released(b, id))) = Total(RiskOf(b)) - b.tickets[id].risk
           /\ Total(NotionalOf(Released(b, id))) = Total(NotionalOf(b)) - b.tickets[id].notional
<1> DEFINE c == Released(b, id)
<1>0. id \in TicketIds
  BY DEF Book
<1>1. c \in Book
  BY <1>0, BookMethodTypes
<1>2. c.live = b.live \ {id}
  BY DEF Released, Book
<1>3. \A t \in b.live \ {id} : c.tickets[t] = b.tickets[t]
  BY <1>0 DEF Released, Book
<1> HIDE DEF c
<1>4. IsFiniteSet(c.live)
  BY <1>2, FS_RemoveElement
<1> DEFINE S == b.live  fr == RiskOf(b)  gr == RiskOf(c)  fn == NotionalOf(b)  gn == NotionalOf(c)
<1>5. /\ fr \in [S -> Nat] /\ gr \in [S \ {id} -> Nat]
      /\ fn \in [S -> Nat] /\ gn \in [S \ {id} -> Nat]
  BY <1>1, <1>2, HoldingTypes
<1>6. /\ fr[id] = b.tickets[id].risk /\ fn[id] = b.tickets[id].notional
      /\ \A t \in S \ {id} : gr[t] = fr[t] /\ gn[t] = fn[t]
  BY <1>2, <1>3 DEF RiskOf, NotionalOf
<1> HIDE DEF fr, gr, fn, gn
<1>7. /\ Total(gr) = Total(fr) - fr[id] /\ fr[id] <= Total(fr)
      /\ Total(gn) = Total(fn) - fn[id] /\ fn[id] <= Total(fn)
  <2>1. /\ fr \in [S -> Int] /\ gr \in [S \ {id} -> Int]
        /\ fn \in [S -> Int] /\ gn \in [S \ {id} -> Int]
    BY <1>5
  <2>2. fr[id] <= Total(fr) /\ fn[id] <= Total(fn)
    BY <1>5, TotalCovers
  <2> QED BY <1>6, <2>1, <2>2, TotalRemove
<1> QED BY <1>4, <1>6, <1>7 DEF c, fr, gr, fn, gn

\* A partial release takes half of them.
LEMMA HalfReleasedTotals ==
    ASSUME NEW b \in Book, IsFiniteSet(b.live), NEW id \in b.live
    PROVE  /\ HalfReleased(b, id).live = b.live
           /\ \A t \in b.live \ {id} : HalfReleased(b, id).tickets[t] = b.tickets[t]
           /\ HalfReleased(b, id).tickets[id].risk =
                b.tickets[id].risk - Half(b.tickets[id].risk)
           /\ Total(RiskOf(HalfReleased(b, id))) =
                Total(RiskOf(b)) - Half(b.tickets[id].risk)
           /\ Total(NotionalOf(HalfReleased(b, id))) =
                Total(NotionalOf(b)) - Half(b.tickets[id].notional)
<1> DEFINE c == HalfReleased(b, id)  r == b.tickets[id].risk  n == b.tickets[id].notional
<1>0. id \in TicketIds /\ r \in Nat /\ n \in Nat
  BY DEF Book, Ticket
<1>1. c \in Book
  BY <1>0, BookMethodTypes
<1>2. c.live = b.live
  BY DEF HalfReleased, Book
<1>3. /\ c.tickets[id] = [risk |-> r - Half(r), notional |-> n - Half(n)]
      /\ \A t \in b.live \ {id} : c.tickets[t] = b.tickets[t]
  BY <1>0 DEF HalfReleased, Book
<1>4. Half(r) \in Nat /\ Half(n) \in Nat
  BY <1>0, HalfBounds
<1> HIDE DEF c, r, n
<1> DEFINE S == b.live  fr == RiskOf(b)  gr == RiskOf(c)  fn == NotionalOf(b)  gn == NotionalOf(c)
<1>5. /\ fr \in [S -> Nat] /\ gr \in [S -> Nat]
      /\ fn \in [S -> Nat] /\ gn \in [S -> Nat]
  BY <1>1, <1>2, HoldingTypes
<1>6. /\ fr[id] = r /\ fn[id] = n /\ gr[id] = r - Half(r) /\ gn[id] = n - Half(n)
      /\ \A t \in S \ {id} : gr[t] = fr[t] /\ gn[t] = fn[t]
  BY <1>2, <1>3 DEF RiskOf, NotionalOf, r, n
<1> HIDE DEF fr, gr, fn, gn
<1>7. /\ Total(gr) = Total(fr) + gr[id] - fr[id] /\ Total(gn) = Total(fn) + gn[id] - fn[id]
      /\ Total(fr) \in Int /\ Total(fn) \in Int
  <2>1. /\ fr \in [S -> Int] /\ gr \in [S -> Int]
        /\ fn \in [S -> Int] /\ gn \in [S -> Int]
    BY <1>5
  <2> QED BY <1>6, <2>1, TotalChange, TotalType
<1>8. Total(gr) = Total(fr) - Half(r) /\ Total(gn) = Total(fn) - Half(n)
  BY <1>0, <1>4, <1>6, <1>7
<1> QED BY <1>2, <1>3, <1>8 DEF c, fr, gr, fn, gn, r, n

\* A new book holds nothing.
LEMMA EmptyBookTotals ==
    ASSUME NEW e
    PROVE  /\ IsFiniteSet(NewBook(e).live)
           /\ NewBook(e).openRisk = Total(RiskOf(NewBook(e)))
           /\ NewBook(e).openNotional = Total(NotionalOf(NewBook(e)))
<1> DEFINE c == NewBook(e)  fr == RiskOf(c)  fn == NotionalOf(c)
<1>1. c.live = {} /\ c.openRisk = 0 /\ c.openNotional = 0
  BY DEF NewBook
<1>2. fr \in [{} -> Int] /\ fn \in [{} -> Int]
  BY <1>1 DEF RiskOf, NotionalOf
<1> HIDE DEF fr, fn, c
<1>3. Total(fr) = 0 /\ Total(fn) = 0
  BY <1>2, TotalZero
<1> QED BY <1>1, <1>3, FS_EmptySet DEF fr, fn, c
=============================================================================
