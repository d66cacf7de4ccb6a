--------------------------- MODULE ExecutorProofs ---------------------------
(***************************************************************************)
(* Theorems about the books that send orders of their own: an executor in  *)
(* the last hour (EodExecutor) and the earnings watcher (Earnings).        *)
(***************************************************************************)
EXTENDS EodExecutor, Earnings, TotalsProofs

-----------------------------------------------------------------------------
(***************************************************************************)
(* The last hour of an executor for any set of tickers, any lot, any order *)
(* of the cutoffs the code allows, and any number of scans and troubles.   *)
(***************************************************************************)

Kinds == {"entry", "exit", "PARTIAL", "EXIT"}
Directions == {"V10", "PARTIAL", "EXIT"} \X {-1, 0, 1}

\* An order that can be sent.
RealOrders ==
    {o \in [kind : Kinds, t : Tickers, side : {-1, 1}, qty : Nat \ {0}, dir : Directions, sent : BOOLEAN] :
       o.dir = Direction(o.kind, o.side)}

Books == [Tickers -> Int]

\* What every variable may hold, and what is left when the process is down.
EodTypes ==
    /\ minute \in 1..LastMinute /\ up \in BOOLEAN
    /\ pos \in Books /\ row \in Books /\ orb \in Books
    /\ ids \subseteq Tickers \X Directions
    /\ eod \in [open : Books, attempted : BOOLEAN]
    /\ scan \in [stage : {"idle", "exits", "entries", "stop", "close"}, now : 0..LastMinute,
                 todo : SUBSET (Tickers \cup Legs), order : RealOrders \cup {NoOrder}]
    /\ sweep \in {"no", "due", "closed", "wiped", "done", "failed", "cut"}
    /\ bot \in [cmd : {"none", "close", "halt"}, order : RealOrders \cup {NoOrder}]
    /\ hist \in [fills : [Legs -> SUBSET (1..LastMinute)], double : BOOLEAN, boots : Nat,
                 blind : SUBSET Tickers, late : SUBSET Tickers, troubles : Nat, scans : Nat]
    /\ ~up => scan = NoScan /\ bot = NoBot /\ eod = NoEod /\ hist.blind = Tickers

\* What a pass of the scan still goes through, and the order it is waiting for.
PassInv ==
    /\ scan.stage = "idle" => scan.order = NoOrder
    /\ scan.stage = "exits" => scan.todo \subseteq Open(orb)
    /\ scan.stage = "entries" => scan.todo \subseteq Legs /\ ~eod.attempted /\ EntryWindow(scan.now)
    /\ scan.stage \in {"stop", "close"} => scan.todo \subseteq Open(eod.open)
    /\ scan.order.kind = "entry" => /\ scan.stage = "entries"
                                    /\ <<scan.order.t, scan.order.side>> \notin scan.todo
    /\ scan.order.kind # "EXIT"
    /\ bot.cmd = "close" => bot.order \in RealOrders /\ bot.order.kind = "EXIT"
    /\ bot.cmd # "close" => bot.order = NoOrder

\* Nothing but exits and partials is under way once the sweep was sent.
SweepInv ==
    /\ sweep # "no" => /\ minute >= SweepAt
                       /\ scan.stage # "idle" => scan.now >= SweepAt
                       /\ scan.order.kind \in {"none", "exit", "PARTIAL"}
    /\ FlatAfterSweep

\* This process may still have an entry of a leg filled.
Unused(leg) ==
    /\ ~eod.attempted
    /\ \/ scan.stage # "entries"
       \/ leg \in scan.todo
       \/ /\ scan.order.kind = "entry" /\ ~scan.order.sent
          /\ scan.order.t = leg[1] /\ scan.order.side = leg[2]

FillInv ==
    /\ ~hist.double
    /\ \A leg \in Legs :
         /\ \A m \in hist.fills[leg] : m <= minute
         /\ minute \in hist.fills[leg] => <<leg[1], <<"V10", leg[2]>>>> \in ids
         /\ Cardinality(hist.fills[leg]) <= 1 + hist.boots
         /\ up /\ Unused(leg) => Cardinality(hist.fills[leg]) <= hist.boots

\* A ticker that is held and has no row is waiting for the row of an order,
\* or the process may not know of it.
RowAwaited(t) == scan.order.sent /\ scan.order.t = t /\ scan.order.kind \in {"entry", "exit"}

TrackInv ==
    /\ bot.cmd = "close" => bot.order.t \in hist.blind
    /\ scan.order.kind = "PARTIAL" /\ scan.order.t \notin hist.blind /\ ~SweepClosed
          => row[scan.order.t] # 0
    /\ up /\ sweep \notin {"closed", "wiped"} =>
         \A t \in Tickers \ hist.blind : pos[t] # 0 /\ row[t] = 0 => RowAwaited(t)

EodInv == EodTypes /\ PassInv /\ SweepInv /\ FillInv /\ TrackInv

-----------------------------------------------------------------------------
(* The operators. *)

LEMMA SignFacts ==
    ASSUME NEW n \in Int, n # 0
    PROVE  /\ Sign(n) \in {-1, 1} /\ -Sign(n) \in {-1, 1}
           /\ Abs(n) \in Nat \ {0}
<1>1. Sign(n) = 1 \/ Sign(n) = -1
  BY DEF Sign
<1>2. Abs(n) \in Nat /\ Abs(n) # 0
  BY DEF Abs
<1>3. -Sign(n) = 1 \/ -Sign(n) = -1
  BY <1>1
<1> QED BY <1>1, <1>2, <1>3

\* An order with a side and a size is a real one.
LEMMA OrderFacts ==
    ASSUME NEW k \in Kinds, NEW t \in Tickers, NEW s \in {-1, 1}, NEW q \in Nat \ {0}
    PROVE  /\ Order(k, t, s, q) \in RealOrders
           /\ Order(k, t, s, q).kind = k /\ Order(k, t, s, q).t = t
           /\ Order(k, t, s, q).side = s /\ ~Order(k, t, s, q).sent
<1>1. Direction(k, s) \in Directions
  BY DEF Direction, Directions, Kinds
<1> QED BY <1>1 DEF Order, RealOrders

\* The order that closes what is held is a real one.
LEMMA CloseFacts ==
    ASSUME NEW k \in Kinds, NEW t \in Tickers, NEW n \in Int, n # 0
    PROVE  /\ CloseOrder(k, t, n) \in RealOrders
           /\ CloseOrder(k, t, n).kind = k /\ CloseOrder(k, t, n).t = t
           /\ ~CloseOrder(k, t, n).sent
BY SignFacts, OrderFacts DEF CloseOrder

LEMMA NoOrderFacts ==
    /\ NoOrder.kind = "none" /\ ~NoOrder.sent
    /\ NoOrder \notin RealOrders
    /\ \A o \in RealOrders : o # NoOrder /\ o.kind # "none"
<1>1. NoOrder.kind = "none" /\ ~NoOrder.sent
  BY DEF NoOrder
<1>2. \A o \in RealOrders : o.kind # "none"
  BY DEF RealOrders, Kinds
<1> QED BY <1>1, <1>2

\* The records of the scan, seen by their fields.
LEMMA ScanFields ==
    ASSUME EodTypes
    PROVE  /\ scan.stage \in {"idle", "exits", "entries", "stop", "close"}
           /\ scan.now \in 0..LastMinute /\ scan.todo \in SUBSET (Tickers \cup Legs)
           /\ scan.order \in RealOrders \cup {NoOrder}
           /\ scan.order # NoOrder => scan.order \in RealOrders
           /\ eod.open \in Books /\ eod.attempted \in BOOLEAN
           /\ NoScan.stage = "idle" /\ NoScan.order = NoOrder /\ NoScan.todo = {}
           /\ NoScan \in [stage : {"idle", "exits", "entries", "stop", "close"}, now : 0..LastMinute,
                          todo : SUBSET (Tickers \cup Legs), order : RealOrders \cup {NoOrder}]
<1>1. 0 \in 0..LastMinute
  BY ClockOrder
<1> QED BY <1>1 DEF EodTypes, NoScan

\* A pass that has nothing under way moves on, and leaves the account, the
\* rows and the other threads alone.
LEMMA ScanMoves ==
    ASSUME EodInv, up, scan.order = NoOrder,
           UNCHANGED <<minute, up, pos, ids, row, sweep, bot>>,
           orb' \in Books, eod' \in [open : Books, attempted : BOOLEAN],
           scan' \in [stage : {"idle", "exits", "entries", "stop", "close"}, now : 0..LastMinute,
                      todo : SUBSET (Tickers \cup Legs), order : RealOrders \cup {NoOrder}],
           ~scan'.order.sent, scan'.order.kind # "EXIT",
           hist' = hist \/ hist' = [hist EXCEPT !.scans = @ + 1],
           scan'.stage = "idle" => scan'.order = NoOrder,
           scan'.stage = "exits" => scan'.todo \subseteq Open(orb'),
           scan'.stage = "entries" => scan'.todo \subseteq Legs /\ ~eod'.attempted /\ EntryWindow(scan'.now),
           scan'.stage \in {"stop", "close"} => scan'.todo \subseteq Open(eod'.open),
           scan'.order.kind = "entry" => /\ scan'.stage = "entries"
                                         /\ <<scan'.order.t, scan'.order.side>> \notin scan'.todo,
           sweep # "no" => /\ scan'.stage # "idle" => scan'.now >= SweepAt
                           /\ scan'.order.kind \in {"none", "exit", "PARTIAL"},
           scan'.order.kind = "PARTIAL" => row[scan'.order.t] # 0,
           \A leg \in Legs : Unused(leg)' => Unused(leg)
    PROVE  EodInv'
<1>1. /\ hist' \in [fills : [Legs -> SUBSET (1..LastMinute)], double : BOOLEAN, boots : Nat,
                    blind : SUBSET Tickers, late : SUBSET Tickers, troubles : Nat, scans : Nat]
      /\ hist'.fills = hist.fills /\ hist'.double = hist.double /\ hist'.boots = hist.boots
      /\ hist'.blind = hist.blind /\ hist'.late = hist.late
  BY DEF EodInv, EodTypes
<1>2. EodTypes'
  BY <1>1 DEF EodInv, EodTypes
<1>3. PassInv'
  BY DEF EodInv, PassInv
<1>4. SweepInv'
  BY <1>1 DEF EodInv, SweepInv, FlatAfterSweep, SweepClosed
<1>5. FillInv'
  BY <1>1 DEF EodInv, FillInv
<1>6. ~scan.order.sent
  BY NoOrderFacts
<1>7. TrackInv'
  BY <1>1, <1>6 DEF EodInv, TrackInv, SweepClosed, RowAwaited
<1> QED BY <1>2, <1>3, <1>4, <1>5, <1>7 DEF EodInv

-----------------------------------------------------------------------------
(* The scan. *)

LEMMA BeginScanInv == EodInv /\ BeginScan => EodInv'
<1> SUFFICES ASSUME EodInv, BeginScan PROVE EodInv'
  OBVIOUS
<1>0. /\ up /\ scan.stage = "idle" /\ scan.order = NoOrder
      /\ orb' = [t \in Tickers |-> IF row[t] = 0 THEN 0 ELSE IF orb[t] = 0 THEN row[t] ELSE orb[t]]
      /\ scan' = [NoScan EXCEPT !.stage = "exits", !.now = minute, !.todo = Open(orb')]
      /\ hist' = [hist EXCEPT !.scans = @ + 1]
      /\ UNCHANGED <<minute, up, pos, ids, row, eod, sweep, bot>>
  BY DEF BeginScan, AtStage
<1>1. orb' \in Books
  BY <1>0 DEF EodInv, EodTypes, Books
<1>2. Open(orb') \subseteq Tickers
  BY DEF Open
<1>3. minute \in 0..LastMinute /\ minute \in Int
  BY ClockOrder DEF EodInv, EodTypes
<1>4. /\ scan'.stage = "exits" /\ scan'.now = minute /\ scan'.todo = Open(orb') /\ scan'.order = NoOrder
      /\ scan' \in [stage : {"idle", "exits", "entries", "stop", "close"}, now : 0..LastMinute,
                    todo : SUBSET (Tickers \cup Legs), order : RealOrders \cup {NoOrder}]
  BY <1>0, <1>2, <1>3 DEF NoScan
<1>5. sweep # "no" => minute >= SweepAt
  BY DEF EodInv, SweepInv
<1>6. \A leg \in Legs : Unused(leg)' => Unused(leg)
  BY <1>0, <1>4 DEF Unused
<1>7. eod' \in [open : Books, attempted : BOOLEAN]
  BY <1>0 DEF EodInv, EodTypes
<1> QED BY <1>0, <1>1, <1>4, <1>5, <1>6, <1>7, ScanMoves, NoOrderFacts

LEMMA ExitHoldInv == \A t \in Tickers : EodInv /\ ExitHold(t) => EodInv'
<1> SUFFICES ASSUME NEW t \in Tickers, EodInv, ExitHold(t) PROVE EodInv'
  OBVIOUS
<1>0. /\ up /\ scan.stage = "exits" /\ scan.order = NoOrder /\ t \in scan.todo
      /\ scan' = [scan EXCEPT !.todo = @ \ {t}]
      /\ UNCHANGED <<minute, up, pos, ids, row, orb, eod, sweep, bot, hist>>
  BY DEF ExitHold, AtStage
<1>1. /\ scan'.stage = "exits" /\ scan'.now = scan.now /\ scan'.todo = scan.todo \ {t}
      /\ scan'.order = NoOrder
      /\ scan' \in [stage : {"idle", "exits", "entries", "stop", "close"}, now : 0..LastMinute,
                    todo : SUBSET (Tickers \cup Legs), order : RealOrders \cup {NoOrder}]
  BY <1>0 DEF EodInv, EodTypes
<1>2. scan.todo \subseteq Open(orb) /\ (sweep # "no" => scan.now >= SweepAt)
  BY <1>0 DEF EodInv, PassInv, SweepInv
<1>3. \A leg \in Legs : Unused(leg)' => Unused(leg)
  BY <1>0, <1>1 DEF Unused
<1>4. orb' \in Books /\ eod' \in [open : Books, attempted : BOOLEAN]
  BY <1>0 DEF EodInv, EodTypes
<1> QED BY <1>0, <1>1, <1>2, <1>3, <1>4, ScanMoves, NoOrderFacts

LEMMA ExitFullInv == \A t \in Tickers : EodInv /\ ExitFull(t) => EodInv'
<1> SUFFICES ASSUME NEW t \in Tickers, EodInv, ExitFull(t) PROVE EodInv'
  OBVIOUS
<1> DEFINE o == CloseOrder("exit", t, orb[t])
<1>0. /\ up /\ scan.stage = "exits" /\ scan.order = NoOrder /\ t \in scan.todo
      /\ orb' = [orb EXCEPT ![t] = 0]
      /\ scan' = [scan EXCEPT !.todo = @ \ {t}, !.order = o]
      /\ UNCHANGED <<minute, up, pos, ids, row, eod, sweep, bot, hist>>
  BY DEF ExitFull, AtStage
<1>1. scan.todo \subseteq Open(orb) /\ (sweep # "no" => scan.now >= SweepAt)
  BY <1>0 DEF EodInv, PassInv, SweepInv
<1>2. orb[t] \in Int /\ orb[t] # 0
  BY <1>0, <1>1 DEF EodInv, EodTypes, Books, Open
<1>3. o \in RealOrders /\ o.kind = "exit" /\ ~o.sent
  BY <1>2, CloseFacts DEF Kinds
<1> HIDE DEF o
<1>4. /\ scan'.stage = "exits" /\ scan'.now = scan.now /\ scan'.todo = scan.todo \ {t}
      /\ scan'.order = o
      /\ scan' \in [stage : {"idle", "exits", "entries", "stop", "close"}, now : 0..LastMinute,
                    todo : SUBSET (Tickers \cup Legs), order : RealOrders \cup {NoOrder}]
  BY <1>0, <1>3 DEF EodInv, EodTypes
<1>5. \A leg \in Legs : Unused(leg)' => Unused(leg)
  BY <1>0, <1>4 DEF Unused
<1>6. orb' \in Books /\ eod' \in [open : Books, attempted : BOOLEAN]
  BY <1>0 DEF EodInv, EodTypes, Books
<1>7. scan.todo \ {t} \subseteq Open(orb')
  BY <1>0, <1>1 DEF EodInv, EodTypes, Books, Open
<1> QED BY <1>0, <1>1, <1>3, <1>4, <1>5, <1>6, <1>7, ScanMoves

LEMMA ExitPartialInv == \A t \in Tickers : EodInv /\ ExitPartial(t) => EodInv'
<1> SUFFICES ASSUME NEW t \in Tickers, EodInv, ExitPartial(t) PROVE EodInv'
  OBVIOUS
<1> DEFINE o == IF Abs(row[t]) > 1 THEN Order("PARTIAL", t, -Sign(row[t]), 1) ELSE NoOrder
<1>0. /\ up /\ scan.stage = "exits" /\ scan.order = NoOrder /\ t \in scan.todo
      /\ orb' = [orb EXCEPT ![t] = @ - Sign(@)]
      /\ scan' = [scan EXCEPT !.todo = @ \ {t}, !.order = o]
      /\ UNCHANGED <<minute, up, pos, ids, row, eod, sweep, bot, hist>>
  BY DEF ExitPartial, AtStage
<1>1. sweep # "no" => scan.now >= SweepAt
  BY <1>0 DEF EodInv, SweepInv
<1>2. row[t] \in Int /\ orb[t] \in Int
  BY DEF EodInv, EodTypes, Books
<1>3. /\ o \in RealOrders \cup {NoOrder} /\ o.kind \in {"none", "PARTIAL"} /\ ~o.sent
      /\ o.kind = "PARTIAL" => o.t = t /\ row[t] # 0
  <2>1. CASE Abs(row[t]) > 1
    <3>1. row[t] # 0
      BY <2>1 DEF Abs
    <3>2. -Sign(row[t]) \in {-1, 1}
      BY <1>2, <3>1, SignFacts
    <3> QED BY <2>1, <3>1, <3>2, OrderFacts DEF Kinds
  <2>2. CASE ~(Abs(row[t]) > 1)
    BY <2>2, NoOrderFacts
  <2> QED BY <2>1, <2>2
<1> HIDE DEF o
<1>4. /\ scan'.stage = "exits" /\ scan'.now = scan.now /\ scan'.todo = scan.todo \ {t}
      /\ scan'.order = o
      /\ scan' \in [stage : {"idle", "exits", "entries", "stop", "close"}, now : 0..LastMinute,
                    todo : SUBSET (Tickers \cup Legs), order : RealOrders \cup {NoOrder}]
  BY <1>0, <1>3 DEF EodInv, EodTypes
<1>5. \A leg \in Legs : Unused(leg)' => Unused(leg)
  BY <1>0, <1>4 DEF Unused
<1>6. orb' \in Books /\ eod' \in [open : Books, attempted : BOOLEAN]
  <2>1. orb[t] - Sign(orb[t]) \in Int
    BY <1>2 DEF Sign
  <2> QED BY <1>0, <2>1 DEF EodInv, EodTypes, Books
<1>7. scan.todo \ {t} \subseteq Open(orb')
  BY <1>0 DEF EodInv, EodTypes, PassInv, Books, Open
<1> QED BY <1>0, <1>1, <1>3, <1>4, <1>5, <1>6, <1>7, ScanMoves

LEMMA NoSignalInv == EodInv /\ NoSignal => EodInv'
<1> SUFFICES ASSUME EodInv, NoSignal PROVE EodInv'
  OBVIOUS
<1>0. /\ up /\ scan.stage = "exits" /\ scan.order = NoOrder /\ scan' = NoScan
      /\ UNCHANGED <<minute, up, pos, ids, row, orb, eod, sweep, bot, hist>>
  BY DEF NoSignal, AtStage
<1>1. \A leg \in Legs : Unused(leg)' => Unused(leg)
  BY <1>0 DEF Unused
<1>2. orb' \in Books /\ eod' \in [open : Books, attempted : BOOLEAN]
  BY <1>0 DEF EodInv, EodTypes
<1>3. EodTypes
  BY DEF EodInv
<1> QED BY <1>0, <1>1, <1>2, <1>3, ScanFields, ScanMoves, NoOrderFacts

LEMMA EndScanInv == EodInv /\ EndScan => EodInv'
<1> SUFFICES ASSUME EodInv, EndScan PROVE EodInv'
  OBVIOUS
<1>0. /\ up /\ scan.stage \in {"stop", "close"} /\ scan.order = NoOrder /\ scan' = NoScan
      /\ UNCHANGED <<minute, up, pos, ids, row, orb, eod, sweep, bot, hist>>
  BY DEF EndScan, AtStage
<1>1. \A leg \in Legs : Unused(leg)' => Unused(leg)
  BY <1>0 DEF Unused
<1>2. orb' \in Books /\ eod' \in [open : Books, attempted : BOOLEAN]
  BY <1>0 DEF EodInv, EodTypes
<1>3. EodTypes
  BY DEF EodInv
<1> QED BY <1>0, <1>1, <1>2, <1>3, ScanFields, ScanMoves, NoOrderFacts

LEMMA BeginEntriesInv == EodInv /\ BeginEntries => EodInv'
<1> SUFFICES ASSUME EodInv, BeginEntries PROVE EodInv'
  OBVIOUS
<1>0. /\ up /\ scan.stage = "exits" /\ scan.order = NoOrder /\ EntryWindow(scan.now) /\ ~eod.attempted
      /\ UNCHANGED <<minute, up, pos, ids, row, orb, eod, sweep, bot, hist>>
  BY DEF BeginEntries, AtStage
<1>1. PICK legs \in Picks \ {{}} : scan' = [scan EXCEPT !.stage = "entries", !.todo = legs]
  BY DEF BeginEntries
<1>2. legs \subseteq Legs
  BY DEF Picks
<1>3. /\ scan'.stage = "entries" /\ scan'.now = scan.now /\ scan'.todo = legs /\ scan'.order = NoOrder
      /\ scan' \in [stage : {"idle", "exits", "entries", "stop", "close"}, now : 0..LastMinute,
                    todo : SUBSET (Tickers \cup Legs), order : RealOrders \cup {NoOrder}]
  BY <1>0, <1>1, <1>2 DEF EodInv, EodTypes
<1>4. \A leg \in Legs : Unused(leg)' => Unused(leg)
  BY <1>0 DEF Unused
<1>5. orb' \in Books /\ eod' \in [open : Books, attempted : BOOLEAN]
  BY <1>0 DEF EodInv, EodTypes
<1>6. sweep # "no" => scan.now >= SweepAt
  BY <1>0 DEF EodInv, SweepInv
<1> QED BY <1>0, <1>2, <1>3, <1>4, <1>5, <1>6, ScanMoves, NoOrderFacts

\* A pass over the open legs begins, or there are none and the scan is over.
LEMMA PassFacts ==
    ASSUME EodInv, up, scan.order = NoOrder, NEW s \in {"stop", "close"},
           scan.stage # "idle", NEW T \in SUBSET Tickers
    PROVE  /\ PassOrEnd(s, T) \in
                [stage : {"idle", "exits", "entries", "stop", "close"}, now : 0..LastMinute,
                 todo : SUBSET (Tickers \cup Legs), order : RealOrders \cup {NoOrder}]
           /\ PassOrEnd(s, T).stage \in {"idle", s} /\ PassOrEnd(s, T).order = NoOrder
           /\ PassOrEnd(s, T).todo = T
           /\ sweep # "no" /\ PassOrEnd(s, T).stage # "idle" => PassOrEnd(s, T).now >= SweepAt
<1>1. EodTypes
  BY DEF EodInv
<1>2. CASE T = {}
  BY <1>1, <1>2, ScanFields DEF PassOrEnd
<1>3. CASE T # {}
  <2>1. PassOrEnd(s, T) = [scan EXCEPT !.stage = s, !.todo = T]
    BY <1>3 DEF PassOrEnd
  <2> QED BY <2>1 DEF EodInv, EodTypes, SweepInv
<1> QED BY <1>2, <1>3

LEMMA BeginEodExitsInv == EodInv /\ BeginEodExits => EodInv'
<1> SUFFICES ASSUME EodInv, BeginEodExits PROVE EodInv'
  OBVIOUS
<1> DEFINE s == IF ExitWindow(scan.now) THEN "close" ELSE "stop"
<1>0. /\ up /\ scan.stage = "exits" /\ scan.order = NoOrder
      /\ scan' = PassOrEnd(s, Open(eod.open))
      /\ UNCHANGED <<minute, up, pos, ids, row, orb, eod, sweep, bot, hist>>
  BY DEF BeginEodExits, AtStage
<1>1. s \in {"stop", "close"} /\ Open(eod.open) \subseteq Tickers
  BY DEF Open
<1> HIDE DEF s
<1>2. /\ scan' \in [stage : {"idle", "exits", "entries", "stop", "close"}, now : 0..LastMinute,
                    todo : SUBSET (Tickers \cup Legs), order : RealOrders \cup {NoOrder}]
      /\ scan'.stage \in {"idle", s} /\ scan'.order = NoOrder /\ scan'.todo = Open(eod.open)
      /\ sweep # "no" /\ scan'.stage # "idle" => scan'.now >= SweepAt
  BY <1>0, <1>1, PassFacts
<1>3. \A leg \in Legs : Unused(leg)' => Unused(leg)
  BY <1>0 DEF Unused
<1>4. orb' \in Books /\ eod' \in [open : Books, attempted : BOOLEAN]
  BY <1>0 DEF EodInv, EodTypes
<1> QED BY <1>0, <1>1, <1>2, <1>3, <1>4, ScanMoves, NoOrderFacts

LEMMA EnterLegInv == \A leg \in Legs : EodInv /\ EnterLeg(leg) => EodInv'
<1> SUFFICES ASSUME NEW leg \in Legs, EodInv, EnterLeg(leg) PROVE EodInv'
  OBVIOUS
<1> DEFINE o == Order("entry", leg[1], leg[2], Lot)
<1>0. /\ up /\ scan.stage = "entries" /\ scan.order = NoOrder /\ leg \in scan.todo
      /\ eod' = [eod EXCEPT !.open[leg[1]] = IF @ = 0 THEN leg[2] * Lot ELSE @]
      /\ scan' = [scan EXCEPT !.todo = @ \ {leg}, !.order = o]
      /\ UNCHANGED <<minute, up, pos, ids, row, orb, sweep, bot, hist>>
  BY DEF EnterLeg, AtStage
<1>1. leg[1] \in Tickers /\ leg[2] \in {-1, 1} /\ leg = <<leg[1], leg[2]>>
  BY DEF Legs
<1>2. /\ o \in RealOrders /\ o.kind = "entry" /\ ~o.sent /\ o.t = leg[1] /\ o.side = leg[2]
  BY <1>1, LotAssumption, OrderFacts DEF Kinds
<1> HIDE DEF o
<1>3. /\ scan'.stage = "entries" /\ scan'.now = scan.now /\ scan'.todo = scan.todo \ {leg}
      /\ scan'.order = o
      /\ scan' \in [stage : {"idle", "exits", "entries", "stop", "close"}, now : 0..LastMinute,
                    todo : SUBSET (Tickers \cup Legs), order : RealOrders \cup {NoOrder}]
  BY <1>0, <1>2 DEF EodInv, EodTypes
<1>4. eod' \in [open : Books, attempted : BOOLEAN] /\ eod'.attempted = eod.attempted
  <2>1. leg[2] * Lot \in Int
    BY <1>1, LotAssumption
  <2>2. PICK v \in Int : eod' = [eod EXCEPT !.open = [eod.open EXCEPT ![leg[1]] = v]]
    <3>1. eod.open[leg[1]] \in Int
      BY <1>1 DEF EodInv, EodTypes, Books
    <3>2. (IF eod.open[leg[1]] = 0 THEN leg[2] * Lot ELSE eod.open[leg[1]]) \in Int
      BY <2>1, <3>1
    <3> QED BY <1>0, <3>2
  <2> QED BY <2>2 DEF EodInv, EodTypes, Books
<1>5. scan.todo \subseteq Legs /\ ~eod.attempted /\ EntryWindow(scan.now)
  BY <1>0 DEF EodInv, PassInv
\* The entry window was over before the sweep was sent.
<1>6. sweep = "no"
  <2>1. scan.now <= EntryEnd /\ scan.now \in Int
    BY <1>5 DEF EntryWindow, EodInv, EodTypes
  <2> QED BY <1>0, <2>1, ClockOrder DEF EodInv, SweepInv
<1>7. ASSUME NEW l \in Legs, Unused(l)' PROVE Unused(l)
  <2>1. l \in scan.todo \ {leg} \/ (leg[1] = l[1] /\ leg[2] = l[2])
    BY <1>2, <1>3, <1>7 DEF Unused
  <2>2. leg[1] = l[1] /\ leg[2] = l[2] => leg = l
    BY DEF Legs
  <2> QED BY <1>0, <1>5, <2>1, <2>2 DEF Unused
<1>8. orb' \in Books
  BY <1>0 DEF EodInv, EodTypes
<1>9. <<o.t, o.side>> = leg
  BY <1>1, <1>2
<1> QED BY <1>0, <1>2, <1>3, <1>4, <1>5, <1>6, <1>7, <1>8, <1>9, ScanMoves

LEMMA EndEntriesInv == EodInv /\ EndEntries => EodInv'
<1> SUFFICES ASSUME EodInv, EndEntries PROVE EodInv'
  OBVIOUS
<1>0. /\ up /\ scan.stage = "entries" /\ scan.order = NoOrder
      /\ eod' = [eod EXCEPT !.attempted = TRUE]
      /\ scan' = PassOrEnd("stop", Open(eod.open))
      /\ UNCHANGED <<minute, up, pos, ids, row, orb, sweep, bot, hist>>
  BY DEF EndEntries, AtStage
<1>1. Open(eod.open) \subseteq Tickers
  BY DEF Open
<1>2. /\ scan' \in [stage : {"idle", "exits", "entries", "stop", "close"}, now : 0..LastMinute,
                    todo : SUBSET (Tickers \cup Legs), order : RealOrders \cup {NoOrder}]
      /\ scan'.stage \in {"idle", "stop"} /\ scan'.order = NoOrder /\ scan'.todo = Open(eod.open)
      /\ sweep # "no" /\ scan'.stage # "idle" => scan'.now >= SweepAt
  BY <1>0, <1>1, PassFacts
<1>3. eod' \in [open : Books, attempted : BOOLEAN] /\ eod'.attempted /\ eod'.open = eod.open
  BY <1>0 DEF EodInv, EodTypes
<1>4. \A leg \in Legs : Unused(leg)' => Unused(leg)
  BY <1>3 DEF Unused
<1>5. orb' \in Books
  BY <1>0 DEF EodInv, EodTypes
<1> QED BY <1>0, <1>2, <1>3, <1>4, <1>5, ScanMoves, NoOrderFacts

LEMMA CloseLegInv == \A t \in Tickers : EodInv /\ CloseLeg(t) => EodInv'
<1> SUFFICES ASSUME NEW t \in Tickers, EodInv, CloseLeg(t) PROVE EodInv'
  OBVIOUS
<1> DEFINE o == CloseOrder("exit", t, eod.open[t])
<1>0. /\ up /\ scan.stage \in {"stop", "close"} /\ scan.order = NoOrder /\ t \in scan.todo
      /\ eod' = [eod EXCEPT !.open[t] = 0]
      /\ scan' = [scan EXCEPT !.todo = @ \ {t}, !.order = o]
      /\ UNCHANGED <<minute, up, pos, ids, row, orb, sweep, bot, hist>>
  BY DEF CloseLeg, AtStage
<1>1. scan.todo \subseteq Open(eod.open) /\ (sweep # "no" => scan.now >= SweepAt)
  BY <1>0 DEF EodInv, PassInv, SweepInv
<1>2. eod.open[t] \in Int /\ eod.open[t] # 0
  BY <1>0, <1>1 DEF EodInv, EodTypes, Books, Open
<1>3. o \in RealOrders /\ o.kind = "exit" /\ ~o.sent
  BY <1>2, CloseFacts DEF Kinds
<1> HIDE DEF o
<1>4. /\ scan'.stage = scan.stage /\ scan'.now = scan.now /\ scan'.todo = scan.todo \ {t}
      /\ scan'.order = o
      /\ scan' \in [stage : {"idle", "exits", "entries", "stop", "close"}, now : 0..LastMinute,
                    todo : SUBSET (Tickers \cup Legs), order : RealOrders \cup {NoOrder}]
  BY <1>0, <1>3 DEF EodInv, EodTypes
<1>5. /\ eod' \in [open : Books, attempted : BOOLEAN] /\ eod'.attempted = eod.attempted
      /\ eod'.open = [eod.open EXCEPT ![t] = 0]
  BY <1>0 DEF EodInv, EodTypes, Books
<1>6. \A leg \in Legs : Unused(leg)' => Unused(leg)
  BY <1>0, <1>4, <1>5 DEF Unused
<1>7. scan.todo \ {t} \subseteq Open(eod'.open)
  <2>1. eod.open \in Books
    BY DEF EodInv, EodTypes
  <2> QED BY <1>1, <1>5, <2>1 DEF Books, Open
<1>8. orb' \in Books
  BY <1>0 DEF EodInv, EodTypes
<1> QED BY <1>0, <1>1, <1>3, <1>4, <1>5, <1>6, <1>7, <1>8, ScanMoves

LEMMA KeepLegInv == \A t \in Tickers : EodInv /\ KeepLeg(t) => EodInv'
<1> SUFFICES ASSUME NEW t \in Tickers, EodInv, KeepLeg(t) PROVE EodInv'
  OBVIOUS
<1> DEFINE T == scan.todo \ {t}
<1>0. /\ up /\ scan.stage \in {"stop", "close"} /\ scan.order = NoOrder
      /\ scan' = PassOrEnd(scan.stage, T)
      /\ UNCHANGED <<minute, up, pos, ids, row, orb, eod, sweep, bot, hist>>
  BY DEF KeepLeg, AtStage
<1>1. T \subseteq Open(eod.open) /\ T \subseteq Tickers
  BY <1>0 DEF EodInv, PassInv, Open
<1> HIDE DEF T
<1>2. /\ scan' \in [stage : {"idle", "exits", "entries", "stop", "close"}, now : 0..LastMinute,
                    todo : SUBSET (Tickers \cup Legs), order : RealOrders \cup {NoOrder}]
      /\ scan'.stage \in {"idle", scan.stage} /\ scan'.order = NoOrder /\ scan'.todo = T
      /\ sweep # "no" /\ scan'.stage # "idle" => scan'.now >= SweepAt
  BY <1>0, <1>1, PassFacts
<1>3. \A leg \in Legs : Unused(leg)' => Unused(leg)
  BY <1>0, <1>2 DEF Unused
<1>4. orb' \in Books /\ eod' \in [open : Books, attempted : BOOLEAN]
  BY <1>0 DEF EodInv, EodTypes
<1> QED BY <1>0, <1>1, <1>2, <1>3, <1>4, ScanMoves, NoOrderFacts

-----------------------------------------------------------------------------
(* The order of the scan. *)

\* An order the broker has answered changes its own ticker, and an exit opens
\* nothing.
LEMMA AnsweredFacts ==
    ASSUME EodTypes, NEW o \in RealOrders, Answered(o)
    PROVE  /\ pos' \in Books /\ ids' \subseteq Tickers \X Directions
           /\ ids \subseteq ids' /\ <<o.t, o.dir>> \in ids'
           /\ \A s \in Tickers \ {o.t} : pos'[s] = pos[s]
           /\ o.kind = "exit" /\ pos[o.t] = 0 => pos' = pos
           /\ Seen(o) => pos' = pos
<1>1. /\ o.t \in Tickers /\ o.dir \in Directions /\ o.side \in {-1, 1} /\ o.qty \in Nat
      /\ pos[o.t] \in Int
  BY DEF RealOrders, EodTypes, Books
<1>2. CASE Seen(o) /\ UNCHANGED <<pos, ids>>
  BY <1>2 DEF EodTypes, Seen
<1>3. CASE Accept(o)
  <2>1. Traded(o) \in Int
    BY <1>1 DEF Traded, Least, Abs
  <2>2. o.side * Traded(o) \in Int
    BY <1>1, <2>1
  <2>3. pos' = [pos EXCEPT ![o.t] = @ + o.side * Traded(o)] /\ ids' = ids \cup {<<o.t, o.dir>>}
    BY <1>3 DEF Accept
  <2>4. pos' \in Books /\ \A s \in Tickers \ {o.t} : pos'[s] = pos[s]
    <3>1. pos[o.t] + o.side * Traded(o) \in Int
      BY <1>1, <2>2
    <3> QED BY <2>3, <3>1 DEF EodTypes, Books
  <2>5. o.kind = "exit" => pos[o.t] # 0
    BY <1>1, <1>3 DEF Accept, CloseOnly, Closes
  <2>6. ~Seen(o)
    BY <1>3 DEF Accept
  <2> QED BY <1>1, <2>3, <2>4, <2>5, <2>6 DEF EodTypes
<1> QED BY <1>2, <1>3 DEF Answered

\* The history of an entry, or a partial, that reaches the account.
LEMMA FilledFacts ==
    ASSUME EodTypes, NEW o \in RealOrders
    PROVE  /\ Filled(o) \in [fills : [Legs -> SUBSET (1..LastMinute)], double : BOOLEAN, boots : Nat,
                             blind : SUBSET Tickers, late : SUBSET Tickers, troubles : Nat, scans : Nat]
           /\ Filled(o).boots = hist.boots /\ Filled(o).troubles = hist.troubles
           /\ o.kind # "entry" \/ Seen(o) =>
                Filled(o).fills = hist.fills /\ Filled(o).double = hist.double
           /\ o.kind # "PARTIAL" \/ Seen(o) =>
                Filled(o).blind = hist.blind /\ Filled(o).late = hist.late
           /\ o.kind = "entry" /\ ~Seen(o) =>
                /\ Filled(o).fills[<<o.t, o.side>>] = hist.fills[<<o.t, o.side>>] \cup {minute}
                /\ \A leg \in Legs : leg # <<o.t, o.side>> => Filled(o).fills[leg] = hist.fills[leg]
                /\ Filled(o).double = (hist.double \/ minute \in hist.fills[<<o.t, o.side>>])
           /\ o.kind = "PARTIAL" /\ ~Seen(o) =>
                /\ Filled(o).late = hist.late \cup Late(o)
                /\ Filled(o).blind = IF sweep = "done" THEN hist.blind \cup {o.t} ELSE hist.blind
<1> DEFINE leg == <<o.t, o.side>>
<1>1. leg \in Legs /\ o.t \in Tickers
  BY DEF RealOrders, Legs
<1>2. CASE Seen(o) \/ o.kind \notin {"entry", "PARTIAL"}
  <2>1. Filled(o) = hist
    BY <1>2 DEF Filled
  <2> QED BY <1>2, <2>1 DEF EodTypes
<1>3. CASE o.kind = "entry" /\ ~Seen(o)
  <2> DEFINE F == [hist.fills EXCEPT ![leg] = @ \cup {minute}]
             d == (hist.double \/ minute \in hist.fills[leg])
  <2>1. Filled(o) = [hist EXCEPT !.fills = F, !.double = d]
    BY <1>3 DEF Filled
  <2>2. /\ F \in [Legs -> SUBSET (1..LastMinute)] /\ F[leg] = hist.fills[leg] \cup {minute}
        /\ \A l \in Legs : l # leg => F[l] = hist.fills[l]
    BY <1>1 DEF EodTypes
  <2>3. d \in BOOLEAN
    BY DEF EodTypes
  <2> HIDE DEF F, d
  <2>4. [hist EXCEPT !.fills = F, !.double = d] \in
           [fills : [Legs -> SUBSET (1..LastMinute)], double : BOOLEAN, boots : Nat,
            blind : SUBSET Tickers, late : SUBSET Tickers, troubles : Nat, scans : Nat]
    BY <2>2, <2>3 DEF EodTypes
  <2>5. /\ [hist EXCEPT !.fills = F, !.double = d].fills = F
        /\ [hist EXCEPT !.fills = F, !.double = d].double = d
        /\ [hist EXCEPT !.fills = F, !.double = d].boots = hist.boots
        /\ [hist EXCEPT !.fills = F, !.double = d].blind = hist.blind
        /\ [hist EXCEPT !.fills = F, !.double = d].late = hist.late
        /\ [hist EXCEPT !.fills = F, !.double = d].troubles = hist.troubles
    BY DEF EodTypes
  <2> QED BY <1>3, <2>1, <2>2, <2>4, <2>5 DEF d
<1>4. CASE o.kind = "PARTIAL" /\ ~Seen(o)
  <2> DEFINE l == hist.late \cup Late(o)
             b == IF sweep = "done" THEN hist.blind \cup {o.t} ELSE hist.blind
  <2>1. Filled(o) = [hist EXCEPT !.late = l, !.blind = b]
    BY <1>4 DEF Filled
  <2>2. l \in SUBSET Tickers /\ b \in SUBSET Tickers
    BY <1>1 DEF EodTypes, Late
  <2> HIDE DEF l, b
  <2>3. /\ Filled(o) \in [fills : [Legs -> SUBSET (1..LastMinute)], double : BOOLEAN, boots : Nat,
                          blind : SUBSET Tickers, late : SUBSET Tickers, troubles : Nat, scans : Nat]
        /\ Filled(o).boots = hist.boots /\ Filled(o).troubles = hist.troubles
        /\ Filled(o).fills = hist.fills /\ Filled(o).double = hist.double
        /\ Filled(o).late = l /\ Filled(o).blind = b
    BY <2>1, <2>2 DEF EodTypes
  <2> QED BY <1>4, <2>3 DEF l, b
<1> QED BY <1>2, <1>3, <1>4

\* What reaches the account beside an exit is in the history, once the sweep
\* has closed all.
LEMMA LateFacts ==
    ASSUME EodInv, SweepClosed, NEW o \in RealOrders, o.kind \in {"exit", "PARTIAL"}, Answered(o)
    PROVE  Open(pos') \subseteq Filled(o).late
<1>1. EodTypes /\ Open(pos) \subseteq hist.late
  BY DEF EodInv, SweepInv, FlatAfterSweep
<1>2. /\ \A s \in Tickers \ {o.t} : pos'[s] = pos[s]
      /\ o.kind = "exit" /\ pos[o.t] = 0 => pos' = pos
      /\ Seen(o) => pos' = pos
  BY <1>1, AnsweredFacts
<1>3. CASE o.kind = "exit" \/ Seen(o)
  <2>1. Filled(o).late = hist.late
    BY <1>1, <1>3, FilledFacts
  <2>2. \A s \in Tickers : pos'[s] # 0 => pos[s] # 0
    BY <1>2, <1>3
  <2> QED BY <1>1, <2>1, <2>2 DEF Open
<1>4. CASE o.kind = "PARTIAL" /\ ~Seen(o)
  <2>1. Filled(o).late = hist.late \cup {o.t}
    BY <1>1, <1>4, FilledFacts DEF Late
  <2> QED BY <1>1, <1>2, <2>1 DEF Open
<1> QED BY <1>3, <1>4

\* An entry is filled at most once by this process and once in a minute.
LEMMA FillOnce ==
    ASSUME EodInv, up, scan.order \in RealOrders, ~scan.order.sent,
           UNCHANGED <<minute, up, eod>>,
           ids \subseteq ids', <<scan.order.t, scan.order.dir>> \in ids',
           scan'.stage = scan.stage, scan'.todo = scan.todo,
           scan'.order.kind = "entry" => scan'.order.sent,
           hist'.fills = Filled(scan.order).fills, hist'.double = Filled(scan.order).double,
           hist'.boots = hist.boots
    PROVE  FillInv'
<1> DEFINE o == scan.order
<1>1. EodTypes /\ FillInv /\ PassInv
  BY DEF EodInv
<1>2. \A l \in Legs : Unused(l)' => Unused(l)
  BY DEF Unused
<1>3. CASE o.kind # "entry" \/ Seen(o)
  <2>1. hist'.fills = hist.fills /\ hist'.double = hist.double
    BY <1>1, <1>3, FilledFacts
  <2> QED BY <1>1, <1>2, <2>1 DEF FillInv
<1>4. CASE o.kind = "entry" /\ ~Seen(o)
  <2>0. <<o.t, o.side>> \in Legs /\ o.dir = <<"V10", o.side>>
    BY <1>4 DEF RealOrders, Legs, Direction
  <2> DEFINE t == o.t  side == o.side
  <2>a. <<t, side>>[1] = t /\ <<t, side>>[2] = side
    OBVIOUS
  <2>b. PICK leg \in Legs : leg = <<t, side>>
    BY <2>0
  <2>1. leg = <<o.t, o.side>> /\ o.dir = <<"V10", o.side>> /\ o.t = leg[1] /\ o.side = leg[2]
    BY <2>0, <2>a, <2>b
  <2>c. minute \in hist.fills[leg] => <<leg[1], <<"V10", leg[2]>>>> \in ids
    BY <1>1 DEF FillInv
  <2>d. <<leg[1], <<"V10", leg[2]>>>> = <<o.t, o.dir>>
    BY <2>1
  <2>2. minute \notin hist.fills[leg]
    BY <1>4, <2>c, <2>d DEF Seen
  <2>3. /\ hist'.fills[leg] = hist.fills[leg] \cup {minute}
        /\ \A l \in Legs : l # leg => hist'.fills[l] = hist.fills[l]
        /\ ~hist'.double
    <3>1. /\ Filled(o).fills[<<o.t, o.side>>] = hist.fills[<<o.t, o.side>>] \cup {minute}
          /\ \A l \in Legs : l # <<o.t, o.side>> => Filled(o).fills[l] = hist.fills[l]
          /\ Filled(o).double = (hist.double \/ minute \in hist.fills[<<o.t, o.side>>])
      BY <1>1, <1>4, FilledFacts
    <3>2. ~hist.double
      BY <1>1 DEF FillInv
    <3>3. ~hist'.double
      BY <2>1, <2>2, <3>1, <3>2, Zenon
    <3> QED BY <2>1, <3>1, <3>3
  <2>4. scan.stage = "entries" /\ leg \notin scan.todo /\ ~eod.attempted
    BY <1>1, <1>4, <2>1 DEF PassInv
  <2>5. Unused(leg)
    BY <1>4, <2>1, <2>4 DEF Unused
  <2>6. ~Unused(leg)'
    BY <2>1, <2>4 DEF Unused
  <2>7. /\ IsFiniteSet(hist.fills[leg]) /\ Cardinality(hist.fills[leg]) \in Nat
    <3>1. hist.fills[leg] \subseteq 1..LastMinute
      BY <1>1, <2>1 DEF EodTypes
    <3>2. IsFiniteSet(1..LastMinute)
      BY ClockOrder, FS_Interval
    <3> QED BY <3>1, <3>2, FS_Subset, FS_CardinalityType
  <2>8. Cardinality(hist'.fills[leg]) = Cardinality(hist.fills[leg]) + 1
    BY <2>2, <2>3, <2>7, FS_AddElement
  <2>9. hist.boots \in Nat /\ Cardinality(hist.fills[leg]) <= hist.boots
    BY <1>1, <2>1, <2>5 DEF EodTypes, FillInv
  <2>10. Cardinality(hist'.fills[leg]) <= 1 + hist.boots
    BY <2>7, <2>8, <2>9
  <2>11. minute \in Int
    BY <1>1, ClockOrder DEF EodTypes
  <2>12. \A m \in hist'.fills[leg] : m <= minute
    BY <1>1, <2>1, <2>3, <2>11 DEF FillInv
  <2>13. ASSUME NEW l \in Legs
         PROVE  /\ \A m \in hist'.fills[l] : m <= minute
                /\ minute \in hist'.fills[l] => <<l[1], <<"V10", l[2]>>>> \in ids'
                /\ Cardinality(hist'.fills[l]) <= 1 + hist.boots
                /\ Unused(l)' => Cardinality(hist'.fills[l]) <= hist.boots
    <3>1. CASE l = leg
      BY <2>1, <2>6, <2>10, <2>12, <3>1
    <3>2. CASE l # leg
      BY <1>1, <1>2, <2>3, <3>2 DEF FillInv
    <3> QED BY <3>1, <3>2
  <2> QED BY <2>3, <2>13 DEF FillInv
<1> QED BY <1>3, <1>4

\* The order is sent, or given up.
LEMMA SentFacts ==
    ASSUME EodTypes, NEW o \in RealOrders
    PROVE  /\ [o EXCEPT !.sent = TRUE] \in RealOrders
           /\ [o EXCEPT !.sent = TRUE].sent /\ [o EXCEPT !.sent = TRUE].kind = o.kind
           /\ [o EXCEPT !.sent = TRUE].t = o.t /\ [o EXCEPT !.sent = TRUE].side = o.side
BY DEF RealOrders

LEMMA SubmitInv == EodInv /\ Submit => EodInv'
<1> SUFFICES ASSUME EodInv, Submit PROVE EodInv'
  OBVIOUS
<1> DEFINE o == scan.order
           p == [o EXCEPT !.sent = TRUE]
<1>0. /\ up /\ o # NoOrder /\ ~o.sent /\ Answered(o)
      /\ scan' = [scan EXCEPT !.order = p] /\ hist' = Filled(o)
      /\ UNCHANGED <<minute, up, row, orb, eod, sweep, bot>>
  BY DEF Submit
<1>1. EodTypes /\ o \in RealOrders
  BY <1>0 DEF EodInv, EodTypes
<1>2. p \in RealOrders /\ p.sent /\ p.kind = o.kind /\ p.t = o.t /\ p.side = o.side
  BY <1>1, SentFacts
<1>3. /\ pos' \in Books /\ ids' \subseteq Tickers \X Directions
      /\ ids \subseteq ids' /\ <<o.t, o.dir>> \in ids'
      /\ \A s \in Tickers \ {o.t} : pos'[s] = pos[s]
      /\ Seen(o) => pos' = pos
  BY <1>0, <1>1, AnsweredFacts
<1>4. /\ hist' \in [fills : [Legs -> SUBSET (1..LastMinute)], double : BOOLEAN, boots : Nat,
                    blind : SUBSET Tickers, late : SUBSET Tickers, troubles : Nat, scans : Nat]
      /\ hist'.boots = hist.boots /\ hist.blind \subseteq hist'.blind
      /\ o.kind = "PARTIAL" /\ ~Seen(o) /\ sweep = "done" => o.t \in hist'.blind
      /\ o.kind # "PARTIAL" => hist'.late = hist.late
  BY <1>0, <1>1, FilledFacts
<1> HIDE DEF p
<1>5. /\ scan'.stage = scan.stage /\ scan'.now = scan.now /\ scan'.todo = scan.todo /\ scan'.order = p
      /\ scan' \in [stage : {"idle", "exits", "entries", "stop", "close"}, now : 0..LastMinute,
                    todo : SUBSET (Tickers \cup Legs), order : RealOrders \cup {NoOrder}]
  BY <1>0, <1>1, <1>2 DEF EodTypes
<1>6. EodTypes'
  BY <1>0, <1>1, <1>3, <1>4, <1>5 DEF EodTypes
<1>7. PassInv'
  BY <1>0, <1>2, <1>5 DEF EodInv, PassInv
<1>8. SweepInv'
  <2>1. ASSUME SweepClosed PROVE Open(pos') \subseteq hist'.late
    <3>1. o.kind \in {"exit", "PARTIAL"}
      BY <1>1, <2>1, NoOrderFacts DEF EodInv, SweepInv, SweepClosed
    <3> QED BY <1>0, <1>1, <2>1, <3>1, LateFacts
  <2>2. FlatAfterSweep'
    BY <1>0, <2>1 DEF FlatAfterSweep, SweepClosed, Open
  <2> QED BY <1>0, <1>2, <1>5, <2>2 DEF EodInv, SweepInv
<1>9. FillInv'
  BY <1>0, <1>1, <1>2, <1>3, <1>4, <1>5, FillOnce
<1>10. TrackInv'
  <2>1. ASSUME sweep \notin {"closed", "wiped"}, NEW t \in Tickers \ hist'.blind, pos'[t] # 0, row[t] = 0
        PROVE  RowAwaited(t)'
    <3>0. t \notin hist.blind /\ ~RowAwaited(t)
      BY <1>0, <1>4, <2>1 DEF RowAwaited
    <3>1. pos[t] = 0
      BY <1>0, <2>1, <3>0 DEF EodInv, TrackInv
    <3>2. t = o.t /\ ~Seen(o)
      BY <1>3, <2>1, <3>1
    <3>3. CASE o.kind = "PARTIAL"
      <4>1. sweep # "done"
        BY <1>4, <2>1, <3>2, <3>3
      <4>2. ~SweepClosed
        BY <2>1, <4>1 DEF SweepClosed
      <4> QED BY <2>1, <3>0, <3>2, <3>3, <4>2 DEF EodInv, TrackInv, SweepClosed
    <3>4. CASE o.kind # "PARTIAL"
      <4>2. o.kind \in {"entry", "exit"}
        BY <1>1, <3>4 DEF EodInv, PassInv, RealOrders, Kinds
      <4> QED BY <1>2, <1>5, <3>2, <4>2 DEF RowAwaited
    <3> QED BY <3>3, <3>4
  <2>2. bot'.cmd = "close" => bot'.order.t \in hist'.blind
    BY <1>0, <1>4 DEF EodInv, TrackInv
  <2>3. scan'.order.kind = "PARTIAL" /\ scan'.order.t \notin hist'.blind /\ ~SweepClosed
           => row[scan'.order.t] # 0
    BY <1>2, <1>4, <1>5 DEF EodInv, TrackInv
  <2> QED BY <1>0, <1>4, <2>1, <2>2, <2>3 DEF TrackInv, SweepClosed
<1> QED BY <1>6, <1>7, <1>8, <1>9, <1>10 DEF EodInv

LEMMA SubmitFailsInv == EodInv /\ SubmitFails => EodInv'
<1> SUFFICES ASSUME EodInv, SubmitFails PROVE EodInv'
  OBVIOUS
<1> DEFINE o == scan.order
<1>0. /\ up /\ o # NoOrder /\ ~o.sent /\ Raised(o)
      /\ scan' = [scan EXCEPT !.order = NoOrder]
      /\ UNCHANGED <<minute, up, row, orb, eod, sweep, bot>>
  BY DEF SubmitFails
<1>1. EodTypes /\ o \in RealOrders
  BY <1>0 DEF EodInv, EodTypes
<1>2. /\ scan'.stage = scan.stage /\ scan'.now = scan.now /\ scan'.todo = scan.todo
      /\ scan'.order = NoOrder
      /\ scan' \in [stage : {"idle", "exits", "entries", "stop", "close"}, now : 0..LastMinute,
                    todo : SUBSET (Tickers \cup Legs), order : RealOrders \cup {NoOrder}]
  BY <1>0, <1>1 DEF EodTypes
<1>3. PassInv'
  BY <1>0, <1>2, NoOrderFacts DEF EodInv, PassInv
<1>4. \A leg \in Legs : Unused(leg)' => Unused(leg)
  BY <1>0, <1>2, NoOrderFacts DEF Unused
<1>5. \A t : ~RowAwaited(t)
  BY <1>0 DEF RowAwaited
<1>6. CASE UNCHANGED <<pos, ids>> /\ hist' = hist
  <2>1. EodTypes'
    BY <1>0, <1>1, <1>2, <1>6 DEF EodTypes
  <2>2. SweepInv'
    BY <1>0, <1>2, <1>6, NoOrderFacts DEF EodInv, SweepInv, FlatAfterSweep, SweepClosed
  <2>3. FillInv'
    BY <1>0, <1>4, <1>6 DEF EodInv, FillInv
  <2>4. TrackInv'
    BY <1>0, <1>2, <1>5, <1>6, NoOrderFacts DEF EodInv, TrackInv, SweepClosed
  <2> QED BY <1>3, <2>1, <2>2, <2>3, <2>4 DEF EodInv
<1>7. CASE Accept(o) /\ hist' = [Filled(o) EXCEPT !.troubles = @ + 1, !.blind = @ \cup {o.t}]
  <2>1. Answered(o)
    BY <1>7 DEF Answered
  <2>2. /\ pos' \in Books /\ ids' \subseteq Tickers \X Directions
        /\ ids \subseteq ids' /\ <<o.t, o.dir>> \in ids'
        /\ \A s \in Tickers \ {o.t} : pos'[s] = pos[s]
    BY <1>1, <2>1, AnsweredFacts
  <2>3. /\ hist' \in [fills : [Legs -> SUBSET (1..LastMinute)], double : BOOLEAN, boots : Nat,
                      blind : SUBSET Tickers, late : SUBSET Tickers, troubles : Nat, scans : Nat]
        /\ hist'.boots = hist.boots /\ hist.blind \cup {o.t} \subseteq hist'.blind
        /\ hist'.late = Filled(o).late
        /\ hist'.fills = Filled(o).fills /\ hist'.double = Filled(o).double
    <3> DEFINE f == Filled(o)
               n == f.troubles + 1
               b == f.blind \cup {o.t}
    <3>1. /\ f \in [fills : [Legs -> SUBSET (1..LastMinute)], double : BOOLEAN, boots : Nat,
                    blind : SUBSET Tickers, late : SUBSET Tickers, troubles : Nat, scans : Nat]
          /\ f.boots = hist.boots /\ hist.blind \subseteq f.blind
      BY <1>1, FilledFacts
    <3>2. hist' = [f EXCEPT !.troubles = n, !.blind = b]
      BY <1>7
    <3> HIDE DEF f
    <3>3. n \in Nat
      BY <3>1
    <3>4. b \in SUBSET Tickers
      BY <1>1, <3>1 DEF RealOrders
    <3>5. hist.blind \cup {o.t} \subseteq b
      BY <3>1
    <3> HIDE DEF n, b
    <3>6. /\ hist' \in [fills : [Legs -> SUBSET (1..LastMinute)], double : BOOLEAN, boots : Nat,
                        blind : SUBSET Tickers, late : SUBSET Tickers, troubles : Nat, scans : Nat]
          /\ hist'.boots = f.boots /\ hist'.blind = b /\ hist'.late = f.late
          /\ hist'.fills = f.fills /\ hist'.double = f.double
      BY <3>1, <3>2, <3>3, <3>4
    <3> QED BY <3>1, <3>5, <3>6 DEF f
  <2>4. EodTypes'
    BY <1>0, <1>1, <1>2, <2>2, <2>3 DEF EodTypes
  <2>5. FlatAfterSweep'
    <3>1. ASSUME SweepClosed PROVE Open(pos') \subseteq hist'.late
      <4>1. o.kind \in {"exit", "PARTIAL"}
        BY <1>1, <3>1, NoOrderFacts DEF EodInv, SweepInv, SweepClosed
      <4> QED BY <1>1, <2>1, <2>3, <3>1, <4>1, LateFacts
    <3> QED BY <1>0, <3>1 DEF FlatAfterSweep, SweepClosed, Open
  <2>6. SweepInv'
    BY <1>0, <1>2, <2>5, NoOrderFacts DEF EodInv, SweepInv
  <2>7. FillInv'
    BY <1>0, <1>1, <1>2, <2>2, <2>3, NoOrderFacts, FillOnce
  <2>8. TrackInv'
    <3>1. ASSUME sweep \notin {"closed", "wiped"}, NEW t \in Tickers \ hist'.blind, pos'[t] # 0, row[t] = 0
          PROVE  FALSE
      <4>1. t # o.t /\ t \notin hist.blind /\ pos[t] # 0
        BY <2>2, <2>3, <3>1
      <4> QED BY <1>0, <1>5, <3>1, <4>1 DEF EodInv, TrackInv, SweepClosed
    <3>2. bot'.cmd = "close" => bot'.order.t \in hist'.blind
      BY <1>0, <2>3 DEF EodInv, TrackInv
    <3>3. scan'.order.kind # "PARTIAL"
      BY <1>2, NoOrderFacts
    <3> QED BY <1>0, <3>1, <3>2, <3>3 DEF TrackInv, SweepClosed
  <2> QED BY <1>3, <2>4, <2>6, <2>7, <2>8 DEF EodInv
<1> QED BY <1>0, <1>6, <1>7 DEF Raised

LEMMA PartialGoneInv == EodInv /\ PartialGone => EodInv'
<1> SUFFICES ASSUME EodInv, PartialGone PROVE EodInv'
  OBVIOUS
<1> DEFINE o == scan.order
           p == [o EXCEPT !.sent = TRUE]
<1>0. /\ up /\ o.kind = "PARTIAL" /\ ~o.sent /\ pos[o.t] = 0
      /\ scan' = [scan EXCEPT !.order = p]
      /\ UNCHANGED <<minute, up, pos, ids, row, orb, eod, sweep, bot, hist>>
  BY DEF PartialGone
<1>1. EodTypes /\ o \in RealOrders
  BY <1>0, NoOrderFacts DEF EodInv, EodTypes
<1>2. p \in RealOrders /\ p.sent /\ p.kind = o.kind /\ p.t = o.t /\ p.side = o.side
  BY <1>1, SentFacts
<1> HIDE DEF p
<1>3. /\ scan'.stage = scan.stage /\ scan'.now = scan.now /\ scan'.todo = scan.todo /\ scan'.order = p
      /\ scan' \in [stage : {"idle", "exits", "entries", "stop", "close"}, now : 0..LastMinute,
                    todo : SUBSET (Tickers \cup Legs), order : RealOrders \cup {NoOrder}]
  BY <1>0, <1>1, <1>2 DEF EodTypes
<1>4. EodTypes'
  BY <1>0, <1>1, <1>3 DEF EodTypes
<1>5. PassInv' /\ SweepInv'
  <2>1. PassInv'
    BY <1>0, <1>2, <1>3, NoOrderFacts DEF EodInv, PassInv
  <2>2. SweepInv'
    BY <1>0, <1>2, <1>3 DEF EodInv, SweepInv, FlatAfterSweep, SweepClosed
  <2> QED BY <2>1, <2>2
<1>6. \A leg \in Legs : Unused(leg)' => Unused(leg)
  BY <1>0, <1>2, <1>3 DEF Unused
<1>7. FillInv'
  BY <1>0, <1>6 DEF EodInv, FillInv
<1>8. \A t : ~RowAwaited(t)
  BY <1>0 DEF RowAwaited
<1>9. TrackInv'
  BY <1>0, <1>2, <1>3, <1>8 DEF EodInv, TrackInv, SweepClosed
<1> QED BY <1>4, <1>5, <1>7, <1>9 DEF EodInv

\* The row an order writes is not empty, unless a partial finds none.
LEMMA RecordedFacts ==
    ASSUME NEW o \in RealOrders, NEW r \in Int
    PROVE  /\ Recorded(o, r) \in Int
           /\ o.kind \in {"entry", "exit"} => Recorded(o, r) # 0
           /\ o.kind = "PARTIAL" /\ r # 0 => Recorded(o, r) # 0
<1>1. o.side \in {-1, 1} /\ o.qty \in Nat /\ o.qty # 0
  BY DEF RealOrders
<1>2. o.side * o.qty \in Int /\ o.side * o.qty # 0
  <2>1. CASE o.side = 1
    BY <1>1, <2>1
  <2>2. CASE o.side = -1
    BY <1>1, <2>2
  <2> QED BY <1>1, <2>1, <2>2
<1>3. r - Sign(r) \in Int /\ (Abs(r) > 1 => r - Sign(r) # 0)
  BY DEF Sign, Abs
<1> QED BY <1>2, <1>3 DEF Recorded

LEMMA RecordInv == EodInv /\ Record => EodInv'
<1> SUFFICES ASSUME EodInv, Record PROVE EodInv'
  OBVIOUS
<1> DEFINE o == scan.order
<1>0. /\ up /\ o.sent
      /\ row' = [row EXCEPT ![o.t] = Recorded(o, row[o.t])]
      /\ scan' = [scan EXCEPT !.order = NoOrder]
      /\ UNCHANGED <<minute, up, pos, ids, orb, eod, sweep, bot, hist>>
  BY DEF Record
<1>1. EodTypes /\ o \in RealOrders /\ o.t \in Tickers /\ row[o.t] \in Int
  BY <1>0, NoOrderFacts DEF EodInv, EodTypes, RealOrders, Books
<1>2. /\ scan'.stage = scan.stage /\ scan'.now = scan.now /\ scan'.todo = scan.todo
      /\ scan'.order = NoOrder
      /\ scan' \in [stage : {"idle", "exits", "entries", "stop", "close"}, now : 0..LastMinute,
                    todo : SUBSET (Tickers \cup Legs), order : RealOrders \cup {NoOrder}]
  BY <1>0, <1>1 DEF EodTypes
<1>3. /\ Recorded(o, row[o.t]) \in Int
      /\ o.kind \in {"entry", "exit"} => Recorded(o, row[o.t]) # 0
      /\ o.kind = "PARTIAL" /\ row[o.t] # 0 => Recorded(o, row[o.t]) # 0
  BY <1>1, RecordedFacts
<1>4. /\ row' \in Books /\ row'[o.t] = Recorded(o, row[o.t])
      /\ \A s \in Tickers \ {o.t} : row'[s] = row[s]
  BY <1>0, <1>1, <1>3 DEF EodTypes, Books
<1>5. EodTypes'
  BY <1>0, <1>1, <1>2, <1>4 DEF EodTypes
<1>6. PassInv' /\ SweepInv'
  BY <1>0, <1>2, NoOrderFacts DEF EodInv, PassInv, SweepInv, FlatAfterSweep, SweepClosed
<1>7. \A leg \in Legs : Unused(leg)' => Unused(leg)
  BY <1>0, <1>2, NoOrderFacts DEF Unused
<1>8. FillInv'
  BY <1>0, <1>7 DEF EodInv, FillInv
<1>9. TrackInv'
  <2>1. ASSUME sweep \notin {"closed", "wiped"}, NEW t \in Tickers \ hist.blind, pos[t] # 0, row'[t] = 0
        PROVE  FALSE
    <3>1. CASE t = o.t
      <4>1. o.kind \in {"entry", "exit", "PARTIAL"}
        BY <1>1 DEF EodInv, PassInv, RealOrders, Kinds
      <4>2. o.kind = "PARTIAL" => row[o.t] # 0
        BY <1>0, <2>1, <3>1 DEF EodInv, TrackInv, RowAwaited
      <4> QED BY <1>3, <1>4, <2>1, <3>1, <4>1, <4>2
    <3>2. CASE t # o.t
      BY <1>0, <1>4, <2>1, <3>2 DEF EodInv, TrackInv, RowAwaited
    <3> QED BY <3>1, <3>2
  <2>2. scan'.order.kind # "PARTIAL"
    BY <1>2, NoOrderFacts
  <2> QED BY <1>0, <2>1, <2>2 DEF EodInv, TrackInv, SweepClosed
<1> QED BY <1>5, <1>6, <1>8, <1>9 DEF EodInv

-----------------------------------------------------------------------------
(* The sweep and the bot. *)

HistTypes ==
    [fills : [Legs -> SUBSET (1..LastMinute)], double : BOOLEAN, boots : Nat,
     blind : SUBSET Tickers, late : SUBSET Tickers, troubles : Nat, scans : Nat]

\* The threads beside the scan.
LEMMA OthersMove ==
    ASSUME EodInv, up, UNCHANGED <<minute, up, orb, eod, scan>>,
           ids \subseteq ids', ids' \subseteq Tickers \X Directions, pos' \in Books, row' \in Books,
           sweep' \in {"no", "due", "closed", "wiped", "done", "failed", "cut"},
           sweep' # "no" => sweep # "no" \/ (minute >= SweepAt /\ scan.stage = "idle"),
           bot' \in [cmd : {"none", "close", "halt"}, order : RealOrders \cup {NoOrder}],
           bot'.cmd = "close" => bot'.order \in RealOrders /\ bot'.order.kind = "EXIT",
           bot'.cmd # "close" => bot'.order = NoOrder,
           hist' \in HistTypes, hist'.fills = hist.fills, hist'.double = hist.double,
           hist'.boots = hist.boots,
           FlatAfterSweep', TrackInv'
    PROVE  EodInv'
<1>1. EodTypes'
  BY DEF EodInv, EodTypes, HistTypes
<1>2. PassInv'
  BY DEF EodInv, PassInv
<1>3. SweepInv'
  BY NoOrderFacts DEF EodInv, SweepInv, PassInv
<1>4. \A leg \in Legs : Unused(leg)' => Unused(leg)
  BY DEF Unused
<1>5. FillInv'
  BY <1>4 DEF EodInv, FillInv
<1> QED BY <1>1, <1>2, <1>3, <1>5 DEF EodInv

LEMMA BotFacts ==
    ASSUME EodInv
    PROVE  /\ bot \in [cmd : {"none", "close", "halt"}, order : RealOrders \cup {NoOrder}]
           /\ bot.cmd = "close" => bot.order \in RealOrders /\ bot.order.kind = "EXIT"
           /\ bot.cmd # "close" => bot.order = NoOrder
           /\ hist \in HistTypes /\ pos \in Books /\ row \in Books
           /\ ids \subseteq Tickers \X Directions
           /\ NoBot \in [cmd : {"none", "close", "halt"}, order : RealOrders \cup {NoOrder}]
           /\ NoBot.cmd = "none" /\ NoBot.order = NoOrder /\ Flat \in Books
BY DEF EodInv, EodTypes, PassInv, HistTypes, NoBot, Flat, Books

\* What the commands and the troubles write to the history.
LEMMA HistFacts ==
    ASSUME EodInv, NEW n \in Nat, NEW b \in SUBSET Tickers
    PROVE  LET h == [hist EXCEPT !.troubles = n, !.blind = b] IN
           /\ h \in HistTypes /\ h.fills = hist.fills /\ h.double = hist.double
           /\ h.boots = hist.boots /\ h.late = hist.late /\ h.blind = b
<1>1. hist \in HistTypes
  BY BotFacts
<1> QED BY <1>1 DEF HistTypes

LEMMA EmitSweepInv == EodInv /\ EmitSweep => EodInv'
<1> SUFFICES ASSUME EodInv, EmitSweep PROVE EodInv'
  OBVIOUS
<1>0. /\ up /\ scan.stage = "idle" /\ minute = SweepAt /\ sweep = "no" /\ sweep' = "due"
      /\ UNCHANGED <<minute, up, pos, ids, row, orb, eod, scan, bot, hist>>
  BY DEF EmitSweep, AtStage
<1>1. FlatAfterSweep'
  BY <1>0 DEF FlatAfterSweep, SweepClosed
<1>2. TrackInv'
  BY <1>0 DEF EodInv, TrackInv, SweepClosed, RowAwaited
<1>3. minute >= SweepAt
  BY <1>0, ClockOrder
<1> QED BY <1>0, <1>1, <1>2, <1>3, BotFacts, OthersMove

LEMMA SweepCloseAllInv == EodInv /\ SweepCloseAll => EodInv'
<1> SUFFICES ASSUME EodInv, SweepCloseAll PROVE EodInv'
  OBVIOUS
<1>0. /\ up /\ sweep = "due" /\ sweep' = "closed" /\ pos' = Flat
      /\ UNCHANGED <<minute, up, ids, row, orb, eod, scan, bot, hist>>
  BY DEF SweepCloseAll
<1>1. FlatAfterSweep'
  BY <1>0 DEF FlatAfterSweep, Open, Flat
<1>2. TrackInv'
  BY <1>0 DEF EodInv, TrackInv, SweepClosed
<1> QED BY <1>0, <1>1, <1>2, BotFacts, OthersMove

LEMMA SweepFailsInv == EodInv /\ SweepFails => EodInv'
<1> SUFFICES ASSUME EodInv, SweepFails PROVE EodInv'
  OBVIOUS
<1>0. /\ up /\ sweep = "due" /\ sweep' = "failed"
      /\ UNCHANGED <<minute, up, pos, ids, row, orb, eod, scan, bot, hist>>
  BY DEF SweepFails
<1>1. FlatAfterSweep'
  BY <1>0 DEF FlatAfterSweep, SweepClosed
<1>2. TrackInv'
  BY <1>0 DEF EodInv, TrackInv, SweepClosed, RowAwaited
<1> QED BY <1>0, <1>1, <1>2, BotFacts, OthersMove

LEMMA SweepWipeInv == EodInv /\ SweepWipe => EodInv'
<1> SUFFICES ASSUME EodInv, SweepWipe PROVE EodInv'
  OBVIOUS
<1>0. /\ up /\ sweep = "closed" /\ sweep' = "wiped" /\ row' = Flat
      /\ UNCHANGED <<minute, up, pos, ids, orb, eod, scan, bot, hist>>
  BY DEF SweepWipe
<1>1. FlatAfterSweep'
  BY <1>0 DEF EodInv, SweepInv, FlatAfterSweep, SweepClosed
<1>2. SweepClosed'
  BY <1>0 DEF SweepClosed
<1>3. TrackInv'
  BY <1>0, <1>2 DEF EodInv, TrackInv, SweepClosed
<1> QED BY <1>0, <1>1, <1>3, BotFacts, OthersMove

\* What the account holds has a row once the rows are reconciled.
LEMMA ReconciledFacts ==
    ASSUME EodInv
    PROVE  /\ Reconciled \in Books
           /\ \A t \in Tickers : pos[t] # 0 => Reconciled[t] # 0
BY DEF EodInv, EodTypes, Reconciled, Books

LEMMA SweepReconcileInv == EodInv /\ SweepReconcile => EodInv'
<1> SUFFICES ASSUME EodInv, SweepReconcile PROVE EodInv'
  OBVIOUS
<1>0. /\ up /\ sweep = "wiped" /\ sweep' = "done" /\ row' = Reconciled
      /\ hist' = [hist EXCEPT !.blind = @ \cap {scan.order.t, bot.order.t}]
      /\ UNCHANGED <<minute, up, pos, ids, orb, eod, scan, bot>>
  BY DEF SweepReconcile
<1>1. /\ hist' \in HistTypes /\ hist'.fills = hist.fills /\ hist'.double = hist.double
      /\ hist'.boots = hist.boots /\ hist'.late = hist.late
      /\ hist'.blind = hist.blind \cap {scan.order.t, bot.order.t}
  BY <1>0, BotFacts DEF HistTypes
<1>2. FlatAfterSweep'
  BY <1>0, <1>1 DEF EodInv, SweepInv, FlatAfterSweep, SweepClosed
<1>3. SweepClosed'
  BY <1>0 DEF SweepClosed
<1>4. \A t \in Tickers : pos[t] # 0 => row'[t] # 0
  BY <1>0, ReconciledFacts
<1>5. bot.cmd = "close" => bot.order.t \in hist'.blind
  BY <1>1 DEF EodInv, TrackInv
<1>6. TrackInv'
  BY <1>0, <1>3, <1>4, <1>5 DEF TrackInv, SweepClosed
<1> QED BY <1>0, <1>1, <1>2, <1>6, BotFacts, ReconciledFacts, OthersMove

LEMMA CmdCloseInv == \A t \in Tickers : EodInv /\ CmdClose(t) => EodInv'
<1> SUFFICES ASSUME NEW t \in Tickers, EodInv, CmdClose(t) PROVE EodInv'
  OBVIOUS
<1> DEFINE o == CloseOrder("EXIT", t, row[t])
<1>0. /\ up /\ row[t] # 0 /\ bot' = [cmd |-> "close", order |-> o]
      /\ hist' = [hist EXCEPT !.troubles = @ + 1, !.blind = @ \cup {t}]
      /\ UNCHANGED <<minute, up, pos, ids, row, orb, eod, scan, sweep>>
  BY DEF CmdClose
<1>1. row[t] \in Int
  BY BotFacts DEF Books
<1>2. o \in RealOrders /\ o.kind = "EXIT" /\ o.t = t
  BY <1>0, <1>1, CloseFacts DEF Kinds
<1> HIDE DEF o
<1>3. /\ hist' \in HistTypes /\ hist'.fills = hist.fills /\ hist'.double = hist.double
      /\ hist'.boots = hist.boots /\ hist'.late = hist.late
      /\ hist'.blind = hist.blind \cup {t}
  <2>1. hist.troubles + 1 \in Nat /\ hist.blind \cup {t} \in SUBSET Tickers
    BY BotFacts DEF HistTypes
  <2>2. hist' = [hist EXCEPT !.troubles = hist.troubles + 1, !.blind = hist.blind \cup {t}]
    BY <1>0
  <2> QED BY <2>1, <2>2, HistFacts
<1>4. /\ bot' \in [cmd : {"none", "close", "halt"}, order : RealOrders \cup {NoOrder}]
      /\ bot'.cmd = "close" /\ bot'.order = o
  BY <1>0, <1>2
<1>5. FlatAfterSweep'
  BY <1>0, <1>3 DEF EodInv, SweepInv, FlatAfterSweep, SweepClosed
<1>6. TrackInv'
  BY <1>0, <1>2, <1>3, <1>4 DEF EodInv, TrackInv, SweepClosed, RowAwaited
<1>7. sweep \in {"no", "due", "closed", "wiped", "done", "failed", "cut"}
  BY DEF EodInv, EodTypes
<1> QED BY <1>0, <1>2, <1>3, <1>4, <1>5, <1>6, <1>7, BotFacts, OthersMove

LEMMA CmdCloseSubmitInv == EodInv /\ CmdCloseSubmit => EodInv'
<1> SUFFICES ASSUME EodInv, CmdCloseSubmit PROVE EodInv'
  OBVIOUS
<1> DEFINE o == bot.order
           p == [o EXCEPT !.sent = TRUE]
<1>0. /\ up /\ bot.cmd = "close"
      /\ Answered(o) \/ (pos[o.t] = 0 /\ UNCHANGED <<pos, ids>>)
      /\ bot' = [bot EXCEPT !.order = p]
      /\ hist' = [hist EXCEPT !.late = @ \cup Late(o)]
      /\ UNCHANGED <<minute, up, row, orb, eod, scan, sweep>>
  BY DEF CmdCloseSubmit
<1>1. o \in RealOrders /\ o.kind = "EXIT" /\ o.t \in Tickers /\ EodTypes
  BY <1>0, BotFacts DEF RealOrders, EodInv
<1>2. p \in RealOrders /\ p.kind = o.kind /\ p.t = o.t
  BY <1>1, SentFacts
<1> HIDE DEF p
<1>3. /\ bot' \in [cmd : {"none", "close", "halt"}, order : RealOrders \cup {NoOrder}]
      /\ bot'.cmd = "close" /\ bot'.order = p
  BY <1>0, <1>2, BotFacts
<1>4. /\ pos' \in Books /\ ids' \subseteq Tickers \X Directions /\ ids \subseteq ids'
      /\ \A s \in Tickers \ {o.t} : pos'[s] = pos[s]
  <2>1. CASE Answered(o)
    BY <1>1, <2>1, AnsweredFacts
  <2>2. CASE UNCHANGED <<pos, ids>>
    BY <2>2, BotFacts
  <2> QED BY <1>0, <2>1, <2>2
<1>5. /\ hist' \in HistTypes /\ hist'.fills = hist.fills /\ hist'.double = hist.double
      /\ hist'.boots = hist.boots /\ hist'.blind = hist.blind
      /\ hist'.late = hist.late \cup Late(o)
  BY <1>0, <1>1, BotFacts DEF HistTypes, Late
<1>6. FlatAfterSweep'
  <2>1. ASSUME SweepClosed PROVE Open(pos') \subseteq hist.late \cup {o.t}
    <3>1. Open(pos) \subseteq hist.late
      BY <2>1 DEF EodInv, SweepInv, FlatAfterSweep
    <3> QED BY <1>4, <3>1 DEF Open
  <2> QED BY <1>0, <1>5, <2>1 DEF FlatAfterSweep, SweepClosed, Open, Late
<1>7. TrackInv'
  <2>1. o.t \in hist.blind
    BY <1>0 DEF EodInv, TrackInv
  <2> QED BY <1>0, <1>2, <1>3, <1>4, <1>5, <2>1 DEF EodInv, TrackInv, SweepClosed, RowAwaited
<1>8. sweep \in {"no", "due", "closed", "wiped", "done", "failed", "cut"}
  BY <1>1 DEF EodTypes
<1> QED BY <1>0, <1>1, <1>2, <1>3, <1>4, <1>5, <1>6, <1>7, <1>8, BotFacts, OthersMove

LEMMA CmdCloseFailsInv == EodInv /\ CmdCloseFails => EodInv'
<1> SUFFICES ASSUME EodInv, CmdCloseFails PROVE EodInv'
  OBVIOUS
<1>0. /\ up /\ bot' = NoBot
      /\ UNCHANGED <<minute, up, pos, ids, hist, row, orb, eod, scan, sweep>>
  BY DEF CmdCloseFails
<1>1. FlatAfterSweep'
  BY <1>0 DEF EodInv, SweepInv, FlatAfterSweep, SweepClosed
<1>2. TrackInv'
  BY <1>0, BotFacts DEF EodInv, TrackInv, SweepClosed, RowAwaited
<1>3. sweep \in {"no", "due", "closed", "wiped", "done", "failed", "cut"}
  BY DEF EodInv, EodTypes
<1> QED BY <1>0, <1>1, <1>2, <1>3, BotFacts, OthersMove

LEMMA CmdCloseRemoveInv == EodInv /\ CmdCloseRemove => EodInv'
<1> SUFFICES ASSUME EodInv, CmdCloseRemove PROVE EodInv'
  OBVIOUS
<1> DEFINE t == bot.order.t
<1>0. /\ up /\ bot.cmd = "close" /\ row' = [row EXCEPT ![t] = 0] /\ bot' = NoBot
      /\ UNCHANGED <<minute, up, pos, ids, orb, eod, scan, sweep, hist>>
  BY DEF CmdCloseRemove
<1>1. t \in hist.blind /\ t \in Tickers
  BY <1>0, BotFacts DEF EodInv, TrackInv, RealOrders
<1> HIDE DEF t
<1>2. row' \in Books /\ \A s \in Tickers \ {t} : row'[s] = row[s]
  BY <1>0, <1>1, BotFacts DEF Books
<1>3. FlatAfterSweep'
  BY <1>0 DEF EodInv, SweepInv, FlatAfterSweep, SweepClosed
<1>4. TrackInv'
  <2>1. scan.order.kind = "PARTIAL" => scan.order.t \in Tickers
    BY NoOrderFacts DEF EodInv, EodTypes, RealOrders
  <2>2. \A s \in Tickers \ hist.blind : row'[s] = row[s]
    BY <1>1, <1>2
  <2> QED BY <1>0, <2>1, <2>2, BotFacts DEF EodInv, TrackInv, SweepClosed, RowAwaited
<1>5. sweep \in {"no", "due", "closed", "wiped", "done", "failed", "cut"}
  BY DEF EodInv, EodTypes
<1> QED BY <1>0, <1>2, <1>3, <1>4, <1>5, BotFacts, OthersMove

LEMMA CmdHaltInv == EodInv /\ CmdHalt => EodInv'
<1> SUFFICES ASSUME EodInv, CmdHalt PROVE EodInv'
  OBVIOUS
<1>0. /\ up /\ pos' = Flat /\ bot = NoBot /\ bot' = [NoBot EXCEPT !.cmd = "halt"]
      /\ hist' = [hist EXCEPT !.troubles = @ + 1]
      /\ UNCHANGED <<minute, up, ids, row, orb, eod, scan, sweep>>
  BY DEF CmdHalt
<1>1. /\ bot' \in [cmd : {"none", "close", "halt"}, order : RealOrders \cup {NoOrder}]
      /\ bot'.cmd = "halt" /\ bot'.order = NoOrder
  BY <1>0 DEF NoBot
<1>2. /\ hist' \in HistTypes /\ hist'.fills = hist.fills /\ hist'.double = hist.double
      /\ hist'.boots = hist.boots /\ hist'.late = hist.late /\ hist'.blind = hist.blind
  BY <1>0, BotFacts DEF HistTypes
<1>3. FlatAfterSweep'
  BY <1>0 DEF FlatAfterSweep, Open, Flat
<1>4. TrackInv'
  BY <1>0, <1>1, <1>2 DEF EodInv, TrackInv, SweepClosed, Flat
<1>5. sweep \in {"no", "due", "closed", "wiped", "done", "failed", "cut"}
  BY DEF EodInv, EodTypes
<1> QED BY <1>0, <1>1, <1>2, <1>3, <1>4, <1>5, BotFacts, OthersMove

LEMMA CmdHaltWipeInv == EodInv /\ CmdHaltWipe => EodInv'
<1> SUFFICES ASSUME EodInv, CmdHaltWipe PROVE EodInv'
  OBVIOUS
<1> DEFINE B == Open(pos) \cup ({scan.order.t} \cap Tickers)
<1>0. /\ up /\ row' = Flat /\ bot' = NoBot
      /\ hist' = [hist EXCEPT !.blind = @ \cup B]
      /\ UNCHANGED <<minute, up, pos, ids, orb, eod, scan, sweep>>
  BY DEF CmdHaltWipe
<1>1. /\ B \subseteq Tickers /\ Open(pos) \subseteq B
      /\ scan.order.kind = "PARTIAL" => scan.order.t \in B
  BY NoOrderFacts DEF EodInv, EodTypes, RealOrders, Open
<1> HIDE DEF B
<1>2. /\ hist' \in HistTypes /\ hist'.fills = hist.fills /\ hist'.double = hist.double
      /\ hist'.boots = hist.boots /\ hist'.late = hist.late /\ hist'.blind = hist.blind \cup B
  BY <1>0, <1>1, BotFacts DEF HistTypes
<1>3. FlatAfterSweep'
  BY <1>0, <1>2 DEF EodInv, SweepInv, FlatAfterSweep, SweepClosed
<1>4. TrackInv'
  BY <1>0, <1>1, <1>2, BotFacts DEF TrackInv, SweepClosed, Open
<1>5. sweep \in {"no", "due", "closed", "wiped", "done", "failed", "cut"}
  BY DEF EodInv, EodTypes
<1> QED BY <1>0, <1>2, <1>3, <1>4, <1>5, BotFacts, OthersMove

-----------------------------------------------------------------------------
(* Time, crash and boot. *)

LEMMA EodInitInv == Init => EodInv
<1> SUFFICES ASSUME Init PROVE EodInv
  OBVIOUS
<1>1. pos \in Books
  BY BoundsAssumption DEF Init, Books
<1>2. \A leg \in Legs : hist.fills[leg] = {}
  BY DEF Init
<1>3. NoScan \in [stage : {"idle", "exits", "entries", "stop", "close"}, now : 0..LastMinute,
                  todo : SUBSET (Tickers \cup Legs), order : RealOrders \cup {NoOrder}]
  BY ClockOrder DEF NoScan
<1>4. NoEod \in [open : Books, attempted : BOOLEAN]
  BY DEF NoEod, Flat, Books
<1>5. NoBot \in [cmd : {"none", "close", "halt"}, order : RealOrders \cup {NoOrder}]
  BY DEF NoBot
<1>6. minute \in 1..LastMinute
  BY ClockOrder DEF Init
<1>7. EodTypes
  BY <1>1, <1>3, <1>4, <1>5, <1>6 DEF Init, EodTypes
<1>8. PassInv
  BY NoOrderFacts DEF Init, PassInv, NoScan, NoBot
<1>9. SweepInv
  BY DEF Init, SweepInv, FlatAfterSweep, SweepClosed
<1>10. FillInv
  BY <1>2, FS_EmptySet DEF Init, FillInv
<1>11. TrackInv
  BY NoOrderFacts DEF Init, TrackInv, NoScan, NoBot
<1> QED BY <1>7, <1>8, <1>9, <1>10, <1>11 DEF EodInv

LEMMA NextMinuteInv == EodInv /\ NextMinute => EodInv'
<1> SUFFICES ASSUME EodInv, NextMinute PROVE EodInv'
  OBVIOUS
<1>0. /\ minute < LastMinute /\ minute' = minute + 1 /\ ids' = {}
      /\ UNCHANGED <<up, pos, row, orb, eod, scan, sweep, bot, hist>>
  BY DEF NextMinute
<1>1. minute \in Int /\ minute' \in 1..LastMinute /\ SweepAt \in Int
  BY <1>0, ClockOrder DEF EodInv, EodTypes
<1>2. EodTypes'
  BY <1>0, <1>1 DEF EodInv, EodTypes
<1>3. PassInv' /\ TrackInv'
  <2>1. PassInv'
    BY <1>0 DEF EodInv, PassInv
  <2>2. TrackInv'
    BY <1>0 DEF EodInv, TrackInv, SweepClosed, RowAwaited
  <2> QED BY <2>1, <2>2
<1>4. SweepInv'
  BY <1>0, <1>1 DEF EodInv, SweepInv, FlatAfterSweep, SweepClosed
<1>5. \A leg \in Legs : Unused(leg)' => Unused(leg)
  BY <1>0 DEF Unused
<1>6. \A leg \in Legs : hist.fills[leg] \subseteq Int
  <2>1. \A leg \in Legs : hist.fills[leg] \in SUBSET (1..LastMinute)
    BY DEF EodInv, EodTypes
  <2> QED BY <2>1, ClockOrder
<1>7. \A leg \in Legs : \A m \in hist.fills[leg] : m <= minute' /\ m # minute'
  <2>1. \A leg \in Legs : \A m \in hist.fills[leg] : m <= minute
    BY DEF EodInv, FillInv
  <2> QED BY <1>0, <1>1, <1>6, <2>1
<1>8. FillInv'
  BY <1>0, <1>5, <1>7 DEF EodInv, FillInv
<1> QED BY <1>2, <1>3, <1>4, <1>8 DEF EodInv

LEMMA CrashInv == EodInv /\ Crash => EodInv'
<1> SUFFICES ASSUME EodInv, Crash PROVE EodInv'
  OBVIOUS
<1>0. /\ up /\ up' = FALSE /\ eod' = NoEod /\ scan' = NoScan /\ bot' = NoBot
      /\ sweep' = IF sweep \in {"due", "closed", "wiped"} THEN "cut" ELSE sweep
      /\ hist' = [hist EXCEPT !.troubles = @ + 1, !.blind = Tickers]
      /\ UNCHANGED <<minute, pos, ids, row, orb>>
  BY DEF Crash
<1>1. /\ hist' \in HistTypes /\ hist'.fills = hist.fills /\ hist'.double = hist.double
      /\ hist'.boots = hist.boots /\ hist'.late = hist.late /\ hist'.blind = Tickers
  <2>1. hist.troubles + 1 \in Nat /\ Tickers \in SUBSET Tickers
    BY BotFacts DEF HistTypes
  <2>2. hist' = [hist EXCEPT !.troubles = hist.troubles + 1, !.blind = Tickers]
    BY <1>0
  <2> QED BY <2>1, <2>2, HistFacts
<1>2. EodTypes
  BY DEF EodInv
<1>3. NoEod \in [open : Books, attempted : BOOLEAN]
  BY DEF NoEod, Flat, Books
<1>4. EodTypes'
  BY <1>0, <1>1, <1>2, <1>3, ScanFields, BotFacts DEF EodTypes, HistTypes
<1>5. PassInv'
  BY <1>0, NoOrderFacts DEF PassInv, NoScan, NoBot
<1>6. SweepInv'
  <2>1. sweep' # "no" => sweep # "no"
    BY <1>0
  <2>2. FlatAfterSweep'
    BY <1>0, <1>1 DEF EodInv, SweepInv, FlatAfterSweep, SweepClosed
  <2> QED BY <1>0, <2>1, <2>2, NoOrderFacts DEF EodInv, SweepInv, NoScan
<1>7. FillInv'
  BY <1>0, <1>1 DEF EodInv, FillInv
<1>8. TrackInv'
  BY <1>0, NoOrderFacts DEF TrackInv, SweepClosed, NoScan, NoBot
<1> QED BY <1>4, <1>5, <1>6, <1>7, <1>8 DEF EodInv

LEMMA BootInv == EodInv /\ Boot => EodInv'
<1> SUFFICES ASSUME EodInv, Boot PROVE EodInv'
  OBVIOUS
<1>0. /\ ~up /\ up' = TRUE /\ orb' \in {orb, Flat}
      /\ \/ row' = Reconciled /\ hist' = [hist EXCEPT !.boots = @ + 1, !.blind = {}]
         \/ row' = row /\ hist' = [hist EXCEPT !.boots = @ + 1]
      /\ UNCHANGED <<minute, pos, ids, eod, scan, sweep, bot>>
  BY DEF Boot
<1>1. EodTypes /\ scan = NoScan /\ bot = NoBot /\ eod = NoEod /\ hist.blind = Tickers
  BY <1>0 DEF EodInv, EodTypes
<1>2. /\ hist' \in HistTypes /\ hist'.fills = hist.fills /\ hist'.double = hist.double
      /\ hist'.boots = hist.boots + 1 /\ hist'.late = hist.late
      /\ row' = Reconciled \/ hist'.blind = Tickers
  <2> DEFINE n == hist.boots + 1
  <2>1. n \in Nat
    BY BotFacts DEF HistTypes
  <2>2. hist' = [hist EXCEPT !.boots = n, !.blind = {}] \/ hist' = [hist EXCEPT !.boots = n]
    BY <1>0
  <2>3. row' = Reconciled \/ hist' = [hist EXCEPT !.boots = n]
    BY <1>0
  <2> HIDE DEF n
  <2>4. /\ hist' \in HistTypes /\ hist'.fills = hist.fills /\ hist'.double = hist.double
        /\ hist'.boots = n /\ hist'.late = hist.late
    BY <2>1, <2>2, BotFacts DEF HistTypes
  <2>5. row' = Reconciled \/ hist'.blind = Tickers
    BY <1>1, <2>3, BotFacts DEF HistTypes
  <2> QED BY <2>4, <2>5 DEF n
<1>3. orb' \in Books /\ row' \in Books
  BY <1>0, BotFacts, ReconciledFacts DEF EodInv, EodTypes
<1>4. EodTypes'
  BY <1>0, <1>1, <1>2, <1>3 DEF EodTypes, HistTypes
<1>5. PassInv'
  BY <1>0, <1>1, NoOrderFacts DEF PassInv, NoScan, NoBot
<1>6. SweepInv'
  BY <1>0, <1>2 DEF EodInv, SweepInv, FlatAfterSweep, SweepClosed
<1>7. FillInv'
  <2>1. hist.boots \in Nat /\ \A leg \in Legs : Cardinality(hist.fills[leg]) \in Nat
    <3>1. \A leg \in Legs : hist.fills[leg] \subseteq 1..LastMinute
      BY <1>1 DEF EodTypes
    <3>2. IsFiniteSet(1..LastMinute)
      BY ClockOrder, FS_Interval
    <3>3. \A leg \in Legs : IsFiniteSet(hist.fills[leg])
      BY <3>1, <3>2, FS_Subset
    <3>4. \A leg \in Legs : Cardinality(hist.fills[leg]) \in Nat
      BY <3>3, FS_CardinalityType
    <3> QED BY <1>1, <3>4 DEF EodTypes
  <2>2. \A leg \in Legs : Cardinality(hist.fills[leg]) <= 1 + hist.boots
    BY DEF EodInv, FillInv
  <2>3. \A leg \in Legs : /\ Cardinality(hist.fills[leg]) <= hist.boots + 1
                          /\ Cardinality(hist.fills[leg]) <= 1 + (hist.boots + 1)
    BY <2>1, <2>2
  <2> QED BY <1>0, <1>2, <2>3 DEF EodInv, FillInv
<1>8. TrackInv'
  <2>1. \A t \in Tickers \ hist'.blind : pos[t] # 0 => row'[t] # 0
    BY <1>2, ReconciledFacts
  <2> QED BY <1>0, <1>1, <2>1, NoOrderFacts DEF TrackInv, SweepClosed, NoScan, NoBot
<1> QED BY <1>4, <1>5, <1>6, <1>7, <1>8 DEF EodInv

LEMMA EodStepInv == EodInv /\ [Next]_vars => EodInv'
<1> SUFFICES ASSUME EodInv, [Next]_vars PROVE EodInv'
  OBVIOUS
<1>1. CASE UNCHANGED vars
  <2>1. \A leg \in Legs : Unused(leg)' => Unused(leg)
    BY <1>1 DEF vars, Unused
  <2>2. EodTypes' /\ PassInv' /\ SweepInv'
    BY <1>1 DEF vars, EodInv, EodTypes, PassInv, SweepInv, FlatAfterSweep, SweepClosed
  <2>3. FillInv' /\ TrackInv'
    BY <1>1, <2>1 DEF vars, EodInv, FillInv, TrackInv, SweepClosed, RowAwaited
  <2> QED BY <2>2, <2>3 DEF EodInv
<1>2. CASE ScanNext
  BY <1>2, BeginScanInv, NoSignalInv, BeginEntriesInv, BeginEodExitsInv, EndEntriesInv, EndScanInv,
     ExitHoldInv, ExitFullInv, ExitPartialInv, CloseLegInv, KeepLegInv, EnterLegInv, SubmitInv,
     SubmitFailsInv, PartialGoneInv, RecordInv DEF ScanNext
<1>3. CASE SweepNext
  BY <1>3, EmitSweepInv, SweepCloseAllInv, SweepFailsInv, SweepWipeInv, SweepReconcileInv DEF SweepNext
<1>4. CASE BotNext
  BY <1>4, CmdCloseInv, CmdCloseSubmitInv, CmdCloseFailsInv, CmdCloseRemoveInv, CmdHaltInv,
     CmdHaltWipeInv DEF BotNext
<1> QED BY <1>1, <1>2, <1>3, <1>4, NextMinuteInv, CrashInv, BootInv DEF Next

LEMMA EodAlways == Spec => []EodInv
BY EodInitInv, EodStepInv, PTL DEF Spec

-----------------------------------------------------------------------------

\* entry_attempted is set only when every leg was tried, and it is kept in
\* memory: each process fills a ticker and side at most once, and the order
\* id of the minute swallows the repeat of the next process.
THEOREM EntriesFilledOnce == Spec => []EodEntryOnce
<1>1. EodInv => EodEntryOnce
  BY DEF EodInv, FillInv, EodEntryOnce
<1> QED BY <1>1, EodAlways, PTL

\* EOD_CLOSE_ALL is sent by the thread that also scans, after the entry
\* window: what is sent once it went through only closes, but for a partial of
\* the ORB exit pass and a /close of the operator.
THEOREM StaysFlat == Spec => []FlatAfterSweep
<1>1. EodInv => FlatAfterSweep
  BY DEF EodInv, SweepInv
<1> QED BY <1>1, EodAlways, PTL

\* Submitting and recording are two steps, and so are the two of the sweep
\* and of the commands: what the account holds still has its row when they
\* are done, unless the process had a reason not to know of it or a partial
\* came after the sweep.
THEOREM RowsTrackExposure == Spec => []ExposureIsTracked
<1>1. EodInv => ExposureIsTracked
  <2>1. scan.order = NoOrder => \A t : ~RowAwaited(t)
    BY NoOrderFacts DEF RowAwaited
  <2> QED BY <2>1 DEF EodInv, TrackInv, SweepClosed, ExposureIsTracked
<1> QED BY <1>1, EodAlways, PTL

\* Books, orders and the three threads stay in their types.
THEOREM EodTypeCorrect == Spec => []TypeOK
<1>1. EodInv => TypeOK
  <2> SUFFICES ASSUME EodInv PROVE TypeOK
    OBVIOUS
  <2>1. \A o \in RealOrders : o \in OrderType
    BY DEF RealOrders, Kinds, Directions, OrderType
  <2>2. NoOrder \in OrderType
    BY DEF NoOrder, OrderType
  <2> QED BY <2>1, <2>2 DEF EodInv, EodTypes, PassInv, Books, Directions, TypeOK
<1> QED BY <1>1, EodAlways, PTL

-----------------------------------------------------------------------------
(***************************************************************************)
(* The earnings watcher for every universe, every set of minutes and bars  *)
(* and any number of crashes.                                              *)
(***************************************************************************)

Stamps == [window : Windows, ticker : Symbols, strategy : Strategies, life : Nat]
Intended == [side : Sides, conv : Convs, notional : Nat]
Cycles == {"exit", "window"}

BootThreads == [at : {"boot"}]
IdleThreads == [at : {"idle"}]
ManageThreads == [at : {"manage"}, cycle : Cycles, todo : SUBSET Symbols]
EntryThreads ==
    [at : {"entries"}, window : Windows, todo : SUBSET Symbols, equity : Nat, exposure : Int]
OrderThreads ==
    [at : {"submit", "add", "book"}, window : Windows, todo : SUBSET Symbols, equity : Nat,
     exposure : Int, ticker : Symbols, strategy : Strategies, intent : Intended]
OrderedThreads ==
    [at : {"ordered"}, cycle : Cycles, todo : SUBSET Symbols, ticker : Symbols]
UnbookedThreads ==
    [at : {"unbooked"}, cycle : Cycles, todo : SUBSET Symbols, ticker : Symbols]

Threads ==
    BootThreads \cup IdleThreads \cup ManageThreads \cup EntryThreads \cup OrderThreads
      \cup OrderedThreads \cup UnbookedThreads

HeldRows == {<<t, file[t].side>> : t \in Held}

\* What every variable may hold.
EwTypes ==
    /\ now \in 0..MaxTime /\ life \in 0..MaxCrashes
    /\ file \in [Symbols -> {NoPosition} \cup Positions]
    /\ evaluated \in [Windows -> [Strategies -> SUBSET Symbols]]
    /\ lastKey \in Windows \cup {NoKey}
    /\ rows \subseteq Symbols \X Sides
    /\ thread \in Threads
    /\ sent \subseteq Stamps /\ disagreed \subseteq Stamps

\* The exposure the entries of a window count with is that of the file, and
\* an order under way is for a ticker the file does not hold and fits under
\* the cap of the equity the cycle has read.
EntryInv ==
    /\ thread.at \in {"entries", "submit", "add", "book"} =>
         /\ thread.todo \subseteq Universe(thread.window)
         /\ lastKey = thread.window
         /\ thread.exposure = Exposure
    /\ thread.at \in {"submit", "add"} =>
         /\ thread.ticker \notin Held
         /\ thread.intent.notional \in 1..(CapOf(thread.equity) - Exposure)
         /\ thread.strategy \in Active(thread.window)
    /\ thread.at = "book" =>
         thread.ticker \in Held /\ file[thread.ticker].side = thread.intent.side

\* A position whose close is under way is in the file and no longer to do.
ExitInv ==
    /\ thread.at \in {"manage", "ordered", "unbooked"} => thread.todo \subseteq Held
    /\ thread.at \in {"ordered", "unbooked"} =>
         thread.ticker \in Held /\ thread.ticker \notin thread.todo

\* What the books show at each point of a minute.
RowsInv ==
    /\ thread.at = "boot" => rows = {}
    /\ thread.at \in {"idle", "manage", "entries", "submit", "add", "ordered"} =>
         rows = HeldRows
    /\ thread.at = "book" =>
         rows \cup {<<thread.ticker, thread.intent.side>>} = HeldRows
    /\ thread.at = "unbooked" =>
         rows = HeldRows \ {<<thread.ticker, file[thread.ticker].side>>}

\* What this process sent or refused to send stays evaluated: nothing is
\* forgotten but at the first cycle of a window, before its first order.
OnceInv ==
    /\ \A r \in sent \cup disagreed :
         /\ r.life <= life /\ r.strategy \in Active(r.window)
         /\ r.life = life =>
              /\ lastKey # NoKey /\ r.ticker \in evaluated[r.window][r.strategy]
              /\ lastKey = "premarket" => r.window = "premarket"
    /\ lastKey = "afterhours" => \E q \in Afterhours : q <= now
    /\ thread.at = "submit" =>
         /\ thread.ticker \in evaluated[thread.window][thread.strategy]
         /\ \A r \in sent \cup disagreed :
              ~ /\ r.window = thread.window /\ r.ticker = thread.ticker
                /\ r.strategy = thread.strategy /\ r.life = life

EwInv == EwTypes /\ EntryInv /\ ExitInv /\ RowsInv /\ OnceInv

-----------------------------------------------------------------------------
(* The operators. *)

\* Nothing is held without a position.
LEMMA HeldFacts ==
    ASSUME EwTypes
    PROVE  /\ Held \subseteq Symbols /\ IsFiniteSet(Held)
           /\ \A t \in Symbols : t \in Held <=> file[t] # NoPosition
           /\ \A t \in Held : file[t] \in Positions
           /\ [t \in Held |-> file[t].notional] \in [Held -> Nat]
           /\ Exposure \in Nat
<1>1. Held \subseteq Symbols /\ \A t \in Symbols : t \in Held <=> file[t] # NoPosition
  BY DEF Held
<1>2. IsFiniteSet(Held)
  BY <1>1, FS_Subset, EarningsConstants
<1>3. \A t \in Held : file[t] \in Positions
  BY <1>1 DEF EwTypes
<1>4. \A t \in Held : file[t].notional \in Nat
  BY <1>3, EarningsConstants DEF Positions
<1>5. [t \in Held |-> file[t].notional] \in [Held -> Nat]
  BY <1>4
<1> QED BY <1>1, <1>2, <1>3, <1>5, TotalNat DEF Exposure

\* A sized notional is positive only if it fits under the cap.
LEMMA SizedFits ==
    ASSUME NEW s \in Strategies, NEW c \in Convs, NEW e \in Nat, NEW x \in Int,
           Sized(s, c, e, x) > 0
    PROVE  Sized(s, c, e, x) \in 1..(CapOf(e) - x)
<1> DEFINE proposed == Share[s][c] * e
           least == MinShare * e
<1>1. proposed \in Int /\ least \in Int /\ CapOf(e) \in Int /\ least >= 0
  BY EarningsConstants DEF CapOf
<1>2. Sized(s, c, e, x) = IF e = 0 THEN 0
                          ELSE IF proposed <= CapOf(e) - x THEN proposed
                          ELSE IF CapOf(e) - x < least THEN 0 ELSE CapOf(e) - x
  BY DEF Sized
<1> HIDE DEF proposed, least
<1> QED BY <1>1, <1>2

\* The three strategies have their places in the order.
LEMMA IndexValues ==
    Index("dmi") = 1 /\ Index("pmr") = 2 /\ Index("pmc") = 3
<1>1. 1..Len(Precedence) = {1, 2, 3}
  BY DEF Precedence
<1>2. Precedence[1] = "dmi" /\ Precedence[2] = "pmr" /\ Precedence[3] = "pmc"
  BY DEF Precedence
<1> QED BY <1>1, <1>2 DEF Index

\* Whatever fired, one intent is chosen.
LEMMA ChosenFires ==
    ASSUME NEW F, F \subseteq Strategies, F # {}, NEW intents, DOMAIN intents = F,
           \A s \in F : intents[s].conv \in Nat
    PROVE  Chosen(intents) \in F
<1> DEFINE Beats(s, o) == \/ intents[s].conv > intents[o].conv
                          \/ intents[s].conv = intents[o].conv /\ Index(s) <= Index(o)
<1>0. \A s \in F : Index(s) \in Int /\ intents[s].conv \in Int
  BY IndexValues DEF Strategies
<1>1. \A s, o \in F : Beats(s, o) \/ Beats(o, s)
  BY <1>0
<1>2. \A s, o, u \in F : Beats(s, o) /\ Beats(o, u) => Beats(s, u)
  BY <1>0
<1>3. \A s \in F : Beats(s, s)
  BY <1>1
<1>4. F \subseteq {"dmi", "pmr", "pmc"}
  BY DEF Strategies
<1> HIDE DEF Beats
<1> DEFINE Two == F \cap {"dmi", "pmr"}
<1>5. Two # {} => \E s \in Two : \A o \in Two : Beats(s, o)
  BY <1>1, <1>3
<1>6. \E s \in F : \A o \in F : Beats(s, o)
  <2>1. CASE Two = {}
    <3>1. F = {"pmc"}
      BY <1>4, <2>1
    <3> QED BY <1>3, <3>1
  <2>2. CASE "pmc" \notin F
    BY <1>4, <1>5, <2>2
  <2>3. CASE Two # {} /\ "pmc" \in F
    <3>1. PICK s \in Two : \A o \in Two : Beats(s, o)
      BY <1>5, <2>3
    <3>2. s \in F /\ \A o \in F : o \in Two \/ o = "pmc"
      BY <1>4
    <3>3. CASE Beats(s, "pmc")
      BY <3>1, <3>2, <3>3
    <3>4. CASE Beats("pmc", s)
      <4>1. \A o \in Two : Beats("pmc", o)
        BY <1>2, <2>3, <3>1, <3>2, <3>4
      <4> QED BY <1>3, <2>3, <3>2, <4>1
    <3> QED BY <1>1, <2>3, <3>2, <3>3, <3>4
  <2> QED BY <2>1, <2>2, <2>3
<1> QED BY <1>6 DEF Chosen, Beats

\* What is marked is evaluated, and nothing is unmarked.
LEMMA MarkedFacts ==
    ASSUME EwTypes, NEW w \in Windows, NEW S \in SUBSET Strategies, NEW t \in Symbols
    PROVE  /\ Marked(w, S, t) \in [Windows -> [Strategies -> SUBSET Symbols]]
           /\ \A v \in Windows, s \in Strategies : evaluated[v][s] \subseteq Marked(w, S, t)[v][s]
           /\ \A s \in S : t \in Marked(w, S, t)[w][s]
BY DEF Marked, EwTypes

\* An intent belongs to a strategy that was a candidate, and fits the cap.
LEMMA IntentFacts ==
    ASSUME EwTypes, NEW w \in Windows, NEW t \in Symbols, NEW e \in Nat, NEW x \in Int,
           NEW seen \in [Candidates(w, t) -> Signals]
    PROVE  LET intents == Intents(seen, e, x) IN
           /\ DOMAIN intents \subseteq Candidates(w, t)
           /\ Candidates(w, t) \subseteq Active(w) /\ Active(w) \subseteq Strategies
           /\ \A s \in DOMAIN intents :
                /\ intents[s] \in Intended
                /\ intents[s].notional \in 1..(CapOf(e) - x)
           /\ Settles(seen, intents) \subseteq Candidates(w, t)
           /\ DOMAIN intents # {} => Chosen(intents) \in DOMAIN intents
           /\ DOMAIN intents # {} /\ ~Disagree(intents) => Chosen(intents) \in Settles(seen, intents)
           /\ Disagree(intents) => Settles(seen, intents) = DOMAIN intents
<1> DEFINE intents == Intents(seen, e, x)
<1>1. Candidates(w, t) \subseteq Active(w) /\ Active(w) \subseteq Strategies
  BY DEF Candidates, Active, Strategies
<1>2. /\ DOMAIN intents = {s \in Candidates(w, t) : /\ seen[s].kind = "break"
                                                   /\ Sized(s, seen[s].conv, e, x) > 0}
      /\ \A s \in DOMAIN intents :
           intents[s] = [side |-> seen[s].side, conv |-> seen[s].conv,
                         notional |-> Sized(s, seen[s].conv, e, x)]
  BY DEF Intents
<1>3. \A s \in DOMAIN intents : intents[s] \in Intended /\ intents[s].notional \in 1..(CapOf(e) - x)
  <2> SUFFICES ASSUME NEW s \in DOMAIN intents
               PROVE  intents[s] \in Intended /\ intents[s].notional \in 1..(CapOf(e) - x)
    OBVIOUS
  <2>1. s \in Strategies /\ seen[s].side \in Sides /\ seen[s].conv \in Convs
    BY <1>1, <1>2 DEF Signals
  <2>2. Sized(s, seen[s].conv, e, x) \in 1..(CapOf(e) - x)
    BY <1>2, <2>1, SizedFits
  <2>3. Sized(s, seen[s].conv, e, x) \in Nat
    BY <2>2, EarningsConstants
  <2>4. intents[s] = [side |-> seen[s].side, conv |-> seen[s].conv,
                      notional |-> Sized(s, seen[s].conv, e, x)]
    BY <1>2
  <2> HIDE DEF intents
  <2> QED BY <2>1, <2>2, <2>3, <2>4 DEF Intended
<1>4. DOMAIN intents # {} => Chosen(intents) \in DOMAIN intents
  <2>1. \A s \in DOMAIN intents : intents[s].conv \in Nat
    BY <1>3, EarningsConstants DEF Intended
  <2>2. DOMAIN intents \subseteq Strategies
    BY <1>1, <1>2
  <2> HIDE DEF intents
  <2> QED BY <2>1, <2>2, ChosenFires
<1>5. Settles(seen, intents) \subseteq Candidates(w, t)
  <2>1. GivenUp(seen, DOMAIN intents) \subseteq Candidates(w, t)
    BY DEF GivenUp
  <2> HIDE DEF intents
  <2> QED BY <1>2, <1>4, <2>1 DEF Settles
<1>6. DOMAIN intents # {} /\ ~Disagree(intents) => Chosen(intents) \in Settles(seen, intents)
  BY DEF Settles
<1>7. Disagree(intents) => Settles(seen, intents) = DOMAIN intents
  BY DEF Settles
<1> QED BY <1>1, <1>2, <1>3, <1>4, <1>5, <1>6, <1>7

-----------------------------------------------------------------------------
(* Each action. *)

\* The stage says what the thread carries.
LEMMA ThreadKinds ==
    ASSUME thread \in Threads
    PROVE  /\ thread.at = "manage" => thread \in ManageThreads
           /\ thread.at = "entries" => thread \in EntryThreads
           /\ thread.at \in {"submit", "add", "book"} => thread \in OrderThreads
           /\ thread.at = "ordered" => thread \in OrderedThreads
           /\ thread.at = "unbooked" => thread \in UnbookedThreads
BY DEF Threads, BootThreads, IdleThreads, ManageThreads, EntryThreads, OrderThreads,
       OrderedThreads, UnbookedThreads

\* Without a write of the file nothing changes about it.
LEMMA SameFile ==
    ASSUME UNCHANGED file
    PROVE  Held' = Held /\ Exposure' = Exposure /\ HeldRows' = HeldRows
BY DEF Held, Exposure, HeldRows

\* The cycles that only move the thread between stages keep what was sent
\* evaluated.
LEMMA SameOnce ==
    ASSUME OnceInv, UNCHANGED <<now, evaluated, lastKey, life, sent, disagreed>>,
           thread'.at # "submit"
    PROVE  OnceInv'
BY DEF OnceInv

LEMMA EwInitInv == EwInit => EwInv
<1> SUFFICES ASSUME EwInit PROVE EwInv
  OBVIOUS
<1>1. EwTypes
  BY EarningsConstants DEF EwInit, EwTypes, Threads, BootThreads, NoKey
<1>2. Held = {}
  BY DEF EwInit, Held
<1>3. Exposure = 0
  BY <1>1, <1>2, HeldFacts, TotalZero DEF Exposure
<1>5. EntryInv /\ ExitInv /\ RowsInv /\ OnceInv
  BY DEF EwInit, EntryInv, ExitInv, RowsInv, OnceInv, NoKey
<1> QED BY <1>1, <1>5 DEF EwInv

LEMMA ExitCycleInv == EwInv /\ ExitCycle => EwInv'
<1> SUFFICES ASSUME EwInv, ExitCycle PROVE EwInv'
  OBVIOUS
<1> USE DEF ExitCycle
<1>1. Held' = Held /\ Exposure' = Exposure /\ HeldRows' = HeldRows
  BY SameFile
<1>2. Held \subseteq Symbols /\ \A t \in Held : file[t] \in Positions
  BY HeldFacts DEF EwInv
<1>3. thread' \in ManageThreads
  BY <1>2 DEF ManageThreads, Cycles
<1>4. rows = {} \/ rows = HeldRows
  BY DEF EwInv, RowsInv
<1>5. rows' = HeldRows
  BY <1>4 DEF Grafted, HeldRows
<1>6. now' \in 0..MaxTime /\ now' \in Int /\ now \in Int /\ now <= now'
  BY EarningsConstants DEF EwInv, EwTypes
<1>7. HeldRows \subseteq Symbols \X Sides
  BY <1>2 DEF HeldRows, Positions
<1>8. EwTypes'
  BY <1>3, <1>5, <1>6, <1>7 DEF EwInv, EwTypes, Threads
<1>9. EntryInv' /\ ExitInv' /\ RowsInv'
  BY <1>1, <1>5 DEF EwInv, EntryInv, ExitInv, RowsInv
<1>10. Afterhours \subseteq Int
  BY EarningsConstants
<1>11. OnceInv'
  <2>1. /\ UNCHANGED <<evaluated, lastKey, life, sent, disagreed>>
        /\ thread'.at # "submit"
    OBVIOUS
  <2>2. lastKey' = "afterhours" => \E q \in Afterhours : q <= now'
    BY <1>6, <1>10, <2>1 DEF EwInv, OnceInv
  <2> QED BY <2>1, <2>2 DEF EwInv, OnceInv
<1> QED BY <1>8, <1>9, <1>11 DEF EwInv

LEMMA WindowCycleInv == EwInv /\ WindowCycle => EwInv'
<1> SUFFICES ASSUME EwInv, WindowCycle PROVE EwInv'
  OBVIOUS
<1> DEFINE w == WindowAt(now)
<1>0. /\ thread.at = "manage" /\ w # NoKey /\ lastKey' = w
      /\ evaluated' = IF lastKey = w THEN evaluated
                      ELSE [evaluated EXCEPT ![w] = [s \in Strategies |-> {}]]
      /\ rows' = Grafted(rows)
      /\ UNCHANGED <<now, file, life, sent, disagreed>>
  BY DEF WindowCycle
<1>e. PICK equity \in Equities :
        thread' = [at |-> "entries", window |-> w, todo |-> Universe(w),
                   equity |-> equity, exposure |-> Exposure]
  BY DEF WindowCycle
<1>1. Held' = Held /\ Exposure' = Exposure /\ HeldRows' = HeldRows
  BY <1>0, SameFile
<1>2. Exposure \in Nat
  BY HeldFacts DEF EwInv
<1>3. /\ w \in Windows
      /\ w = "premarket" => now \in Premarket
      /\ w = "afterhours" => now \in Afterhours
  BY <1>0 DEF WindowAt, Windows, NoKey
<1> HIDE DEF w
<1>4. thread' \in EntryThreads
  <2>1. Universe(w) \subseteq Symbols /\ equity \in Nat
    BY EarningsConstants DEF Universe
  <2> QED BY <1>2, <1>3, <1>e, <2>1 DEF EntryThreads
<1>5. rows = HeldRows /\ rows' = HeldRows
  BY <1>0 DEF EwInv, RowsInv, Grafted, HeldRows
<1>6. /\ evaluated' \in [Windows -> [Strategies -> SUBSET Symbols]]
      /\ \A v \in Windows : v # w \/ lastKey = w => evaluated'[v] = evaluated[v]
  BY <1>0, <1>3 DEF EwInv, EwTypes
<1>7. EwTypes'
  BY <1>0, <1>3, <1>4, <1>5, <1>6 DEF EwInv, EwTypes, Threads
<1>8. EntryInv' /\ ExitInv' /\ RowsInv'
  BY <1>0, <1>1, <1>5, <1>e DEF EwInv, EntryInv, ExitInv, RowsInv
<1>9. Afterhours \subseteq Int /\ Premarket \subseteq Int /\ now \in Int
  BY EarningsConstants DEF EwInv, EwTypes
\* The windows of a day come in order.
<1>10. lastKey = "afterhours" => w = "afterhours"
  BY <1>3, <1>9, EarningsConstants DEF EwInv, OnceInv, Windows
<1>11. ASSUME NEW r \in sent \cup disagreed, r.life = life
       PROVE  /\ r.ticker \in evaluated'[r.window][r.strategy]
              /\ w = "premarket" => r.window = "premarket"
  <2>1. /\ lastKey # NoKey /\ r.ticker \in evaluated[r.window][r.strategy]
        /\ lastKey = "premarket" => r.window = "premarket"
        /\ r.window \in Windows /\ lastKey \in Windows
    BY <1>11 DEF EwInv, OnceInv, EwTypes, Stamps
  <2>2. CASE lastKey = w
    BY <1>6, <2>1, <2>2
  <2>3. CASE lastKey # w
    <3>1. lastKey = "premarket" /\ w = "afterhours"
      BY <1>3, <1>10, <2>1, <2>3 DEF Windows
    <3> QED BY <1>6, <2>1, <3>1
  <2> QED BY <2>2, <2>3
<1>12. w = "afterhours" => \E q \in Afterhours : q <= now
  BY <1>3, <1>9
<1>13. OnceInv'
  BY <1>0, <1>11, <1>12, <1>e DEF EwInv, OnceInv
<1> QED BY <1>7, <1>8, <1>13 DEF EwInv

LEMMA CycleEndsInv == EwInv /\ CycleEnds => EwInv'
<1> SUFFICES ASSUME EwInv, CycleEnds PROVE EwInv'
  OBVIOUS
<1>1. Held' = Held /\ Exposure' = Exposure /\ HeldRows' = HeldRows
  BY SameFile DEF CycleEnds
<1>2. EwTypes'
  BY DEF CycleEnds, Idle, EwInv, EwTypes, Threads, IdleThreads
<1>3. EntryInv' /\ ExitInv' /\ RowsInv'
  BY <1>1 DEF CycleEnds, Idle, EwInv, EntryInv, ExitInv, RowsInv
<1>4. OnceInv'
  BY SameOnce DEF EwInv, CycleEnds, Idle
<1> QED BY <1>2, <1>3, <1>4 DEF EwInv

LEMMA EvaluateInv == \A t \in Symbols : EwInv /\ Evaluate(t) => EwInv'
<1> SUFFICES ASSUME NEW t \in Symbols, EwInv, Evaluate(t) PROVE EwInv'
  OBVIOUS
<1> DEFINE w == thread.window
           rest == [thread EXCEPT !.todo = @ \ {t}]
<1>0. /\ thread.at = "entries" /\ t \in thread.todo
      /\ UNCHANGED <<now, file, lastKey, rows, life, sent>>
  BY DEF Evaluate
<1>1. Held' = Held /\ Exposure' = Exposure /\ HeldRows' = HeldRows
  BY <1>0, SameFile
<1>2. /\ thread \in EntryThreads /\ w \in Windows /\ thread.exposure = Exposure
      /\ thread.todo \subseteq Universe(w) /\ lastKey = w /\ rows = HeldRows
  BY <1>0, ThreadKinds DEF EwInv, EwTypes, EntryInv, RowsInv, EntryThreads
<1>3. /\ rest \in EntryThreads /\ rest.at = "entries" /\ rest.window = w
      /\ rest.todo \subseteq Universe(w) /\ rest.exposure = Exposure
      /\ rest.equity = thread.equity /\ thread.equity \in Nat
  BY <1>0, <1>2 DEF EntryThreads
<1>4. CASE thread' = rest /\ UNCHANGED <<evaluated, disagreed>>
  <2>1. EwTypes'
    BY <1>0, <1>3, <1>4 DEF EwInv, EwTypes, Threads
  <2>2. EntryInv' /\ ExitInv' /\ RowsInv'
    BY <1>0, <1>1, <1>2, <1>3, <1>4 DEF EwInv, EntryInv, ExitInv, RowsInv
  <2>3. thread'.at # "submit"
    BY <1>3, <1>4
  <2>4. OnceInv'
    BY <1>0, <1>4, <2>3, SameOnce DEF EwInv
  <2> QED BY <2>1, <2>2, <2>4 DEF EwInv
<1>5. CASE t \notin Held /\ ~(thread' = rest /\ UNCHANGED <<evaluated, disagreed>>)
  <2>1. PICK seen \in [Candidates(w, t) -> Signals] :
          LET intents == Intents(seen, thread.equity, thread.exposure) IN
          /\ evaluated' = Marked(w, Settles(seen, intents), t)
          /\ IF DOMAIN intents = {} \/ Disagree(intents)
             THEN thread' = rest
             ELSE thread' = [at |-> "submit", window |-> w, todo |-> rest.todo,
                             equity |-> thread.equity, exposure |-> thread.exposure,
                             ticker |-> t, strategy |-> Chosen(intents),
                             intent |-> intents[Chosen(intents)]]
          /\ disagreed' = IF Disagree(intents)
                          THEN disagreed \cup Stamp(w, t, DOMAIN intents)
                          ELSE disagreed
    BY <1>5 DEF Evaluate
  <2> DEFINE intents == Intents(seen, thread.equity, Exposure)
             S == Settles(seen, intents)
             c == Chosen(intents)
  <2>2. /\ evaluated' = Marked(w, S, t)
        /\ disagreed' = IF Disagree(intents) THEN disagreed \cup Stamp(w, t, DOMAIN intents)
                        ELSE disagreed
        /\ IF DOMAIN intents = {} \/ Disagree(intents) THEN thread' = rest
           ELSE thread' = [at |-> "submit", window |-> w, todo |-> rest.todo,
                           equity |-> thread.equity, exposure |-> Exposure,
                           ticker |-> t, strategy |-> c, intent |-> intents[c]]
    BY <1>2, <2>1
  <2>3. Exposure \in Int
    BY HeldFacts DEF EwInv
  <2>4. /\ DOMAIN intents \subseteq Candidates(w, t)
        /\ Candidates(w, t) \subseteq Active(w) /\ Active(w) \subseteq Strategies
        /\ \A s \in DOMAIN intents :
             /\ intents[s] \in Intended
             /\ intents[s].notional \in 1..(CapOf(thread.equity) - Exposure)
        /\ S \subseteq Candidates(w, t)
        /\ DOMAIN intents # {} => c \in DOMAIN intents
        /\ DOMAIN intents # {} /\ ~Disagree(intents) => c \in S
        /\ Disagree(intents) => S = DOMAIN intents
    BY <1>2, <1>3, <2>3, IntentFacts DEF EwInv
  <2> HIDE DEF intents, S, c
  <2>5. /\ evaluated' \in [Windows -> [Strategies -> SUBSET Symbols]]
        /\ \A v \in Windows, s \in Strategies : evaluated[v][s] \subseteq evaluated'[v][s]
        /\ \A s \in S : t \in evaluated'[w][s]
    BY <1>2, <2>2, <2>4, MarkedFacts DEF EwInv
  <2>6. life \in Nat
    BY EarningsConstants DEF EwInv, EwTypes
  <2>7. \A r \in disagreed' \ disagreed :
          /\ r \in Stamps /\ r.window = w /\ r.ticker = t /\ r.life = life
          /\ r.strategy \in DOMAIN intents /\ Disagree(intents)
    <3>1. \A r \in Stamp(w, t, DOMAIN intents) :
            /\ r \in Stamps /\ r.window = w /\ r.ticker = t /\ r.life = life
            /\ r.strategy \in DOMAIN intents
      BY <1>2, <2>4, <2>6 DEF Stamp, Stamps
    <3> QED BY <2>2, <3>1
  <2>8. DOMAIN intents # {} /\ ~Disagree(intents) =>
          [at |-> "submit", window |-> w, todo |-> rest.todo, equity |-> thread.equity,
           exposure |-> Exposure, ticker |-> t, strategy |-> c, intent |-> intents[c]] \in OrderThreads
    <3>1. rest.todo \in SUBSET Symbols
      BY <1>3 DEF EntryThreads
    <3> HIDE DEF rest
    <3> QED BY <1>2, <1>3, <2>3, <2>4, <3>1 DEF OrderThreads
  <2>9. thread' \in EntryThreads \cup OrderThreads
    BY <1>3, <2>2, <2>8
  <2>10. disagreed' \subseteq Stamps
    BY <2>7 DEF EwInv, EwTypes
  <2>11. EwTypes'
    BY <1>0, <2>5, <2>9, <2>10 DEF EwInv, EwTypes, Threads
  <2>12. /\ EntryInv' /\ ExitInv' /\ RowsInv'
    <3>1. CASE thread' = rest
      BY <1>0, <1>1, <1>2, <1>3, <3>1 DEF EwInv, EntryInv, ExitInv, RowsInv
    <3>2. CASE DOMAIN intents # {} /\ ~Disagree(intents)
      <4>1. /\ thread'.at = "submit" /\ thread'.window = w /\ thread'.todo = rest.todo
            /\ thread'.exposure = Exposure /\ thread'.ticker = t /\ thread'.strategy = c
            /\ thread'.intent = intents[c] /\ thread'.equity = thread.equity
        BY <2>2, <3>2
      <4> HIDE DEF rest
      <4>2. c \in Active(w) /\ intents[c].notional \in 1..(CapOf(thread.equity) - Exposure)
        BY <2>4, <3>2
      <4> QED BY <1>0, <1>1, <1>2, <1>3, <1>5, <4>1, <4>2
              DEF EwInv, EntryInv, ExitInv, RowsInv
    <3> QED BY <2>2, <3>1, <3>2
  <2>13. ASSUME NEW r \in sent' \cup disagreed'
         PROVE  /\ r.life <= life /\ r.strategy \in Active(r.window)
                /\ r.life = life =>
                     /\ lastKey # NoKey /\ r.ticker \in evaluated'[r.window][r.strategy]
                     /\ lastKey = "premarket" => r.window = "premarket"
    <3>1. CASE r \in sent \cup disagreed
      <4>1. r \in Stamps
        BY <3>1 DEF EwInv, EwTypes
      <4> QED BY <2>5, <3>1, <4>1 DEF EwInv, OnceInv, Stamps
    <3>2. CASE r \in disagreed' \ disagreed
      <4>1. w # NoKey
        BY <1>2 DEF Windows, NoKey
      <4>2. r.window = w /\ r.ticker = t /\ r.life = life /\ r.strategy \in DOMAIN intents
            /\ S = DOMAIN intents
        BY <2>4, <2>7, <3>2
      <4> QED BY <1>2, <2>4, <2>5, <2>6, <4>1, <4>2
    <3> QED BY <1>0, <2>13, <3>1, <3>2
  <2>14. ASSUME thread'.at = "submit"
         PROVE  /\ thread'.ticker \in evaluated'[thread'.window][thread'.strategy]
                /\ \A r \in sent' \cup disagreed' :
                     ~ /\ r.window = thread'.window /\ r.ticker = thread'.ticker
                       /\ r.strategy = thread'.strategy /\ r.life = life
    <3>1. DOMAIN intents # {} /\ ~Disagree(intents)
      BY <1>3, <2>2, <2>14
    <3>2. thread'.window = w /\ thread'.ticker = t /\ thread'.strategy = c
      BY <2>2, <3>1
    <3>3. c \in S /\ c \in Candidates(w, t)
      BY <2>4, <3>1
    <3>4. t \notin evaluated[w][c]
      BY <3>3 DEF Candidates
    <3>5. sent' \cup disagreed' = sent \cup disagreed
      BY <1>0, <2>2, <3>1
    <3>6. \A r \in sent \cup disagreed : r.life = life => r.ticker \in evaluated[r.window][r.strategy]
      BY DEF EwInv, OnceInv
    <3> QED BY <2>5, <3>2, <3>3, <3>4, <3>5, <3>6
  <2>15. OnceInv'
    BY <1>0, <2>13, <2>14 DEF EwInv, OnceInv
  <2> QED BY <2>11, <2>12, <2>15 DEF EwInv
<1> QED BY <1>4, <1>5 DEF Evaluate

LEMMA SubmitOrderInv == EwInv /\ SubmitOrder => EwInv'
<1> SUFFICES ASSUME EwInv, SubmitOrder PROVE EwInv'
  OBVIOUS
<1>0. /\ thread.at = "submit"
      /\ sent' = sent \cup Stamp(thread.window, thread.ticker, {thread.strategy})
      /\ \/ thread' = [thread EXCEPT !.at = "add"]
         \/ thread' = [at |-> "entries", window |-> thread.window, todo |-> thread.todo,
                       equity |-> thread.equity, exposure |-> thread.exposure]
      /\ UNCHANGED <<now, file, evaluated, lastKey, rows, life, disagreed>>
  BY DEF SubmitOrder
<1>1. Held' = Held /\ Exposure' = Exposure /\ HeldRows' = HeldRows
  BY <1>0, SameFile
<1>2. thread \in OrderThreads
  BY <1>0, ThreadKinds DEF EwInv, EwTypes
<1>3. /\ thread' \in EntryThreads \cup OrderThreads
      /\ thread'.at \in {"add", "entries"}
      /\ thread'.window = thread.window /\ thread'.todo = thread.todo
      /\ thread'.exposure = thread.exposure /\ thread'.equity = thread.equity
      /\ thread'.at = "add" => /\ thread'.ticker = thread.ticker /\ thread'.intent = thread.intent
                               /\ thread'.strategy = thread.strategy
  BY <1>0, <1>2 DEF EntryThreads, OrderThreads
<1>4. life \in Nat
  BY EarningsConstants DEF EwInv, EwTypes
<1>5. \A r \in sent' \ sent :
        /\ r \in Stamps /\ r.window = thread.window /\ r.ticker = thread.ticker
        /\ r.strategy = thread.strategy /\ r.life = life
  BY <1>0, <1>2, <1>4 DEF Stamp, Stamps, OrderThreads
<1>6. EwTypes'
  BY <1>0, <1>3, <1>5 DEF EwInv, EwTypes, Threads
<1>7. EntryInv' /\ ExitInv' /\ RowsInv'
  BY <1>0, <1>1, <1>3 DEF EwInv, EntryInv, ExitInv, RowsInv
<1>8. ASSUME NEW r \in sent' \cup disagreed'
      PROVE  /\ r.life <= life /\ r.strategy \in Active(r.window)
             /\ r.life = life =>
                  /\ lastKey # NoKey /\ r.ticker \in evaluated[r.window][r.strategy]
                  /\ lastKey = "premarket" => r.window = "premarket"
  <2>1. CASE r \in sent \cup disagreed
    BY <2>1 DEF EwInv, OnceInv
  <2>2. CASE r \in sent' \ sent
    <3>1. /\ thread.window # NoKey /\ lastKey = thread.window
          /\ thread.strategy \in Active(thread.window)
          /\ thread.ticker \in evaluated[thread.window][thread.strategy]
      BY <1>0, <1>2 DEF EwInv, EntryInv, OnceInv, OrderThreads, Windows, NoKey
    <3> QED BY <1>4, <1>5, <2>2, <3>1
  <2> QED BY <1>0, <1>8, <2>1, <2>2
<1>9. OnceInv'
  BY <1>0, <1>3, <1>8 DEF EwInv, OnceInv
<1> QED BY <1>6, <1>7, <1>9 DEF EwInv

\* What add_position writes: a position that fits under the cap.
LEMMA AddFacts ==
    ASSUME EwInv, Add
    PROVE  LET t == thread.ticker IN
           /\ thread \in OrderThreads /\ thread.at = "add"
           /\ t \in Symbols /\ t \notin Held
           /\ file' \in [Symbols -> {NoPosition} \cup Positions]
           /\ file'[t].side = thread.intent.side
           /\ \A s \in Symbols \ {t} : file'[s] = file[s]
           /\ Held' = Held \cup {t} /\ Held \subseteq Symbols
           /\ thread.intent.notional \in 1..(CapOf(thread.equity) - Exposure)
           /\ Exposure' = Exposure + thread.intent.notional
<1> DEFINE t == thread.ticker
           n == thread.intent.notional
           p == [side |-> thread.intent.side, strategy |-> thread.strategy, since |-> now,
                 notional |-> n, armed |-> FALSE, stop |-> 0]
<1>0. /\ thread.at = "add" /\ file' = [file EXCEPT ![t] = p]
      /\ thread' = [thread EXCEPT !.at = "book", !.exposure = @ + n]
      /\ UNCHANGED <<now, evaluated, lastKey, rows, life, sent, disagreed>>
  BY DEF Add
<1>1. thread \in OrderThreads
  BY <1>0, ThreadKinds DEF EwInv, EwTypes
<1>2. /\ t \in Symbols /\ t \notin Held /\ n \in 1..(CapOf(thread.equity) - Exposure)
      /\ thread.exposure = Exposure /\ thread.todo \subseteq Universe(thread.window)
      /\ lastKey = thread.window /\ rows = HeldRows
  BY <1>0, <1>1 DEF EwInv, EntryInv, RowsInv, OrderThreads
<1>3. /\ Held \subseteq Symbols /\ IsFiniteSet(Held)
      /\ [s \in Held |-> file[s].notional] \in [Held -> Nat] /\ Exposure \in Nat
  BY HeldFacts DEF EwInv
<1>4. n \in Nat \ {0} /\ n \in Int
  BY <1>2
<1>5. p \in Positions /\ p # NoPosition
  <2>1. thread.intent.side \in Sides /\ thread.strategy \in Strategies
    BY <1>1 DEF OrderThreads, Intended
  <2>2. p \in Positions
    BY <1>4, <2>1 DEF EwInv, EwTypes, Positions
  <2>3. p.side # NoPosition.side
    BY <2>1 DEF NoPosition, Sides
  <2> QED BY <2>2, <2>3
<1>6. /\ file' \in [Symbols -> {NoPosition} \cup Positions]
      /\ file'[t] = p /\ \A s \in Symbols \ {t} : file'[s] = file[s]
  BY <1>0, <1>2, <1>5 DEF EwInv, EwTypes
<1> HIDE DEF p
<1>8. Held' = Held \cup {t}
  BY <1>2, <1>5, <1>6 DEF Held
<1>9. Exposure' = Exposure + n
  <2> DEFINE f == [s \in Held |-> file[s].notional]
             g == [s \in Held \cup {t} |-> file'[s].notional]
  <2>1. \A s \in Held : file'[s].notional = file[s].notional
    BY <1>2, <1>3, <1>6
  <2>2. file'[t].notional = n
    BY <1>6 DEF p
  <2>3. f \in [Held -> Int] /\ g \in [Held \cup {t} -> Int]
    BY <1>3, <1>4, <2>1, <2>2
  <2>4. g[t] = n /\ \A s \in Held : g[s] = f[s]
    BY <2>1, <2>2
  <2>5. Exposure = Total(f)
    BY DEF Exposure
  <2>6. Exposure' = Total(g)
    BY <1>8 DEF Exposure
  <2>7. g[t] = n
    BY <2>4
  <2>8. t \notin Held /\ IsFiniteSet(Held) /\ \A s \in Held : g[s] = f[s]
    BY <1>2, <1>3, <2>4
  <2> HIDE DEF f, g, t, n
  <2>9. Total(g) = Total(f) + g[t]
    BY <2>3, <2>8, TotalAdd
  <2> QED BY <2>5, <2>6, <2>7, <2>9
<1>10. file'[t].side = thread.intent.side
  BY <1>6 DEF p
<1> QED BY <1>0, <1>1, <1>2, <1>3, <1>6, <1>8, <1>9, <1>10

LEMMA AddInv == EwInv /\ Add => EwInv'
<1> SUFFICES ASSUME EwInv, Add PROVE EwInv'
  OBVIOUS
<1> DEFINE t == thread.ticker
           n == thread.intent.notional
<1>0. /\ thread' = [thread EXCEPT !.at = "book", !.exposure = @ + n]
      /\ UNCHANGED <<now, evaluated, lastKey, rows, life, sent, disagreed>>
  BY DEF Add
<1>1. /\ thread \in OrderThreads /\ thread.at = "add"
      /\ t \in Symbols /\ t \notin Held
      /\ file' \in [Symbols -> {NoPosition} \cup Positions]
      /\ file'[t].side = thread.intent.side
      /\ \A s \in Symbols \ {t} : file'[s] = file[s]
      /\ Held' = Held \cup {t} /\ Held \subseteq Symbols
      /\ n \in 1..(CapOf(thread.equity) - Exposure) /\ Exposure' = Exposure + n
  BY AddFacts
<1>2. /\ thread.exposure = Exposure /\ thread.todo \subseteq Universe(thread.window)
      /\ lastKey = thread.window /\ rows = HeldRows
  BY <1>1 DEF EwInv, EntryInv, RowsInv
<1>3. Exposure \in Nat
  BY HeldFacts DEF EwInv
<1>7. /\ thread' \in OrderThreads /\ thread'.at = "book" /\ thread'.window = thread.window
      /\ thread'.todo = thread.todo /\ thread'.ticker = t /\ thread'.intent = thread.intent
      /\ thread'.exposure = Exposure + n
  <2>1. thread' = [[thread EXCEPT !.at = "book"] EXCEPT !.exposure = Exposure + n]
    BY <1>0, <1>1, <1>2 DEF OrderThreads
  <2>2. Exposure + n \in Int
    BY <1>1, <1>3
  <2> HIDE DEF n
  <2> QED BY <1>1, <2>1, <2>2 DEF OrderThreads
<1>8. EwTypes'
  BY <1>0, <1>1, <1>7 DEF EwInv, EwTypes, Threads
<1>9. EntryInv' /\ ExitInv'
  BY <1>0, <1>1, <1>2, <1>7 DEF EntryInv, ExitInv
<1>10. RowsInv'
  <2>1. HeldRows' = HeldRows \cup {<<t, thread.intent.side>>}
    BY <1>1 DEF HeldRows
  <2> QED BY <1>0, <1>2, <1>7, <2>1 DEF RowsInv
<1>11. OnceInv'
  BY <1>0, <1>7, SameOnce DEF EwInv
<1> QED BY <1>8, <1>9, <1>10, <1>11 DEF EwInv

LEMMA BookInv == EwInv /\ Book => EwInv'
<1> SUFFICES ASSUME EwInv, Book PROVE EwInv'
  OBVIOUS
<1>0. /\ thread.at = "book" /\ rows' = rows \cup {<<thread.ticker, thread.intent.side>>}
      /\ thread' = [at |-> "entries", window |-> thread.window, todo |-> thread.todo,
                    equity |-> thread.equity, exposure |-> thread.exposure]
      /\ UNCHANGED <<now, file, evaluated, lastKey, life, sent, disagreed>>
  BY DEF Book
<1>1. Held' = Held /\ Exposure' = Exposure /\ HeldRows' = HeldRows
  BY <1>0, SameFile
<1>2. thread \in OrderThreads
  BY <1>0, ThreadKinds DEF EwInv, EwTypes
<1>3. thread' \in EntryThreads
  BY <1>0, <1>2 DEF EntryThreads, OrderThreads
<1>4. rows' \subseteq Symbols \X Sides
  BY <1>0, <1>2 DEF EwInv, EwTypes, OrderThreads, Intended
<1>5. EwTypes'
  BY <1>0, <1>3, <1>4 DEF EwInv, EwTypes, Threads
<1>6. EntryInv' /\ ExitInv' /\ RowsInv'
  BY <1>0, <1>1 DEF EwInv, EntryInv, ExitInv, RowsInv
<1>7. OnceInv'
  BY <1>0, SameOnce DEF EwInv
<1> QED BY <1>5, <1>6, <1>7 DEF EwInv

LEMMA EntriesEndInv == EwInv /\ EntriesEnd => EwInv'
<1> SUFFICES ASSUME EwInv, EntriesEnd PROVE EwInv'
  OBVIOUS
<1>1. Held' = Held /\ Exposure' = Exposure /\ HeldRows' = HeldRows
  BY SameFile DEF EntriesEnd
<1>2. thread' \in ManageThreads
  BY HeldFacts DEF EntriesEnd, EwInv, ManageThreads, Cycles
<1>3. EwTypes'
  BY <1>2 DEF EntriesEnd, EwInv, EwTypes, Threads
<1>4. EntryInv' /\ ExitInv' /\ RowsInv'
  BY <1>1 DEF EntriesEnd, EwInv, EntryInv, ExitInv, RowsInv
<1>5. OnceInv'
  BY SameOnce DEF EntriesEnd, EwInv
<1> QED BY <1>3, <1>4, <1>5 DEF EwInv

\* A position leaves the thread's list.
LEMMA LeaveInv ==
    ASSUME EwInv, NEW t \in Symbols, thread.at = "manage", UNCHANGED file,
           thread' = [thread EXCEPT !.todo = @ \ {t}],
           UNCHANGED <<now, evaluated, lastKey, rows, life, sent, disagreed>>
    PROVE  EwInv'
<1>1. Held' = Held /\ Exposure' = Exposure /\ HeldRows' = HeldRows
  BY SameFile
<1>2. thread \in ManageThreads
  BY ThreadKinds DEF EwInv, EwTypes
<1>3. thread' \in ManageThreads /\ thread'.at = "manage" /\ thread'.todo = thread.todo \ {t}
  BY <1>2 DEF ManageThreads
<1>4. EwTypes'
  BY <1>3 DEF EwInv, EwTypes, Threads
<1>5. EntryInv' /\ ExitInv' /\ RowsInv'
  BY <1>1, <1>3 DEF EwInv, EntryInv, ExitInv, RowsInv
<1>6. OnceInv'
  BY <1>3, SameOnce DEF EwInv
<1> QED BY <1>4, <1>5, <1>6 DEF EwInv

LEMMA NoBarsInv == \A t \in Symbols : EwInv /\ NoBars(t) => EwInv'
BY LeaveInv DEF NoBars

\* A trail that is saved keeps the side and the notional.
LEMMA TrailedFacts ==
    ASSUME NEW p \in Positions, NEW g \in Int
    PROVE  /\ Trailed(p, g) \in Positions
           /\ Trailed(p, g).side = p.side /\ Trailed(p, g).notional = p.notional
<1>1. p.strategy \in Strategies
  BY DEF Positions
<1>2. Trigger[p.strategy] \in Nat /\ Trail[p.strategy] \in Nat
  BY <1>1, EarningsConstants
<1> DEFINE s == IF g - Trail[p.strategy] > p.stop THEN g - Trail[p.strategy] ELSE p.stop
<1>3. s \in Nat
  BY <1>2 DEF Positions
<1> HIDE DEF s
<1>4. [p EXCEPT !.armed = TRUE, !.stop = s] \in Positions
  BY <1>3 DEF Positions
<1>5. /\ [p EXCEPT !.armed = TRUE, !.stop = s].side = p.side
      /\ [p EXCEPT !.armed = TRUE, !.stop = s].notional = p.notional
  BY DEF Positions
<1> QED BY <1>4, <1>5 DEF Trailed, s

\* A write of the file that keeps sides and notionals.
LEMMA SameNotionals ==
    ASSUME EwTypes, file' \in [Symbols -> {NoPosition} \cup Positions],
           \A s \in Symbols : \/ file'[s] = file[s]
                              \/ /\ file[s] \in Positions /\ file'[s] \in Positions
                                 /\ file'[s].side = file[s].side
                                 /\ file'[s].notional = file[s].notional
    PROVE  Held' = Held /\ Exposure' = Exposure /\ HeldRows' = HeldRows
<1>0. \A p \in Positions : p # NoPosition
  <2>1. \A p \in Positions : p.side # NoPosition.side
    BY DEF Positions, NoPosition, Sides
  <2> QED BY <2>1
<1>1. Held' = Held
  BY <1>0 DEF Held, EwTypes
<1>2. \A s \in Held : file'[s].side = file[s].side /\ file'[s].notional = file[s].notional
  BY DEF Held
<1>3. [s \in Held |-> file'[s].notional] = [s \in Held |-> file[s].notional]
  BY <1>2
<1>4. Exposure' = Exposure
  BY <1>1, <1>3 DEF Exposure
<1>5. HeldRows' = HeldRows
  BY <1>1, <1>2 DEF HeldRows
<1> QED BY <1>1, <1>4, <1>5

\* Managing a position leaves the notionals alone.
LEMMA ManageExposure == ASSUME EwInv, NEW t \in Symbols, Manage(t) PROVE Exposure' = Exposure
<1>1. t \in Held /\ file[t] \in Positions
  BY HeldFacts DEF Manage, EwInv, ExitInv
<1>2. CASE UNCHANGED file
  BY <1>2, SameFile
<1>3. CASE file' # file
  <2>1. PICK bar \in Bars :
          file' = [file EXCEPT ![t] = Trailed(@, Gain(TakenFor(@), bar))]
    BY <1>3 DEF Manage
  <2>2. Gain(TakenFor(file[t]), bar) \in Int
    BY EarningsConstants DEF Gain
  <2>3. /\ Trailed(file[t], Gain(TakenFor(file[t]), bar)) \in Positions
        /\ Trailed(file[t], Gain(TakenFor(file[t]), bar)).side = file[t].side
        /\ Trailed(file[t], Gain(TakenFor(file[t]), bar)).notional = file[t].notional
    BY <1>1, <2>2, TrailedFacts
  <2>4. /\ file' \in [Symbols -> {NoPosition} \cup Positions]
        /\ \A s \in Symbols \ {t} : file'[s] = file[s]
        /\ file'[t] = Trailed(file[t], Gain(TakenFor(file[t]), bar))
    BY <2>1, <2>3 DEF EwInv, EwTypes
  <2> QED BY <1>1, <2>3, <2>4, SameNotionals DEF EwInv
<1> QED BY <1>2, <1>3

LEMMA ManageInv == \A t \in Symbols : EwInv /\ Manage(t) => EwInv'
<1> SUFFICES ASSUME NEW t \in Symbols, EwInv, Manage(t) PROVE EwInv'
  OBVIOUS
<1>1. PICK bar \in Bars, at \in {m \in 0..now : now - m <= BarLag} :
        IF Cause(file[t], bar, at) = "none"
        THEN /\ file' = [file EXCEPT ![t] = Trailed(@, Gain(TakenFor(@), bar))]
             /\ thread' = [thread EXCEPT !.todo = @ \ {t}]
        ELSE /\ thread' = [at |-> "ordered", cycle |-> thread.cycle,
                           todo |-> thread.todo \ {t}, ticker |-> t]
             /\ UNCHANGED file
  BY DEF Manage
<1>2. /\ thread.at = "manage" /\ t \in thread.todo
      /\ UNCHANGED <<now, evaluated, lastKey, rows, life, sent, disagreed>>
  BY DEF Manage
<1>3. thread \in ManageThreads
  BY <1>2, ThreadKinds DEF EwInv, EwTypes
<1>4. t \in Held /\ file[t] \in Positions
  BY <1>2, HeldFacts DEF EwInv, ExitInv
<1> DEFINE why == Cause(file[t], bar, at)
<1>5. CASE why = "none"
  <2>1. Gain(TakenFor(file[t]), bar) \in Int
    BY EarningsConstants DEF Gain
  <2>2. /\ Trailed(file[t], Gain(TakenFor(file[t]), bar)) \in Positions
        /\ Trailed(file[t], Gain(TakenFor(file[t]), bar)).side = file[t].side
        /\ Trailed(file[t], Gain(TakenFor(file[t]), bar)).notional = file[t].notional
    BY <1>4, <2>1, TrailedFacts
  <2>3. /\ file' = [file EXCEPT ![t] = Trailed(file[t], Gain(TakenFor(file[t]), bar))]
        /\ thread' = [thread EXCEPT !.todo = @ \ {t}]
    BY <1>1, <1>5
  <2>4. /\ file' \in [Symbols -> {NoPosition} \cup Positions]
        /\ \A s \in Symbols \ {t} : file'[s] = file[s]
        /\ file'[t] = Trailed(file[t], Gain(TakenFor(file[t]), bar))
    BY <2>2, <2>3 DEF EwInv, EwTypes
  <2>5. Held' = Held /\ Exposure' = Exposure /\ HeldRows' = HeldRows
    BY <1>4, <2>2, <2>4, SameNotionals DEF EwInv
  <2>6. thread' \in ManageThreads /\ thread'.at = "manage" /\ thread'.todo = thread.todo \ {t}
    BY <1>3, <2>3 DEF ManageThreads
  <2>7. EwTypes'
    BY <1>2, <2>4, <2>6 DEF EwInv, EwTypes, Threads
  <2>8. EntryInv' /\ ExitInv' /\ RowsInv'
    BY <1>2, <2>5, <2>6 DEF EwInv, EntryInv, ExitInv, RowsInv
  <2>9. OnceInv'
    BY <1>2, <2>6, SameOnce DEF EwInv
  <2> QED BY <2>7, <2>8, <2>9 DEF EwInv
<1>6. CASE why # "none"
  <2>1. /\ thread' = [at |-> "ordered", cycle |-> thread.cycle, todo |-> thread.todo \ {t},
                      ticker |-> t]
        /\ UNCHANGED file
    BY <1>1, <1>6
  <2>2. Held' = Held /\ Exposure' = Exposure /\ HeldRows' = HeldRows
    BY <2>1, SameFile
  <2>4. thread' \in OrderedThreads
    BY <1>3, <2>1 DEF OrderedThreads, ManageThreads
  <2>5. EwTypes'
    BY <1>2, <2>1, <2>4 DEF EwInv, EwTypes, Threads
  <2>6. EntryInv' /\ ExitInv' /\ RowsInv'
    BY <1>2, <1>4, <2>1, <2>2 DEF EwInv, EntryInv, ExitInv, RowsInv
  <2>7. OnceInv'
    BY <1>2, <2>1, SameOnce DEF EwInv
  <2> QED BY <2>5, <2>6, <2>7 DEF EwInv
<1> QED BY <1>5, <1>6

LEMMA UnbookInv == EwInv /\ Unbook => EwInv'
<1> SUFFICES ASSUME EwInv, Unbook PROVE EwInv'
  OBVIOUS
<1>1. Held' = Held /\ Exposure' = Exposure /\ HeldRows' = HeldRows
  BY SameFile DEF Unbook
<1>2. thread \in OrderedThreads
  BY ThreadKinds DEF Unbook, EwInv, EwTypes
<1>3. thread' \in UnbookedThreads
  BY <1>2 DEF Unbook, UnbookedThreads, OrderedThreads
<1>4. EwTypes'
  BY <1>3 DEF Unbook, EwInv, EwTypes, Threads
<1>5. EntryInv' /\ ExitInv' /\ RowsInv'
  BY <1>1 DEF Unbook, EwInv, EntryInv, ExitInv, RowsInv
<1>6. OnceInv'
  BY SameOnce DEF Unbook, EwInv
<1> QED BY <1>4, <1>5, <1>6 DEF EwInv

\* A position that is removed takes its notional along.
LEMMA RemoveExposure == ASSUME EwInv, Remove PROVE Exposure' <= Exposure /\ Exposure' \in Int
<1> DEFINE t == thread.ticker
<1>0. thread.at = "unbooked" /\ file' = [file EXCEPT ![t] = NoPosition]
  BY DEF Remove
<1>1. thread \in UnbookedThreads
  BY <1>0, ThreadKinds DEF EwInv, EwTypes
<1>2. t \in Symbols /\ t \in Held
  BY <1>0, <1>1 DEF EwInv, ExitInv, UnbookedThreads
<1>3. /\ Held \subseteq Symbols /\ IsFiniteSet(Held)
      /\ [s \in Held |-> file[s].notional] \in [Held -> Nat] /\ Exposure \in Nat
  BY HeldFacts DEF EwInv
<1>4. file'[t] = NoPosition /\ \A s \in Symbols \ {t} : file'[s] = file[s]
  BY <1>0, <1>2 DEF EwInv, EwTypes
<1>5. Held' = Held \ {t}
  BY <1>4 DEF Held
<1>8. Exposure' <= Exposure /\ Exposure' \in Int
  <2> DEFINE f == [s \in Held |-> file[s].notional]
             g == [s \in Held \ {t} |-> file'[s].notional]
  <2>1. \A s \in Held \ {t} : file'[s].notional = file[s].notional
    BY <1>3, <1>4
  <2>2. f[t] \in Nat /\ f \in [Held -> Int] /\ g \in [Held \ {t} -> Int]
    BY <1>2, <1>3, <2>1
  <2>3. \A s \in Held \ {t} : g[s] = f[s]
    BY <2>1
  <2>4. Exposure = Total(f)
    BY DEF Exposure
  <2>5. Exposure' = Total(g)
    BY <1>5 DEF Exposure
  <2> HIDE DEF f, g, t
  <2>6. t \in Held /\ IsFiniteSet(Held)
    BY <1>2, <1>3
  <2>7. f \in [Held -> Int] /\ g \in [Held \ {t} -> Int]
    BY <2>2
  <2>8. Total(g) = Total(f) - f[t]
    BY ONLY <2>3, <2>6, <2>7, TotalRemove
  <2>9. f[t] \in Nat /\ Exposure \in Nat
    BY <1>3, <2>2
  <2>10. Exposure' = Exposure - f[t]
    BY <2>4, <2>5, <2>8
  <2> QED BY ONLY <2>9, <2>10
<1> QED BY <1>8

LEMMA RemoveInv == EwInv /\ Remove => EwInv'
<1> SUFFICES ASSUME EwInv, Remove PROVE EwInv'
  OBVIOUS
<1> DEFINE t == thread.ticker
<1>0. /\ thread.at = "unbooked" /\ file' = [file EXCEPT ![t] = NoPosition]
      /\ thread' = [at |-> "manage", cycle |-> thread.cycle, todo |-> thread.todo]
      /\ UNCHANGED <<now, evaluated, lastKey, rows, life, sent, disagreed>>
  BY DEF Remove
<1>1. thread \in UnbookedThreads
  BY <1>0, ThreadKinds DEF EwInv, EwTypes
<1>2. /\ t \in Symbols /\ t \in Held /\ t \notin thread.todo /\ thread.todo \subseteq Held
      /\ rows = HeldRows \ {<<t, file[t].side>>}
  BY <1>0, <1>1 DEF EwInv, ExitInv, RowsInv, UnbookedThreads
<1>3. Held \subseteq Symbols
  BY HeldFacts DEF EwInv
<1>4. /\ file' \in [Symbols -> {NoPosition} \cup Positions]
      /\ file'[t] = NoPosition /\ \A s \in Symbols \ {t} : file'[s] = file[s]
  BY <1>0, <1>2 DEF EwInv, EwTypes
<1>5. Held' = Held \ {t}
  BY <1>4 DEF Held
<1>6. thread' \in ManageThreads
  BY <1>0, <1>1 DEF ManageThreads, UnbookedThreads
<1>7. EwTypes'
  BY <1>0, <1>4, <1>6 DEF EwInv, EwTypes, Threads
<1>10. EntryInv' /\ ExitInv'
  BY <1>0, <1>2, <1>5 DEF EntryInv, ExitInv
<1>11. HeldRows' = HeldRows \ {<<t, file[t].side>>}
  <2>1. \A s \in Held \ {t} : file'[s].side = file[s].side
    BY <1>3, <1>4
  <2> QED BY <1>2, <1>5, <2>1 DEF HeldRows
<1>12. RowsInv'
  BY <1>0, <1>2, <1>11 DEF RowsInv
<1>13. OnceInv'
  BY <1>0, SameOnce DEF EwInv
<1> QED BY <1>7, <1>10, <1>12, <1>13 DEF EwInv

LEMMA EwCrashInv == EwInv /\ EwCrash => EwInv'
<1> SUFFICES ASSUME EwInv, EwCrash PROVE EwInv'
  OBVIOUS
<1>1. Held' = Held /\ Exposure' = Exposure /\ HeldRows' = HeldRows
  BY SameFile DEF EwCrash
<1>2. life \in Nat /\ life' = life + 1 /\ life' \in 0..MaxCrashes
  BY EarningsConstants DEF EwCrash, EwInv, EwTypes
<1>3. EwTypes'
  BY <1>2 DEF EwCrash, EwInv, EwTypes, Threads, BootThreads
<1>4. EntryInv' /\ ExitInv' /\ RowsInv'
  BY <1>1 DEF EwCrash, EwInv, EntryInv, ExitInv, RowsInv
<1>5. \A r \in sent \cup disagreed : r.life \in Nat /\ r.life <= life /\ r.strategy \in Active(r.window)
  BY DEF EwInv, EwTypes, OnceInv, Stamps
<1>6. OnceInv'
  BY <1>2, <1>5 DEF EwCrash, OnceInv, NoKey
<1> QED BY <1>3, <1>4, <1>6 DEF EwInv

LEMMA EwStepInv == EwInv /\ [EwNext]_ewVars => EwInv'
<1> SUFFICES ASSUME EwInv, [EwNext]_ewVars PROVE EwInv'
  OBVIOUS
<1>1. CASE UNCHANGED ewVars
  <2>1. Held' = Held /\ Exposure' = Exposure /\ HeldRows' = HeldRows
    BY <1>1, SameFile DEF ewVars
  <2> QED BY <1>1, <2>1 DEF ewVars, EwInv, EwTypes, EntryInv, ExitInv, RowsInv, OnceInv
<1> QED BY <1>1, ExitCycleInv, WindowCycleInv, CycleEndsInv, EvaluateInv, SubmitOrderInv, AddInv,
           BookInv, EntriesEndInv, NoBarsInv, ManageInv, UnbookInv, RemoveInv, EwCrashInv
        DEF EwNext, Work

LEMMA EwAlways == EwSpec => []EwInv
BY EwInitInv, EwStepInv, PTL DEF EwSpec

-----------------------------------------------------------------------------

\* What a step adds to the open notionals.
LEMMA OnlyAddsGrow ==
    EwInv /\ [EwNext]_ewVars =>
        (Exposure' > Exposure => thread.at = "add" /\ Exposure' <= CapOf(thread.equity))
<1> SUFFICES ASSUME EwInv, [EwNext]_ewVars, Exposure' > Exposure
             PROVE  thread.at = "add" /\ Exposure' <= CapOf(thread.equity)
  OBVIOUS
<1>1. Exposure \in Nat
  BY HeldFacts DEF EwInv
<1>2. Exposure' # Exposure
  BY <1>1
<1>3. file' # file
  BY <1>2, SameFile
<1>4. CASE Add
  <2>1. /\ thread.at = "add" /\ Exposure' = Exposure + thread.intent.notional
        /\ thread.intent.notional \in 1..(CapOf(thread.equity) - Exposure)
        /\ thread \in OrderThreads
    BY <1>4, AddFacts
  <2>2. CapOf(thread.equity) \in Int
    BY <2>1, EarningsConstants DEF OrderThreads, CapOf
  <2> QED BY <1>1, <2>1, <2>2
<1>5. CASE Remove
  <2>1. Exposure' <= Exposure /\ Exposure' \in Int
    BY <1>5, RemoveExposure
  <2> QED BY <1>1, <2>1
<1>6. CASE \E t \in Symbols : Manage(t)
  BY <1>2, <1>6, ManageExposure
<1> QED BY <1>3, <1>4, <1>5, <1>6
        DEF EwNext, Work, ewVars, ExitCycle, WindowCycle, CycleEnds, Evaluate, SubmitOrder, Book,
            EntriesEnd, NoBars, Unbook, EwCrash

\* run_window_cycle counts on with the exposure and the equity it read at its
\* start, and the thread that runs it is the only one that adds: the open
\* notionals grow only to what that equity's cap allows, whatever was lost.
THEOREM NotionalsStayUnderCap == EwSpec => ExposureCapped
BY EwAlways, OnlyAddsGrow, PTL DEF EwSpec, ExposureCapped

\* At the end of every minute the rows of the books are the positions of the
\* file: the reconciler that starts each cycle restores what a crash lost.
THEOREM BooksFollowFile == EwSpec => []RowsFollowFile
<1>1. EwInv => RowsFollowFile
  BY DEF EwInv, RowsInv, RowsFollowFile, HeldRows
<1> QED BY <1>1, EwAlways, PTL

\* mark_ticker_evaluated precedes the order, and the evaluated cache of a
\* window is forgotten only before that window's first order: one process
\* sends a strategy's order for a ticker once in a window.
THEOREM OrdersSentOnce == EwSpec => []OnceInALife
<1>1. EwInv => OnceInALife
  BY DEF EwInv, EwTypes, OnceInv, OnceInALife, Stamp
<1> QED BY <1>1, EwAlways, PTL

\* Files, books and the thread stay in their types.
THEOREM EwTypeCorrect == EwSpec => []EwTypeOK
<1>1. EwInv => EwTypeOK
  <2> SUFFICES ASSUME EwInv PROVE EwTypeOK
    OBVIOUS
  <2>1. thread.at \in Stages
    BY DEF EwInv, EwTypes, Threads, BootThreads, IdleThreads, ManageThreads, EntryThreads,
           OrderThreads, OrderedThreads, UnbookedThreads, Stages
  <2> QED BY <2>1 DEF EwInv, EwTypes, EntryInv, ExitInv, OnceInv, EwTypeOK
<1> QED BY <1>1, EwAlways, PTL
=============================================================================
