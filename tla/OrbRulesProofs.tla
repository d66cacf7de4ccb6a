--------------------------- MODULE OrbRulesProofs ---------------------------
(***************************************************************************)
(* Theorems about the two ends of an opening-range trade: the window it is *)
(* decided on (OrbWindow) and the rules it is left by (OrbExits).          *)
(***************************************************************************)
EXTENDS OrbWindow, OrbExits, FiniteSetTheorems, TLAPS

-----------------------------------------------------------------------------
(***************************************************************************)
(* Theorems about OrbWindow, for every range, every clock, every pattern   *)
(* of lost bars and any number of restarts.                                *)
(***************************************************************************)

-----------------------------------------------------------------------------
(* The operators on the window. *)

\* The count saturates inside its bound.
LEMMA UpToType == ASSUME NEW n \in Nat PROVE Enough \in Nat /\ UpTo(n) \in 0..Enough
BY WindowConstants DEF Enough, UpTo

\* A fed window is a window; a locked one is left alone, and only a bar from
\* the last minute of the range on locks one.
LEMMA FedFacts ==
    ASSUME NEW w \in Window, NEW m \in Minutes
    PROVE  /\ Fed(w, m) \in Window
           /\ w.locked => Fed(w, m) = w
           /\ Fed(w, m).locked /\ ~w.locked => m >= OrEnd - 1
<1>1. w.seen \in Nat /\ Enough \in Nat /\ w.seen \in 0..Enough
  BY UpToType DEF Window
<1>2. UpTo(w.seen + 1) \in 0..Enough
  BY <1>1, UpToType
<1>3. w.minutes \cup {m} \in SUBSET Minutes
  BY DEF Window
<1>4. m \in Int /\ OrEnd \in Int
  BY WindowConstants DEF Minutes
<1>5. CASE w.locked
  BY <1>5 DEF Fed
<1>6. CASE ~w.locked /\ m < OrEnd
  BY <1>2, <1>3, <1>4, <1>6 DEF Fed, Window
<1>7. CASE ~w.locked /\ ~(m < OrEnd)
  BY <1>1, <1>4, <1>7 DEF Fed, Window
<1> QED BY <1>5, <1>6, <1>7

\* A replayed window is a window, and a locked one is left alone.
LEMMA BackfilledFacts ==
    ASSUME NEW w \in Window, NEW bars \in SUBSET Minutes
    PROVE  Backfilled(w, bars) \in Window /\ (w.locked => Backfilled(w, bars) = w)
<1> DEFINE inside == bars \cap InWindow
<1>1. Cardinality(inside) \in Nat
  <2>1. IsFiniteSet(InWindow)
    BY WindowConstants, FS_Interval DEF InWindow
  <2>2. IsFiniteSet(inside)
    BY <2>1, FS_Subset
  <2> QED BY <2>2, FS_CardinalityType
<1>2. w.seen \in Nat
  BY UpToType DEF Window
<1>3. UpTo(w.seen + Cardinality(inside)) \in 0..Enough
  BY <1>1, <1>2, UpToType
<1>4. w.minutes \cup inside \in SUBSET Minutes
  BY DEF Window
<1>5. (\E m \in bars : m >= OrEnd - 1) \in BOOLEAN
  OBVIOUS
<1>6. CASE w.locked \/ inside = {}
  BY <1>6 DEF Backfilled
<1>7. CASE ~(w.locked \/ inside = {})
  <2>1. Backfilled(w, bars) = [minutes |-> w.minutes \cup inside,
                               seen |-> UpTo(w.seen + Cardinality(inside)),
                               locked |-> \E m \in bars : m >= OrEnd - 1]
    BY <1>7 DEF Backfilled
  <2> QED BY <1>3, <1>4, <1>5, <1>7, <2>1 DEF Window
<1> QED BY <1>6, <1>7

\* A verdict is a phase, ends the warm-up of a locked window and changes
\* nothing else.
LEMMA VerdictsFacts ==
    ASSUME NEW w \in Window, NEW p \in Phases, NEW v \in Verdicts(w, p)
    PROVE  /\ v \in Phases
           /\ w.locked /\ p = "warmup" => v # "warmup"
           /\ ~w.locked => v = p
BY DEF Verdicts, Phases

-----------------------------------------------------------------------------
(* The inductive invariant. *)

\* Bars are minutes that are over, and a cycle began in the past.
Causal == (\A m \in printed \cup got : m < now) /\ curMin <= now

\* A process that has started agrees with a snapshot that is final.
FollowsSnapshot == Started /\ disk.window.locked => window = disk.window /\ phase = disk.phase

\* The sweep of the first cycle has started the session before the feed.
FeedsStarted == stage = "feed" => ~fresh

RangeInv ==
    TypeOK /\ Causal /\ LockNotEarly /\ PhaseFollowsLock /\ FollowsSnapshot /\ FeedsStarted

\* Nothing is fed or locked at the open.
LEMMA RangeInvInit == Init => RangeInv
<1> SUFFICES ASSUME Init PROVE RangeInv
  OBVIOUS
<1>1. EmptyWindow \in Window
  BY UpToType DEF EmptyWindow, Window
<1>2. TypeOK
  BY <1>1, WindowConstants DEF Init, TypeOK, Clock, Minutes, Stages, Phases
<1>3. Causal
  BY WindowConstants DEF Init, Causal
<1> QED BY <1>2, <1>3 DEF Init, RangeInv, LockNotEarly, PhaseFollowsLock, FollowsSnapshot,
                               FeedsStarted, EmptyWindow

\* What the first sweep of a process starts from.
LEMMA SweepFacts ==
    ASSUME RangeInv, Sweep
    PROVE  /\ window' \in Window /\ phase' \in Phases
           /\ phase' = "warmup" <=> ~window'.locked
           /\ window'.locked => now >= OrEnd
           /\ disk.window.locked => window' = disk.window /\ phase' = disk.phase
           /\ disk' = [window |-> window', phase |-> phase']
<1> USE DEF RangeInv
<1> DEFINE start == IF fresh THEN Rehydrated(disk) ELSE [window |-> window, phase |-> phase]
           hooked == IF fresh THEN Backfilled(start.window, got) ELSE start.window
           swept == Backfilled(hooked, got)
<1>1. /\ window' = IF curMin < OrEnd THEN start.window ELSE swept
      /\ phase' \in (IF window'.locked # start.window.locked
                     THEN Verdicts(window', start.phase) ELSE {start.phase})
      /\ disk' = [window |-> window', phase |-> phase']
      /\ stage = "fetched"
  BY DEF Sweep
<1>2. start.window \in Window /\ start.phase \in Phases /\ got \in SUBSET Minutes
  BY DEF TypeOK, Rehydrated
<1>3. start.phase = "warmup" <=> ~start.window.locked
  BY <1>1 DEF PhaseFollowsLock, Started, Rehydrated
<1>4. start.window.locked => now >= OrEnd
  BY DEF LockNotEarly, Rehydrated
<1>5. disk.window.locked => start.window = disk.window /\ start.phase = disk.phase
  BY <1>1 DEF FollowsSnapshot, Started, Rehydrated
<1>6. hooked \in Window /\ (start.window.locked => hooked = start.window)
  BY <1>2, BackfilledFacts
<1>7. swept \in Window /\ (hooked.locked => swept = hooked)
  BY <1>2, <1>6, BackfilledFacts
<1>8. window' \in Window /\ (start.window.locked => window' = start.window)
  BY <1>1, <1>2, <1>6, <1>7
<1>9. window'.locked => now >= OrEnd
  <2>1. now \in Int /\ curMin \in Int /\ OrEnd \in Int /\ curMin <= now
    BY WindowConstants DEF TypeOK, Clock, Causal
  <2> QED BY <1>1, <1>4, <2>1
<1>10. CASE window'.locked # start.window.locked
  <2>1. phase' \in Verdicts(window', start.phase)
    BY <1>1, <1>10
  <2>2. ~start.window.locked /\ window'.locked
    BY <1>2, <1>8, <1>10 DEF Window
  <2>3. phase' \in Phases /\ phase' # "warmup"
    BY <1>2, <1>3, <1>8, <2>1, <2>2, VerdictsFacts
  <2> QED BY <1>1, <1>5, <1>8, <1>9, <2>2, <2>3
<1>11. CASE window'.locked = start.window.locked
  <2>1. phase' = start.phase
    BY <1>1, <1>11
  <2> QED BY <1>1, <1>2, <1>3, <1>5, <1>8, <1>9, <1>11, <2>1
<1> QED BY <1>10, <1>11

\* What the feed of one bar does to window, row and snapshot.
LEMMA FeedFacts ==
    ASSUME RangeInv, NEW persists \in BOOLEAN, Feed(persists)
    PROVE  /\ window' \in Window /\ phase' \in Phases
           /\ Started => (phase' = "warmup" <=> ~window'.locked)
           /\ window'.locked => now >= OrEnd
           /\ window.locked => window' = window /\ phase' = phase
<1> USE DEF RangeInv
<1>1. CASE got = {} /\ window' = window
  BY <1>1 DEF Feed, TypeOK, PhaseFollowsLock, LockNotEarly
<1>2. ASSUME NEW m \in got, window' = Fed(window, m)
      PROVE  /\ window' \in Window /\ phase' \in Phases
             /\ Started => (phase' = "warmup" <=> ~window'.locked)
             /\ window'.locked => now >= OrEnd
             /\ window.locked => window' = window /\ phase' = phase
  <2>1. m \in Minutes /\ window \in Window /\ phase \in Phases
    BY DEF TypeOK
  <2>2. /\ window' \in Window
        /\ window.locked => window' = window
        /\ window'.locked /\ ~window.locked => m >= OrEnd - 1
    BY <1>2, <2>1, FedFacts
  <2>3. window'.locked => now >= OrEnd
    <3>1. m < now /\ m \in Int /\ now \in Int /\ OrEnd \in Int
      BY <2>1, WindowConstants DEF Causal, TypeOK, Clock, Minutes
    <3> QED BY <2>2, <3>1 DEF LockNotEarly
  <2>4. CASE window'.locked # window.locked
    <3>1. phase' \in Verdicts(window', phase)
      BY <2>4 DEF Feed
    <3>2. ~window.locked /\ window'.locked
      BY <2>1, <2>2, <2>4 DEF Window
    <3>3. phase' \in Phases /\ (phase = "warmup" => phase' # "warmup")
      BY <2>1, <2>2, <3>1, <3>2, VerdictsFacts
    <3> QED BY <2>2, <2>3, <3>2, <3>3 DEF PhaseFollowsLock
  <2>5. CASE window'.locked = window.locked
    <3>1. phase' = phase
      BY <2>5 DEF Feed
    <3> QED BY <2>1, <2>2, <2>3, <2>5, <3>1 DEF PhaseFollowsLock
  <2> QED BY <2>4, <2>5
<1> QED BY <1>1, <1>2 DEF Feed

\* Every action keeps the inductive invariant.
LEMMA RangeInvNext == RangeInv /\ [Next]_vars => RangeInv'
<1> SUFFICES ASSUME RangeInv, [Next]_vars PROVE RangeInv'
  OBVIOUS
<1> USE DEF RangeInv
<1>0. now \in Int /\ curMin \in Int /\ OrEnd \in Int
  BY WindowConstants DEF TypeOK, Clock
<1>1. ASSUME NEW traded \in BOOLEAN, Tick(traded) PROVE RangeInv'
  <2>1. now' = now + 1 /\ now' \in Clock /\ now \in Minutes
    BY <1>1, WindowConstants DEF Tick, TypeOK, Clock, Minutes
  <2>2. printed' \subseteq Minutes /\ printed' \subseteq printed \cup {now}
    BY <1>1, <2>1 DEF Tick, TypeOK
  <2>3. TypeOK'
    BY <1>1, <2>1, <2>2 DEF Tick, TypeOK
  <2>4. Causal'
    <3>1. \A m \in printed \cup got : m \in Int
      BY WindowConstants DEF TypeOK, Minutes
    <3> QED BY <1>0, <1>1, <2>1, <2>2, <3>1 DEF Tick, Causal
  <2>5. LockNotEarly'
    BY <1>0, <1>1, <2>1 DEF Tick, LockNotEarly
  <2> QED BY <1>1, <2>3, <2>4, <2>5 DEF Tick, PhaseFollowsLock, FollowsSnapshot, FeedsStarted, Started
<1>2. ASSUME Begin PROVE RangeInv'
  <2>1. TypeOK'
    BY <1>2 DEF Begin, TypeOK, Stages
  <2>2. Causal'
    BY <1>0, <1>2 DEF Begin, Causal
  <2> QED BY <1>2, <2>1, <2>2 DEF Begin, LockNotEarly, PhaseFollowsLock, FollowsSnapshot, FeedsStarted, Started
<1>3. ASSUME NEW bars \in Fetches, Fetch(bars) PROVE RangeInv'
  <2>1. bars \subseteq printed
    BY DEF Fetches
  <2>2. TypeOK'
    BY <1>3, <2>1 DEF Fetch, TypeOK, Stages
  <2>3. Causal'
    BY <1>3, <2>1 DEF Fetch, Causal
  <2> QED BY <1>3, <2>2, <2>3 DEF Fetch, LockNotEarly, PhaseFollowsLock, FollowsSnapshot, FeedsStarted, Started
<1>4. ASSUME Sweep PROVE RangeInv'
  <2>1. /\ window' \in Window /\ phase' \in Phases
        /\ phase' = "warmup" <=> ~window'.locked
        /\ window'.locked => now >= OrEnd
        /\ disk' = [window |-> window', phase |-> phase']
    BY <1>4, SweepFacts
  <2>2. /\ disk'.window = window' /\ disk'.phase = phase'
        /\ disk' \in [window : Window, phase : Phases]
    BY <2>1
  <2>3. TypeOK'
    <3>1. stage' \in Stages /\ fresh' \in BOOLEAN
      BY <1>4 DEF Sweep, Stages
    <3>2. UNCHANGED <<now, printed, curMin, got, restarts>>
      BY <1>4 DEF Sweep
    <3> QED BY <2>1, <2>2, <3>1, <3>2 DEF TypeOK
  <2>4. Causal'
    BY <1>4 DEF Sweep, Causal
  <2>5. LockNotEarly'
    BY <1>4, <2>1, <2>2 DEF Sweep, LockNotEarly
  <2>6. FeedsStarted'
    BY <1>4 DEF Sweep, FeedsStarted
  <2> QED BY <2>1, <2>2, <2>3, <2>4, <2>5, <2>6 DEF PhaseFollowsLock, FollowsSnapshot
<1>5. ASSUME NEW persists \in BOOLEAN, Feed(persists) PROVE RangeInv'
  <2>1. /\ window' \in Window /\ phase' \in Phases
        /\ Started => (phase' = "warmup" <=> ~window'.locked)
        /\ window'.locked => now >= OrEnd
        /\ window.locked => window' = window /\ phase' = phase
    BY <1>5, FeedFacts
  <2>2. stage = "feed" /\ stage' = "idle" /\ fresh' = fresh /\ now' = now
    BY <1>5 DEF Feed
  <2>3. \/ disk' = disk
        \/ disk'.window = window' /\ disk'.phase = phase'
           /\ disk' \in [window : Window, phase : Phases]
    BY <1>5, <2>1 DEF Feed
  <2>4. TypeOK'
    BY <1>5, <2>1, <2>3 DEF Feed, TypeOK, Stages
  <2>5. Causal'
    BY <1>5 DEF Feed, Causal
  <2>6. LockNotEarly'
    BY <2>1, <2>2, <2>3 DEF LockNotEarly
  <2>7. FollowsSnapshot'
    BY <2>1, <2>2, <2>3 DEF FollowsSnapshot, FeedsStarted, Started
  <2>8. PhaseFollowsLock'
    BY <2>1, <2>2, <2>3 DEF PhaseFollowsLock, FeedsStarted, Started
  <2> QED BY <2>2, <2>4, <2>5, <2>6, <2>7, <2>8 DEF FeedsStarted
<1>6. ASSUME Crash PROVE RangeInv'
  <2>1. TypeOK'
    BY <1>6, WindowConstants DEF Crash, TypeOK, Stages
  <2> QED BY <1>6, <2>1 DEF Crash, Causal, LockNotEarly, PhaseFollowsLock, FollowsSnapshot, FeedsStarted, Started
<1>7. ASSUME Restart PROVE RangeInv'
  <2>1. TypeOK'
    BY <1>7 DEF Restart, TypeOK, Stages
  <2> QED BY <1>7, <2>1 DEF Restart, Causal, LockNotEarly, PhaseFollowsLock, FollowsSnapshot, FeedsStarted, Started
<1>8. CASE UNCHANGED vars
  BY <1>8 DEF vars, TypeOK, Causal, LockNotEarly, PhaseFollowsLock, FollowsSnapshot, FeedsStarted, Started
<1> QED BY <1>1, <1>2, <1>3, <1>4, <1>5, <1>6, <1>7, <1>8 DEF Next

\* The inductive invariant holds in every state.
LEMMA RangeInvAlways == Spec => []RangeInv
BY RangeInvInit, RangeInvNext, PTL DEF Spec

-----------------------------------------------------------------------------

\* Every variable has its type in every state.
THEOREM TypeCorrect == Spec => []TypeOK
<1>1. RangeInv => TypeOK
  BY DEF RangeInv
<1> QED BY <1>1, RangeInvAlways, PTL

\* No range is frozen before the opening range is over.
THEOREM NeverFrozenEarly == Spec => []LockNotEarly
<1>1. RangeInv => LockNotEarly
  BY DEF RangeInv
<1> QED BY <1>1, RangeInvAlways, PTL

\* A row leaves the warm-up exactly with the lock of its window, in memory
\* and in the snapshot.
THEOREM RowDecidedWithRange == Spec => []PhaseFollowsLock
<1>1. RangeInv => PhaseFollowsLock
  BY DEF RangeInv
<1> QED BY <1>1, RangeInvAlways, PTL

\* A range the snapshot has as locked is never redrawn, over any number of
\* crashes, restarts and backfills.
THEOREM RangeStaysFinal == Spec => RangeIsFinal
<1> DEFINE Final == disk.window.locked =>
                      /\ disk' = disk
                      /\ Started' => window' = disk.window /\ phase' = disk.phase
<1>1. RangeInv /\ RangeInv' /\ [Next]_vars => [Final]_vars
  <2> SUFFICES ASSUME RangeInv, RangeInv', [Next]_vars, disk.window.locked PROVE [Final]_vars
    BY DEF RangeInv
  <2>1. disk' = disk
    <3>1. CASE Sweep
      <4>1. window' = disk.window /\ phase' = disk.phase /\ disk' = [window |-> window', phase |-> phase']
        BY <3>1, SweepFacts
      <4> QED BY <4>1 DEF RangeInv, TypeOK
    <3>2. ASSUME NEW persists \in BOOLEAN, Feed(persists) PROVE disk' = disk
      <4>1. window = disk.window /\ phase = disk.phase
        BY <3>2 DEF Feed, RangeInv, FollowsSnapshot, FeedsStarted, Started
      <4>2. window' = window /\ phase' = phase
        BY <3>2, <4>1, FeedFacts
      <4>3. disk = [window |-> disk.window, phase |-> disk.phase]
        BY DEF RangeInv, TypeOK
      <4> QED BY <3>2, <4>1, <4>2, <4>3 DEF Feed
    <3>3. CASE Begin \/ Crash \/ Restart \/ (\E traded \in BOOLEAN : Tick(traded))
               \/ (\E bars \in Fetches : Fetch(bars)) \/ UNCHANGED vars
      BY <3>3 DEF Begin, Crash, Restart, Tick, Fetch, vars
    <3> QED BY <3>1, <3>2, <3>3 DEF Next
  <2> QED BY <2>1 DEF RangeInv, FollowsSnapshot
<1> QED BY <1>1, RangeInvAlways, PTL DEF Spec, RangeIsFinal

\* A replay that locks an open window leaves no minute of the range out.
LEMMA BackfillHeals ==
    ASSUME NEW w, NEW bars, ~w.locked, Backfilled(w, bars).locked
    PROVE  bars \cap InWindow \subseteq Backfilled(w, bars).minutes
<1>1. bars \cap InWindow # {}
  BY DEF Backfilled
<1> QED BY <1>1 DEF Backfilled

\* A range the sweep locks holds every minute of it the cycle's fetch had.
THEOREM SweepLeavesNoGap == Spec => SweepHealsGaps
<1> DEFINE Healed == Sweep /\ window'.locked /\ ~(IF fresh THEN disk.window.locked ELSE window.locked)
                       => got \cap InWindow \subseteq window'.minutes
<1>1. RangeInv /\ [Next]_vars => [Healed]_vars
  <2> SUFFICES ASSUME Sweep, window'.locked,
                      ~(IF fresh THEN disk.window.locked ELSE window.locked)
               PROVE  got \cap InWindow \subseteq window'.minutes
    OBVIOUS
  <2> DEFINE start == IF fresh THEN Rehydrated(disk) ELSE [window |-> window, phase |-> phase]
             hooked == IF fresh THEN Backfilled(start.window, got) ELSE start.window
             swept == Backfilled(hooked, got)
  <2>1. ~start.window.locked
    BY DEF Rehydrated
  <2>2. window' = swept
    BY <2>1 DEF Sweep
  <2>3. CASE hooked.locked
    <3>1. hooked = Backfilled(start.window, got)
      BY <2>1, <2>3
    <3>2. swept = hooked
      BY <2>3 DEF Backfilled
    <3> QED BY <2>1, <2>2, <2>3, <3>1, <3>2, BackfillHeals
  <2>4. CASE ~hooked.locked
    BY <2>2, <2>4, BackfillHeals
  <2> QED BY <2>3, <2>4
<1> QED BY <1>1, RangeInvAlways, PTL DEF Spec, SweepHealsGaps

-----------------------------------------------------------------------------
(***************************************************************************)
(* Types of the two evaluators, and what may book a loss once 1R has been  *)
(* seen, for every risk, target, size and clock.                           *)
(***************************************************************************)

USE DEF Highest, Lowest

Bars == [open : Int, high : Int, low : Int, close : Int]

\* The stop stands at the entry as soon as break-even is armed.
Sound(p) == p.be => p.stop = 0

\* What evaluating b in minute m may leave of a position.
Guarded(p, b, m) ==
    p.be /\ ~IsOpen(p) =>
        \/ p.exit.price >= 0
        \/ p.exit.reason = "reversal_circuit"
        \/ p.exit.reason = TimeReason(p, m) /\ p.exit.price = b.close /\ b.low > 0

Inv ==
    /\ ExitTypeOK
    /\ bar.low <= bar.close
    /\ Sound(live)

LEMMA PrintedType ==
    ASSUME NEW b \in Bars, NEW p \in Int
    PROVE  /\ Printed(b, p) \in Bars /\ Printed(b, p).low <= Printed(b, p).close
           /\ OpenBar(p) \in Bars /\ OpenBar(p).low <= OpenBar(p).close
<1>1. OpenBar(p) \in Bars /\ OpenBar(p).low <= OpenBar(p).close
  BY DEF Bars, OpenBar
<1> DEFINE hi == Highest(b.high, p)  lo == Lowest(b.low, p)
<1>2. hi \in Int /\ lo \in Int /\ lo <= p
  BY DEF Bars
<1>3. Printed(b, p) = [b EXCEPT !.high = hi, !.low = lo, !.close = p]
  BY Zenon DEF Printed
<1> HIDE DEF hi, lo
<1>4. Printed(b, p) \in Bars /\ Printed(b, p).low <= Printed(b, p).close
  BY <1>2, <1>3 DEF Bars
<1> QED BY <1>1, <1>4

\* What a cycle reads is a bar: the source's with another close, or one
\* whose prices are all the quote.
LEMMA ReadingType ==
    ASSUME NEW b \in Bars, NEW q \in Int, NEW r \in Readings(b, q)
    PROVE  r \in Bars /\ (r.low = b.low \/ r.low = r.close)
<1>1. CASE r = Quoted(b, q)
  BY <1>1 DEF Quoted, Bars
<1>2. CASE r = OpenBar(q)
  BY <1>2 DEF OpenBar, Bars
<1> QED BY <1>1, <1>2 DEF Readings

LEMMA ArmedType ==
    ASSUME NEW p \in Positions, NEW b \in Bars
    PROVE  /\ Armed(p, b) \in Positions
           /\ Sound(p) => Sound(Armed(p, b))
           /\ Armed(p, b).exit = p.exit
           /\ Armed(p, b).shares = p.shares
BY ExitConstants DEF Armed, Positions, Bars, Sound

\* Half of at least two shares leaves at least one.
LEMMA HalfLeft ==
    ASSUME NEW n \in 1..Lot, n >= 2
    PROVE  n - n \div 2 \in 1..Lot /\ n \div 2 \in Nat
BY ExitConstants

LEMMA HalvedType ==
    ASSUME NEW p \in Positions, p.shares >= 2
    PROVE  /\ Halved(p) \in Positions
           /\ Sound(p) => Sound(Halved(p))
           /\ Halved(p).exit = p.exit
<1> DEFINE h == p.shares \div 2
<1>1. p.shares \in 1..Lot /\ p.booked \in Nat
  BY DEF Positions
<1>2. p.shares - h \in 1..Lot /\ h \in Nat
  BY <1>1, HalfLeft
<1>3. R * h \in Nat
  <2>1. R \in Nat /\ h \in Nat
    BY <1>2, ExitConstants
  <2> HIDE DEF h
  <2>2. \A x, y \in Nat : x * y \in Nat
    OBVIOUS
  <2> QED BY <2>1, <2>2
<1>4. p.booked + R * h \in Nat
  <2> DEFINE r == R * h
  <2>1. r \in Nat
    BY <1>3
  <2> HIDE DEF r
  <2>2. p.booked + r \in Nat
    BY <2>1, <1>1
  <2> QED BY <2>2 DEF r
<1>5. Halved(p) = [p EXCEPT !.shares = p.shares - h, !.partial = TRUE, !.booked = p.booked + R * h]
  BY DEF Halved, Positions
<1> HIDE DEF h
<1> QED BY <1>2, <1>4, <1>5 DEF Positions, Sound

LEMMA ClosedType ==
    ASSUME NEW p \in Positions, NEW reason \in Reasons, NEW price \in Int, NEW m \in 0..LastBar
    PROVE  /\ Closed(p, reason, price, m) \in Positions
           /\ Sound(p) => Sound(Closed(p, reason, price, m))
           /\ Closed(p, reason, price, m).be = p.be
           /\ Closed(p, reason, price, m).exit.price = price
           /\ Closed(p, reason, price, m).exit.reason = reason
BY DEF Closed, Positions, Sound

\* The clock asks the same of a position that has left.
LEMMA ClosedClock ==
    ASSUME NEW p \in Positions, NEW reason, NEW price, NEW m, NEW n
    PROVE  TimeReason(Closed(p, reason, price, n), m) = TimeReason(p, m)
<1>1. Closed(p, reason, price, n).partial = p.partial /\ Closed(p, reason, price, n).mfe = p.mfe
  BY DEF Closed, Positions
<1> QED BY <1>1 DEF TimeReason, PrepDue, StaleDue

\* A position that stays open, or leaves where the clock says, is guarded.
LEMMA AtCloseSound ==
    ASSUME NEW p \in Positions, NEW b \in Bars, NEW m \in 0..LastBar,
           Sound(p), IsOpen(p), ~StopDue(p, b)
    PROVE  AtClose(p, b, m) \in Positions /\ Sound(AtClose(p, b, m)) /\ Guarded(AtClose(p, b, m), b, m)
<1>1. b.close \in Int /\ (p.be => b.low > 0)
  BY DEF Bars, StopDue, Sound, Positions
<1>2. TimeReason(p, m) \in Reasons
  BY DEF TimeReason, Reasons
<1>3. CASE TimeReason(p, m) = "none"
  BY <1>3 DEF AtClose, Guarded
<1>4. CASE TimeReason(p, m) # "none"
  <2>1. AtClose(p, b, m) = Closed(p, TimeReason(p, m), b.close, m)
    BY <1>4 DEF AtClose
  <2> QED BY <1>1, <1>2, <2>1, ClosedType, ClosedClock DEF Guarded
<1> QED BY <1>3, <1>4

LEMMA EvaluatedSound ==
    ASSUME NEW p \in Positions, NEW b \in Bars, NEW m \in 0..LastBar, Sound(p), IsOpen(p)
    PROVE  /\ Evaluated(p, b, m) \in Positions /\ Sound(Evaluated(p, b, m))
           /\ Guarded(Evaluated(p, b, m), b, m)
<1> DEFINE q == Armed(p, b)
<1>1. q \in Positions /\ Sound(q) /\ IsOpen(q)
  BY ArmedType DEF IsOpen
<1>2. Evaluated(p, b, m) = Decided(q, b, m)
  BY DEF Evaluated
<1>3. b.close \in Int /\ q.stop \in Int
  BY <1>1, ExitConstants DEF Bars, Positions
<1> HIDE DEF q
<1>4. CASE ReversalDue(q, b.close)
  BY <1>1, <1>2, <1>3, <1>4, ClosedType DEF Decided, Guarded, Reasons
<1>5. CASE ~ReversalDue(q, b.close) /\ PartialDue(q, b)
  <2>1. Decided(q, b, m) = Halved(q) /\ q.shares >= 2
    BY <1>5 DEF Decided, PartialDue
  <2> QED BY <1>1, <1>2, <2>1, HalvedType DEF Guarded, IsOpen
<1>6. CASE ~ReversalDue(q, b.close) /\ ~PartialDue(q, b) /\ StopDue(q, b)
  <2>1. Decided(q, b, m) = Closed(q, StopReason(q), q.stop, m)
    BY <1>6 DEF Decided
  <2>2. StopReason(q) \in Reasons
    BY DEF StopReason, Reasons
  <2> QED BY <1>1, <1>2, <1>3, <2>1, <2>2, ClosedType DEF Guarded, Sound
<1>7. CASE ~ReversalDue(q, b.close) /\ ~PartialDue(q, b) /\ ~StopDue(q, b) /\ TargetDue(b)
  <2>1. Decided(q, b, m) = Closed(q, "target", Target, m)
    BY <1>7 DEF Decided
  <2> QED BY <1>1, <1>2, <2>1, ClosedType, ExitConstants DEF Guarded, Reasons
<1>8. CASE ~ReversalDue(q, b.close) /\ ~PartialDue(q, b) /\ ~StopDue(q, b) /\ ~TargetDue(b)
  <2>1. Decided(q, b, m) = AtClose(q, b, m)
    BY <1>8 DEF Decided
  <2> QED BY <1>1, <1>2, <1>8, <2>1, AtCloseSound
<1> QED BY <1>4, <1>5, <1>6, <1>7, <1>8

LEMMA AtCloseType ==
    ASSUME NEW p \in Positions, NEW b \in Bars, NEW m \in 0..LastBar
    PROVE  AtClose(p, b, m) \in Positions
<1>1. TimeReason(p, m) \in Reasons /\ b.close \in Int
  BY DEF TimeReason, Reasons, Bars
<1> QED BY <1>1, ClosedType DEF AtClose

LEMMA ReplayedType ==
    ASSUME NEW p \in Positions, NEW b \in Bars, NEW m \in 0..LastBar
    PROVE  Replayed(p, b, m) \in Positions
<1> DEFINE q == Advanced(p, b)
<1>1. q \in Positions
  <2>1. CASE PartialDue(p, b)
    BY <2>1, ArmedType, HalvedType DEF Advanced, PartialDue
  <2>2. CASE ~PartialDue(p, b)
    BY <2>2, ArmedType DEF Advanced
  <2> QED BY <2>1, <2>2
<1>2. StopFill(p, b) \in Int /\ TargetFill(b) \in Int /\ b.close \in Int
  BY ExitConstants DEF StopFill, TargetFill, Bars, Positions
<1>3. StopReason(p) \in Reasons
  BY DEF StopReason, Reasons
<1>4. \/ Replayed(p, b, m) = Closed(p, StopReason(p), StopFill(p, b), m)
      \/ Replayed(p, b, m) = Closed(q, "target", TargetFill(b), m)
      \/ Replayed(p, b, m) = Closed(q, "reversal_circuit", b.close, m)
      \/ Replayed(p, b, m) = AtClose(q, b, m)
  BY DEF Replayed
<1>5. "target" \in Reasons /\ "reversal_circuit" \in Reasons
  BY DEF Reasons
<1> HIDE DEF q
<1>6. /\ Closed(p, StopReason(p), StopFill(p, b), m) \in Positions
      /\ Closed(q, "target", TargetFill(b), m) \in Positions
      /\ Closed(q, "reversal_circuit", b.close, m) \in Positions
      /\ AtClose(q, b, m) \in Positions
  BY <1>1, <1>2, <1>3, <1>5, ClosedType, AtCloseType
<1> QED BY <1>4, <1>6

LEMMA InitInv == ExitInit => Inv
<1> SUFFICES ASSUME ExitInit PROVE Inv
  OBVIOUS
<1>1. NotYet \in [reason : Reasons, price : Int, minute : 0..LastBar]
  BY ExitConstants DEF NotYet, Reasons
<1>2. Fresh \in Positions
  BY <1>1, ExitConstants DEF Fresh, Positions
<1>3. Sound(Fresh)
  BY DEF Fresh, Sound
<1>4. minute \in 0..LastBar
  BY ExitConstants DEF ExitInit
<1>5. bar \in Bars /\ bar.low <= bar.close
  BY PrintedType, ExitConstants DEF ExitInit, OpenBar, Bars
<1>7. seen \in BOOLEAN /\ plain \in BOOLEAN
  BY DEF ExitInit
<1>6. live = Fresh /\ back = Fresh
  BY DEF ExitInit
<1> QED BY <1>2, <1>3, <1>4, <1>5, <1>6, <1>7 DEF Inv, ExitTypeOK, Bars

LEMMA NextInv == Inv /\ [ExitNext]_exitVars => Inv'
<1> SUFFICES ASSUME Inv, [ExitNext]_exitVars PROVE Inv'
  OBVIOUS
<1>0. bar \in Bars /\ minute \in 0..LastBar /\ live \in Positions /\ back \in Positions
  BY DEF Inv, ExitTypeOK, Bars
<1>1. ASSUME NEW p \in Prices, NEW r \in Readings(bar, p), Cycle(r) PROVE Inv'
  <2>1. r \in Bars
    BY <1>0, <1>1, ReadingType, ExitConstants
  <2>2. live' \in Positions /\ Sound(live')
    BY <1>0, <1>1, <2>1, EvaluatedSound DEF Cycle, Inv
  <2>3. seen' \in BOOLEAN /\ plain' \in BOOLEAN
    BY <1>1 DEF Cycle, Inv, ExitTypeOK
  <2> QED BY <1>1, <2>2, <2>3 DEF Cycle, Inv, ExitTypeOK, Sound
<1>2. ASSUME NEW p \in Prices, Trade(p) PROVE Inv'
  <2>1. bar' \in Bars /\ bar'.low <= bar'.close
    BY <1>0, <1>2, PrintedType, ExitConstants DEF Trade
  <2> QED BY <1>2, <2>1 DEF Trade, Inv, ExitTypeOK, Bars, Sound
<1>3. ASSUME NEW p \in Prices, NextMinute(p) PROVE Inv'
  <2>1. bar' \in Bars /\ bar'.low <= bar'.close
    BY <1>0, <1>3, PrintedType, ExitConstants DEF NextMinute
  <2>2. back' \in Positions
    BY <1>0, <1>3, ReplayedType DEF NextMinute
  <2>3. minute' \in 0..LastBar
    BY <1>0, <1>3, ExitConstants DEF NextMinute
  <2>4. plain' \in BOOLEAN
    BY <1>3 DEF NextMinute
  <2> QED BY <1>3, <2>1, <2>2, <2>3, <2>4 DEF NextMinute, Inv, ExitTypeOK, Bars, Sound
<1>4. CASE UNCHANGED exitVars
  BY <1>4 DEF exitVars, Inv, ExitTypeOK, Sound
<1> QED BY <1>1, <1>2, <1>3, <1>4 DEF ExitNext

LEMMA AlwaysInv == ExitSpec => []Inv
BY InitInv, NextInv, PTL DEF ExitSpec

\* Both evaluators keep their positions well typed, whatever the market does.
THEOREM ExitTypeCorrect == ExitSpec => []ExitTypeOK
<1>1. Inv => ExitTypeOK
  BY DEF Inv
<1> QED BY <1>1, AlwaysInv, PTL

LEMMA CycleProtects ==
    ASSUME Inv, NEW p \in Prices, NEW r \in Readings(bar, p), Cycle(r), live'.be, ~IsOpen(live')
    PROVE  \/ live'.exit.price >= 0
           \/ live'.exit.reason = "reversal_circuit"
           \/ live'.exit.reason = TimeReason(live', minute) /\ bar.low > 0
<1>1. live \in Positions /\ minute \in 0..LastBar /\ bar \in Bars
  BY DEF Inv, ExitTypeOK, Bars
<1>2. r \in Bars /\ (r.low = bar.low \/ r.low = r.close)
  BY <1>1, ReadingType, ExitConstants
<1>3. live' = Evaluated(live, r, minute) /\ Guarded(live', r, minute)
  BY <1>1, <1>2, EvaluatedSound DEF Cycle, Inv
<1>4. r.low \in Int /\ r.close \in Int
  BY <1>2 DEF Bars
<1> QED BY <1>2, <1>3, <1>4 DEF Guarded

\* After 1R the engine books a loss only by the circuit breaker, or by the
\* clock at a quote that has left a bar above the entry, in whatever order
\* bars, quotes, cycles and minutes come.
THEOREM OneRProtects == ExitSpec => ProtectedAfterOneR
<1>1. ASSUME Inv, [ExitNext]_exitVars, IsOpen(live), ~IsOpen(live'), live'.be
      PROVE  \/ live'.exit.price >= 0
             \/ live'.exit.reason = "reversal_circuit"
             \/ live'.exit.reason = TimeReason(live', minute) /\ bar.low > 0
  <2>1. live' # live
    BY <1>1
  <2>2. PICK p \in Prices : \E r \in Readings(bar, p) : Cycle(r)
    BY <1>1, <2>1 DEF ExitNext, Trade, NextMinute, exitVars
  <2> QED BY <1>1, <2>2, CycleProtects
<1> QED BY <1>1, AlwaysInv, PTL DEF ExitSpec, ProtectedAfterOneR

-----------------------------------------------------------------------------
(***************************************************************************)
(* The engine follows the backtest.  Between two minutes both hold the     *)
(* same position; within one, while the bar touches one level at most, the *)
(* engine's is what some cycles on its beginnings made of the backtest's.  *)
(***************************************************************************)
\* The bar touches one level at most, or none.
Single(s, b, m) == \A x, y \in Touched(s, b, m) : x = y

\* Above one share, break-even and half come together.
Paired(s) == s.be /\ s.shares >= 2 => s.partial

WithMfe(s, k) == [s EXCEPT !.mfe = k]

\* Still open: as the backtest has it, or one step further once 1R is seen;
\* and when the last cycle saw all of the bar, as the backtest will have it.
Stays(p, s, b, m, sn) ==
    /\ \E k \in Int :
        /\ s.mfe <= k /\ k <= Highest(s.mfe, b.high)
        /\ \/ p = WithMfe(s, k)
           \/ "oneR" \in Touched(s, b, m) /\ p = WithMfe(Advanced(s, b), k)
    /\ sn => /\ p = Advanced(s, b) /\ ~ReversalDue(p, b.close)
             /\ Touched(s, b, m) \cap {"stop", "target", "time"} = {}

\* Left in this minute, for a rule whose level the bar touches.
Leaves(p, s, b, m) ==
    /\ p.exit.minute = m /\ p.shares = s.shares
    /\ \/ p.exit.reason = "reversal_circuit" /\ "circuit" \in Touched(s, b, m)
       \/ p.exit.reason = StopReason(s) /\ "stop" \in Touched(s, b, m)
       \/ p.exit.reason = "target" /\ "target" \in Touched(s, b, m)
       \/ p.exit.reason = TimeReason(s, m) /\ "time" \in Touched(s, b, m)

Tracks(p, s, b, m, sn) == IF IsOpen(p) THEN Stays(p, s, b, m, sn) ELSE Leaves(p, s, b, m)

Agree(p, s) ==
    /\ p.exit.reason = s.exit.reason /\ p.exit.minute = s.exit.minute
    /\ p.shares = s.shares

Follows ==
    plain => IF minute = 0 THEN live = Fresh /\ back = Fresh
             ELSE IF IsOpen(back)
             THEN /\ Paired(back)
                  /\ Single(back, bar, minute) => Tracks(live, back, bar, minute, seen)
             ELSE ~IsOpen(live) /\ Agree(live, back)

LEMMA TouchedIs ==
    ASSUME NEW s, NEW b, NEW m
    PROVE  /\ "stop" \in Touched(s, b, m) <=> b.low <= Armed(s, b).stop
           /\ "oneR" \in Touched(s, b, m) <=> ~s.be /\ b.high >= R
           /\ "target" \in Touched(s, b, m) <=> b.high >= Target
           /\ "circuit" \in Touched(s, b, m) <=> ReversalDue(Armed(s, b), b.low)
           /\ "floor" \in Touched(s, b, m) <=>
                  StaleMin > 0 /\ m >= StaleMin /\ s.mfe < Floor /\ b.high >= Floor
           /\ "time" \in Touched(s, b, m) <=>
                  TimeReason(s, m) # "none" \/ TimeReason(Advanced(s, b), m) # "none"
BY DEF Touched, TargetDue

LEMMA PlainIsSingle ==
    ASSUME NEW s, NEW b, NEW m, Plain(s, b, m)
    PROVE  Single(s, b, m)
<1> DEFINE T == Touched(s, b, m)
           Six == {"stop", "oneR", "target", "circuit", "floor", "time"}
<1>1. IsFiniteSet(T)
  <2> DEFINE Two == {"stop"} \cup {"oneR"}
             Three == Two \cup {"target"}
             Four == Three \cup {"circuit"}
             Five == Four \cup {"floor"}
  <2>3. \A x : IsFiniteSet({x})
    BY FS_Singleton
  <2>4. IsFiniteSet(Two)
    BY <2>3, FS_Union
  <2>5. IsFiniteSet(Three)
    BY <2>3, <2>4, FS_Union
  <2>6. IsFiniteSet(Four)
    BY <2>3, <2>5, FS_Union
  <2>7. IsFiniteSet(Five)
    BY <2>3, <2>6, FS_Union
  <2>8. IsFiniteSet(Five \cup {"time"})
    BY <2>3, <2>7, FS_Union
  <2>9. Six = Five \cup {"time"}
    OBVIOUS
  <2>1. IsFiniteSet(Six)
    BY <2>8, <2>9
  <2>2. T \subseteq Six
    BY DEF Touched
  <2> QED BY <2>1, <2>2, FS_Subset
<1>2. Cardinality(T) <= 1
  BY DEF Plain
<1> HIDE DEF T
<1>3. ASSUME NEW x \in T, NEW y \in T PROVE x = y
  <2> DEFINE U == T \ {x}
  <2>1. IsFiniteSet(U) /\ Cardinality(U) = Cardinality(T) - 1
    BY <1>1, <1>3, FS_RemoveElement
  <2>2. Cardinality(T) \in Nat /\ Cardinality(U) \in Nat
    BY <1>1, <2>1, FS_CardinalityType
  <2>3. Cardinality(U) = 0
    BY <1>2, <2>1, <2>2
  <2>4. U = {}
    BY <2>1, <2>3, FS_EmptySet
  <2> QED BY <1>3, <2>4
<1> QED BY <1>3 DEF Single, T

\* The fields of a position after a bar.
LEMMA ArmedIs ==
    ASSUME NEW p \in Positions, NEW b \in Bars
    PROVE  /\ Armed(p, b).mfe = Highest(p.mfe, b.high)
           /\ Armed(p, b).be = (p.be \/ b.high >= R)
           /\ Armed(p, b).stop = IF ~p.be /\ b.high >= R THEN 0 ELSE p.stop
           /\ Armed(p, b).partial = p.partial /\ Armed(p, b).shares = p.shares
           /\ Armed(p, b).exit = p.exit /\ Armed(p, b).booked = p.booked
BY ExitConstants DEF Armed, Positions, Bars

LEMMA HalvedIs ==
    ASSUME NEW p \in Positions
    PROVE  /\ Halved(p).mfe = p.mfe /\ Halved(p).be = p.be /\ Halved(p).stop = p.stop
           /\ Halved(p).partial /\ Halved(p).exit = p.exit
BY DEF Halved, Positions

LEMMA ClosedIs ==
    ASSUME NEW p \in Positions, NEW r, NEW x, NEW m
    PROVE  /\ Closed(p, r, x, m).exit.reason = r /\ Closed(p, r, x, m).exit.minute = m
           /\ Closed(p, r, x, m).shares = p.shares
           /\ r # "none" => ~IsOpen(Closed(p, r, x, m))
BY DEF Closed, Positions, IsOpen, NotYet

\* What the whole bar makes of a position that stays.
LEMMA AdvancedIs ==
    ASSUME NEW s \in Positions, NEW b \in Bars
    PROVE  /\ Advanced(s, b) \in Positions
           /\ Advanced(s, b).mfe = Highest(s.mfe, b.high)
           /\ Advanced(s, b).be = Armed(s, b).be /\ Advanced(s, b).stop = Armed(s, b).stop
           /\ Advanced(s, b).exit = s.exit
           /\ PartialDue(s, b) => Advanced(s, b).partial
           /\ ~PartialDue(s, b) => Advanced(s, b) = Armed(s, b)
           /\ Advanced(s, b).booked \in Nat
<1>1. Armed(s, b) \in Positions
  BY ArmedType
<1>2. CASE PartialDue(s, b)
  <2>1. Advanced(s, b) = Halved(Armed(s, b)) /\ Armed(s, b).shares >= 2
    BY <1>2, ArmedIs DEF Advanced, PartialDue
  <2>2. Halved(Armed(s, b)) \in Positions
    BY <1>1, <2>1, HalvedType
  <2> QED BY <1>1, <1>2, <2>1, <2>2, ArmedIs, HalvedIs DEF Positions
<1>3. CASE ~PartialDue(s, b)
  <2>1. Advanced(s, b) = Armed(s, b)
    BY <1>3 DEF Advanced
  <2> QED BY <1>1, <1>3, <2>1, ArmedIs DEF Positions
<1> QED BY <1>2, <1>3

\* The clock asks the same of a position whose MFE has moved, as long as the
\* bar does not lift it over the floor and takes no half.
LEMMA ClockKeeps ==
    ASSUME NEW s \in Positions, NEW p \in Positions, NEW b \in Bars, NEW m \in 0..LastBar,
           p.partial = s.partial, s.mfe <= p.mfe, p.mfe <= Highest(s.mfe, b.high),
           "floor" \notin Touched(s, b, m)
    PROVE  TimeReason(p, m) = TimeReason(s, m)
<1>1. PrepDue(p, m) <=> PrepDue(s, m)
  BY DEF PrepDue
<1>2. ~(StaleMin > 0 /\ m >= StaleMin /\ s.mfe < Floor /\ b.high >= Floor)
  BY TouchedIs
<1>3. /\ s.mfe \in Int /\ p.mfe \in Int /\ b.high \in Int /\ m \in Int
      /\ StaleMin \in Int /\ Floor \in Int
  BY ExitConstants DEF Positions, Bars
<1>4. StaleMin > 0 /\ m >= StaleMin =>
          ((Floor <= 0 \/ p.mfe < Floor) <=> (Floor <= 0 \/ s.mfe < Floor))
  BY <1>2, <1>3
<1>5. StaleDue(p, m) <=> StaleDue(s, m)
  BY <1>4 DEF StaleDue
<1> QED BY <1>1, <1>5 DEF TimeReason

\* A bar that goes on touches what it touched.
LEMMA TouchedGrows ==
    ASSUME NEW s \in Positions, NEW b \in Bars, NEW c \in Bars, NEW m \in 0..LastBar,
           c.low <= b.low, b.high <= c.high
    PROVE  Touched(s, b, m) \subseteq Touched(s, c, m)
<1>0. /\ b.low \in Int /\ b.high \in Int /\ c.low \in Int /\ c.high \in Int
      /\ s.mfe \in Int /\ s.stop \in {-R, 0} /\ R \in Nat /\ Target \in Nat
      /\ CircuitMfe \in Nat /\ CircuitGiveback \in Nat /\ Floor \in Nat
  BY ExitConstants DEF Bars, Positions
<1>1. "stop" \in Touched(s, b, m) => "stop" \in Touched(s, c, m)
  <2>1. Armed(s, b).stop <= Armed(s, c).stop /\ Armed(s, b).stop \in Int /\ Armed(s, c).stop \in Int
    BY <1>0, ArmedIs
  <2> QED BY <1>0, <2>1, TouchedIs
<1>2. "oneR" \in Touched(s, b, m) => "oneR" \in Touched(s, c, m)
  BY <1>0, TouchedIs
<1>3. "target" \in Touched(s, b, m) => "target" \in Touched(s, c, m)
  BY <1>0, TouchedIs
<1>4. "circuit" \in Touched(s, b, m) => "circuit" \in Touched(s, c, m)
  <2>1. Armed(s, b).mfe <= Armed(s, c).mfe /\ Armed(s, b).mfe \in Int /\ Armed(s, c).mfe \in Int
    BY <1>0, ArmedIs
  <2> QED BY <1>0, <2>1, TouchedIs DEF ReversalDue
<1>5. "floor" \in Touched(s, b, m) => "floor" \in Touched(s, c, m)
  BY <1>0, TouchedIs
<1>6. "time" \in Touched(s, b, m) => "time" \in Touched(s, c, m)
  <2> SUFFICES ASSUME TimeReason(s, m) = "none", TimeReason(Advanced(s, b), m) # "none"
               PROVE  TimeReason(Advanced(s, c), m) # "none"
    BY TouchedIs
  <2>1. ~PrepDue(s, m) /\ ~StaleDue(s, m) /\ ~(m >= EodMin)
    BY DEF TimeReason
  <2>2. PrepDue(Advanced(s, b), m) \/ StaleDue(Advanced(s, b), m)
    BY <2>1 DEF TimeReason
  <2>3. CASE PartialDue(s, b)
    <3>1. PartialDue(s, c) /\ Advanced(s, b).partial
      BY <1>0, <2>3, AdvancedIs DEF PartialDue
    <3>2. Advanced(s, c).partial
      BY <3>1, AdvancedIs
    <3>3. PrepDue(Advanced(s, c), m)
      BY <2>2, <3>1, <3>2 DEF PrepDue, StaleDue
    <3> QED BY <3>3 DEF TimeReason
  <2>4. CASE ~PartialDue(s, b)
    <3>1. Advanced(s, b).partial = s.partial /\ s.mfe <= Advanced(s, b).mfe /\ Advanced(s, b).mfe \in Int
      BY <1>0, <2>4, AdvancedIs, ArmedIs
    <3>2. ~PrepDue(Advanced(s, b), m)
      BY <2>1, <3>1 DEF PrepDue
    <3>3. ~StaleDue(Advanced(s, b), m)
      BY <1>0, <2>1, <3>1 DEF StaleDue
    <3> QED BY <2>2, <3>2, <3>3
  <2> QED BY <2>3, <2>4
<1>7. Touched(s, b, m) \subseteq {"stop", "oneR", "target", "circuit", "floor", "time"}
  BY DEF Touched
<1> QED BY <1>1, <1>2, <1>3, <1>4, <1>5, <1>6, <1>7

\* A cycle arms the same position, whatever the cycles before it saw.
LEMMA ArmedAgain ==
    ASSUME NEW s \in Positions, NEW b \in Bars, NEW k \in Int, s.mfe <= k, k <= Highest(s.mfe, b.high)
    PROVE  Armed(WithMfe(s, k), b) = Armed(s, b)
<1>1. s.mfe \in Int /\ b.high \in Int
  BY DEF Positions, Bars
<1>2. Highest(k, b.high) = Highest(s.mfe, b.high)
  BY <1>1
<1>3. WithMfe(s, k).mfe = k /\ WithMfe(s, k).be = s.be /\ WithMfe(s, k).stop = s.stop
  BY DEF WithMfe, Positions
<1> HIDE DEF Highest
<1> DEFINE v == Highest(s.mfe, b.high)
           be == s.be \/ b.high >= R
           st == IF ~s.be /\ b.high >= R THEN 0 ELSE s.stop
<1>4. Armed(s, b) = [s EXCEPT !.mfe = v, !.be = be, !.stop = st]
  BY DEF Armed, Positions
<1>5. Armed(WithMfe(s, k), b) = [WithMfe(s, k) EXCEPT !.mfe = v, !.be = be, !.stop = st]
  BY <1>2, <1>3 DEF Armed, Positions, WithMfe
<1> HIDE DEF v, be, st
<1>6. [WithMfe(s, k) EXCEPT !.mfe = v, !.be = be, !.stop = st] = [s EXCEPT !.mfe = v, !.be = be, !.stop = st]
  BY DEF WithMfe, Positions
<1> QED BY <1>4, <1>5, <1>6

LEMMA ArmedAfterOneR ==
    ASSUME NEW s \in Positions, NEW b \in Bars, NEW k \in Int, s.mfe <= k, k <= Highest(s.mfe, b.high),
           ~s.be, b.high >= R
    PROVE  Armed(WithMfe(Advanced(s, b), k), b) = Advanced(s, b)
<1> DEFINE a == Advanced(s, b)
<1>1. a \in Positions /\ a.mfe = Highest(s.mfe, b.high) /\ a.be = TRUE
  BY AdvancedIs, ArmedIs DEF Positions
<1>2. s.mfe \in Int /\ b.high \in Int
  BY DEF Positions, Bars
<1>3. Highest(k, b.high) = a.mfe
  BY <1>1, <1>2
<1> HIDE DEF a
<1>4. WithMfe(a, k).mfe = k /\ WithMfe(a, k).be = TRUE /\ WithMfe(a, k).stop = a.stop
  BY <1>1 DEF WithMfe, Positions
<1> HIDE DEF Highest
<1>5. Armed(WithMfe(a, k), b) = [WithMfe(a, k) EXCEPT !.mfe = a.mfe, !.be = TRUE, !.stop = a.stop]
  BY <1>3, <1>4 DEF Armed
<1>6. [WithMfe(a, k) EXCEPT !.mfe = a.mfe, !.be = TRUE, !.stop = a.stop] = a
  BY <1>1 DEF WithMfe, Positions
<1> QED BY <1>5, <1>6 DEF a

\* A position that leaves is no longer open.
LEMMA LeavingIs ==
    ASSUME NEW p \in Positions, NEW r \in Reasons \ {"none"}, NEW x \in Int, NEW m \in 0..LastBar
    PROVE  /\ ~IsOpen(Closed(p, r, x, m))
           /\ Closed(p, r, x, m).exit.reason = r /\ Closed(p, r, x, m).exit.minute = m
           /\ Closed(p, r, x, m).shares = p.shares
BY ClosedIs

LEMMA LeavingTracks ==
    ASSUME NEW q \in Positions, NEW s, NEW b, NEW r \in Reasons \ {"none"}, NEW x \in Int,
           NEW m \in 0..LastBar, q.shares = s.shares,
           \/ r = "reversal_circuit" /\ "circuit" \in Touched(s, b, m)
           \/ r = StopReason(s) /\ "stop" \in Touched(s, b, m)
           \/ r = "target" /\ "target" \in Touched(s, b, m)
           \/ r = TimeReason(s, m) /\ "time" \in Touched(s, b, m)
    PROVE  Tracks(Closed(q, r, x, m), s, b, m, TRUE)
<1> DEFINE c == Closed(q, r, x, m)
<1>1. ~IsOpen(c) /\ c.exit.reason = r /\ c.exit.minute = m /\ c.shares = s.shares
  BY LeavingIs
<1> HIDE DEF c
<1>2. Leaves(c, s, b, m)
  BY <1>1 DEF Leaves
<1> QED BY <1>1, <1>2 DEF Tracks, c

\* One more cycle on a bar that touches one level at most.
LEMMA CycleTracks ==
    ASSUME NEW p \in Positions, NEW s \in Positions, NEW b \in Bars, b.low <= b.close,
           NEW m \in 0..LastBar, NEW sn,
           IsOpen(p), Paired(s), Single(s, b, m), Stays(p, s, b, m, sn)
    PROVE  Tracks(Evaluated(p, b, m), s, b, m, TRUE)
<1> DEFINE a == Advanced(s, b)
           T == Touched(s, b, m)
<1>1. PICK k \in Int :
        /\ s.mfe <= k /\ k <= Highest(s.mfe, b.high)
        /\ \/ p = WithMfe(s, k)
           \/ "oneR" \in T /\ p = WithMfe(a, k)
  BY DEF Stays
<1>2. \A x, y \in T : x = y
  BY DEF Single
<1>3. /\ b.low \in Int /\ b.close \in Int /\ b.high \in Int /\ s.mfe \in Int
      /\ a.mfe = Highest(s.mfe, b.high) /\ a.mfe \in Int /\ a \in Positions
  BY AdvancedIs DEF Bars, Positions
<1>4. ReversalDue(a, b.close) => "circuit" \in T
  <2>1. a.mfe = Armed(s, b).mfe
    BY AdvancedIs, ArmedIs
  <2> QED BY <1>3, <2>1, TouchedIs, ExitConstants DEF ReversalDue
<1>5. StopDue(a, b) <=> "stop" \in T
  BY AdvancedIs, TouchedIs DEF StopDue
<1>6. TargetDue(b) <=> "target" \in T
  BY TouchedIs DEF TargetDue
<1>7. TimeReason(a, m) # "none" => "time" \in T
  BY TouchedIs
<1>8. a = WithMfe(a, a.mfe) /\ s.mfe <= a.mfe
  BY <1>3 DEF WithMfe, Positions
<1>9. TimeReason(s, m) \in Reasons /\ StopReason(s) \in Reasons \ {"none"}
  BY DEF TimeReason, StopReason, Reasons
\* The position stays, with 1R behind it in this bar or not at all.
<1>10. ASSUME T \cap {"stop", "target", "time"} = {}, ~ReversalDue(a, b.close), IsOpen(a)
       PROVE  Tracks(a, s, b, m, TRUE)
  <2>1. CASE "oneR" \in T
    BY <1>3, <1>8, <1>10, <2>1 DEF Tracks, Stays
  <2>2. CASE "oneR" \notin T
    <3>1. a = Armed(s, b)
      <4>1. ~PartialDue(s, b)
        BY <2>2, TouchedIs DEF PartialDue, Paired
      <4> QED BY <4>1, AdvancedIs
    <3>2. s.be \/ ~(b.high >= R)
      BY <2>2, TouchedIs
    <3>3. a = WithMfe(s, a.mfe)
      <4>1. a = [s EXCEPT !.mfe = a.mfe, !.be = s.be, !.stop = s.stop]
        BY <3>1, <3>2, <1>3 DEF Armed, Positions
      <4> HIDE DEF a
      <4> QED BY <4>1 DEF WithMfe, Positions
    <3> QED BY <1>3, <1>8, <1>10, <3>3 DEF Tracks, Stays
  <2> QED BY <2>1, <2>2
<1> HIDE DEF T
<1>11. CASE "oneR" \in T /\ p = WithMfe(a, k)
  <2>1. T \cap {"stop", "target", "time"} = {} /\ "circuit" \notin T
    BY <1>2, <1>11
  <2>2. ~s.be /\ b.high >= R
    BY <1>11, TouchedIs DEF T
  <2>3. Evaluated(p, b, m) = Decided(a, b, m)
    BY <1>1, <1>11, <2>2, ArmedAfterOneR DEF Evaluated
  <2>4. ~ReversalDue(a, b.close) /\ ~StopDue(a, b) /\ ~TargetDue(b) /\ TimeReason(a, m) = "none"
    BY <1>4, <1>5, <1>6, <1>7, <2>1
  <2>5. ~PartialDue(a, b)
    <3>1. CASE PartialDue(s, b)
      BY <3>1, AdvancedIs DEF PartialDue
    <3>2. CASE ~PartialDue(s, b)
      <4>1. a.partial = s.partial /\ a.shares = s.shares
        BY <3>2, AdvancedIs, ArmedIs
      <4> QED BY <3>2, <4>1 DEF PartialDue
    <3> QED BY <3>1, <3>2
  <2>6. IsOpen(a)
    BY <1>11, <1>3 DEF IsOpen, WithMfe, Positions
  <2>7. Decided(a, b, m) = a
    BY <2>4, <2>5 DEF Decided, AtClose
  <2> QED BY <1>10, <2>1, <2>3, <2>4, <2>6, <2>7
<1>12. CASE p = WithMfe(s, k)
  <2> DEFINE q == Armed(s, b)
  <2>1. Evaluated(p, b, m) = Decided(q, b, m)
    BY <1>1, <1>12, ArmedAgain DEF Evaluated
  <2>2. /\ q \in Positions /\ IsOpen(q) /\ q.shares = s.shares /\ q.partial = s.partial
        /\ q.mfe = a.mfe /\ q.stop = a.stop /\ IsOpen(a)
    BY <1>12, ArmedType, ArmedIs, AdvancedIs DEF IsOpen, WithMfe, Positions
  <2>3. PartialDue(q, b) <=> PartialDue(s, b)
    BY <2>2 DEF PartialDue
  <2>4. ReversalDue(q, b.close) <=> ReversalDue(a, b.close)
    BY <2>2 DEF ReversalDue
  <2>5. StopDue(q, b) <=> "stop" \in T
    BY <2>2, <1>5 DEF StopDue
  <2>6. ~PartialDue(s, b) => a = q
    BY AdvancedIs
  <2>7. PartialDue(s, b) => "oneR" \in T /\ a = Halved(q)
    BY TouchedIs DEF PartialDue, Paired, Advanced, T
  <2>8. "oneR" \notin T => q.be = s.be
    BY ArmedIs, TouchedIs DEF T, Positions
  <2>9. q.stop \in Int
    BY <2>2, ExitConstants DEF Positions
  <2> HIDE DEF q, a
  <2>10. CASE ReversalDue(q, b.close)
    <3>1. Decided(q, b, m) = Closed(q, "reversal_circuit", b.close, m)
      BY <2>10 DEF Decided
    <3>2. "circuit" \in T
      BY <2>4, <2>10, <1>4
    <3>3. "reversal_circuit" \in Reasons \ {"none"}
      BY DEF Reasons
    <3> QED BY <1>3, <2>1, <2>2, <3>1, <3>2, <3>3, LeavingTracks DEF T
  <2>11. CASE ~ReversalDue(q, b.close) /\ PartialDue(q, b)
    <3>1. Decided(q, b, m) = a
      BY <2>3, <2>7, <2>11 DEF Decided
    <3>2. T \cap {"stop", "target", "time"} = {}
      BY <1>2, <2>3, <2>7, <2>11
    <3> QED BY <1>10, <2>1, <2>2, <2>4, <2>11, <3>1, <3>2
  <2>12. CASE ~ReversalDue(q, b.close) /\ ~PartialDue(q, b) /\ StopDue(q, b)
    <3>1. Decided(q, b, m) = Closed(q, StopReason(q), q.stop, m)
      BY <2>12 DEF Decided
    <3>2. "oneR" \notin T
      BY <1>2, <2>5, <2>12
    <3>3. StopReason(q) = StopReason(s)
      BY <2>8, <3>2 DEF StopReason
    <3>4. "stop" \in T
      BY <2>5, <2>12
    <3> QED BY <1>9, <2>1, <2>2, <2>9, <3>1, <3>3, <3>4, LeavingTracks DEF T
  <2>13. CASE ~ReversalDue(q, b.close) /\ ~PartialDue(q, b) /\ ~StopDue(q, b) /\ TargetDue(b)
    <3>1. Decided(q, b, m) = Closed(q, "target", Target, m)
      BY <2>13 DEF Decided
    <3>2. "target" \in T /\ Target \in Int
      BY <1>6, <2>13, ExitConstants
    <3>3. "target" \in Reasons \ {"none"}
      BY DEF Reasons
    <3> QED BY <2>1, <2>2, <3>1, <3>2, <3>3, LeavingTracks DEF T
  <2>14. CASE ~ReversalDue(q, b.close) /\ ~PartialDue(q, b) /\ ~StopDue(q, b) /\ ~TargetDue(b)
    <3>1. Decided(q, b, m) = AtClose(q, b, m) /\ a = q
      BY <2>3, <2>6, <2>14 DEF Decided
    <3>2. "time" \in T => TimeReason(q, m) = TimeReason(s, m)
      <4>1. "time" \in T => "floor" \notin T
        BY <1>2
      <4> QED BY <1>3, <2>2, <1>8, <3>1, <4>1, ClockKeeps DEF T
    <3>3. CASE TimeReason(q, m) # "none"
      <4>1. "time" \in T
        BY <1>7, <3>1, <3>3
      <4>2. AtClose(q, b, m) = Closed(q, TimeReason(s, m), b.close, m) /\ TimeReason(s, m) # "none"
        BY <3>2, <3>3, <4>1 DEF AtClose
      <4> QED BY <1>3, <1>9, <2>1, <2>2, <3>1, <4>1, <4>2, LeavingTracks DEF T
    <3>4. CASE TimeReason(q, m) = "none"
      <4>1. "time" \notin T
        BY <3>1, <3>2, <3>4, TouchedIs DEF T, a
      <4>2. T \cap {"stop", "target", "time"} = {}
        BY <1>6, <2>5, <2>14, <4>1
      <4> QED BY <1>10, <2>1, <2>2, <2>4, <2>14, <3>1, <3>4, <4>2 DEF AtClose
    <3> QED BY <3>3, <3>4
  <2> QED BY <2>10, <2>11, <2>12, <2>13, <2>14
<1> QED BY <1>1, <1>11, <1>12

\* The price at which a position leaves makes no difference,
LEMMA PriceAside ==
    ASSUME NEW a \in Positions, NEW s, NEW b, NEW m, NEW r \in Reasons \ {"none"}, NEW x, NEW y,
           Tracks(Closed(a, r, x, m), s, b, m, TRUE)
    PROVE  Tracks(Closed(a, r, y, m), s, b, m, TRUE)
<1> DEFINE c == Closed(a, r, x, m)
           d == Closed(a, r, y, m)
<1>1. ~IsOpen(c) /\ ~IsOpen(d)
  BY ClosedIs
<1>2. c.exit.reason = d.exit.reason /\ c.exit.minute = d.exit.minute /\ c.shares = d.shares
  BY ClosedIs
<1>3. Tracks(c, s, b, m, TRUE)
  OBVIOUS
<1> HIDE DEF c, d
<1>4. Leaves(d, s, b, m)
  BY <1>1, <1>2, <1>3 DEF Tracks, Leaves
<1> QED BY <1>1, <1>4 DEF Tracks, d

\* so a cycle may read a quote for the close that stands where the close does
\* of the circuit.
LEMMA QuotedTracks ==
    ASSUME NEW p \in Positions, NEW s, NEW b \in Bars, NEW q \in Int, NEW m \in 0..LastBar,
           ReversalDue(Armed(p, b), q) <=> ReversalDue(Armed(p, b), b.close),
           Tracks(Evaluated(p, b, m), s, b, m, TRUE)
    PROVE  Tracks(Evaluated(p, Quoted(b, q), m), s, b, m, TRUE)
<1> DEFINE c == Quoted(b, q)
           a == Armed(p, b)
<1>1. c.high = b.high /\ c.low = b.low /\ c.close = q
  BY DEF Quoted, Bars
<1>2. Armed(p, c) = a
  BY <1>1 DEF Armed
<1>3. /\ PartialDue(a, c) <=> PartialDue(a, b)
      /\ StopDue(a, c) <=> StopDue(a, b)
      /\ TargetDue(c) <=> TargetDue(b)
  BY <1>1 DEF PartialDue, StopDue, TargetDue
<1>4. a \in Positions
  BY ArmedType
<1>5. Evaluated(p, c, m) = Decided(a, c, m) /\ Evaluated(p, b, m) = Decided(a, b, m)
  BY <1>2 DEF Evaluated
<1> HIDE DEF a, c
<1>6. CASE ReversalDue(a, b.close)
  <2>1. /\ Decided(a, c, m) = Closed(a, "reversal_circuit", q, m)
        /\ Decided(a, b, m) = Closed(a, "reversal_circuit", b.close, m)
    BY <1>1, <1>6 DEF Decided, a
  <2>2. "reversal_circuit" \in Reasons \ {"none"}
    BY DEF Reasons
  <2> QED BY <1>4, <1>5, <2>1, <2>2, PriceAside DEF c
<1>7. CASE ~ReversalDue(a, b.close) /\ (PartialDue(a, b) \/ StopDue(a, b) \/ TargetDue(b))
  <2>1. Decided(a, c, m) = Decided(a, b, m)
    BY <1>1, <1>3, <1>7 DEF Decided, a
  <2> QED BY <1>5, <2>1 DEF c
<1>8. CASE ~ReversalDue(a, b.close) /\ ~PartialDue(a, b) /\ ~StopDue(a, b) /\ ~TargetDue(b)
  <2>1. Decided(a, c, m) = AtClose(a, c, m) /\ Decided(a, b, m) = AtClose(a, b, m)
    BY <1>1, <1>3, <1>8 DEF Decided, a
  <2>2. CASE TimeReason(a, m) = "none"
    BY <1>5, <2>1, <2>2 DEF AtClose, c
  <2>3. CASE TimeReason(a, m) # "none"
    <3>1. TimeReason(a, m) \in Reasons \ {"none"}
      BY <2>3 DEF TimeReason, Reasons
    <3>2. /\ AtClose(a, c, m) = Closed(a, TimeReason(a, m), q, m)
          /\ AtClose(a, b, m) = Closed(a, TimeReason(a, m), b.close, m)
      BY <1>1, <2>3 DEF AtClose
    <3> QED BY <1>4, <1>5, <2>1, <3>1, <3>2, PriceAside DEF c
  <2> QED BY <2>2, <2>3
<1> QED BY <1>6, <1>7, <1>8

\* A trade leaves what the cycles have made of the position.
LEMMA TradeTracks ==
    ASSUME NEW p \in Positions, NEW s \in Positions, NEW b \in Bars, NEW c \in Bars,
           NEW m \in 0..LastBar, NEW sn,
           c.low <= b.low, b.high <= c.high,
           Tracks(p, s, b, m, sn)
    PROVE  Tracks(p, s, c, m, FALSE)
<1>0. Touched(s, b, m) \subseteq Touched(s, c, m)
  BY TouchedGrows
<1>1. CASE ~IsOpen(p)
  <2>1. Leaves(p, s, b, m)
    BY <1>1 DEF Tracks
  <2>2. Leaves(p, s, c, m)
    BY <1>0, <2>1 DEF Leaves
  <2> QED BY <1>1, <2>2 DEF Tracks
<1>2. CASE IsOpen(p)
  <2>1. PICK k \in Int :
          /\ s.mfe <= k /\ k <= Highest(s.mfe, b.high)
          /\ \/ p = WithMfe(s, k)
             \/ "oneR" \in Touched(s, b, m) /\ p = WithMfe(Advanced(s, b), k)
    BY <1>2 DEF Tracks, Stays
  <2>2. k <= Highest(s.mfe, c.high)
    <3>1. b.high \in Int /\ c.high \in Int /\ s.mfe \in Int
      BY DEF Bars, Positions
    <3> QED BY <2>1, <3>1
  <2>3. ASSUME "oneR" \in Touched(s, b, m)
        PROVE  WithMfe(Advanced(s, b), k) = WithMfe(Advanced(s, c), k)
    <3>1. b.high >= R /\ c.high >= R
      <4>1. b.high \in Int /\ c.high \in Int /\ R \in Int
        BY ExitConstants DEF Bars
      <4> QED BY <2>3, <4>1, TouchedIs
    <3> DEFINE vb == Highest(s.mfe, b.high)
               vc == Highest(s.mfe, c.high)
    <3>2. /\ Armed(s, b) = [s EXCEPT !.mfe = vb, !.be = TRUE, !.stop = IF ~s.be THEN 0 ELSE s.stop]
          /\ Armed(s, c) = [s EXCEPT !.mfe = vc, !.be = TRUE, !.stop = IF ~s.be THEN 0 ELSE s.stop]
      BY <3>1 DEF Armed, Positions
    <3> HIDE DEF vb, vc
    <3>3. WithMfe(Armed(s, b), k) = WithMfe(Armed(s, c), k)
      BY <3>2 DEF WithMfe, Positions
    <3>4. Armed(s, b).shares = s.shares /\ Armed(s, c).shares = s.shares
          /\ Armed(s, b).booked = s.booked /\ Armed(s, c).booked = s.booked
      BY ArmedIs
    <3> DEFINE h == s.shares - s.shares \div 2
               w == s.booked + R * (s.shares \div 2)
    <3>5. /\ Halved(Armed(s, b)) = [Armed(s, b) EXCEPT !.shares = h, !.partial = TRUE, !.booked = w]
          /\ Halved(Armed(s, c)) = [Armed(s, c) EXCEPT !.shares = h, !.partial = TRUE, !.booked = w]
      BY <3>4, ArmedType DEF Halved, Positions
    <3> HIDE DEF h, w
    <3>6. WithMfe(Halved(Armed(s, b)), k) = WithMfe(Halved(Armed(s, c)), k)
      BY <3>3, <3>5, ArmedType DEF WithMfe, Positions
    <3>7. PartialDue(s, b) <=> PartialDue(s, c)
      BY <3>1 DEF PartialDue
    <3> QED BY <3>3, <3>6, <3>7 DEF Advanced
  <2>4. Stays(p, s, c, m, FALSE)
    BY <1>0, <2>1, <2>2, <2>3 DEF Stays
  <2> QED BY <1>2, <2>4 DEF Tracks
<1> QED BY <1>1, <1>2

\* What the loop makes of a finished bar that touches nothing of the stop,
\* the target or the clock.
LEMMA BackStays ==
    ASSUME NEW p \in Positions, NEW s \in Positions, NEW b \in Bars, NEW m \in 0..LastBar,
           Single(s, b, m), IsOpen(p), Tracks(p, s, b, m, TRUE)
    PROVE  Replayed(s, b, m) = p /\ p = Advanced(s, b)
<1> DEFINE a == Advanced(s, b)
<1>1. p = a /\ ~ReversalDue(a, b.close) /\ Touched(s, b, m) \cap {"stop", "target", "time"} = {}
  BY DEF Tracks, Stays
<1>2. ~StopDue(s, b)
  <2>1. b.low \in Int /\ s.stop \in {-R, 0} /\ R \in Nat
    BY ExitConstants DEF Bars, Positions
  <2>2. s.stop <= Armed(s, b).stop /\ Armed(s, b).stop \in Int
    BY <2>1, ArmedIs
  <2>3. ~(b.low <= Armed(s, b).stop)
    BY <1>1, TouchedIs
  <2> QED BY <2>1, <2>2, <2>3 DEF StopDue
<1>3. ~TargetDue(b) /\ TimeReason(a, m) = "none"
  BY <1>1, TouchedIs DEF TargetDue
<1> QED BY <1>1, <1>2, <1>3 DEF Replayed, AtClose

LEMMA PairedStays ==
    ASSUME NEW s \in Positions, NEW b \in Bars, Paired(s)
    PROVE  Paired(Advanced(s, b))
<1>1. CASE PartialDue(s, b)
  BY <1>1, AdvancedIs DEF Paired
<1>2. CASE ~PartialDue(s, b)
  <2>1. Advanced(s, b) = Armed(s, b)
    BY <1>2, AdvancedIs
  <2>2. Armed(s, b).partial = s.partial /\ Armed(s, b).shares = s.shares
    BY ArmedIs
  <2>3. CASE s.be
    BY <2>1, <2>2, <2>3 DEF Paired
  <2>4. CASE ~s.be /\ b.high >= R
    BY <1>2, <2>1, <2>2, <2>4 DEF Paired, PartialDue
  <2>5. CASE ~s.be /\ ~(b.high >= R)
    <3>1. ~Armed(s, b).be
      BY <2>5, ArmedIs
    <3> QED BY <2>1, <3>1 DEF Paired
  <2> QED BY <2>3, <2>4, <2>5
<1> QED BY <1>1, <1>2

\* Where the engine has left on such a bar the loop leaves for the same rule.
LEMMA BackLeaves ==
    ASSUME NEW p \in Positions, NEW s \in Positions, NEW b \in Bars, b.low <= b.close,
           NEW m \in 0..LastBar,
           Single(s, b, m), ~Recovered(s, b), Paired(s), ~IsOpen(p), Leaves(p, s, b, m)
    PROVE  ~IsOpen(Replayed(s, b, m)) /\ Agree(p, Replayed(s, b, m))
<1> DEFINE q == Advanced(s, b)
           T == Touched(s, b, m)
<1>1. \A x, y \in T : x = y
  BY DEF Single
<1>2. ("circuit" \in T \/ "stop" \in T \/ "target" \in T \/ "time" \in T) /\ "oneR" \notin T
  BY <1>1 DEF Leaves
<1>3. ~PartialDue(s, b) /\ (s.be \/ ~(b.high >= R))
  BY <1>2, TouchedIs DEF PartialDue, Paired
<1>4. /\ q \in Positions /\ q = Armed(s, b) /\ q.stop = s.stop /\ q.shares = s.shares
      /\ q.partial = s.partial /\ q.mfe = Highest(s.mfe, b.high)
  BY <1>3, AdvancedIs, ArmedIs
<1>5. StopDue(s, b) <=> "stop" \in T
  BY <1>4, TouchedIs DEF StopDue
<1>6. TargetDue(b) <=> "target" \in T
  BY TouchedIs DEF TargetDue
<1>7. /\ "circuit" \in T => ReversalDue(q, b.close)
      /\ ReversalDue(q, b.close) => "circuit" \in T
  <2>1. b.low \in Int /\ b.close \in Int /\ q.mfe \in Int /\ CircuitGiveback \in Int
    BY <1>4, ExitConstants DEF Bars, Positions
  <2> QED BY <1>4, <2>1, TouchedIs DEF ReversalDue, Recovered
<1>8. StopReason(s) \in Reasons \ {"none"} /\ TimeReason(s, m) \in Reasons
  BY DEF StopReason, TimeReason, Reasons
<1>9. StopFill(s, b) \in Int /\ TargetFill(b) \in Int /\ b.close \in Int
  BY ExitConstants DEF StopFill, TargetFill, Bars, Positions
<1>10. ASSUME NEW r \in Reasons \ {"none"}, NEW x \in Int, NEW o \in Positions,
              Replayed(s, b, m) = Closed(o, r, x, m), o.shares = s.shares, p.exit.reason = r
       PROVE  ~IsOpen(Replayed(s, b, m)) /\ Agree(p, Replayed(s, b, m))
  BY <1>10, LeavingIs DEF Agree, Leaves
<1> HIDE DEF q
<1>11. CASE "stop" \in T
  <2>1. Replayed(s, b, m) = Closed(s, StopReason(s), StopFill(s, b), m)
    BY <1>5, <1>11 DEF Replayed
  <2>2. p.exit.reason = StopReason(s)
    BY <1>1, <1>11 DEF Leaves
  <2> QED BY <1>8, <1>9, <1>10, <2>1, <2>2
<1>12. CASE "target" \in T
  <2>1. Replayed(s, b, m) = Closed(q, "target", TargetFill(b), m)
    BY <1>1, <1>5, <1>6, <1>12 DEF Replayed, q
  <2>2. p.exit.reason = "target" /\ "target" \in Reasons \ {"none"}
    BY <1>1, <1>12 DEF Leaves, Reasons
  <2> QED BY <1>4, <1>9, <1>10, <2>1, <2>2
<1>13. CASE "circuit" \in T
  <2>1. Replayed(s, b, m) = Closed(q, "reversal_circuit", b.close, m)
    BY <1>1, <1>5, <1>6, <1>7, <1>13 DEF Replayed, q
  <2>2. p.exit.reason = "reversal_circuit" /\ "reversal_circuit" \in Reasons \ {"none"}
    BY <1>1, <1>13 DEF Leaves, Reasons
  <2> QED BY <1>4, <1>9, <1>10, <2>1, <2>2
<1>14. CASE "time" \in T
  <2>1. Replayed(s, b, m) = AtClose(q, b, m)
    BY <1>1, <1>5, <1>6, <1>7, <1>14 DEF Replayed, q
  <2>2. TimeReason(q, m) = TimeReason(s, m)
    <3>1. "floor" \notin T
      BY <1>1, <1>14
    <3>2. s.mfe <= q.mfe /\ q.mfe <= Highest(s.mfe, b.high)
      BY <1>4 DEF Positions, Bars
    <3> QED BY <1>4, <3>1, <3>2, ClockKeeps
  <2>3. TimeReason(s, m) # "none"
    BY <1>14, <2>2, TouchedIs DEF q
  <2>4. Replayed(s, b, m) = Closed(q, TimeReason(s, m), b.close, m)
    BY <2>1, <2>2, <2>3 DEF AtClose
  <2>5. p.exit.reason = TimeReason(s, m)
    BY <1>1, <1>14 DEF Leaves
  <2> QED BY <1>4, <1>8, <1>9, <1>10, <2>3, <2>4, <2>5
<1> QED BY <1>2, <1>11, <1>12, <1>13, <1>14

LEMMA CycleFollows ==
    \A p \in Prices : \A r \in Readings(bar, p) : Inv /\ Follows /\ Cycle(r) => Follows'
<1> SUFFICES ASSUME NEW p \in Prices, NEW r \in Readings(bar, p), Inv, Follows, Cycle(r), plain, Fair(r)
             PROVE  Follows'
  BY DEF Cycle, Follows
<1>0. live \in Positions /\ back \in Positions /\ bar \in Bars /\ minute \in 0..LastBar
      /\ bar.low <= bar.close
  BY DEF Inv, ExitTypeOK, Bars
<1>1. /\ live' = Evaluated(live, r, minute) /\ seen' = (seen \/ r = Quoted(bar, r.close))
      /\ minute' = minute /\ bar' = bar /\ back' = back
  BY DEF Cycle
<1>2. CASE minute = 0
  BY <1>1, <1>2 DEF Follows, Fair
<1>3. CASE minute # 0
  <2>1. IsOpen(live) /\ IsOpen(back) /\ Paired(back)
    BY <1>3 DEF Cycle, Follows
  <2>2. /\ r = Quoted(bar, r.close) /\ r.close \in Int
        /\ ReversalDue(Armed(live, bar), r.close) <=> ReversalDue(Armed(live, bar), bar.close)
    <3>1. r \in Bars
      BY <1>0, ReadingType, ExitConstants
    <3> QED BY <1>3, <3>1 DEF Fair, Bars
  <2>3. ASSUME Single(back, bar, minute)
        PROVE  Tracks(live', back, bar, minute, TRUE)
    <3>1. Stays(live, back, bar, minute, seen)
      BY <1>3, <2>1, <2>3 DEF Follows, Tracks
    <3>2. Tracks(Evaluated(live, bar, minute), back, bar, minute, TRUE)
      BY <1>0, <2>1, <2>3, <3>1, CycleTracks
    <3>3. Tracks(Evaluated(live, Quoted(bar, r.close), minute), back, bar, minute, TRUE)
      BY <1>0, <2>2, <3>2, QuotedTracks
    <3> QED BY <1>1, <2>2, <3>3
  <2>4. seen' = TRUE
    BY <1>1, <2>2
  <2>5. IsOpen(back') /\ Paired(back')
    BY <1>1, <2>1
  <2>6. Single(back', bar', minute') => Tracks(live', back', bar', minute', seen')
    BY <1>1, <2>3, <2>4
  <2> QED BY <1>1, <1>3, <2>5, <2>6 DEF Follows
<1> QED BY <1>2, <1>3

LEMMA TradeFollows == \A p \in Prices : Inv /\ Follows /\ Trade(p) => Follows'
<1> SUFFICES ASSUME NEW p \in Prices, Inv, Follows, Trade(p), plain PROVE Follows'
  BY DEF Trade, Follows
<1>0. live \in Positions /\ back \in Positions /\ bar \in Bars /\ minute \in 0..LastBar /\ p \in Int
  BY ExitConstants DEF Inv, ExitTypeOK, Bars
<1>1. /\ bar' = Printed(bar, p) /\ seen' = FALSE /\ minute' = minute
      /\ live' = live /\ back' = back
  BY DEF Trade
<1>2. bar' \in Bars
  BY <1>0, <1>1, PrintedType
<1>3. bar'.low <= bar.low /\ bar.high <= bar'.high
  BY <1>0, <1>1 DEF Printed, Bars
<1>6. CASE minute = 0
  BY <1>1, <1>6 DEF Follows
<1>4. CASE minute # 0 /\ ~IsOpen(back)
  BY <1>1, <1>4 DEF Follows
<1>5. CASE minute # 0 /\ IsOpen(back)
  <2>1. PICK c \in Bars : c = bar'
    BY <1>2
  <2>2. ASSUME Single(back, c, minute) PROVE Tracks(live, back, c, minute, FALSE)
    <3>1. Touched(back, bar, minute) \subseteq Touched(back, c, minute)
      BY <1>0, <1>3, <2>1, TouchedGrows
    <3>2. Single(back, bar, minute)
      BY <2>2, <3>1 DEF Single
    <3>3. Tracks(live, back, bar, minute, seen)
      BY <1>5, <3>2 DEF Follows
    <3> QED BY <1>0, <1>3, <2>1, <3>3, TradeTracks
  <2>3. Single(back', bar', minute') => Tracks(live', back', bar', minute', seen')
    BY <1>1, <2>1, <2>2
  <2>4. IsOpen(back') /\ Paired(back')
    BY <1>1, <1>5 DEF Follows
  <2> QED BY <1>1, <1>5, <2>3, <2>4 DEF Follows
<1> QED BY <1>4, <1>5, <1>6

LEMMA MinuteFollows == \A p \in Prices : Inv /\ Follows /\ NextMinute(p) => Follows'
<1> SUFFICES ASSUME NEW p \in Prices, Inv, Follows, NextMinute(p), plain' PROVE Follows'
  BY DEF Follows
<1>0. live \in Positions /\ back \in Positions /\ bar \in Bars /\ minute \in 0..LastBar
      /\ bar.low <= bar.close /\ p \in Int
  BY ExitConstants DEF Inv, ExitTypeOK, Bars
<1>1. /\ plain /\ bar' = OpenBar(p) /\ seen' = FALSE /\ live' = live
      /\ minute > 0 /\ IsOpen(back) => (seen \/ ~IsOpen(live)) /\ Plain(back, bar, minute)
      /\ back' = IF minute > 0 /\ IsOpen(back) THEN Replayed(back, bar, minute) ELSE back
      /\ minute' = minute + 1 /\ (minute = 0 => p = 0)
  BY DEF NextMinute
<1>4. minute' # 0 /\ (minute # 0 => minute > 0)
  BY <1>0, <1>1, ExitConstants
<1>5. CASE minute = 0
  <2>1. live' = Fresh /\ back' = Fresh /\ bar' = OpenBar(0)
    BY <1>1, <1>5 DEF Follows
  <2>2. IsOpen(Fresh) /\ Paired(Fresh)
    BY DEF Fresh, IsOpen, Paired
  <2>3. Fresh = WithMfe(Fresh, Fresh.mfe) /\ Fresh.mfe = 0 /\ OpenBar(0).high = 0
    BY DEF Fresh, WithMfe, OpenBar
  <2>4. Stays(live', back', bar', minute', seen')
    BY <1>1, <2>1, <2>3 DEF Stays
  <2> QED BY <1>4, <2>1, <2>2, <2>4 DEF Follows, Tracks
<1>2. CASE minute # 0 /\ ~IsOpen(back)
  BY <1>1, <1>2, <1>4 DEF Follows
<1>3. CASE minute # 0 /\ IsOpen(back)
  <2>1. Single(back, bar, minute) /\ ~Recovered(back, bar)
    BY <1>1, <1>3, <1>4, PlainIsSingle DEF Plain
  <2>2. Paired(back) /\ Tracks(live, back, bar, minute, seen)
    BY <1>1, <1>3, <2>1 DEF Follows
  <2>3. CASE ~IsOpen(live)
    <3>1. Leaves(live, back, bar, minute)
      BY <2>2, <2>3 DEF Tracks
    <3>2. ~IsOpen(back') /\ Agree(live, back')
      BY <1>0, <1>1, <1>3, <1>4, <2>1, <2>2, <2>3, <3>1, BackLeaves
    <3> QED BY <1>1, <1>4, <2>3, <3>2 DEF Follows
  <2>4. CASE IsOpen(live)
    <3>1. Tracks(live, back, bar, minute, TRUE)
      <4>1. seen = TRUE
        BY <1>1, <1>3, <1>4, <2>4 DEF Inv, ExitTypeOK
      <4> QED BY <2>2, <4>1
    <3>2. back' = live /\ live = Advanced(back, bar)
      BY <1>0, <1>1, <1>3, <1>4, <2>1, <2>4, <3>1, BackStays
    <3>3. Paired(back')
      BY <1>0, <2>2, <3>2, PairedStays
    <3>4. PICK c \in Bars, n \in Int : c = bar' /\ n = minute'
      BY <1>0, <1>1, PrintedType DEF NextMinute
    <3>5. Stays(live, live, c, n, FALSE)
      <4>1. live.mfe \in Int /\ c.high \in Int
        BY <1>0 DEF Positions, Bars
      <4>2. live = WithMfe(live, live.mfe)
        BY <1>0 DEF WithMfe, Positions
      <4>3. live.mfe <= live.mfe /\ live.mfe <= Highest(live.mfe, c.high)
        BY <4>1
      <4> QED BY <4>1, <4>2, <4>3 DEF Stays
    <3>6. Tracks(live', back', bar', minute', seen')
      BY <1>1, <2>4, <3>2, <3>4, <3>5 DEF Tracks
    <3> QED BY <1>1, <1>4, <2>4, <3>2, <3>3, <3>6 DEF Follows
  <2> QED BY <2>3, <2>4
<1> QED BY <1>2, <1>3, <1>5

LEMMA InitFollows == ExitInit => Follows
BY DEF ExitInit, Follows

\* "This matches the backtest" (orb/exits.py), for every risk, target, size,
\* threshold and clock, and whatever quotes the cycles read beside the bars: as
\* long as each bar touches one level at most, the last cycle of a minute read
\* all of it, and no quote stood on the other side of the circuit than the last
\* price of the bar, the engine leaves in the minute and for the reason the
\* backtest does, with the same shares.
THEOREM EngineFollowsBacktest == ExitSpec => []MatchesOnPlainBars
<1>1. ExitInit => Inv /\ Follows
  BY InitInv, InitFollows
<1>2. Inv /\ Follows /\ [ExitNext]_exitVars => Inv' /\ Follows'
  <2> SUFFICES ASSUME Inv, Follows, [ExitNext]_exitVars PROVE Follows'
    BY NextInv
  <2>1. CASE UNCHANGED exitVars
    BY <2>1 DEF exitVars, Follows
  <2> QED BY <2>1, CycleFollows, TradeFollows, MinuteFollows DEF ExitNext
<1>3. Follows => MatchesOnPlainBars
  BY DEF Follows, Agree, MatchesOnPlainBars
<1> QED BY <1>1, <1>2, <1>3, PTL DEF ExitSpec
=============================================================================
