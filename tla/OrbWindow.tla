----------------------------- MODULE OrbWindow -----------------------------
(***************************************************************************)
(* The opening-range window of one ticker, from the open to after or_end,  *)
(* through missing bars, slow cycles, crashes and restarts.                *)
(*                                                                         *)
(* A bar is the minute it belongs to, and the window is the set of minutes *)
(* that went into its high and low, with the count the engine keeps of     *)
(* them.  Every cycle fetches the ticker's bars once; the sweep replays    *)
(* the fetch into an unlocked window after or_end, and the tick of the     *)
(* ticker feeds one bar of it.  The fetch returns completed bars (the      *)
(* Alpaca source; a Yahoo fetch may end in the bar still forming).         *)
(***************************************************************************)
EXTENDS Integers, FiniteSets

CONSTANTS
    FirstMinute,   \* first minute the bar source covers, before the open
    SessionStart,  \* 09:30
    OrEnd,         \* end of the opening range
    LastMinute,    \* bound: the clock stops there
    LostBound,     \* bound: bars a fetch may be missing
    MaxRestarts    \* bound: crashes of a behaviour

ASSUME WindowConstants ==
    /\ FirstMinute \in Int /\ SessionStart \in Int /\ OrEnd \in Int /\ LastMinute \in Int
    /\ FirstMinute <= SessionStart /\ SessionStart < OrEnd /\ OrEnd < LastMinute
    /\ LostBound \in Nat /\ MaxRestarts \in Nat

VARIABLES
    now,       \* minute of the wall clock
    printed,   \* completed minutes in which the ticker traded
    stage,     \* where the scan cycle is, or "down"
    curMin,    \* the clock at the start of the cycle
    got,       \* the cycle's cached fetch, empty if both sources failed
    fresh,     \* the process has not started its session yet
    window,    \* or_windows[ticker]
    phase,     \* the row's phase
    disk,      \* window and phase in orb_state_<date>.json
    restarts

vars == <<now, printed, stage, curMin, got, fresh, window, phase, disk, restarts>>

Clock == SessionStart..LastMinute
Minutes == FirstMinute..(LastMinute - 1)
InWindow == SessionStart..(OrEnd - 1)
Enough == (OrEnd - SessionStart) \div 2     \* or_minutes // 2

\* seen is bars_seen, which nothing compares above Enough.
Window == [minutes : SUBSET Minutes, seen : 0..Enough, locked : BOOLEAN]
EmptyWindow == [minutes |-> {}, seen |-> 0, locked |-> FALSE]
Phases == {"warmup", "armed", "blocked_range", "blocked_or_insufficient"}
Stages == {"down", "idle", "begun", "fetched", "feed"}

UpTo(n) == IF n < Enough THEN n ELSE Enough

-----------------------------------------------------------------------------
(* The window. *)

\* on_bar_arrival and add_bar: there is no lower bound on the minute, a
\* minute that comes again counts again, and a bar after the range locks a
\* window that has seen anything.
Fed(w, m) ==
    IF w.locked THEN w
    ELSE IF m < OrEnd
    THEN [minutes |-> w.minutes \cup {m}, seen |-> UpTo(w.seen + 1), locked |-> m = OrEnd - 1]
    ELSE [minutes |-> w.minutes, seen |-> w.seen, locked |-> w.seen > 0]

\* Mutant: a window that has seen bars is only locked, not completed.
BackfilledIfEmpty(w, bars) ==
    LET inside == bars \cap InWindow IN
    IF w.locked \/ inside = {} THEN w
    ELSE IF w.seen > 0 THEN [w EXCEPT !.locked = \E m \in bars : m >= OrEnd - 1]
    ELSE [minutes |-> w.minutes \cup inside, seen |-> UpTo(w.seen + Cardinality(inside)),
          locked |-> \E m \in bars : m >= OrEnd - 1]

\* Mutant: bars are replayed into a locked window as well.
BackfilledPastLock(w, bars) ==
    LET inside == bars \cap InWindow IN
    IF inside = {} THEN w
    ELSE [minutes |-> w.minutes \cup inside, seen |-> UpTo(w.seen + Cardinality(inside)),
          locked |-> w.locked \/ \E m \in bars : m >= OrEnd - 1]

\* Mutant: only the last bar of the range locks, as it was before v7.73.0.
BackfilledNoFallback(w, bars) ==
    LET inside == bars \cap InWindow IN
    IF w.locked \/ inside = {} THEN w
    ELSE [minutes |-> w.minutes \cup inside, seen |-> UpTo(w.seen + Cardinality(inside)),
          locked |-> OrEnd - 1 \in bars]

\* backfill_or_windows, and the post-OR branch of the first-cycle hook: the
\* bars of the range in order, the last of which locks, then one bar after
\* the range if that did not.
Backfilled(w, bars) ==
    LET inside == bars \cap InWindow IN
    IF w.locked \/ inside = {} THEN w
    ELSE [minutes |-> w.minutes \cup inside, seen |-> UpTo(w.seen + Cardinality(inside)),
          locked |-> \E m \in bars : m >= OrEnd - 1]

\* _lock_and_arm, for a window that has just locked: the width of the range
\* decides first, then the count.
Verdicts(w, p) ==
    IF p # "warmup" \/ ~w.locked THEN {p}
    ELSE {"blocked_range", IF w.seen < Enough THEN "blocked_or_insufficient" ELSE "armed"}

\* The bar the tick feeds: the second-newest of the fetch, or its only one.
IsLiveBar(m, bars) ==
    m \in bars /\ (bars = {m} \/ \E n \in bars : {k \in bars : k > m} = {n})

\* start_new_session, then sections A and B of the snapshot.
Rehydrated(d) == d

-----------------------------------------------------------------------------

Init ==
    /\ now = SessionStart
    /\ printed \in SUBSET (FirstMinute..(SessionStart - 1))
    /\ stage = "idle" /\ curMin = SessionStart /\ got = {} /\ fresh = TRUE
    /\ window = EmptyWindow /\ phase = "warmup"
    /\ disk = [window |-> EmptyWindow, phase |-> "warmup"]
    /\ restarts = 0

\* A minute goes by; the ticker may have traded in it.
Tick(traded) ==
    /\ now < LastMinute
    /\ now' = now + 1
    /\ printed' = IF traded THEN printed \cup {now} ELSE printed
    /\ UNCHANGED <<stage, curMin, got, fresh, window, phase, disk, restarts>>

\* scan_loop reads the clock and clears the bar cache.
Begin ==
    /\ stage = "idle"
    /\ stage' = "begun" /\ curMin' = now /\ got' = {}
    /\ UNCHANGED <<now, printed, fresh, window, phase, disk, restarts>>

\* fetch_1min_bars, asked first by the weather tick and cached for the cycle.
Fetch(bars) ==
    /\ stage = "begun"
    /\ stage' = "fetched" /\ got' = bars
    /\ UNCHANGED <<now, printed, curMin, fresh, window, phase, disk, restarts>>

\* The first cycle starts the session and runs _maybe_backfill_or_window
\* (during the range it reads the bar archive, whose et_bucket is "HHMM" or
\* null where the reader takes integers: it finds nothing).  Every cycle
\* after or_end runs _orb_post_or_backfill_sweep, and dumps.
Sweep ==
    /\ stage = "fetched"
    /\ stage' = "feed" /\ fresh' = FALSE
    /\ LET start == IF fresh THEN Rehydrated(disk) ELSE [window |-> window, phase |-> phase]
           hooked == IF fresh THEN Backfilled(start.window, got) ELSE start.window
           swept == Backfilled(hooked, got)
       IN /\ window' = IF curMin < OrEnd THEN start.window ELSE swept
          /\ phase' \in (IF window'.locked # start.window.locked
                         THEN Verdicts(window', start.phase) ELSE {start.phase})
    /\ disk' = [window |-> window', phase |-> phase']
    /\ UNCHANGED <<now, printed, curMin, got, restarts>>

\* _per_ticker_tick feeds one bar; the cycle ends in a throttled persist.
Feed(persists) ==
    /\ stage = "feed"
    /\ stage' = "idle"
    /\ \/ got = {} /\ window' = window
       \/ \E m \in got : IsLiveBar(m, got) /\ window' = Fed(window, m)
    /\ phase' \in (IF window'.locked # window.locked THEN Verdicts(window', phase) ELSE {phase})
    /\ disk' = IF persists THEN [window |-> window', phase |-> phase'] ELSE disk
    /\ UNCHANGED <<now, printed, curMin, got, fresh, restarts>>

\* The process dies; what it had in memory stays in the model, unread.
Crash ==
    /\ stage # "down" /\ restarts < MaxRestarts
    /\ stage' = "down" /\ restarts' = restarts + 1
    /\ UNCHANGED <<now, printed, curMin, got, fresh, window, phase, disk>>

Restart ==
    /\ stage = "down"
    /\ stage' = "idle" /\ fresh' = TRUE
    /\ UNCHANGED <<now, printed, curMin, got, window, phase, disk, restarts>>

\* What a fetch may return: the printed minutes, but for a few, or nothing.
Fetches == {bars \in SUBSET printed : Cardinality(printed \ bars) <= LostBound} \cup {{}}

Next ==
    \/ \E traded \in BOOLEAN : Tick(traded)
    \/ Begin \/ (\E bars \in Fetches : Fetch(bars)) \/ Sweep
    \/ \E persists \in BOOLEAN : Feed(persists)
    \/ Crash \/ Restart

Spec == Init /\ [][Next]_vars

\* Time goes on, the loop goes on, the platform restarts a dead process, and
\* a source that is asked forever is not down forever.
FairSpec ==
    /\ Spec
    /\ WF_vars(\E traded \in BOOLEAN : Tick(traded))
    /\ WF_vars(Begin \/ (\E bars \in Fetches : Fetch(bars)) \/ Sweep
               \/ \E persists \in BOOLEAN : Feed(persists))
    /\ WF_vars(Restart)
    /\ SF_vars(Fetch(printed))

-----------------------------------------------------------------------------

Started == stage # "down" /\ ~fresh

\* Every variable has its type.
TypeOK ==
    /\ now \in Clock /\ curMin \in Clock
    /\ printed \subseteq Minutes /\ got \subseteq Minutes
    /\ stage \in Stages /\ fresh \in BOOLEAN
    /\ window \in Window /\ phase \in Phases
    /\ disk \in [window : Window, phase : Phases]
    /\ restarts \in 0..MaxRestarts

\* The range is not frozen, in memory or in the snapshot, before the
\* opening range is over, whichever of the three feeds brings the bars.
LockNotEarly == window.locked \/ disk.window.locked => now >= OrEnd

\* A range that has been written to the snapshot as locked is final: no
\* backfill, late bar, crash or restart redraws it, so the entries of the
\* day before and after a restart are taken against the same levels.
RangeIsFinal ==
    [][disk.window.locked =>
          /\ disk' = disk
          /\ Started' => window' = disk.window /\ phase' = disk.phase]_vars

\* The row leaves the warm-up exactly when the window locks, also when one
\* of the two steps was followed by a crash.
PhaseFollowsLock ==
    /\ Started => (phase = "warmup" <=> ~window.locked)
    /\ disk.phase = "warmup" <=> ~disk.window.locked

\* A lock by the sweep heals the gaps: every minute of the range the source
\* had in this cycle is in the locked window, also after a restart in the
\* middle of the range.
SweepHealsGaps ==
    [][Sweep /\ window'.locked /\ ~(IF fresh THEN disk.window.locked ELSE window.locked)
          => got \cap InWindow \subseteq window'.minutes]_vars

\* A ticker that traded in the opening range, and in its last minute or
\* after it, gets its range locked and its row decided, even if the process
\* dies and the source fails on the way.
WindowLocks ==
    (\E m \in InWindow : m \in printed) /\ (\E m \in printed : m >= OrEnd - 1)
        ~> (Started /\ window.locked /\ phase # "warmup")

=============================================================================
