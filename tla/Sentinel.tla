------------------------------ MODULE Sentinel ------------------------------
(***************************************************************************)
(* The exit loop of the main portfolio before v10, now the fallback for a  *)
(* position the v10 exit rules do not find, as after every restart, or     *)
(* fail on: broker/positions.py with the alarms of engine/sentinel.py and  *)
(* the trail of engine/alarm_f_trail.py.  The alarms that are off (B, C,   *)
(* D, E, early ditch) and the second entry, which v10 never makes, are     *)
(* left out.                                                               *)
(*                                                                         *)
(* A price is its distance from the entry in the direction of the trade,   *)
(* so that the mirrored branches of a short are those of a long.  Time is  *)
(* counted in cycles of the scan.                                          *)
(***************************************************************************)
EXTENDS Integers

CONSTANTS
    Gains,          \* what a mark or a bar's close may be
    R,              \* entry minus initial_stop
    Pad,            \* BE_PAD
    Atrs, NoAtr,    \* values of the ATR; not ready
    Wide, Tight, Step,  \* 1.5, 0.7 and 0.5 of each ATR
    HardLoss,       \* the R-2 rail, in dollars
    FlashDrop,      \* ALARM_A_VELOCITY_THRESHOLD, per share
    DeepGap,        \* _V730_STOP_DEEP_FRAC, beyond the stop
    DeepLoss,       \* _V651_DEEP_STOP_PCT, beyond the entry
    Window,         \* the 60 seconds of the velocity, in cycles
    MinHold,        \* _V644_MIN_HOLD_SECONDS, in cycles
    MinBars,        \* MIN_BARS_BEFORE_ARM
    Confirm,        \* _V730_STOP_HYSTERESIS_BARS
    Lot, Half,
    MaxCrashes      \* bound of the runs

ASSUME SentinelConstants ==
    /\ Gains \subseteq Int /\ R \in Nat \ {0} /\ Pad \in Nat
    /\ NoAtr \notin Atrs /\ {Wide, Tight} \subseteq [Atrs -> Nat \ {0}] /\ Step \in [Atrs -> Nat]
    /\ {HardLoss, FlashDrop, DeepGap, DeepLoss, MinHold, MaxCrashes} \subseteq Nat
    /\ {Window, MinBars} \subseteq Nat \ {0} /\ Confirm \in Nat \ {0, 1}
    /\ Lot \in Nat /\ Half \in 1..(Lot - 1)

VARIABLES
    up,
    pos,        \* the position dict; no shares is no position
    disk,       \* the position in paper_state_main.json
    age,        \* cycles since the entry, up to MinHold
    owned,      \* check_exit_by_ticker finds the position
    trail,      \* TrailState
    samples,    \* pnl_history
    pending,    \* _stop_cross_pending of the position
    out,        \* what the last exit of the sentinel was
    hist        \* best: highest close looked at; before: the last look
                \* short of a deep breach had mark and close beyond the stop

vars == <<up, pos, disk, age, owned, trail, samples, pending, out, hist>>

Highest(a, b) == IF a > b THEN a ELSE b

NoPos == [shares |-> 0, known |-> 0, stop |-> -R, named |-> TRUE]

\* execute_breakout; named is whether it got a lifecycle_position_id
Opened(named) == [shares |-> Lot, known |-> 0, stop |-> -R, named |-> named]

\* Stages of the trail: 0 inactive, 1 breakeven, 2 wide, 3 tight.  A last
\* proposal of -R stands for none: it is never the best.
FreshTrail == [stage |-> 0, peak |-> 0, seen |-> 0, target |-> 0, last |-> -R]
EntryTrail == [FreshTrail EXCEPT !.stage = 1]   \* record_entry

NoSample == [pnl |-> 0, shares |-> 0]
NoHistory == [recent |-> [i \in 1..Window |-> NoSample], base |-> NoSample]

NoExit == [why |-> "none", gap |-> 0, size |-> 0]

Init ==
    /\ up = TRUE /\ pos = NoPos /\ disk = NoPos /\ age = 0 /\ owned = FALSE
    /\ trail = FreshTrail /\ samples = NoHistory /\ pending = 0
    /\ out = NoExit /\ hist = [best |-> 0, before |-> FALSE, crashes |-> 0]

Later(a) == IF a < MinHold THEN a + 1 ELSE a

(***************************************************************************)
(* Alarm A: hard loss and velocity.  recent[i] is the sample of i - 1      *)
(* cycles ago, base the last one that is a window old or older.            *)
(***************************************************************************)
Pnl(mark) == mark * pos.shares

Aged(s) ==
    [recent |-> [i \in 1..Window |-> IF i = 1 THEN NoSample ELSE s.recent[i - 1]],
     base |-> IF s.recent[Window] # NoSample THEN s.recent[Window] ELSE s.base]

\* Mutant: the baseline is kept when the share count changes.
SampledAcross(mark) ==
    [Aged(samples) EXCEPT !.recent[1] = [pnl |-> Pnl(mark), shares |-> pos.shares]]

\* maybe_reset_pnl_baseline_on_shares_change and record_pnl
Sampled(mark) ==
    [(IF pos.known \in {0, pos.shares} THEN Aged(samples) ELSE NoHistory)
       EXCEPT !.recent[1] = [pnl |-> Pnl(mark), shares |-> pos.shares]]

HardLost(mark) == Pnl(mark) <= -HardLoss

Flashed(mark) ==
    LET base == Sampled(mark).base IN
      base # NoSample /\ Pnl(mark) - base.pnl < -(FlashDrop * pos.shares)

(***************************************************************************)
(* Alarm A_STOP_PRICE with its hysteresis.                                 *)
(***************************************************************************)
Beyond(mark, close) == mark <= pos.stop /\ close <= pos.stop
DeepBreach(mark) == pos.named /\ pos.stop - mark >= DeepGap

StopCrossed(mark, close) ==
    /\ mark <= pos.stop
    /\ ~pos.named \/ DeepBreach(mark) \/ (close <= pos.stop /\ pending + 1 >= Confirm)

\* Mutant: a look with the price back inside the stop does not reset.
CountedForever(mark, close) ==
    IF pos.named /\ ~DeepBreach(mark) /\ Beyond(mark, close) /\ pending < Confirm
    THEN pending + 1 ELSE pending

\* Mutant: every look resets.
CountedNever(mark, close) == 0

\* The timestamp of the look is passed for that of the bar, so every look
\* counts.
Counted(mark, close) ==
    IF ~pos.named \/ DeepBreach(mark) THEN pending
    ELSE IF ~Beyond(mark, close) THEN 0
    ELSE IF pending < Confirm THEN pending + 1 ELSE pending

(***************************************************************************)
(* Alarm F: update_trail, the exit on a close, the proposed stop.          *)
(***************************************************************************)
Peaked(t, close) ==
    [t EXCEPT !.seen = IF @ < MinBars THEN @ + 1 ELSE @, !.peak = Highest(@, close)]

BreakevenArmed(t) ==
    IF t.stage = 0 /\ t.peak >= R THEN [t EXCEPT !.stage = 1] ELSE t

\* Mutant: the wide trail waits for the ATR alone.
WideArmedEarly(t, atr) ==
    IF t.stage = 1 /\ atr # NoAtr
    THEN [t EXCEPT !.stage = 2, !.target = t.peak + Step[atr]] ELSE t

WideArmed(t, atr) ==
    IF t.stage = 1 /\ t.peak >= R /\ atr # NoAtr
    THEN [t EXCEPT !.stage = 2, !.target = t.peak + Step[atr]] ELSE t

TightArmed(t, atr) ==
    IF t.stage = 2 /\ atr # NoAtr /\ t.peak >= t.target THEN [t EXCEPT !.stage = 3] ELSE t

Advanced(close, atr) ==
    LET t == Peaked(trail, close) IN
      IF t.seen < MinBars THEN t ELSE TightArmed(WideArmed(BreakevenArmed(t), atr), atr)

\* chandelier_level
Level(t, atr) == t.peak - (IF t.stage = 3 THEN Tight[atr] ELSE Wide[atr])
Chandelier(t, atr) == t.stage >= 2 /\ atr # NoAtr

TrailCrossed(close, atr) ==
    LET t == Advanced(close, atr) IN Chandelier(t, atr) /\ close <= Level(t, atr)

Best(t, atr) ==
    LET kept == Highest(Pad, t.last) IN
      IF Chandelier(t, atr) THEN Highest(kept, Level(t, atr)) ELSE kept

\* propose_stop, which remembers what it proposed
Proposes(t, close, atr) ==
    t.stage >= 1 /\ Best(t, atr) > pos.stop /\ Best(t, atr) < close - Pad

Trailed(close, atr) ==
    LET t == Advanced(close, atr) IN
      IF Proposes(t, close, atr) THEN [t EXCEPT !.last = Best(t, atr)] ELSE t

Tightened(close, atr) ==
    LET t == Advanced(close, atr) IN
      IF Proposes(t, close, atr) THEN [pos EXCEPT !.stop = Best(t, atr)] ELSE pos

(***************************************************************************)
(* _run_sentinel: all alarms are evaluated, one reason wins; the price     *)
(* stop has to wait for the hold time unless the loss is deep.             *)
(***************************************************************************)
Winner(mark, close, atr) ==
    IF HardLost(mark) THEN "hard"
    ELSE IF StopCrossed(mark, close) THEN "stop"
    ELSE IF Flashed(mark) THEN "flash"
    ELSE IF TrailCrossed(close, atr) THEN "trail" ELSE "none"

Verdict(mark, close, atr) ==
    LET why == Winner(mark, close, atr) IN
      IF why # "stop" \/ Later(age) = MinHold THEN why
      ELSE IF mark <= -DeepLoss THEN "deep" ELSE "blocked"

Gone ==
    /\ pos' = NoPos /\ disk' = NoPos /\ age' = 0 /\ owned' = FALSE
    /\ trail' = FreshTrail /\ samples' = NoHistory /\ pending' = 0

Looking == up /\ pos.shares > 0

\* A look that closes the position.
Exit(mark, close, atr) ==
    /\ Gone /\ UNCHANGED <<up, hist>>
    /\ LET why == Verdict(mark, close, atr) IN
         /\ why \notin {"none", "blocked"}
         /\ out' = [why |-> why, gap |-> pos.stop - mark, size |-> Sampled(mark).base.shares]

\* A look that keeps it.  What alarm F remembers is kept even when the hold
\* time holds a stop back and with it the tightening.
Stay(mark, close, atr) ==
    /\ samples' = Sampled(mark)
    /\ hist' = [hist EXCEPT !.best = Highest(@, close),
                            !.before = IF DeepBreach(mark) THEN @ ELSE Beyond(mark, close)]
    /\ pending' = Counted(mark, close) /\ age' = Later(age)
    /\ trail' = Trailed(close, atr)
    /\ LET why == Verdict(mark, close, atr) IN
         /\ why \in {"none", "blocked"}
         /\ pos' = [(IF why = "none" THEN Tightened(close, atr) ELSE pos) EXCEPT !.known = pos.shares]
    /\ UNCHANGED <<up, disk, owned, out>>

\* The v10 rules do not find the position, or raised.
Look ==
    /\ Looking
    /\ \E mark, close \in Gains, atr \in Atrs \cup {NoAtr} :
         Exit(mark, close, atr) \/ Stay(mark, close, atr)

(***************************************************************************)
(* The rest of manage_positions, entries, saves and restarts.              *)
(***************************************************************************)
\* execute_breakout of a v10 admission, which saves.
Open ==
    /\ up /\ pos.shares = 0
    /\ \E named \in BOOLEAN : pos' = Opened(named) /\ disk' = Opened(named)
    /\ age' = 0 /\ owned' = TRUE /\ trail' = EntryTrail
    /\ samples' = NoHistory /\ pending' = 0 /\ out' = NoExit
    /\ hist' = [hist EXCEPT !.best = 0, !.before = FALSE]
    /\ UNCHANGED up

\* A cycle without a look: no bars, or the v10 rules keep the position, or
\* take half of it.
Pass ==
    /\ Looking
    /\ \/ UNCHANGED pos
       \/ owned /\ pos.shares = Lot /\ pos' = [pos EXCEPT !.shares = Half]
    /\ age' = Later(age) /\ samples' = Aged(samples)
    /\ UNCHANGED <<up, disk, owned, trail, pending, out, hist>>

\* Closed by the v10 rules, at the end of the day or by the loss limit.
Leave ==
    /\ Looking
    /\ Gone /\ out' = NoExit
    /\ UNCHANGED <<up, hist>>

Save ==
    /\ Looking /\ disk # pos
    /\ disk' = pos
    /\ UNCHANGED <<up, pos, age, owned, trail, samples, pending, out, hist>>

Crash ==
    /\ up /\ hist.crashes < MaxCrashes
    /\ up' = FALSE /\ pos' = NoPos /\ owned' = FALSE
    /\ trail' = FreshTrail /\ samples' = NoHistory /\ pending' = 0
    /\ hist' = [hist EXCEPT !.crashes = @ + 1, !.before = FALSE]
    /\ UNCHANGED <<disk, age, out>>

\* load_paper_state: the caches are not in the file, and the ticker map of
\* v10 is not restored.
Boot ==
    /\ ~up /\ up' = TRUE
    /\ pos' = disk
    /\ IF disk.shares = 0 THEN age' = 0 ELSE age' \in age..MinHold
    /\ UNCHANGED <<disk, owned, trail, samples, pending, out, hist>>

Next == Look \/ Open \/ Pass \/ Leave \/ Save \/ Crash \/ Boot

\* The scan goes on and bars come again and again; a dead process is restarted.
Spec == Init /\ [][Next]_vars /\ WF_vars(Look) /\ WF_vars(Boot)

(***************************************************************************)
(* Properties                                                              *)
(***************************************************************************)
Positions == [shares : {0, Half, Lot}, known : {0, Half, Lot}, stop : Int, named : BOOLEAN]
Samples == [pnl : Int, shares : {0, Half, Lot}]

\* Types of the variables.
TypeOK ==
    /\ up \in BOOLEAN /\ owned \in BOOLEAN
    /\ pos \in Positions /\ disk \in Positions
    /\ age \in 0..MinHold /\ pending \in 0..Confirm
    /\ trail \in [stage : 0..3, peak : Int, seen : 0..MinBars, target : Int, last : Int]
    /\ samples \in [recent : [1..Window -> Samples], base : Samples]
    /\ out \in [why : {"none", "hard", "stop", "deep", "flash", "trail"},
                gap : Int, size : {0, Half, Lot}]
    /\ hist \in [best : Int, before : BOOLEAN, crashes : 0..MaxCrashes]

Closes(why) == pos.shares > 0 /\ pos'.shares = 0 /\ out'.why = why

\* The price stop closes a named position only far beyond the stop, or at the
\* second look that finds mark and close beyond it with none in between that
\* finds them inside, across tightened stops, skipped cycles, stops the hold
\* time refused and a restart.
StopConfirmed ==
    [][ Closes("stop") \/ Closes("deep") =>
          ~pos.named \/ hist.before \/ out'.gap >= DeepGap ]_vars

\* The trail closes only what had a close one risk in profit, also when it
\* started over at a restart.
TrailEarned == [][ Closes("trail") => hist.best >= R ]_vars

\* The velocity compares P&L of the same number of shares: half the position
\* taken in the window is no flash loss.
FlashSameSize == [][ Closes("flash") => out'.size = pos.shares ]_vars

\* A position left to the sentinel does not stay open for ever with mark and
\* close beyond its stop.
BeyondStopExits == []<>(pos.shares = 0 \/ owned \/ ~hist.before)
=============================================================================
