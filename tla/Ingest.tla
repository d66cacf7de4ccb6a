------------------------------ MODULE Ingest ------------------------------
(***************************************************************************)
(* The websocket feed of ingest/algo_plus.py, the health colour            *)
(* ingest/sla.py derives from it, and the gate of engine/ingest_gate.py    *)
(* that execute_breakout asks before it sends an entry.                    *)
(*                                                                         *)
(* Three threads: the ingest thread runs the loop and the bar callback,    *)
(* the clock moves on its own, and the scan asks the gate whenever it has  *)
(* a breakout.  The age of the last bar is read only when the ingest       *)
(* thread changes its connection state, and the gate's clocks move only    *)
(* when it is asked; the model keeps both.                                 *)
(*                                                                         *)
(* No lock is held across two of the ingest thread's writes: the stamp of  *)
(* a bar, the connection state, the reading of the age and the colour are  *)
(* a step each, in this order; update says which comes next.  Nor is one   *)
(* held from the scan's reading of the colour to the move of the gate.     *)
(*                                                                         *)
(* Only the global colour exists: the per-ticker metrics and the count of  *)
(* gaps are fed by the backfill worker, which ingest_loop never starts.    *)
(* All of it is in memory: a restart is a new behaviour.  The Alpaca SDK   *)
(* is installed and the ticker list is not empty; what the archive does    *)
(* with a bar does not matter, the age is stamped even if the write fails. *)
(* log, stalled and asking.fresh are history no code reads.                *)
(***************************************************************************)
EXTENDS Integers, Sequences, FiniteSets, FiniteSetsExt

CONSTANTS
    Tickers,
    AgeGreen, AgeRed,      \* SLA_BAR_AGE_GREEN_S, SLA_BAR_AGE_RED_S
    RedMin, GreenMin,      \* SLA_GATE_RED_MIN, SLA_GATE_GREEN_MIN
    Backoff,               \* _BACKOFF_SCHEDULE
    RthEnd,                \* from here on _is_rth() is false
    MaxTime, MaxAsks       \* bounds of the runs

ASSUME IngestConstants ==
    /\ AgeGreen \in Nat /\ AgeRed \in Nat /\ AgeGreen <= AgeRed
    /\ RedMin \in Nat /\ GreenMin \in Nat
    /\ Backoff \in Seq(Nat) /\ Backoff # <<>>
    /\ RthEnd \in Nat /\ {MaxTime, MaxAsks} \subseteq Nat

VARIABLES
    now,      \* the monotonic clock
    mode,     \* SSM_INGEST_GATE_MODE of the process
    health,   \* ConnectionHealth._state
    lastBar,  \* ConnectionHealth._last_bar_ts
    loop,     \* the ingest thread: where it is, attempt, end of a sleep
    update,   \* the change of state under way in it, a colour once it has one
    sla,      \* colour of the global IngestHealthState
    asking,   \* the call of evaluate_gate under way, the colour it has read
    gate,     \* _gate_state
    stalled,  \* the colour is that of a bar whose update took more than AgeRed
    log       \* each ticker's askings: when, the colour seen, the answer

ingestVars ==
    <<now, mode, health, lastBar, loop, update, sla, asking, gate, stalled, log>>
feedVars == <<mode, health, lastBar, loop, update, sla, stalled>>
gateVars == <<mode, asking, gate, log>>

None == -1
Colors == {"green", "yellow", "red"}
Modes == {"off", "dry_run", "enforce"}
Connection == {"CONNECTING", "LIVE", "DEGRADED", "REST_ONLY"}
LoopStages == {"boot", "off", "top", "running", "failed", "caught", "sleeping"}
Updates == {"none", "mark", "read"} \cup Colors
AttemptCap == IF Len(Backoff) > 3 THEN Len(Backoff) ELSE 3   \* larger counts act alike

NotAsked == [ticker |-> None]
FreshGate == [color |-> "green", redSince |-> None, greenSince |-> None, blocked |-> FALSE]

IngestInit ==
    /\ now = 0 /\ mode \in Modes
    /\ health = "CONNECTING" /\ lastBar = None
    /\ loop = [at |-> "boot", attempt |-> 0, wake |-> 0]
    /\ update = "none" /\ sla = "green" /\ stalled = FALSE
    /\ asking = NotAsked
    /\ gate = [t \in Tickers |-> FreshGate]
    /\ log = [t \in Tickers |-> <<>>]

-----------------------------------------------------------------------------
(* The colour. *)

\* SLAThreshold.classify
Classify(age) ==
    IF age <= AgeGreen THEN "green" ELSE IF age <= AgeRed THEN "yellow" ELSE "red"

\* Mutant: the age is not counted from the last bar but from the boot.
SampledFromStart ==
    /\ update = "read"
    /\ update' = IF lastBar = None THEN "none" ELSE Classify(now)
    /\ UNCHANGED <<now, health, lastBar, loop, sla, stalled, gateVars>>

\* _update_ingest_stats asks for the age as it is at that moment; without an
\* age there is no metric and the colour stays what it was.
ReadAge ==
    /\ update = "read"
    /\ update' = IF lastBar = None THEN "none" ELSE Classify(now - lastBar)
    /\ UNCHANGED <<now, health, lastBar, loop, sla, stalled, gateVars>>

\* update_global_stats, under _sla_lock
Recolor ==
    /\ update \in Colors
    /\ sla' = update /\ update' = "none"
    /\ stalled' = (health = "LIVE" /\ update = "red")
    /\ UNCHANGED <<now, health, lastBar, loop, gateVars>>

-----------------------------------------------------------------------------
(* The ingest thread.  It goes on when its last update is through. *)

\* ingest_loop up to its while: no credentials, the websocket disabled, or on.
StartLoop ==
    /\ loop.at = "boot" /\ update = "none"
    /\ \/ /\ loop' = [loop EXCEPT !.at = "off"]
          /\ update' = "read" /\ health' \in {health, "REST_ONLY"}
       \/ /\ loop' = [loop EXCEPT !.at = "top"]
          /\ UNCHANGED <<update, health>>
    /\ UNCHANGED <<now, lastBar, sla, stalled, gateVars>>

Connect ==
    /\ loop.at = "top" /\ update = "none"
    /\ health' = "CONNECTING" /\ update' = "read"
    /\ loop' = [loop EXCEPT !.at = "running"]
    /\ UNCHANGED <<now, lastBar, sla, stalled, gateVars>>

\* Mutant: the first bar makes the feed LIVE, and its age is not sampled.
OnBarUnsampled ==
    /\ loop.at = "running" /\ update = "none"
    /\ lastBar' = now /\ health' = "LIVE"
    /\ UNCHANGED <<now, loop, update, sla, stalled, gateVars>>

\* _on_bar: the age is stamped whatever write_bar did; only a bar that finds
\* the feed not LIVE has more to do.
OnBar ==
    /\ loop.at = "running" /\ update = "none"
    /\ lastBar' = now
    /\ update' = IF health = "LIVE" THEN "none" ELSE "mark"
    /\ UNCHANGED <<now, health, loop, sla, stalled, gateVars>>

\* _on_bar, its last lines
MarkLive ==
    /\ update = "mark"
    /\ health' = "LIVE" /\ update' = "read"
    /\ UNCHANGED <<now, lastBar, loop, sla, stalled, gateVars>>

\* stream.run() raises: the handler in _run_ws_ingest degrades ...
StreamFails ==
    /\ loop.at = "running" /\ update = "none"
    /\ health' = "DEGRADED" /\ update' = "read"
    /\ loop' = [loop EXCEPT !.at = "failed"]
    /\ UNCHANGED <<now, lastBar, sla, stalled, gateVars>>

\* ... and so does the one in ingest_loop,
LoopCatches ==
    /\ loop.at = "failed" /\ update = "none"
    /\ health' = "DEGRADED" /\ update' = "read"
    /\ loop' = [loop EXCEPT !.at = "caught"]
    /\ UNCHANGED <<now, lastBar, sla, stalled, gateVars>>

\* which goes to sleep.
FallAsleep ==
    /\ loop.at = "caught" /\ update = "none"
    /\ loop' = [loop EXCEPT !.at = "sleeping",
                            !.wake = now + Backoff[Min({loop.attempt + 1, Len(Backoff)})]]
    /\ UNCHANGED <<now, health, lastBar, update, sla, stalled, gateVars>>

\* The third failure in a row leaves REST_ONLY, until the loop's next line.
WakeUp ==
    /\ loop.at = "sleeping" /\ update = "none" /\ now >= loop.wake
    /\ loop' = [at |-> "top", attempt |-> Min({loop.attempt + 1, AttemptCap}), wake |-> 0]
    /\ IF loop.attempt + 1 >= 3
         THEN health' = "REST_ONLY" /\ update' = "read"
         ELSE UNCHANGED <<health, update>>
    /\ UNCHANGED <<now, lastBar, sla, stalled, gateVars>>

\* stream.run() returns: the failures are forgotten.
StreamEnds ==
    /\ loop.at = "running" /\ update = "none"
    /\ loop' = [loop EXCEPT !.at = "top", !.attempt = 0]
    /\ UNCHANGED <<now, health, lastBar, update, sla, stalled, gateVars>>

-----------------------------------------------------------------------------
(* The gate. *)

\* A bar is in and the colour does not show it yet: its update is on its way.
Reviving == update = "mark" \/ (health = "LIVE" /\ update # "none")

\* evaluate_gate, asked by execute_breakout, reads the colour.  With the mode
\* off it allows at once and keeps nothing.
AskGate(t) ==
    /\ mode # "off" /\ asking = NotAsked
    /\ Len(log[t]) < MaxAsks
    /\ asking' = [ticker |-> t, color |-> sla, at |-> now, fresh |-> Reviving \/ stalled]
    /\ UNCHANGED <<now, gate, log, feedVars>>

\* The colour read counts as green once the session is over, which is looked
\* up between the reading and the move.
EffectiveColors ==
    {c \in {asking.color} : asking.at < RthEnd} \cup {c \in {"green"} : now >= RthEnd}

\* Mutant: a change of colour leaves the other colour's clock running.
TimersKept(g, c) ==
    [g EXCEPT !.color = c,
              !.redSince = IF c = "red" /\ @ = None THEN now ELSE @,
              !.greenSince = IF c = "green" /\ @ = None THEN now ELSE @]

\* The clock of a colour runs from the first of consecutive askings to see it.
Timers(g, c) ==
    LET kept(since, k) == IF c # k THEN None
                          ELSE IF c # g.color \/ since = None THEN now ELSE since
    IN  [color |-> c, redSince |-> kept(g.redSince, "red"),
         greenSince |-> kept(g.greenSince, "green"), blocked |-> g.blocked]

\* _update_ticker_gate_state
Hysteresis(g, c) ==
    LET n == Timers(g, c) IN
    IF n.blocked
      THEN [n EXCEPT !.blocked = ~(c = "green" /\ now - n.greenSince >= GreenMin)]
      ELSE [n EXCEPT !.blocked = c = "red" /\ now - n.redSince >= RedMin]

\* evaluate_gate goes on under _gate_lock, by the clock as it is then.
MoveGate ==
    /\ asking # NotAsked
    /\ \E c \in EffectiveColors :
         LET t == asking.ticker
             g == Hysteresis(gate[t], c)
             answer == IF mode = "enforce" /\ g.blocked THEN "block" ELSE "allow"
         IN  /\ gate' = [gate EXCEPT ![t] = g]
             /\ log' = [log EXCEPT ![t] =
                    Append(@, [at |-> now, color |-> c, answer |-> answer])]
    /\ asking' = NotAsked
    /\ UNCHANGED <<now, feedVars>>

-----------------------------------------------------------------------------
Tick ==
    /\ now < MaxTime
    /\ now' = now + 1
    /\ UNCHANGED <<feedVars, gateVars>>

IngestThread ==
    \/ StartLoop \/ Connect \/ OnBar \/ MarkLive \/ ReadAge \/ Recolor
    \/ StreamFails \/ LoopCatches \/ FallAsleep \/ WakeUp \/ StreamEnds

IngestNext ==
    \/ IngestThread
    \/ \E t \in Tickers : AskGate(t)
    \/ MoveGate
    \/ Tick

IngestSpec == IngestInit /\ [][IngestNext]_ingestVars

-----------------------------------------------------------------------------
(* What the log of askings decides. *)

Asking == [at : Nat, color : Colors, answer : {"allow", "block"}]

\* The asking that ends i's run of one colour is i; where the run starts.
RunStart(l, i) ==
    Min({j \in 1..i : \A k \in j..i : l[k].color = l[i].color})

\* Asking i ends a run long enough to close (red) or open (green) the gate.
Decisive(l, i) ==
    LET span == l[i].at - l[RunStart(l, i)].at IN
    \/ l[i].color = "red" /\ span >= RedMin
    \/ l[i].color = "green" /\ span >= GreenMin

\* The gate after the first n askings: closed if the last decisive one is red.
ClosedAfter(l, n) ==
    LET d == {i \in 1..n : Decisive(l, i)} IN d # {} /\ l[Max(d)].color = "red"

-----------------------------------------------------------------------------
(* Properties. *)

IngestTypeOK ==
    /\ now \in Nat /\ mode \in Modes /\ health \in Connection
    /\ lastBar \in Nat \cup {None}
    /\ loop \in [at : LoopStages, attempt : 0..AttemptCap, wake : Nat]
    /\ update \in Updates /\ sla \in Colors /\ stalled \in BOOLEAN
    /\ asking \in {NotAsked} \cup
           [ticker : Tickers, color : Colors, at : Nat, fresh : BOOLEAN]
    /\ gate \in [Tickers -> [color : Colors, redSince : Nat \cup {None},
                             greenSince : Nat \cup {None}, blocked : BOOLEAN]]
    /\ log \in [Tickers -> Seq(Asking)]

\* A red colour is the truth about the feed: it has not delivered a bar for
\* longer than AgeRed, whatever bars, failures and reconnects came in which
\* order since the age was last read; the one exception is a bar whose update
\* is still on its way, or was so slow that its own age was red.
RedIsReal ==
    sla = "red" => lastBar # None /\ (now - lastBar > AgeRed \/ Reviving \/ stalled)

\* The gate is a function of what it was asked: closed exactly when the last
\* stretch of askings of one colour that was long enough to decide was red.
GateFollowsAskings ==
    mode # "off" =>
        \A t \in Tickers : gate[t].blocked = ClosedAfter(log[t], Len(log[t]))

\* Only an enforcing gate refuses an entry, and only one that had seen the
\* feed dead at askings RedMin apart, with no decisive recovery since.
RefusalsFollowAskings ==
    \A t \in Tickers : \A i \in 1..Len(log[t]) :
        log[t][i].answer = "block" <=> mode = "enforce" /\ ClosedAfter(log[t], i)

\* A gate closes only on a feed that is dead at that moment, or was when the
\* call that closes it read the colour and a bar has come since: a colour
\* sampled before an earlier bar never closes one.  A bar whose update had not
\* reached the colour when it was read is excepted as in RedIsReal.
ClosesOnDeadFeed ==
    [][\A t \in Tickers :
         ~gate[t].blocked /\ gate'[t].blocked =>
             now - lastBar > AgeRed \/ lastBar >= asking.at \/ asking.fresh]_ingestVars
=============================================================================
