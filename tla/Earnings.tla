----------------------------- MODULE Earnings -----------------------------
(***************************************************************************)
(* The earnings watcher: earnings_watcher/runner.py with its position file *)
(* (state.py), its exit rules (exits.py, exits_atr.py) and its entries in  *)
(* the portfolio books (portfolio_bridge.py), over one day.                *)
(*                                                                         *)
(* One thread runs all of it.  Each minute the scheduler calls the exit    *)
(* cycle and, inside a window, the window cycle.  Two JSON files survive a *)
(* crash: open_positions.json and evaluated_today.json.  The key of the    *)
(* last window and the rows of the books (those of Val and Gene) are lost; *)
(* every write of a file, every order and every book entry is a step of    *)
(* its own, so that the process may die between any two.                   *)
(*                                                                         *)
(* The watcher reads of the broker only whether it raised: what becomes of *)
(* an accepted order is never asked.  What the strategies see in the bars  *)
(* is an input: too few, nothing yet, nothing any more, or a breakout with *)
(* a direction and a conviction.  A bar is given by its moves from the     *)
(* entry price.  The account's equity is read at the start of every window *)
(* cycle and is any of Equities, 0 when it could not be read; shares of it *)
(* are whole numbers.  Tickers are visited in any order.  life, sent and   *)
(* disagreed are history no code reads.                                    *)
(***************************************************************************)
EXTENDS Integers, Sequences, FiniteSets, Totals

CONSTANTS
    Symbols, Bmo, Amc,       \* the day's universe of each window
    Premarket, Afterhours,   \* the minutes of the windows
    Session,                 \* the minutes in which a strategy lets a bar be
    Equities,                \* what get_account_equity may return, None as 0
    Convs, Share,            \* convictions; share of the equity by strategy and conviction
    CapShare, MinShare,      \* DMI_MAX_PORTFOLIO_EXPOSURE_PCT, DMI_MIN_POSITION_PCT
    Hard, Trigger, Trail,    \* stop, trail trigger and trail distance by strategy
    TimeStop, WickFrom,      \* by strategy; the age from which a wick counts
    Bars,                    \* moves of a bar from the entry: low, close, high
    BarLag,                  \* the latest bar is at most this old
    MaxTime, MaxCrashes      \* bounds of the runs

Precedence == <<"dmi", "pmr", "pmc">>      \* STRATEGIES, in its order
Strategies == {"dmi", "pmr", "pmc"}
Windows == {"premarket", "afterhours"}
Sides == {"long", "short"}

ASSUME EarningsConstants ==
    /\ Bmo \subseteq Symbols /\ Amc \subseteq Symbols /\ IsFiniteSet(Symbols)
    /\ Premarket \cup Afterhours \subseteq 1..MaxTime
    /\ \A p \in Premarket, q \in Afterhours : p < q
    /\ Session \in [Strategies -> SUBSET Nat]
    /\ Equities \subseteq Nat
    /\ Convs \subseteq Nat /\ Share \in [Strategies -> [Convs -> Nat \ {0}]]
    /\ {CapShare, MinShare} \subseteq Nat \ {0}
    /\ {BarLag, WickFrom, MaxTime, MaxCrashes} \subseteq Nat
    /\ {Hard, Trigger, Trail, TimeStop} \subseteq [Strategies -> Nat]
    /\ Bars \subseteq [low : Int, close : Int, high : Int]

VARIABLES
    now,        \* minutes
    file,       \* open_positions.json
    evaluated,  \* evaluated_today.json, today
    lastKey,    \* _last_window_key
    thread,     \* where the scheduler's thread is
    rows,       \* the watcher's rows in a book: ticker and side
    life, sent, disagreed

ewVars == <<now, file, evaluated, lastKey, thread, rows, life, sent, disagreed>>

NoPosition == [side |-> "none"]
NoKey == "none"
Idle == [at |-> "idle"]

WindowAt(t) ==
    IF t \in Premarket THEN "premarket" ELSE IF t \in Afterhours THEN "afterhours" ELSE NoKey

\* STRATEGIES[s]["windows"], with PMR and PMC switched on.
Active(w) == IF w = "premarket" THEN {"dmi", "pmr"} ELSE {"dmi", "pmc"}

Universe(w) == IF w = "premarket" THEN Bmo ELSE Amc

Held == {t \in Symbols : file[t] # NoPosition}

\* sum of the notionals of the position file
Exposure == Total([t \in Held |-> file[t].notional])

EwInit ==
    /\ now = 0
    /\ file = [t \in Symbols |-> NoPosition]
    /\ evaluated = [w \in Windows |-> [s \in Strategies |-> {}]]
    /\ lastKey = NoKey /\ thread = [at |-> "boot"] /\ rows = {}
    /\ life = 0 /\ sent = {} /\ disagreed = {}

-----------------------------------------------------------------------------
(* The scheduler and the start of its two cycles. *)

\* Mutant: the reconciler is not called.
GraftedNone(r) ==
    r

\* reconcile_ew_books_with_state: rows the books lack.
Grafted(r) ==
    r \cup {<<t, file[t].side>> : t \in Held}

\* The scheduler's minute: run_exit_cycle comes first, whatever the hour.
ExitCycle ==
    /\ thread.at \in {"boot", "idle"}
    /\ now' = IF now < MaxTime THEN now + 1 ELSE now
    /\ rows' = Grafted(rows)
    /\ thread' = [at |-> "manage", cycle |-> "exit", todo |-> Held]
    /\ UNCHANGED <<file, evaluated, lastKey, life, sent, disagreed>>

\* run_window_cycle up to its loop: a new window, or a new process, forgets
\* what was evaluated.
WindowCycle ==
    LET w == WindowAt(now) IN
    /\ thread.at = "manage" /\ thread.todo = {} /\ thread.cycle = "exit"
    /\ w # NoKey
    /\ lastKey' = w
    /\ evaluated' = IF lastKey = w THEN evaluated
                    ELSE [evaluated EXCEPT ![w] = [s \in Strategies |-> {}]]
    /\ rows' = Grafted(rows)
    /\ \E equity \in Equities :
         thread' = [at |-> "entries", window |-> w, todo |-> Universe(w),
                    equity |-> equity, exposure |-> Exposure]
    /\ UNCHANGED <<now, file, life, sent, disagreed>>

\* The end of the last manage_open_positions of a minute.
CycleEnds ==
    /\ thread.at = "manage" /\ thread.todo = {}
    /\ thread.cycle = "window" \/ WindowAt(now) = NoKey
    /\ thread' = Idle
    /\ UNCHANGED <<now, file, evaluated, lastKey, rows, life, sent, disagreed>>

-----------------------------------------------------------------------------
(* Entries. *)

\* What one strategy's bars may show it.
Signals == [kind : {"retry", "terminal"}] \cup [kind : {"break"}, side : Sides, conv : Convs]

\* The cap on all open notionals together, as the equity of a cycle has it.
CapOf(equity) == CapShare * equity

\* Mutant: the cap is checked for the position alone.
SizedAlone(s, conv, equity, exposure) ==
    IF Share[s][conv] * equity <= CapOf(equity) THEN Share[s][conv] * equity ELSE 0

\* dmi_sized_notional and its two copies: scaled to the room under the cap,
\* nothing without equity or when the room is not worth a trade.
Sized(s, conv, equity, exposure) ==
    LET proposed == Share[s][conv] * equity
        room == CapOf(equity) - exposure IN
    IF equity = 0 THEN 0
    ELSE IF proposed <= room THEN proposed
    ELSE IF room < MinShare * equity THEN 0 ELSE room

\* The intent an evaluator returns, if any.
Intents(seen, equity, exposure) ==
    LET Notional(s) == Sized(s, seen[s].conv, equity, exposure)
        fires == {s \in DOMAIN seen : seen[s].kind = "break" /\ Notional(s) > 0} IN
    [s \in fires |-> [side |-> seen[s].side, conv |-> seen[s].conv, notional |-> Notional(s)]]

\* The strategies that give a ticker up for this window.  A breakout that
\* could not be sized is final for DMI; PMR and PMC call it no_break_yet.
GivenUp(seen, fired) ==
    {s \in DOMAIN seen \ fired : \/ seen[s].kind = "terminal"
                                 \/ s = "dmi" /\ seen[s].kind = "break"}

\* _resolve_intent_conflict: the highest conviction, the first of equals.
Index(s) == CHOOSE i \in 1..Len(Precedence) : Precedence[i] = s
Chosen(intents) ==
    CHOOSE s \in DOMAIN intents : \A o \in DOMAIN intents :
        \/ intents[s].conv > intents[o].conv
        \/ intents[s].conv = intents[o].conv /\ Index(s) <= Index(o)

Disagree(intents) == \E s, o \in DOMAIN intents : intents[s].side # intents[o].side

\* Mutant: nothing is saved as evaluated.
MarkedNone(w, strategies, t) ==
    evaluated

\* mark_ticker_evaluated
Marked(w, strategies, t) ==
    [evaluated EXCEPT ![w] = [s \in Strategies |->
        IF s \in strategies THEN @[s] \cup {t} ELSE @[s]]]

\* The strategies a ticker's signal settles: those in conflict, or those that
\* gave it up and the chosen one.
Settles(seen, intents) ==
    IF Disagree(intents) THEN DOMAIN intents
    ELSE GivenUp(seen, DOMAIN intents) \cup
         (IF DOMAIN intents = {} THEN {} ELSE {Chosen(intents)})

Candidates(w, t) == {s \in Active(w) : t \notin evaluated[w][s]}

Stamp(w, t, strategies) ==
    {[window |-> w, ticker |-> t, strategy |-> s, life |-> life] : s \in strategies}

\* One ticker of the loop, up to the order.
Evaluate(t) ==
    LET w == thread.window
        rest == [thread EXCEPT !.todo = @ \ {t}] IN
    /\ thread.at = "entries" /\ t \in thread.todo
    /\ \/ /\ t \in Held \/ Candidates(w, t) = {}
          /\ thread' = rest /\ UNCHANGED <<evaluated, disagreed>>
       \/ /\ t \notin Held /\ Candidates(w, t) # {}
          /\ \E seen \in [Candidates(w, t) -> Signals] :
               LET intents == Intents(seen, thread.equity, thread.exposure) IN
               /\ evaluated' = Marked(w, Settles(seen, intents), t)
               /\ IF DOMAIN intents = {} \/ Disagree(intents)
                  THEN thread' = rest
                  ELSE LET s == Chosen(intents) IN
                       thread' = [at |-> "submit", window |-> w, todo |-> rest.todo,
                                  equity |-> thread.equity, exposure |-> thread.exposure,
                                  ticker |-> t, strategy |-> s, intent |-> intents[s]]
               /\ disagreed' = IF Disagree(intents)
                               THEN disagreed \cup Stamp(w, t, DOMAIN intents)
                               ELSE disagreed
    /\ UNCHANGED <<now, file, lastKey, rows, life, sent>>

\* submit_dmi_order: accepted, or an exception, after which the order may
\* be at the broker all the same.
SubmitOrder ==
    /\ thread.at = "submit"
    /\ sent' = sent \cup Stamp(thread.window, thread.ticker, {thread.strategy})
    /\ thread' \in {[thread EXCEPT !.at = "add"],
                    [at |-> "entries", window |-> thread.window, todo |-> thread.todo,
                     equity |-> thread.equity, exposure |-> thread.exposure]}
    /\ UNCHANGED <<now, file, evaluated, lastKey, rows, life, disagreed>>

\* add_position
Add ==
    /\ thread.at = "add"
    /\ file' = [file EXCEPT ![thread.ticker] =
           [side |-> thread.intent.side, strategy |-> thread.strategy, since |-> now,
            notional |-> thread.intent.notional, armed |-> FALSE, stop |-> 0]]
    /\ thread' = [thread EXCEPT !.at = "book", !.exposure = @ + thread.intent.notional]
    /\ UNCHANGED <<now, evaluated, lastKey, rows, life, sent, disagreed>>

\* record_ew_entry
Book ==
    /\ thread.at = "book"
    /\ rows' = rows \cup {<<thread.ticker, thread.intent.side>>}
    /\ thread' = [at |-> "entries", window |-> thread.window, todo |-> thread.todo,
                  equity |-> thread.equity, exposure |-> thread.exposure]
    /\ UNCHANGED <<now, file, evaluated, lastKey, life, sent, disagreed>>

\* The loop is over; manage_open_positions follows.
EntriesEnd ==
    /\ thread.at = "entries" /\ thread.todo = {}
    /\ thread' = [at |-> "manage", cycle |-> "window", todo |-> Held]
    /\ UNCHANGED <<now, file, evaluated, lastKey, rows, life, sent, disagreed>>

-----------------------------------------------------------------------------
(* Exits. *)

\* The side the exit rule takes the position for.  evaluate_exit_atr reads
\* side; evaluate_exit reads direction, which no record has, and falls back
\* to long.
TakenFor(p) == IF p.strategy = "dmi" THEN "long" ELSE p.side

\* The move of the close and the worst move, in favour of side.
Gain(side, bar) == IF side = "long" THEN bar.close ELSE -bar.close
Worst(side, bar, age) ==
    IF age < WickFrom THEN Gain(side, bar)
    ELSE IF side = "long" THEN bar.low ELSE -bar.high

\* The trail a bar leaves behind.
Trailed(p, gain) ==
    IF gain < Trigger[p.strategy] THEN p
    ELSE [p EXCEPT !.armed = TRUE,
                   !.stop = IF gain - Trail[p.strategy] > @ THEN gain - Trail[p.strategy] ELSE @]

\* evaluate_exit and evaluate_exit_atr: why the position is closed.
Cause(p, bar, at) ==
    LET age == now - p.since
        side == TakenFor(p)
        trail == Trailed(p, Gain(side, bar)) IN
    IF at \notin Session[p.strategy] THEN "session_end"
    ELSE IF Worst(side, bar, age) <= -Hard[p.strategy] THEN "hard_stop"
    ELSE IF trail.armed /\ Gain(side, bar) <= trail.stop THEN "trail"
    ELSE IF age >= TimeStop[p.strategy] THEN "time"
    ELSE "none"

\* No bar in the last three minutes: the position is left for the next cycle.
NoBars(t) ==
    /\ thread.at = "manage" /\ t \in thread.todo
    /\ thread' = [thread EXCEPT !.todo = @ \ {t}]
    /\ UNCHANGED <<now, file, evaluated, lastKey, rows, life, sent, disagreed>>

\* A bar: the close order goes out, refused or not, or the trail is saved.
Manage(t) ==
    /\ thread.at = "manage" /\ t \in thread.todo
    /\ \E bar \in Bars, at \in {m \in 0..now : now - m <= BarLag} :
         IF Cause(file[t], bar, at) = "none"
         THEN /\ file' = [file EXCEPT ![t] = Trailed(@, Gain(TakenFor(@), bar))]
              /\ thread' = [thread EXCEPT !.todo = @ \ {t}]
         ELSE /\ thread' = [at |-> "ordered", cycle |-> thread.cycle,
                            todo |-> thread.todo \ {t}, ticker |-> t]
              /\ UNCHANGED file
    /\ UNCHANGED <<now, evaluated, lastKey, rows, life, sent, disagreed>>

\* record_ew_exit
Unbook ==
    /\ thread.at = "ordered"
    /\ rows' = rows \ {<<thread.ticker, file[thread.ticker].side>>}
    /\ thread' = [at |-> "unbooked", cycle |-> thread.cycle, todo |-> thread.todo,
                  ticker |-> thread.ticker]
    /\ UNCHANGED <<now, file, evaluated, lastKey, life, sent, disagreed>>

\* Mutant: the removal is not saved.
RemoveUnsaved ==
    /\ thread.at = "unbooked"
    /\ thread' = [at |-> "manage", cycle |-> thread.cycle, todo |-> thread.todo]
    /\ UNCHANGED <<now, file, evaluated, lastKey, rows, life, sent, disagreed>>

\* remove_position
Remove ==
    /\ thread.at = "unbooked"
    /\ file' = [file EXCEPT ![thread.ticker] = NoPosition]
    /\ thread' = [at |-> "manage", cycle |-> thread.cycle, todo |-> thread.todo]
    /\ UNCHANGED <<now, evaluated, lastKey, rows, life, sent, disagreed>>

-----------------------------------------------------------------------------

\* The process dies and is started again: the two files are what is left.
EwCrash ==
    /\ life < MaxCrashes
    /\ life' = life + 1
    /\ lastKey' = NoKey /\ rows' = {} /\ thread' = [at |-> "boot"]
    /\ UNCHANGED <<now, file, evaluated, sent, disagreed>>

Work ==
    \/ ExitCycle \/ WindowCycle \/ CycleEnds
    \/ \E t \in Symbols : Evaluate(t)
    \/ SubmitOrder \/ Add \/ Book \/ EntriesEnd
    \/ \E t \in Symbols : NoBars(t) \/ Manage(t)
    \/ Unbook \/ Remove

EwNext == Work \/ EwCrash

EwSpec == EwInit /\ [][EwNext]_ewVars

\* The scheduler's thread keeps running, and a ticker that is asked for again
\* and again has a recent bar at last.
EwFairSpec == EwSpec /\ WF_ewVars(Work) /\ \A t \in Symbols : SF_ewVars(Manage(t))
-----------------------------------------------------------------------------
(* Properties. *)

Positions ==
    [side : Sides, strategy : Strategies, since : 0..MaxTime, notional : Nat \ {0},
     armed : BOOLEAN, stop : Nat]

Stages == {"boot", "idle", "manage", "entries", "submit", "add", "book", "ordered", "unbooked"}

\* Types: what the files and the books may hold, and a thread that works on a
\* ticker of the universe of the window it is in.
EwTypeOK ==
    /\ now \in 0..MaxTime /\ life \in 0..MaxCrashes
    /\ file \in [Symbols -> {NoPosition} \cup Positions]
    /\ evaluated \in [Windows -> [Strategies -> SUBSET Symbols]]
    /\ lastKey \in Windows \cup {NoKey}
    /\ rows \subseteq Symbols \X Sides
    /\ thread.at \in Stages
    /\ thread.at \in {"entries", "submit", "add", "book"} =>
           thread.todo \subseteq Universe(thread.window)
    /\ thread.at \in {"manage", "ordered", "unbooked"} => thread.todo \subseteq Held
    /\ \A r \in sent \cup disagreed : r.strategy \in Active(r.window)

\* The open notionals, over both windows, all strategies and any restart, grow
\* only to what the cap on the equity read by this very cycle allows, however
\* many orders the cycle has sent; they may lie above it when the equity has
\* fallen, and then nothing is added (dmi_sized_notional).
ExposureCapped ==
    [][Exposure' > Exposure =>
           thread.at = "add" /\ Exposure' <= CapOf(thread.equity)]_ewVars

\* When a minute's work is done every book shows exactly the positions of the
\* file, whatever was lost in a crash before (record_ew_entry, record_ew_exit,
\* reconcile_ew_books_with_state).
RowsFollowFile == thread.at = "idle" => rows = {<<t, file[t].side>> : t \in Held}

\* While a process lives, a strategy sends a ticker's order at most once in a
\* window, also after an order that raised and after the position was closed,
\* and none where strategies disagreed on the direction, also when only one
\* of them fires later (the evaluated cache of run_window_cycle).
OnceInALife ==
    thread.at = "submit" =>
      Stamp(thread.window, thread.ticker, {thread.strategy}) \cap (sent \cup disagreed) = {}

\* Every position is closed at last: by a stop, by its time, or because the
\* bar is outside the session.
EveryPositionCloses == \A t \in Symbols : file[t] # NoPosition ~> file[t] = NoPosition
=============================================================================
