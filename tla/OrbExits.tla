------------------------------ MODULE OrbExits ------------------------------
(***************************************************************************)
(* The exit rules of one position, twice: orb/exits.py as the scan calls   *)
(* it, every few seconds, on the high and the low of the last bar its      *)
(* source has and on a live quote; and the loop of tools/orb_backtest.py,  *)
(* which takes each finished bar once.                                     *)
(*                                                                         *)
(* The bar and the quote come from two services and two moments: the bar   *)
(* is the one the source ends with, forming or finished, and at the entry  *)
(* the one before it; the quote is any price, inside the bar or not.  A    *)
(* source that falls back to an older bar is left out.                     *)
(*                                                                         *)
(* A price is its distance from the entry in the direction of the trade,   *)
(* so that the mirrored branches of a short are those of a long.  Slippage *)
(* and the levers only the backtest has (2R and 3R partials, trails, VWAP) *)
(* are left out; they are off by default.  So is a position restored from  *)
(* the snapshot, whose MFE is not in it.                                   *)
(***************************************************************************)
EXTENDS Integers, FiniteSets

CONSTANTS
    Prices,         \* what a trade may print
    R,              \* the risk: entry minus the original stop
    Target,         \* rr * R
    Lot,            \* shares of the entry
    CircuitMfe, CircuitGiveback,   \* reversal_circuit_min_*, 0 is off
    Floor,          \* stale_full_exit_mfe_floor_r, 0 is off
    PrepMin, StaleMin, EodMin,     \* time exits; 0 is off for the first two
    LastBar         \* bound of the runs

ASSUME ExitConstants ==
    /\ Prices \subseteq Int /\ 0 \in Prices
    /\ R \in Nat \ {0} /\ Target \in Nat /\ Target > R /\ Lot \in Nat \ {0}
    /\ {CircuitMfe, CircuitGiveback, Floor, PrepMin, StaleMin} \subseteq Nat
    /\ EodMin \in Nat \ {0} /\ LastBar \in Nat /\ LastBar >= EodMin

VARIABLES
    minute,     \* of the bar; 0 is the minute before the entry
    bar,        \* the last bar of the source: open, high, low, last price
    live,       \* the OrbPosition in the engine
    back,       \* the variables of the backtest's loop
    seen,       \* a cycle has read the bar as it is
    plain       \* no bar or quote yet that may tell the two apart

exitVars == <<minute, bar, live, back, seen, plain>>

Highest(a, b) == IF a > b THEN a ELSE b
Lowest(a, b) == IF a < b THEN a ELSE b

OpenBar(p) == [open |-> p, high |-> p, low |-> p, close |-> p]
Printed(b, p) == [b EXCEPT !.high = Highest(@, p), !.low = Lowest(@, p), !.close = p]

\* What a cycle hands to the rules: the bar with the quote for its close, or
\* the quote alone when the source has no prices yet for its last minute.
Quoted(b, q) == [b EXCEPT !.close = q]
Readings(b, q) == {Quoted(b, q), OpenBar(q)}

NotYet == [reason |-> "none", price |-> 0, minute |-> 0]

\* make_position
Fresh == [stop |-> -R, be |-> FALSE, shares |-> Lot, partial |-> FALSE, booked |-> 0,
          mfe |-> 0, exit |-> NotYet]

IsOpen(p) == p.exit = NotYet

(***************************************************************************)
(* What the rules ask of a position, a bar and a minute.                   *)
(***************************************************************************)
\* The high of the bar counts for the MFE, and maybe_arm_be moves the stop.
Armed(p, b) ==
    [p EXCEPT !.mfe = Highest(@, b.high),
              !.be = @ \/ b.high >= R,
              !.stop = IF ~p.be /\ b.high >= R THEN 0 ELSE @]

ReversalDue(p, price) ==
    /\ CircuitMfe > 0 /\ CircuitGiveback > 0
    /\ p.mfe >= CircuitMfe /\ p.mfe - price >= CircuitGiveback
PartialDue(p, b) == ~p.partial /\ p.shares >= 2 /\ b.high >= R
StopDue(p, b) == b.low <= p.stop
TargetDue(b) == b.high >= Target
PrepDue(p, m) == PrepMin > 0 /\ p.partial /\ m >= PrepMin
StaleDue(p, m) == StaleMin > 0 /\ ~p.partial /\ m >= StaleMin /\ (Floor <= 0 \/ p.mfe < Floor)

\* apply_partial_fill
Halved(p) ==
    [p EXCEPT !.shares = @ - p.shares \div 2, !.partial = TRUE,
              !.booked = @ + R * (p.shares \div 2)]

Closed(p, reason, price, m) ==
    [p EXCEPT !.exit = [reason |-> reason, price |-> price, minute |-> m]]

StopReason(p) == IF p.be THEN "be_stop" ELSE "stop"

(***************************************************************************)
(* exits.evaluate, with what check_exit does to the position.  The close   *)
(* of what it evaluates is the quote.                                      *)
(***************************************************************************)
\* The rules that close a position at the quote, in order.
TimeReason(p, m) ==
    IF PrepDue(p, m) THEN "runner_eod_prep"
    ELSE IF StaleDue(p, m) THEN "stale_full_exit"
    ELSE IF m >= EodMin THEN "eod"
    ELSE "none"

AtClose(p, b, m) ==
    IF TimeReason(p, m) = "none" THEN p ELSE Closed(p, TimeReason(p, m), b.close, m)

\* Mutant: the clock is looked at before the stop.
DecidedTimeFirst(p, b, m) ==
    IF ReversalDue(p, b.close) THEN Closed(p, "reversal_circuit", b.close, m)
    ELSE IF PartialDue(p, b) THEN Halved(p)
    ELSE IF TimeReason(p, m) # "none" THEN AtClose(p, b, m)
    ELSE IF StopDue(p, b) THEN Closed(p, StopReason(p), p.stop, m)
    ELSE IF TargetDue(b) THEN Closed(p, "target", Target, m)
    ELSE p

\* Mutant: the target is compared with the quote.
DecidedTargetAtClose(p, b, m) ==
    IF ReversalDue(p, b.close) THEN Closed(p, "reversal_circuit", b.close, m)
    ELSE IF PartialDue(p, b) THEN Halved(p)
    ELSE IF StopDue(p, b) THEN Closed(p, StopReason(p), p.stop, m)
    ELSE IF b.close >= Target THEN Closed(p, "target", Target, m)
    ELSE AtClose(p, b, m)

Decided(p, b, m) ==
    IF ReversalDue(p, b.close) THEN Closed(p, "reversal_circuit", b.close, m)
    ELSE IF PartialDue(p, b) THEN Halved(p)
    ELSE IF StopDue(p, b) THEN Closed(p, StopReason(p), p.stop, m)
    ELSE IF TargetDue(b) THEN Closed(p, "target", Target, m)
    ELSE AtClose(p, b, m)

Evaluated(p, b, m) == Decided(Armed(p, b), b, m)

(***************************************************************************)
(* One pass of the backtest's loop over a finished bar.                    *)
(***************************************************************************)
\* A stop fills at the open of a bar that opens beyond it, and so does a target.
StopFill(p, b) == Lowest(b.open, p.stop)
TargetFill(b) == Highest(b.open, Target)

\* Break-even and half, in the same pass.
Advanced(p, b) == IF PartialDue(p, b) THEN Halved(Armed(p, b)) ELSE Armed(p, b)

\* The stop as it was, then break-even and half, then the target, and the
\* MFE with the rules at the close last.
Replayed(p, b, m) ==
    LET q == Advanced(p, b) IN
    IF StopDue(p, b) THEN Closed(p, StopReason(p), StopFill(p, b), m)
    ELSE IF TargetDue(b) THEN Closed(q, "target", TargetFill(b), m)
    ELSE IF ReversalDue(q, b.close) THEN Closed(q, "reversal_circuit", b.close, m)
    ELSE AtClose(q, b, m)

(***************************************************************************)
(* How a finished bar may tell the two apart.                              *)
(***************************************************************************)
\* What the bar touches of a position, at whatever moment.
Touched(p, b, m) ==
    {x \in {"stop", "oneR", "target", "circuit", "floor", "time"} :
        CASE x = "stop" -> b.low <= Armed(p, b).stop
          [] x = "oneR" -> ~p.be /\ b.high >= R
          [] x = "target" -> TargetDue(b)
          [] x = "circuit" -> ReversalDue(Armed(p, b), b.low)
          [] x = "floor" -> StaleMin > 0 /\ m >= StaleMin /\ p.mfe < Floor /\ b.high >= Floor
          [] x = "time" -> {TimeReason(p, m), TimeReason(Advanced(p, b), m)} # {"none"}}

\* The bar gave back enough for the circuit, and closed above it: a cycle may
\* have seen it, the backtest has only the close.
Recovered(p, b) == ReversalDue(Armed(p, b), b.low) /\ ~ReversalDue(Armed(p, b), b.close)

Plain(p, b, m) == Cardinality(Touched(p, b, m)) <= 1 /\ ~Recovered(p, b)

-----------------------------------------------------------------------------

ExitInit ==
    /\ minute = 0 /\ bar \in {OpenBar(p) : p \in Prices}
    /\ live = Fresh /\ back = Fresh
    /\ seen = FALSE /\ plain = TRUE

\* The source takes a trade into its last bar.
Trade(p) ==
    /\ p # bar.close
    /\ bar' = Printed(bar, p) /\ seen' = FALSE
    /\ UNCHANGED <<minute, live, back, plain>>

\* A reading shows the engine no more than the bar shows the backtest: the
\* quote stands where the last price does of the circuit, and the bar before
\* the entry leaves no trace.
Fair(r) ==
    IF minute = 0 THEN Evaluated(live, r, minute) = live
    ELSE /\ r = Quoted(bar, r.close)
         /\ ReversalDue(Armed(live, bar), r.close) <=> ReversalDue(Armed(live, bar), bar.close)

\* The exit pass of a cycle, on the last bar of the fetch and a quote.
Cycle(r) ==
    /\ IsOpen(live)
    /\ live' = Evaluated(live, r, minute)
    /\ seen' = (seen \/ r = Quoted(bar, r.close))
    /\ plain' = (plain /\ Fair(r))
    /\ UNCHANGED <<minute, bar, back>>

\* The source goes on to the next minute: the backtest, which enters at the
\* open of minute 1, has the whole bar, and the scan what its cycles read.
NextMinute(p) ==
    /\ IsOpen(live) \/ IsOpen(back)
    /\ minute < LastBar /\ (minute = 0 => p = 0)
    /\ minute' = minute + 1 /\ bar' = OpenBar(p) /\ seen' = FALSE
    /\ back' = IF minute > 0 /\ IsOpen(back) THEN Replayed(back, bar, minute) ELSE back
    /\ plain' = (plain /\ (minute > 0 /\ IsOpen(back) =>
                           /\ seen \/ ~IsOpen(live)
                           /\ Plain(back, bar, minute)))
    /\ UNCHANGED live

ExitNext ==
    \E p \in Prices : Trade(p) \/ NextMinute(p) \/ \E r \in Readings(bar, p) : Cycle(r)

ExitSpec == ExitInit /\ [][ExitNext]_exitVars

(***************************************************************************)
(* Properties                                                              *)
(***************************************************************************)
Reasons ==
    {"none", "reversal_circuit", "stop", "be_stop", "target", "runner_eod_prep",
     "stale_full_exit", "eod"}

Positions ==
    [stop : {-R, 0}, be : BOOLEAN, shares : 1..Lot, partial : BOOLEAN, booked : Nat, mfe : Int,
     exit : [reason : Reasons, price : Int, minute : 0..LastBar]]

\* Types of the variables.
ExitTypeOK ==
    /\ minute \in 0..LastBar
    /\ bar \in [open : Int, high : Int, low : Int, close : Int]
    /\ live \in Positions /\ back \in Positions
    /\ {seen, plain} \subseteq BOOLEAN

\* Once the engine has seen 1R the rest of the position is not sold at a loss,
\* in whatever cycle of whatever bar and at whatever quote it leaves, but by the
\* circuit breaker, which comes before the stop, or by a rule of the clock while
\* the bar of that cycle lies wholly above the entry: the stop looks at the bar
\* and the clock sells at the quote.
ProtectedAfterOneR ==
    [][IsOpen(live) /\ ~IsOpen(live') /\ live'.be =>
          \/ live'.exit.price >= 0
          \/ live'.exit.reason = "reversal_circuit"
          \/ live'.exit.reason = TimeReason(live', minute) /\ bar.low > 0]_exitVars

\* "This matches the backtest": as long as each bar touches one level at most,
\* the last cycle of a minute read all of its bar, and no quote crossed the
\* circuit alone, the position leaves in the same minute for the same reason
\* with the same shares.
MatchesOnPlainBars ==
    plain /\ ~IsOpen(back) =>
        /\ live.exit.reason = back.exit.reason /\ live.exit.minute = back.exit.minute
        /\ live.shares = back.shares
=============================================================================
