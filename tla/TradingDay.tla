----------------------------- MODULE TradingDay -----------------------------
(***************************************************************************)
(* What the opening-range engine promises about a day, without windows,    *)
(* tickets, adapters or dollars: a slot for each portfolio and ticker that *)
(* holds at most one position, a count of the trades it has used, and a    *)
(* halt per portfolio that nothing but a new day lifts.                    *)
(***************************************************************************)
EXTENDS Naturals

CONSTANTS Pids, Tickers, MaxTrades

VARIABLES
    slot,    \* "free", "held" or "shut"
    used,    \* closed trades of the day
    halted   \* no entry any more today

vars == <<slot, used, halted>>

Slots == Pids \X Tickers

\* A new day forgets trades and halts; what is shut from the start is shut.
NewDay(slots) ==
    /\ slot = slots
    /\ used = [s \in Slots |-> 0]
    /\ halted = [p \in Pids |-> FALSE]

Init == \E slots \in [Slots -> {"free", "shut"}] : NewDay(slots)

StartDay ==
    /\ slot' \in [Slots -> {"free", "shut"}]
    /\ used' = [s \in Slots |-> 0]
    /\ halted' = [p \in Pids |-> FALSE]

Enter(s) ==
    /\ slot[s] = "free"
    /\ used[s] < MaxTrades
    /\ ~halted[s[1]]
    /\ slot' = [slot EXCEPT ![s] = "held"]
    /\ UNCHANGED <<used, halted>>

\* The entry turns out not to have happened.
Cancel(s) ==
    /\ slot[s] = "held"
    /\ slot' = [slot EXCEPT ![s] = "free"]
    /\ UNCHANGED <<used, halted>>

\* A set of free slots is shut for the day.
Shut(gone) ==
    /\ \A s \in gone : slot[s] = "free"
    /\ slot' = [s \in Slots |-> IF s \in gone THEN "shut" ELSE slot[s]]
    /\ UNCHANGED <<used, halted>>

\* A position closes.  When the loss halts the portfolio, every slot of it
\* that holds nothing, the one just closed included, is shut.
Close(s, halt) ==
    /\ slot[s] = "held"
    /\ slot' = [q \in Slots |->
                  IF halt /\ q[1] = s[1] /\ (q = s \/ slot[q] = "free") THEN "shut"
                  ELSE IF q = s THEN "free" ELSE slot[q]]
    /\ used' = [used EXCEPT ![s] = @ + 1]
    /\ halted' = [halted EXCEPT ![s[1]] = @ \/ halt]

Next ==
    \/ StartDay
    \/ \E gone \in SUBSET Slots : Shut(gone)
    \/ \E s \in Slots : Enter(s) \/ Cancel(s) \/ \E halt \in BOOLEAN : Close(s, halt)

Spec == Init /\ [][Next]_vars
=============================================================================
