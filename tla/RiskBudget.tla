----------------------------- MODULE RiskBudget -----------------------------
(***************************************************************************)
(* What a portfolio's risk book promises, without its counters: holders    *)
(* draw dollars from a shared budget and hand them back, all at once or    *)
(* piece by piece, and what is held never exceeds the capacity.            *)
(***************************************************************************)
EXTENDS Integers, Totals

CONSTANTS Holders, Capacity

VARIABLE held  \* dollars per present holder

Init == DOMAIN held = {}

\* A new holder draws what is left at most.
Draw(x) ==
    /\ x \notin DOMAIN held
    /\ DOMAIN held' = DOMAIN held \cup {x}
    /\ \A y \in DOMAIN held : held'[y] = held[y]
    /\ Total(held') <= Capacity

\* A holder hands part of its dollars back.
Reduce(x) ==
    /\ x \in DOMAIN held
    /\ DOMAIN held' = DOMAIN held
    /\ held'[x] \in 0 .. held[x]
    /\ \A y \in DOMAIN held \ {x} : held'[y] = held[y]

\* A holder leaves with everything it held.
Leave(x) ==
    /\ x \in DOMAIN held
    /\ DOMAIN held' = DOMAIN held \ {x}
    /\ \A y \in DOMAIN held' : held'[y] = held[y]

\* A new session: everybody leaves.
Clear == DOMAIN held' = {}

Next ==
    \/ \E x \in Holders : Draw(x) \/ Reduce(x) \/ Leave(x)
    \/ Clear

Spec == Init /\ [][Next]_held
=============================================================================
