--------------------------- MODULE MCOrbRiskBook ---------------------------
(* A small instance of OrbRiskBook: three tickets, two pairs, one leg size *)
(* on each side of the loss lock.                                          *)
EXTENDS OrbRiskBook, Functions, TLC

\* The counts of Totals add up what a fold adds up.
ASSUME TotalIsSum == \A f \in [1..3 -> -2..2] : Total(f) = SumFunction(f)

MCRisks == {2, 4}
MCNotionals == {3}
MCEquities == {4, 8}
MCLegs == {-3, -1, 2}

\* Tickets and pairs are interchangeable.
Symmetric == Permutations(TicketIds) \cup Permutations(Pairs)
=============================================================================
