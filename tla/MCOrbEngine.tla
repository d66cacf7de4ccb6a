---------------------------- MODULE MCOrbEngine ----------------------------
(* A small instance of OrbEngine: one portfolio with two tickers.          *)
EXTENDS OrbEngine, TLC

MCPairs == Tickers \X Sides
MCRisks == {4}
MCNotionals == {3}
MCEquities == {4, 6}
MCPartialGains == {1}
MCLegs == {-3, 1}
MCGateBlocks == {"blocked_vix", "blocked_earnings"}

Symmetric == Permutations(TicketIds)
=============================================================================
