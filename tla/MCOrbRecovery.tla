--------------------------- MODULE MCOrbRecovery ---------------------------
(* Small instances of OrbRecovery: one ticker, lots of two shares.         *)
EXTENDS OrbRecovery, TLC
MCTicketIds == (Uuids \cup {<<"inject", t>> : t \in Tickers}) \X (0..MaxRestarts)
MCPairs == Tickers \X {"long", "short"}
MCLong == {"long"}
MCLegs == {-2, 1}
MCLosses == {-2}
=============================================================================
