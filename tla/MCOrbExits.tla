---------------------------- MODULE MCOrbExits ----------------------------
EXTENDS OrbExits

\* In quarters of the risk: beyond the stop, a loss too small for the circuit,
\* the entry, half a risk, 1R, 2R, the target.
MCPrices == {-5, -1, 0, 2, 4, 8, 10}
=============================================================================
