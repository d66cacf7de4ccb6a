--------------------------- MODULE MCEodExecutor ---------------------------
(***************************************************************************)
(* The afternoon for TLC: minutes 1 and 2 are in the entry window, 3 is    *)
(* the sweep, 4 the end-of-day exit.                                       *)
(***************************************************************************)
EXTENDS EodExecutor
=============================================================================
