---------------------------- MODULE MCSentinel ----------------------------
(***************************************************************************)
(* Sentinel for TLC: a stop two units below the entry, deep at three, an   *)
(* ATR of two, a pad too small to count.                                   *)
(***************************************************************************)
EXTENDS Sentinel

MCGains == {-6, -3, 0, 3, 4}
MCWide == [a \in Atrs |-> (3 * a) \div 2]
MCTight == [a \in Atrs |-> (7 * a) \div 10]
MCStep == [a \in Atrs |-> a \div 2]
=============================================================================
