---------------------------- MODULE MCEarnings ----------------------------
(* Two minutes of premarket and one of the afterhours; the exits of dmi stop  *)
(* in the second, those of pmr and pmc have a session each.  One ticker       *)
(* reports before the open, the other after the close.                        *)
EXTENDS Earnings

CONSTANTS a, b

MCSymbols == {a, b}
MCBmo == {a}
MCAmc == {b}
MCPremarket == {1, 2}
MCAfterhours == {3}
MCSession == [dmi |-> {1, 3}, pmr |-> {1, 2}, pmc |-> {3}]
MCEquities == {0, 1, 2}
MCConvs == {1, 2}
MCShare == [dmi |-> <<3, 3>>, pmr |-> <<2, 2>>, pmc |-> <<2, 2>>]
MCHard == [dmi |-> 3, pmr |-> 2, pmc |-> 2]
MCTrigger == [dmi |-> 2, pmr |-> 1, pmc |-> 1]
MCTrail == [dmi |-> 5, pmr |-> 2, pmc |-> 2]
MCTimeStop == [dmi |-> 1, pmr |-> 1, pmc |-> 1]
MCBars == {[low |-> -3, close |-> 0, high |-> 0], [low |-> 0, close |-> 6, high |-> 6],
           [low |-> 0, close |-> 2, high |-> 3]}
=============================================================================
