------------------------------- MODULE Totals -------------------------------
(***************************************************************************)
(* The sum of an integer-valued function, as a difference of two counts:   *)
(* the units of its positive values and those of its negative ones.  It is *)
(* the sum SumFunction of the community modules computes; counted, it can  *)
(* be reasoned about with what is known of finite sets.                    *)
(***************************************************************************)
EXTENDS Integers, FiniteSets

\* One element per unit of a positive value.
Units(f) == UNION {{x} \X (1 .. f[x]) : x \in DOMAIN f}

Negated(f) == [x \in DOMAIN f |-> -f[x]]

Total(f) == Cardinality(Units(f)) - Cardinality(Units(Negated(f)))
=============================================================================
