----------------------------- MODULE MCIngest -----------------------------
(***************************************************************************)
(* Ingest for TLC: ages and waits of a few ticks, in the order of the      *)
(* defaults (green age < red age, waits that grow).                        *)
(***************************************************************************)
EXTENDS Ingest

MCBackoff == <<0, 1, 2>>
=============================================================================
