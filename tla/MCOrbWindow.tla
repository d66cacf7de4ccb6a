---------------------------- MODULE MCOrbWindow ----------------------------
(* Small instances of OrbWindow: a range of four minutes, of which two are *)
(* enough, one minute before it and one after it.                          *)
EXTENDS OrbWindow
=============================================================================
