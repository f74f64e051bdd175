---------------------------- MODULE MCIndexQueue ----------------------------
(***************************************************************************)
(* Instances of IndexQueue for TLC.  Liveness is checked in the same run   *)
(* as the invariants, so no symmetry is declared.                          *)
(***************************************************************************)
EXTENDS IndexQueue
=============================================================================
