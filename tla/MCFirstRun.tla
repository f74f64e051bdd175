----------------------------- MODULE MCFirstRun -----------------------------
(* TLC instance of FirstRun.                                               *)
EXTENDS FirstRun

=============================================================================
