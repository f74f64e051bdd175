--------------------------- MODULE MCEngineBridge ---------------------------
(* TLC instance of EngineBridge.                                           *)
EXTENDS EngineBridge

=============================================================================
