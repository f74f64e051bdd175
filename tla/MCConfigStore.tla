--------------------------- MODULE MCConfigStore ---------------------------
(* TLC instance of ConfigStore.                                            *)
EXTENDS ConfigStore

=============================================================================
