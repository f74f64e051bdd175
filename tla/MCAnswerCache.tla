--------------------------- MODULE MCAnswerCache ---------------------------
(***************************************************************************)
(* Instances of AnswerCache for TLC.                                       *)
(***************************************************************************)
EXTENDS AnswerCache, TLC

\* Every question resembles every other one.
AllSimilar == Questions \X Questions

Symmetry == Permutations(Requests)
=============================================================================
