----------------------------- MODULE MCJobKinds -----------------------------
(***************************************************************************)
(* The jobs of one upload and one pull request on two workers.             *)
(***************************************************************************)
EXTENDS JobKinds, TLC

\* The workers run the same program.
Symmetric == Permutations(Workers)
=============================================================================
