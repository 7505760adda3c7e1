-------------------------- MODULE MCReviewPipeline --------------------------
(***************************************************************************)
(* Small instances of ReviewPipeline for TLC.                              *)
(***************************************************************************)
EXTENDS ReviewPipeline, TLC

\* Workers run the same program; used by the runs without liveness properties.
WorkerSymmetry == Permutations(Workers)
=============================================================================
