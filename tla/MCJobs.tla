------------------------------- MODULE MCJobs --------------------------------
(***************************************************************************)
(* Jobs for TLC.                                                           *)
(***************************************************************************)
EXTENDS Jobs, TLC

\* Jobs and workers are interchangeable: sound for invariants.
JobSymmetry == Permutations(Jobs) \union Permutations(Workers)
=============================================================================
