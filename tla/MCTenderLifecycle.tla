-------------------------- MODULE MCTenderLifecycle --------------------------
(***************************************************************************)
(* TenderLifecycle for TLC.                                                *)
(***************************************************************************)
EXTENDS TenderLifecycle, TLC

\* Sessions are interchangeable: sound for the runs that check invariants.
SessionSymmetry == Permutations(Sessions)
=============================================================================
