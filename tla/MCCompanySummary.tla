--------------------------- MODULE MCCompanySummary ---------------------------
(***************************************************************************)
(* CompanySummary for TLC: the configurations give it its requests.        *)
(* Requests are interchangeable, but symmetry is unsound for liveness.     *)
(***************************************************************************)
EXTENDS CompanySummary
=============================================================================
