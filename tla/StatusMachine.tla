---------------------------- MODULE StatusMachine ----------------------------
(***************************************************************************)
(* What the life cycle of a tender promises to its readers: the status     *)
(* starts at NOUVEAU and moves by permitted transitions only.  A GO or     *)
(* NO-GO decision counts as one move even when it passes through           *)
(* A_ANALYSER, because both transitions are committed together.            *)
(***************************************************************************)
EXTENDS TenderStatus

VARIABLE status

Init == status = "NOUVEAU"

Move(to) ==
  /\ can_transition(status, to)
  /\ status' = to

Decide(decision) ==
  /\ CanDecide(status, Target(decision))
  /\ status' = Target(decision)

Next ==
  \/ \E to \in Statuses : Move(to)
  \/ \E decision \in Decisions : Decide(decision)

Spec == Init /\ [][Next]_status
=============================================================================
