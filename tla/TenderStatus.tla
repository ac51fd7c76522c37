----------------------------- MODULE TenderStatus -----------------------------
(***************************************************************************)
(* The statuses of a tender and the transitions between them: the constant *)
(* part of services/tender_status.py and models/tender.py.                 *)
(***************************************************************************)

\* TenderStatus of models/tender.py; every tender is created NOUVEAU.
Statuses == {"NOUVEAU", "A_ANALYSER", "GO", "NO_GO", "PREPARATION", "VALIDATION",
             "PRET", "SOUMIS", "GAGNE", "PERDU", "ARCHIVE"}

\* Wrong tables: a preparation that skips the validation, and a NO-GO that
\* reopens the tender as NOUVEAU.
TRANSITIONS_skip ==
  {"NOUVEAU", "NO_GO"} \X {"A_ANALYSER"} \union {"A_ANALYSER"} \X {"GO"}
    \union {"GO"} \X {"PREPARATION"} \union {"PREPARATION"} \X {"PRET"}

TRANSITIONS_reopen ==
  {"NOUVEAU"} \X {"A_ANALYSER", "NO_GO"} \union {"NO_GO"} \X {"NOUVEAU"}

\* The table TRANSITIONS, as a relation.
TRANSITIONS ==
  {"NOUVEAU"} \X {"A_ANALYSER", "NO_GO", "ARCHIVE"}
    \union {"A_ANALYSER"} \X {"GO", "NO_GO", "ARCHIVE"}
    \union {"GO"} \X {"PREPARATION", "NO_GO"}
    \union {"NO_GO"} \X {"A_ANALYSER", "ARCHIVE"}
    \union {"PREPARATION"} \X {"VALIDATION", "NO_GO"}
    \union {"VALIDATION"} \X {"PRET", "PREPARATION"}
    \union {"PRET"} \X {"SOUMIS", "VALIDATION"}
    \union {"SOUMIS"} \X {"GAGNE", "PERDU"}
    \union {"GAGNE", "PERDU"} \X {"ARCHIVE"}

can_transition(current, to) == <<current, to>> \in TRANSITIONS

Decisions == {"go", "no_go"}

Target(decision) == IF decision = "go" THEN "GO" ELSE "NO_GO"

\* decide() goes through A_ANALYSER when the table has no direct transition.
ViaReview(current, target) ==
  /\ ~ can_transition(current, target)
  /\ can_transition(current, "A_ANALYSER")
  /\ can_transition("A_ANALYSER", target)

\* decide() refuses the decision already in force, and a target out of reach.
CanDecide(current, target) ==
  /\ current # target
  /\ can_transition(current, target) \/ ViaReview(current, target)

\* The statuses in which create_for_tender() opens an application.
ALLOWED_TENDER_STATUSES == {"GO", "PREPARATION", "VALIDATION"}
=============================================================================
