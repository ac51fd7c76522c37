--------------------------- MODULE TenderLifecycle ---------------------------
(***************************************************************************)
(* One tender, and the database sessions that read it and write it: the    *)
(* API requests that change its status, take a decision or open its        *)
(* application, and the scoring jobs that promote it.                      *)
(*                                                                         *)
(* A session reads the tender once (db.get) and keeps that snapshot: the   *)
(* session factory sets expire_on_commit=False, and nothing locks the row. *)
(* Checks are made on the snapshot; the write and the commit that ends the *)
(* session overwrite whatever was committed in between.                    *)
(*                                                                         *)
(* The rows a transition adds besides the history entry (audit log,        *)
(* decision record) are committed with it; the entry's cause tells which   *)
(* of them were written.                                                   *)
(***************************************************************************)
EXTENDS TenderStatus, Naturals, Sequences

CONSTANTS
  Sessions,     \* database sessions: API requests and worker tasks
  MaxHistory    \* bound on the length of the status history

ASSUME MaxHistoryAssumption == MaxHistory \in Nat

VARIABLES
  status,       \* tenders.status
  history,      \* tender_status_history, in commit order
  score,        \* the tender's score: absent, or its side of the threshold
  application,  \* is there an applications row for the tender?
  seen,         \* the status each open session read
  opening,      \* sessions that also read that there is no application
  overlapped    \* has a session been opened while another one was open?

vars == <<status, history, score, application, seen, opening, overlapped>>

Closed == "closed"

Scores == {"none", "low", "high"}

\* What a history row was written for (its comment, or the row beside it).
Causes == {"status", "review", "decision", "score", "application"}

Entry == [from : Statuses, to : Statuses, cause : Causes]

entry(from, to, cause) == [from |-> from, to |-> to, cause |-> cause]

Init ==
  /\ status = "NOUVEAU"
  /\ history = << >>
  /\ score = "none"
  /\ application = FALSE
  /\ seen = [s \in Sessions |-> Closed]
  /\ opening = {}
  /\ overlapped = FALSE

-----------------------------------------------------------------------------
(* The life of a session. *)

\* A request or a task loads the tender.
Load(s) ==
  /\ seen[s] = Closed
  /\ seen' = [seen EXCEPT ![s] = status]
  /\ overlapped' = (overlapped \/ \E t \in Sessions : seen[t] # Closed)
  /\ UNCHANGED <<status, history, score, application, opening>>

Close(s) ==
  /\ seen' = [seen EXCEPT ![s] = Closed]
  /\ opening' = opening \ {s}

\* Append the entries, set the status, commit.
Write(s, entries) ==
  /\ Len(history) + Len(entries) <= MaxHistory
  /\ history' = history \o entries
  /\ status' = entries[Len(entries)].to
  /\ Close(s)

\* The session ends without a write: ForbiddenTransition and any other
\* error roll back, and a killed process never commits.
Rollback(s) ==
  /\ seen[s] # Closed
  /\ Close(s)
  /\ UNCHANGED <<status, history, score, application, overlapped>>

-----------------------------------------------------------------------------
(* The operations. *)

\* POST /tenders/{id}/status
PostStatus(s, to) ==
  /\ seen[s] # Closed
  /\ s \notin opening
  /\ can_transition(seen[s], to)
  /\ Write(s, <<entry(seen[s], to, "status")>>)
  /\ UNCHANGED <<score, application, overlapped>>

\* Wrong: no review before a decision taken from NOUVEAU or NO_GO.
DecisionEntries_direct(current, target) ==
  <<entry(current, target, "decision")>>

\* The entries of decide(): one transition, or two when a review comes first.
DecisionEntries(current, target) ==
  IF ViaReview(current, target)
  THEN <<entry(current, "A_ANALYSER", "review"),
         entry("A_ANALYSER", target, "decision")>>
  ELSE <<entry(current, target, "decision")>>

\* POST /tenders/{id}/decision
PostDecision(s, decision) ==
  /\ seen[s] # Closed
  /\ s \notin opening
  /\ CanDecide(seen[s], Target(decision))
  /\ Write(s, DecisionEntries(seen[s], Target(decision)))
  /\ UNCHANGED <<score, application, overlapped>>

\* Wrong: the current status is not tested.
Promotes_always(current, total) == total = "high"

\* _promote_if_relevant() acts on a NOUVEAU tender above the threshold.
Promotes(current, total) == current = "NOUVEAU" /\ total = "high"

\* score_tender(), in the scoring task or after an eligibility refresh.
ScoreTender(s, total) ==
  /\ seen[s] # Closed
  /\ s \notin opening
  /\ score' = total
  /\ IF Promotes(seen[s], total)
     THEN Write(s, <<entry("NOUVEAU", "A_ANALYSER", "score")>>)
     ELSE Close(s) /\ UNCHANGED <<status, history>>
  /\ UNCHANGED <<application, overlapped>>

\* create_for_tender() loads tender.application: an existing one is
\* returned as it is, otherwise the status read earlier must allow one.
CheckApplication(s) ==
  /\ seen[s] # Closed
  /\ s \notin opening
  /\ IF application
     THEN Close(s)
     ELSE /\ seen[s] \in ALLOWED_TENDER_STATUSES
          /\ opening' = opening \union {s}
          /\ UNCHANGED seen
  /\ UNCHANGED <<status, history, score, application, overlapped>>

\* Wrong: no unique key.
MayInsert_unchecked == TRUE

\* The unique key on applications.tender_id lets one insertion through; the
\* other sessions fail on it and roll back.
MayInsert == ~ application

\* The rest of create_for_tender(): the insertion and, from GO, the
\* transition to PREPARATION, committed together.
OpenApplication(s) ==
  /\ s \in opening
  /\ MayInsert
  /\ application' = TRUE
  /\ IF seen[s] = "GO"
     THEN Write(s, <<entry("GO", "PREPARATION", "application")>>)
     ELSE Close(s) /\ UNCHANGED <<status, history>>
  /\ UNCHANGED <<score, overlapped>>

Next ==
  \E s \in Sessions :
    \/ Load(s)
    \/ Rollback(s)
    \/ \E to \in Statuses : PostStatus(s, to)
    \/ \E decision \in Decisions : PostDecision(s, decision)
    \/ \E total \in {"low", "high"} : ScoreTender(s, total)
    \/ CheckApplication(s)
    \/ OpenApplication(s)

Spec == Init /\ [][Next]_vars

-----------------------------------------------------------------------------
(* Properties that hold whatever the sessions do. *)

\* Every variable has its type.
TypeOK ==
  /\ status \in Statuses
  /\ history \in Seq(Entry)
  /\ score \in Scores
  /\ application \in BOOLEAN
  /\ seen \in [Sessions -> Statuses \union {Closed}]
  /\ opening \subseteq Sessions
  /\ overlapped \in BOOLEAN

\* The statuses the tender has entered, according to its history.
Visited == {history[i].to : i \in DOMAIN history}

\* The pairs <<m, s>> such that a tender in status s has gone through m.
Needs ==
  LET won == {"SOUMIS", "GAGNE", "PERDU"}
      ready == won \union {"PRET"}
      validated == ready \union {"VALIDATION"}
      prepared == validated \union {"PREPARATION"}
  IN  {"GO"} \X (prepared \union {"GO"})
        \union {"PREPARATION"} \X prepared
        \union {"VALIDATION"} \X validated
        \union {"PRET"} \X ready
        \union {"SOUMIS"} \X won

\* A tender is submitted, won or lost only after a GO, a preparation, a
\* validation and a final check (RB-006: nothing leaves without a human
\* validation), even when sessions overwrite each other's status.
MilestonesPassed == \A m \in Statuses : <<m, status>> \in Needs => m \in Visited

\* The history never lies: each row is a permitted transition, and the
\* last committed row is the status of the tender.
HistoryHonest ==
  /\ \A i \in DOMAIN history : can_transition(history[i].from, history[i].to)
  /\ status = IF history = << >> THEN "NOUVEAU" ELSE history[Len(history)].to

\* The rows written by the opening of an application.
Openings == {i \in DOMAIN history : history[i].cause = "application"}

\* The application is opened once, and only for a tender that got a GO
\* (create_for_tender is idempotent, concurrent requests included).
ApplicationOpenedOnce ==
  /\ \A i, j \in Openings : i = j
  /\ Openings # {} => application
  /\ application => "GO" \in Visited

\* A tender scored above the threshold has left NOUVEAU, even when its
\* status changed while the model was writing the justification.
RelevantIsQualified == score = "high" => status # "NOUVEAU"

-----------------------------------------------------------------------------
(* A property that holds until two sessions overlap. *)

Machine == INSTANCE StatusMachine

\* As long as no session has met another one, the tender implements the
\* status machine: it moves by permitted transitions and decisions only
\* (tender_status.py:1).  Sessions that overlap break it: a decision or a
\* promotion made on a stale snapshot takes a tender out of ARCHIVE.
FollowsMachine ==
  /\ Machine!Init
  /\ [][~ overlapped' => Machine!Next \/ UNCHANGED status]_vars
=============================================================================
