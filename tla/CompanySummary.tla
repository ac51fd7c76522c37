---------------------------- MODULE CompanySummary ----------------------------
(***************************************************************************)
(* The AI summary of the company profile and the requests that change the  *)
(* facts it is written from.  Each request changes the profile or one of   *)
(* its sub-resources, then asks for a refresh with JobService.enqueue_once *)
(* in the same session; the refresh_company_summary job reads the facts,   *)
(* calls the model and overwrites the summary.                             *)
(*                                                                         *)
(* A request makes one change and enqueues at most one job, so both are    *)
(* named after it.  The facts and the summary are sets of changes: those   *)
(* committed, and those the text was written from.  The jobs table is the  *)
(* job board that Jobs implements.                                         *)
(***************************************************************************)
EXTENDS Naturals

CONSTANTS
  Requests,   \* the requests, the changes they make and the jobs they enqueue
  Overlap     \* may a request start while another one is being served?

ASSUME OverlapAssumption == Overlap \in BOOLEAN

VARIABLES
  request,    \* how far each request has got
  board,      \* the status of each job
  facts,      \* the changes committed
  progress,   \* how far each job has got, in percent
  read,       \* the changes each job has read
  summary,    \* the changes the stored summary was written from
  late,       \* has a change been left to a job that had read the facts?
  dead        \* the jobs left running by a worker that was killed

vars == <<request, board, facts, progress, read, summary, late, dead>>

JobTable == INSTANCE JobBoard WITH Jobs <- Requests

Init ==
  /\ request = [r \in Requests |-> "idle"]
  /\ JobTable!Init
  /\ facts = {}
  /\ progress = [r \in Requests |-> 0]
  /\ read = [r \in Requests |-> {}]
  /\ summary = {}
  /\ late = FALSE
  /\ dead = {}

Active == {r \in Requests : board[r] \in {"pending", "running"}}

Goes(r, from, to) ==
  /\ request[r] = from
  /\ request' = [request EXCEPT ![r] = to]

-----------------------------------------------------------------------------
(* A request. *)

MayStart == Overlap \/ \A r \in Requests : request[r] \in {"idle", "answered"}

\* The change is flushed, not committed; enqueue_once looks for a job that is
\* pending or running.
LookForJob(r) ==
  /\ MayStart
  /\ Goes(r, "idle", IF Active = {} THEN "alone" ELSE "covered")
  /\ UNCHANGED <<board, facts, progress, read, summary, late, dead>>

\* An error, or the death of the process, rolls the change back.
Abort(r) ==
  /\ Goes(r, "covered", "answered") \/ Goes(r, "alone", "answered")
  /\ UNCHANGED <<board, facts, progress, read, summary, late, dead>>

\* The jobs that have not read the facts yet.
Unread == {q \in Active : progress[q] = 0}

\* A job was found: the change is committed at the end of the request, be
\* that job as it may by then.
CommitChange(r) ==
  /\ Goes(r, "covered", "answered")
  /\ facts' = facts \union {r}
  /\ late' = (late \/ Unread = {})
  /\ UNCHANGED <<board, progress, read, summary, dead>>

\* None was found: the job and the change are committed together.
Enqueue(r) ==
  /\ Goes(r, "alone", "dispatching")
  /\ JobTable!Post(r)
  /\ facts' = facts \union {r}
  /\ UNCHANGED <<progress, read, summary, late, dead>>

Dispatch(r) ==
  /\ Goes(r, "dispatching", "answered")
  /\ UNCHANGED <<board, facts, progress, read, summary, late, dead>>

\* The broker refuses: the job is failed and the request answers 503, but
\* its change stays committed.
DispatchRefused(r) ==
  /\ Goes(r, "dispatching", "answered")
  /\ JobTable!Refuse(r)
  /\ UNCHANGED <<facts, progress, read, summary, late, dead>>

-----------------------------------------------------------------------------
(* The job. *)

Begin(r) ==
  /\ request[r] = "answered"
  /\ JobTable!Begin(r)
  /\ UNCHANGED <<request, facts, progress, read, summary, late, dead>>

Advances(r, from, to) ==
  /\ board[r] = "running" /\ r \notin dead
  /\ progress[r] = from
  /\ progress' = [progress EXCEPT ![r] = to]

\* Wrong: only the change of the request that enqueued the job is read.
ReadFacts_own(r) ==
  /\ Advances(r, 0, 20)
  /\ read' = [read EXCEPT ![r] = {r}]
  /\ UNCHANGED <<request, board, facts, summary, late, dead>>

\* company_facts() reads them all, then the first set_progress commits.
ReadFacts(r) ==
  /\ Advances(r, 0, 20)
  /\ read' = [read EXCEPT ![r] = facts]
  /\ UNCHANGED <<request, board, facts, summary, late, dead>>

\* Wrong: a text that is there is kept.
WriteSummary_once(r) ==
  /\ Advances(r, 20, 100)
  /\ summary' = IF summary = {} THEN read[r] ELSE summary
  /\ UNCHANGED <<request, board, facts, read, late, dead>>

\* The text replaces the previous one; the last set_progress commits it,
\* before the job is done.
WriteSummary(r) ==
  /\ Advances(r, 20, 100)
  /\ summary' = read[r]
  /\ UNCHANGED <<request, board, facts, read, late, dead>>

Finish(r) ==
  /\ progress[r] = 100 /\ r \notin dead
  /\ JobTable!Finish(r)
  /\ UNCHANGED <<request, facts, progress, read, summary, late, dead>>

\* The model or the database fails: the summary that is stored stays.
Fail(r) ==
  /\ r \notin dead
  /\ JobTable!Fail(r)
  /\ UNCHANGED <<request, facts, progress, read, summary, late, dead>>

\* The worker is killed: its message was acknowledged, and nothing sweeps the
\* row, which says that the job is running (Jobs has what else may happen).
Kill(r) ==
  /\ board[r] = "running" /\ r \notin dead
  /\ dead' = dead \union {r}
  /\ UNCHANGED <<request, board, facts, progress, read, summary, late>>

Next ==
  \E r \in Requests :
    \/ LookForJob(r) \/ Abort(r) \/ CommitChange(r)
    \/ Enqueue(r) \/ Dispatch(r) \/ DispatchRefused(r)
    \/ Begin(r) \/ ReadFacts(r) \/ WriteSummary(r) \/ Finish(r) \/ Fail(r)
    \/ Kill(r)

Spec == Init /\ [][Next]_vars

\* A request that lives sends its job, or is refused.
Send(r) == Dispatch(r) \/ DispatchRefused(r)

\* A worker takes the messages there are, and a job is a few steps: the model
\* answers or fails.  Nothing makes a request come.
Work(r) == Begin(r) \/ ReadFacts(r) \/ WriteSummary(r) \/ Finish(r) \/ Fail(r)

FairSpec == Spec /\ \A r \in Requests : WF_vars(Send(r)) /\ WF_vars(Work(r))

-----------------------------------------------------------------------------
(* Properties that hold whatever the requests do. *)

\* Every variable has its type.
TypeOK ==
  /\ request \in [Requests -> {"idle", "alone", "covered", "dispatching", "answered"}]
  /\ board \in [Requests -> {"absent", "pending", "running", "done", "failed"}]
  /\ facts \subseteq Requests
  /\ progress \in [Requests -> {0, 20, 100}]
  /\ read \in [Requests -> SUBSET Requests]
  /\ summary \subseteq Requests
  /\ late \in BOOLEAN
  /\ dead \subseteq Requests

\* The job a request enqueued reads the change that made it necessary, however
\* soon it starts (jobs.py:35).
JobReadsItsChange == \A r \in Requests : progress[r] > 0 => r \in read[r]

-----------------------------------------------------------------------------
(* Properties that hold when requests do not overlap. *)

\* enqueue_once enqueues a job only if none is pending or running
\* (jobs.py:51).
OneActiveJob == \A q, r \in Active : q = r

\* What a finished refresh has read is in the summary (the lemma behind the
\* next property, see CompanyProofs).
RefreshIsNotUndone ==
  \A r \in Requests : board[r] = "done" => read[r] \subseteq summary

\* A change the summary speaks of is never forgotten: neither a later refresh
\* that fails nor one that started earlier undoes it.
SummaryNeverForgets == [][summary \subseteq summary']_vars

\* No request is being served and no job waits or runs.
AtRest ==
  /\ \A r \in Requests : request[r] \in {"idle", "answered"}
  /\ Active = {}

Failed == \E r \in Requests : board[r] = "failed"

\* Once everything is at rest and no job has failed, the summary was written
\* from all the facts (company.py:41-42), provided that no change was
\* committed after the job left to read it had done so: enqueue_once counts a
\* running job as one that will read everything again (jobs.py:54), read
\* facts or not.
UpToDateAtRest ==
  AtRest /\ ~ late /\ ~ Failed => summary = facts

\* A committed change comes to be told, by the refresh it asked for or by the
\* one that made it needless (jobs.py:54-55), unless it came too late for the
\* latter, a job failed or a worker was killed: the row that it leaves says
\* `running` for ever, and no refresh is enqueued any more.
ChangesAreTold ==
  \A r \in Requests : r \in facts ~> r \in summary \/ late \/ Failed \/ dead # {}
=============================================================================
