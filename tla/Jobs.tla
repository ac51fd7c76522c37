--------------------------------- MODULE Jobs ---------------------------------
(***************************************************************************)
(* Background jobs, from the call that enqueues one to the worker process  *)
(* that runs it: the row in the jobs table (JobService, tracked_task) and  *)
(* the message in the Celery queue travel separately, and either may be    *)
(* lost or repeated.                                                       *)
(*                                                                         *)
(* The faults a deployment is exposed to are a constant, so that a run     *)
(* tells which of them each promise survives:                              *)
(*   broker    a publication raises and nothing was sent                   *)
(*   publish   a publication is sent twice (the client retries it), or     *)
(*             raises although the message was sent                        *)
(*   database  the commit of a job's status fails                          *)
(*   caller    the process that enqueues dies after its commit             *)
(*   kill      a worker process dies or exceeds task_time_limit; Celery    *)
(*             acknowledges its message (task_reject_on_worker_lost is     *)
(*             not set)                                                    *)
(*   host      a worker host dies: its unacknowledged messages (acks_late) *)
(*             are delivered again                                         *)
(***************************************************************************)
EXTENDS Naturals

CONSTANTS
  Jobs,       \* job ids
  Workers,    \* worker processes
  Faults,     \* the faults that may occur
  MaxCopies   \* bound on the copies of a message waiting in the queue

ASSUME FaultsAssumption ==
  Faults \subseteq {"broker", "publish", "database", "caller", "kill", "host"}

ASSUME MaxCopiesAssumption == MaxCopies \in Nat \ {0}

VARIABLES
  row,      \* the jobs table
  caller,   \* what the session that enqueues the job is doing
  queue,    \* copies of the job's message waiting in the broker
  task      \* the message each worker process holds

vars == <<row, caller, queue, task>>

Statuses == {"absent", "pending", "running", "done", "failed"}

\* The columns that say how the job ended: is `error` set, is `result` set?
Row == [status : Statuses, error : BOOLEAN, result : BOOLEAN]

Absent == [status |-> "absent", error |-> FALSE, result |-> FALSE]

\* A message held by a worker, and the job as its session last knew it: an
\* UPDATE carries only the columns that differ from that.
Task == [job : Jobs, pc : {"received", "running", "finished"},
         status : Statuses, result : BOOLEAN]

Idle == [pc |-> "idle"]

Init ==
  /\ row = [j \in Jobs |-> Absent]
  /\ caller = [j \in Jobs |-> "none"]
  /\ queue = [j \in Jobs |-> 0]
  /\ task = [w \in Workers |-> Idle]

-----------------------------------------------------------------------------
(* JobService.enqueue *)

Caller(j, from, to) ==
  /\ caller[j] = from
  /\ caller' = [caller EXCEPT ![j] = to]

Send(j, copies) ==
  /\ queue[j] + copies <= MaxCopies
  /\ queue' = [queue EXCEPT ![j] = @ + copies]

\* Wrong: the message leaves before the row is committed.
Enqueue_early(j) ==
  /\ Caller(j, "none", "dispatching")
  /\ Send(j, 1)
  /\ UNCHANGED <<row, task>>

\* The row is inserted and committed, with the caller's pending changes.
Enqueue(j) ==
  /\ Caller(j, "none", "dispatching")
  /\ row' = [row EXCEPT ![j] = [Absent EXCEPT !.status = "pending"]]
  /\ UNCHANGED <<queue, task>>

Dispatch(j) ==
  /\ Caller(j, "dispatching", "answered")
  /\ \/ Send(j, 1)
     \/ "publish" \in Faults /\ Send(j, 2)
  /\ UNCHANGED <<row, task>>

DispatchRaises(j) ==
  /\ Caller(j, "dispatching", "refused")
  /\ \/ "broker" \in Faults /\ UNCHANGED queue
     \/ "publish" \in Faults /\ Send(j, 1)
  /\ UNCHANGED <<row, task>>

\* Wrong: the error is answered but the job is left as it is.
MarkDispatchFailed_forgotten(j) ==
  /\ Caller(j, "refused", "answered")
  /\ UNCHANGED <<row, queue, task>>

\* The job is failed with a `dispatch:` error, and the caller answers 503.
MarkDispatchFailed(j) ==
  /\ Caller(j, "refused", "answered")
  /\ \/ row' = [row EXCEPT ![j].status = "failed", ![j].error = TRUE]
     \/ "database" \in Faults /\ UNCHANGED row
  /\ UNCHANGED <<queue, task>>

CallerDies(j) ==
  /\ "caller" \in Faults
  /\ Caller(j, "dispatching", "answered") \/ Caller(j, "refused", "answered")
  /\ UNCHANGED <<row, queue, task>>

-----------------------------------------------------------------------------
(* The worker process: tracked_task and run_job. *)

\* The process takes a message and reads the job; a job it does not find is
\* logged and the message dropped.
Receive(w, j) ==
  /\ task[w].pc = "idle"
  /\ queue[j] > 0
  /\ queue' = [queue EXCEPT ![j] = @ - 1]
  /\ task' = [task EXCEPT ![w] =
       [job |-> j, pc |-> IF row[j].status = "absent" THEN "finished" ELSE "received",
        status |-> row[j].status, result |-> row[j].result]]
  /\ UNCHANGED <<row, caller>>

\* The row of the job that worker w holds.
Own(w) == row[task[w].job]

\* That row becomes r, and the task moves on.
Step(w, from, to, r) ==
  /\ task[w].pc = from
  /\ task' = [task EXCEPT ![w].pc = to]
  /\ row' = [row EXCEPT ![task[w].job] = r]
  /\ UNCHANGED <<caller, queue>>

\* The first commit of run_job. The status is written unless the session read
\* `running`; either way it is what the session now holds.
Start(w) ==
  /\ task[w].pc = "received"
  /\ task' = [task EXCEPT ![w].pc = "running", ![w].status = "running"]
  /\ row' = IF task[w].status = "running" THEN row
            ELSE [row EXCEPT ![task[w].job].status = "running"]
  /\ UNCHANGED <<caller, queue>>

\* That commit is outside the try block: if it fails the message is gone.
StartFails(w) ==
  /\ "database" \in Faults
  /\ Step(w, "received", "finished", Own(w))

\* Wrong: the result is left out.
Succeed_bare(w) ==
  Step(w, "running", "finished", [Own(w) EXCEPT !.status = "done"])

\* fn returned. A result equal to the one read is not written again.
Succeed(w) ==
  Step(w, "running", "finished",
       [Own(w) EXCEPT !.status = "done", !.result = IF task[w].result THEN @ ELSE TRUE])

\* Wrong: the job is put back for another try.
Raise_pending(w) ==
  Step(w, "running", "finished",
       [status |-> "pending", error |-> FALSE, result |-> FALSE])

\* fn or its last commit raised: rollback, then _mark_failed writes every
\* column because the rollback expired what the session knew.
Raise(w) ==
  Step(w, "running", "finished",
       [status |-> "failed", error |-> TRUE, result |-> FALSE])

\* The commit of _mark_failed fails too.
RaiseUnrecorded(w) ==
  /\ "database" \in Faults
  /\ Step(w, "running", "finished", Own(w))

\* task_acks_late: the message is acknowledged after the task returned.
Acknowledge(w) ==
  /\ task[w].pc = "finished"
  /\ task' = [task EXCEPT ![w] = Idle]
  /\ UNCHANGED <<row, caller, queue>>

Kill(w) ==
  /\ "kill" \in Faults
  /\ task[w] # Idle
  /\ task' = [task EXCEPT ![w] = Idle]
  /\ UNCHANGED <<row, caller, queue>>

HostDies(w) ==
  /\ "host" \in Faults
  /\ task[w] # Idle
  /\ Send(task[w].job, 1)
  /\ task' = [task EXCEPT ![w] = Idle]
  /\ UNCHANGED <<row, caller>>

-----------------------------------------------------------------------------
CallerStep(j) ==
  Enqueue(j) \/ Dispatch(j) \/ DispatchRaises(j) \/ MarkDispatchFailed(j) \/ CallerDies(j)

WorkerStep(w) ==
  \/ \E j \in Jobs : Receive(w, j)
  \/ Start(w) \/ StartFails(w) \/ Succeed(w) \/ Raise(w) \/ RaiseUnrecorded(w)
  \/ Acknowledge(w) \/ Kill(w) \/ HostDies(w)

Next == (\E j \in Jobs : CallerStep(j)) \/ (\E w \in Workers : WorkerStep(w))

Spec == Init /\ [][Next]_vars

\* A call that enqueues goes on to its answer, the workers keep taking
\* messages, and fn ends, if only because of task_time_limit.
Fairness ==
  /\ \A j \in Jobs :
       /\ WF_vars(Dispatch(j) \/ DispatchRaises(j))
       /\ WF_vars(MarkDispatchFailed(j))
  /\ \A w \in Workers :
       /\ WF_vars(\E j \in Jobs : Receive(w, j))
       /\ WF_vars(Start(w))
       /\ WF_vars(Succeed(w) \/ Raise(w) \/ RaiseUnrecorded(w))
       /\ WF_vars(Acknowledge(w))

FairSpec == Spec /\ Fairness

-----------------------------------------------------------------------------
(* Properties that hold under every fault. *)

\* Every variable has its type.
TypeOK ==
  /\ row \in [Jobs -> Row]
  /\ caller \in [Jobs -> {"none", "dispatching", "refused", "answered"}]
  /\ queue \in [Jobs -> Nat]
  /\ task \in [Workers -> Task \union {Idle}]

Holds(w, j) == task[w] # Idle /\ task[w].job = j

\* A worker that receives a message finds its job (jobs.py:35).
NoMessageWithoutRow ==
  \A j \in Jobs :
    queue[j] > 0 \/ (\E w \in Workers : Holds(w, j)) => row[j].status # "absent"

\* A failed job tells why, whoever failed it and in whatever order.
FailureIsExplained == \A j \in Jobs : row[j].status = "failed" => row[j].error

-----------------------------------------------------------------------------
(* Properties that hold unless a commit fails or a process is killed: a job *)
(* that is not finished is in somebody's hands.                             *)

InHand(j) ==
  \/ caller[j] \in {"dispatching", "refused"}
  \/ queue[j] > 0
  \/ \E w \in Workers : Holds(w, j) /\ task[w].pc # "finished"

\* Repeated messages and lost hosts included, no job stays pending or running
\* with nobody left to finish it.
UnfinishedIsInHand ==
  \A j \in Jobs : row[j].status \in {"pending", "running"} => InHand(j)

-----------------------------------------------------------------------------
(* Properties that hold unless a message is repeated. *)

statuses == [j \in Jobs |-> row[j].status]

Board == INSTANCE JobBoard WITH board <- statuses

\* The jobs table implements the job board: a finished job stays finished.
FollowsBoard == Board!Spec

\* The result is there exactly when the job is done, and a job that is done
\* shows no error.
OutcomeIsExact ==
  \A j \in Jobs :
    /\ row[j].status = "done" <=> row[j].result
    /\ row[j].status = "failed" <=> row[j].error

\* Each job is in one pair of hands at a time.
OneHolder ==
  \A j \in Jobs :
    /\ queue[j] <= 1
    /\ caller[j] \in {"none", "dispatching", "refused"} => queue[j] = 0
    /\ \A w \in Workers :
         Holds(w, j) => caller[j] = "answered" /\ queue[j] = 0
    /\ \A v, w \in Workers : Holds(v, j) /\ Holds(w, j) => v = w

-----------------------------------------------------------------------------
(* Liveness, under FairSpec. *)

Finished(j) == row[j].status \in {"done", "failed"}

\* Every job that was enqueued ends, the broker being down or not.
EveryJobEnds == \A j \in Jobs : row[j].status = "pending" ~> Finished(j)
=============================================================================
