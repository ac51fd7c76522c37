------------------------------ MODULE JobsProofs ------------------------------
(***************************************************************************)
(* Theorems about Jobs, for any jobs, workers and bound, with their proofs. *)
(* The first three hold under every fault; the others name the faults they  *)
(* exclude.                                                                 *)
(***************************************************************************)
EXTENDS Jobs, TLAPS

\* What a busy worker holds.
LEMMA Busy ==
  ASSUME TypeOK, NEW w \in Workers, task[w].pc # "idle"
  PROVE  /\ task[w] \in Task
         /\ task[w].job \in Jobs
         /\ task[w] # Idle
BY DEF TypeOK, Task, Idle

LEMMA TypeInit == Init => TypeOK
BY DEF Init, TypeOK, Row, Statuses, Absent

LEMMA TypeStep == TypeOK /\ [Next]_vars => TypeOK'
<1> SUFFICES ASSUME TypeOK, [Next]_vars PROVE TypeOK'
  OBVIOUS
<1> USE DEF TypeOK
<1>1. ASSUME NEW j \in Jobs, Enqueue(j) PROVE TypeOK'
  BY <1>1 DEF Enqueue, Caller, Row, Statuses, Absent
<1>2. ASSUME NEW j \in Jobs, Dispatch(j) PROVE TypeOK'
  BY <1>2 DEF Dispatch, Caller, Send
<1>3. ASSUME NEW j \in Jobs, DispatchRaises(j) PROVE TypeOK'
  BY <1>3 DEF DispatchRaises, Caller, Send
<1>4. ASSUME NEW j \in Jobs, MarkDispatchFailed(j) PROVE TypeOK'
  BY <1>4 DEF MarkDispatchFailed, Caller, Row, Statuses
<1>5. ASSUME NEW j \in Jobs, CallerDies(j) PROVE TypeOK'
  BY <1>5 DEF CallerDies, Caller
<1>6. ASSUME NEW w \in Workers, NEW j \in Jobs, Receive(w, j) PROVE TypeOK'
  BY <1>6 DEF Receive, Row, Task, Statuses
<1>7. ASSUME NEW w \in Workers, Start(w) PROVE TypeOK'
  <2>1. task[w] \in Task
    BY <1>7, Busy DEF Start
  <2>2. task' \in [Workers -> Task \union {Idle}]
    BY <1>7, <2>1 DEF Start, Task, Statuses
  <2>3. row' \in [Jobs -> Row]
    <3>1. CASE row' = row
      BY <3>1
    <3>2. CASE row' = [row EXCEPT ![task[w].job].status = "running"]
      BY <3>2, <2>1 DEF Task, Row, Statuses
    <3> QED
      BY <1>7, <3>1, <3>2 DEF Start
  <2> QED
    BY <1>7, <2>2, <2>3 DEF Start
<1>8. ASSUME NEW w \in Workers, StartFails(w) PROVE TypeOK'
  BY <1>8 DEF StartFails, Step, Own, Row, Task, Statuses, Idle
<1>9. ASSUME NEW w \in Workers, Succeed(w) PROVE TypeOK'
  <2>1. task[w] \in Task
    BY <1>9, Busy DEF Succeed, Step
  <2>2. task' \in [Workers -> Task \union {Idle}]
    BY <1>9, <2>1 DEF Succeed, Step, Task
  <2>3. row' \in [Jobs -> Row]
    <3> DEFINE r == row[task[w].job]
               n == [r EXCEPT !.status = "done",
                              !.result = IF task[w].result THEN @ ELSE TRUE]
    <3>1. r \in Row
      BY <2>1 DEF Task
    <3>2. n \in Row
      <4> HIDE DEF r
      <4> QED BY <3>1, <2>1 DEF Row, Statuses, Task
    <3>3. row' = [row EXCEPT ![task[w].job] = n]
      BY <1>9 DEF Succeed, Step, Own
    <3> HIDE DEF n
    <3> QED
      BY <3>2, <3>3, <2>1 DEF Task
  <2> QED
    BY <1>9, <2>2, <2>3 DEF Succeed, Step
<1>10. ASSUME NEW w \in Workers, Raise(w) PROVE TypeOK'
  BY <1>10 DEF Raise, Step, Own, Row, Task, Statuses, Idle
<1>11. ASSUME NEW w \in Workers, RaiseUnrecorded(w) PROVE TypeOK'
  BY <1>11 DEF RaiseUnrecorded, Step, Own, Row, Task, Statuses, Idle
<1>12. ASSUME NEW w \in Workers, Acknowledge(w) PROVE TypeOK'
  BY <1>12 DEF Acknowledge
<1>13. ASSUME NEW w \in Workers, Kill(w) PROVE TypeOK'
  BY <1>13 DEF Kill
<1>14. ASSUME NEW w \in Workers, HostDies(w) PROVE TypeOK'
  BY <1>14 DEF HostDies, Send, Task
<1>15. CASE UNCHANGED vars
  BY <1>15 DEF vars
<1> QED
  BY <1>1, <1>2, <1>3, <1>4, <1>5, <1>6, <1>7, <1>8, <1>9, <1>10, <1>11, <1>12,
     <1>13, <1>14, <1>15
     DEF Next, CallerStep, WorkerStep

\* Type correctness, whatever fails.
THEOREM TypesAreKept == Spec => []TypeOK
BY TypeInit, TypeStep, PTL DEF Spec
-----------------------------------------------------------------------------
(* What the worker's steps do to its task and to the job it holds. *)

\* Task t of w and row r of its job are the only ones that change.
Touches(w, t, r) ==
  /\ task'[w] = t
  /\ \A v \in Workers \ {w} : task'[v] = task[v]
  /\ row'[task[w].job] = r
  /\ \A j \in Jobs \ {task[w].job} : row'[j] = row[j]
  /\ UNCHANGED <<caller, queue>>

\* The task of w once it has ended.
Ended(w) == [task[w] EXCEPT !.pc = "finished"]

LEMMA EndedTask ==
  ASSUME TypeOK, NEW w \in Workers, task[w].pc # "idle"
  PROVE  /\ Ended(w) # Idle
         /\ Ended(w).pc = "finished"
         /\ Ended(w).job = task[w].job
BY Busy DEF Ended, Task, Idle

LEMMA StartTouches ==
  ASSUME TypeOK, NEW w \in Workers, Start(w)
  PROVE  \E t \in Task, r \in Row :
           /\ Touches(w, t, r)
           /\ t.job = task[w].job /\ t.pc = "running" /\ t.result = task[w].result
           /\ r.error = row[task[w].job].error /\ r.result = row[task[w].job].result
           /\ r.status \in {row[task[w].job].status, "running"}
           /\ task[w].status # "running" => r.status = "running"
<1> DEFINE j == task[w].job
           t == [task[w] EXCEPT !.pc = "running", !.status = "running"]
           r == IF task[w].status = "running" THEN row[j]
                ELSE [row[j] EXCEPT !.status = "running"]
<1>1. task[w] \in Task /\ j \in Jobs
  BY Busy DEF Start
<1>2. t \in Task /\ t.job = j /\ t.pc = "running" /\ t.result = task[w].result
  BY <1>1 DEF Task, Statuses
<1>3. row[j] \in Row
  BY <1>1 DEF TypeOK
<1>4. /\ r \in Row /\ r.error = row[j].error /\ r.result = row[j].result
      /\ r.status \in {row[j].status, "running"}
      /\ task[w].status # "running" => r.status = "running"
  BY <1>3 DEF Row, Statuses
<1>5. Touches(w, t, r)
  BY <1>1 DEF Touches, Start, TypeOK
<1> QED
  BY <1>2, <1>4, <1>5

LEMMA SucceedTouches ==
  ASSUME TypeOK, NEW w \in Workers, Succeed(w)
  PROVE  \E r \in Row :
           /\ Touches(w, Ended(w), r)
           /\ r.status = "done"
           /\ r.error = row[task[w].job].error
           /\ ~ task[w].result => r.result
<1> DEFINE j == task[w].job
           r == [row[j] EXCEPT !.status = "done",
                               !.result = IF task[w].result THEN @ ELSE TRUE]
<1>1. task[w] \in Task /\ j \in Jobs
  BY Busy DEF Succeed, Step
<1>2. row[j] \in Row
  BY <1>1 DEF TypeOK
<1>3. /\ r \in Row /\ r.status = "done" /\ r.error = row[j].error
      /\ ~ task[w].result => r.result
  BY <1>1, <1>2 DEF Row, Statuses, Task
<1>4. row' = [row EXCEPT ![j] = r] /\ task' = [task EXCEPT ![w] = Ended(w)]
  BY DEF Succeed, Step, Own, Ended
<1>5. Touches(w, Ended(w), r)
  <2> HIDE DEF r
  <2> QED BY <1>1, <1>4 DEF Touches, TypeOK, Succeed, Step
<1> QED
  BY <1>3, <1>5

LEMMA RaiseTouches ==
  ASSUME TypeOK, NEW w \in Workers, Raise(w)
  PROVE  Touches(w, Ended(w), [status |-> "failed", error |-> TRUE, result |-> FALSE])
<1>1. task[w] \in Task /\ task[w].job \in Jobs
  BY Busy DEF Raise, Step
<1> QED
  BY <1>1 DEF Touches, TypeOK, Raise, Step, Ended

LEMMA LossTouches ==
  ASSUME TypeOK, NEW w \in Workers, StartFails(w) \/ RaiseUnrecorded(w)
  PROVE  Touches(w, Ended(w), row[task[w].job])
<1>1. task[w] \in Task /\ task[w].job \in Jobs
  BY Busy DEF StartFails, RaiseUnrecorded, Step
<1> QED
  BY <1>1 DEF Touches, TypeOK, StartFails, RaiseUnrecorded, Step, Own, Ended

LEMMA MarkTouches ==
  ASSUME TypeOK, NEW j \in Jobs, MarkDispatchFailed(j)
  PROVE  /\ \/ row' = row /\ "database" \in Faults
            \/ /\ row'[j].status = "failed" /\ row'[j].error
               /\ row'[j].result = row[j].result
         /\ \A i \in Jobs \ {j} : row'[i] = row[i]
<1> DEFINE r == [row[j] EXCEPT !.status = "failed", !.error = TRUE]
<1>1. CASE row' = row /\ "database" \in Faults
  BY <1>1
<1>2. CASE row' = [row EXCEPT ![j].status = "failed", ![j].error = TRUE]
  <2>1. row[j] \in Row
    BY DEF TypeOK
  <2>2. r.status = "failed" /\ r.error = TRUE /\ r.result = row[j].result
    BY <2>1 DEF Row
  <2>3. row'[j] = r /\ \A i \in Jobs \ {j} : row'[i] = row[i]
    BY <1>2 DEF TypeOK
  <2> HIDE DEF r
  <2> QED
    BY <2>2, <2>3
<1> QED
  BY <1>1, <1>2 DEF MarkDispatchFailed

-----------------------------------------------------------------------------
(* Under every fault: no message without its row, no failure without error. *)

\* The row exists from the commit on, so before the message.
CallerHasRow ==
  \A j \in Jobs : caller[j] \in {"dispatching", "refused"} => row[j].status # "absent"

Recorded == TypeOK /\ CallerHasRow /\ NoMessageWithoutRow /\ FailureIsExplained

LEMMA RecordedInit == Init => Recorded
BY TypeInit DEF Init, Recorded, CallerHasRow, NoMessageWithoutRow, FailureIsExplained,
                Absent, Idle, Holds

\* A worker step that leaves the row of its job as explained as it was.
LEMMA RecordedTouch ==
  ASSUME Recorded, TypeOK', NEW w \in Workers, task[w].pc # "idle", NEW t, NEW r,
         Touches(w, t, r), t.job = task[w].job,
         r.status # "absent", r.status = "failed" => r.error
  PROVE  Recorded'
<1>1. task[w].job \in Jobs /\ Holds(w, task[w].job)
  BY Busy DEF Recorded, Holds
<1>2. CallerHasRow'
  BY <1>1 DEF Recorded, CallerHasRow, Touches
<1>3. NoMessageWithoutRow'
  BY <1>1 DEF Recorded, NoMessageWithoutRow, Touches, Holds
<1>4. FailureIsExplained'
  BY <1>1 DEF Recorded, FailureIsExplained, Touches
<1> QED
  BY <1>2, <1>3, <1>4 DEF Recorded

LEMMA RecordedStep == Recorded /\ [Next]_vars => Recorded'
<1> SUFFICES ASSUME Recorded, [Next]_vars PROVE Recorded'
  OBVIOUS
<1>t. TypeOK /\ TypeOK'
  BY TypeStep DEF Recorded
<1> DEFINE Rest == CallerHasRow' /\ NoMessageWithoutRow' /\ FailureIsExplained'
<1> USE DEF Recorded
<1>1. ASSUME NEW j \in Jobs, Enqueue(j) PROVE Rest
  BY <1>1, <1>t DEF Enqueue, Caller, CallerHasRow, NoMessageWithoutRow, FailureIsExplained,
                    Absent, Holds, TypeOK
<1>2. ASSUME NEW j \in Jobs, Dispatch(j) PROVE Rest
  BY <1>2, <1>t DEF Dispatch, Caller, Send, CallerHasRow, NoMessageWithoutRow,
                    FailureIsExplained, Holds, TypeOK
<1>3. ASSUME NEW j \in Jobs, DispatchRaises(j) PROVE Rest
  BY <1>3, <1>t DEF DispatchRaises, Caller, Send, CallerHasRow, NoMessageWithoutRow,
                    FailureIsExplained, Holds, TypeOK
<1>4. ASSUME NEW j \in Jobs, MarkDispatchFailed(j) PROVE Rest
  BY <1>4, <1>t, MarkTouches, ZenonT(40)
     DEF MarkDispatchFailed, Caller, CallerHasRow, NoMessageWithoutRow,
         FailureIsExplained, Holds, TypeOK
<1>5. ASSUME NEW j \in Jobs, CallerDies(j) PROVE Rest
  BY <1>5, <1>t DEF CallerDies, Caller, CallerHasRow, NoMessageWithoutRow,
                    FailureIsExplained, Holds, TypeOK
<1>6. ASSUME NEW w \in Workers, NEW j \in Jobs, Receive(w, j) PROVE Rest
  <2>1. row[j].status # "absent"
    BY <1>6 DEF Receive, NoMessageWithoutRow
  <2>2. NoMessageWithoutRow'
    BY <1>6, <1>t, <2>1 DEF Receive, NoMessageWithoutRow, Holds, TypeOK
  <2> QED
    BY <1>6, <2>2 DEF Receive, CallerHasRow, FailureIsExplained
<1>7. ASSUME NEW w \in Workers, Start(w) PROVE Rest
  <2>1. task[w].job \in Jobs /\ Holds(w, task[w].job) /\ task[w].pc # "idle"
    BY <1>7, <1>t, Busy DEF Start, Holds
  <2>2. row[task[w].job].status # "absent"
    BY <2>1 DEF NoMessageWithoutRow
  <2>3. row[task[w].job].status = "failed" => row[task[w].job].error
    BY <2>1 DEF FailureIsExplained
  <2> QED
    BY <1>7, <1>t, <2>1, <2>2, <2>3, StartTouches, RecordedTouch
<1>8. ASSUME NEW w \in Workers, StartFails(w) \/ RaiseUnrecorded(w) PROVE Rest
  <2>1. task[w].job \in Jobs /\ Holds(w, task[w].job) /\ task[w].pc # "idle"
    BY <1>8, <1>t, Busy DEF StartFails, RaiseUnrecorded, Step, Holds
  <2>2. row[task[w].job].status # "absent"
    BY <2>1 DEF NoMessageWithoutRow
  <2>3. row[task[w].job].status = "failed" => row[task[w].job].error
    BY <2>1 DEF FailureIsExplained
  <2> QED
    BY <1>8, <1>t, <2>1, <2>2, <2>3, LossTouches, EndedTask, RecordedTouch
<1>9. ASSUME NEW w \in Workers, Succeed(w) PROVE Rest
  <2>1. task[w].pc # "idle"
    BY <1>9 DEF Succeed, Step
  <2> QED
    BY <1>9, <1>t, <2>1, SucceedTouches, EndedTask, RecordedTouch
<1>10. ASSUME NEW w \in Workers, Raise(w) PROVE Rest
  <2>1. task[w].pc # "idle"
    BY <1>10 DEF Raise, Step
  <2> QED
    BY <1>10, <1>t, <2>1, RaiseTouches, EndedTask, RecordedTouch
<1>11. ASSUME NEW w \in Workers, Acknowledge(w) \/ Kill(w) PROVE Rest
  BY <1>11, <1>t DEF Acknowledge, Kill, CallerHasRow, NoMessageWithoutRow,
                     FailureIsExplained, Holds, TypeOK
<1>12. ASSUME NEW w \in Workers, HostDies(w) PROVE Rest
  BY <1>12, <1>t, Busy DEF HostDies, Send, CallerHasRow, NoMessageWithoutRow,
                           FailureIsExplained, Holds, TypeOK
<1>13. CASE UNCHANGED vars
  BY <1>13 DEF vars, CallerHasRow, NoMessageWithoutRow, FailureIsExplained, Holds, TypeOK
<1> QED
  BY <1>t, <1>1, <1>2, <1>3, <1>4, <1>5, <1>6, <1>7, <1>8, <1>9, <1>10, <1>11, <1>12, <1>13
     DEF Next, CallerStep, WorkerStep

\* jobs.py:35: the worker sees the row before it receives the message.
THEOREM WorkersFindTheirJob == Spec => []NoMessageWithoutRow
<1>1. Recorded => NoMessageWithoutRow
  BY DEF Recorded
<1> QED
  BY <1>1, RecordedInit, RecordedStep, PTL DEF Spec

\* No failed job without an error, whoever failed it.
THEOREM FailuresAreExplained == Spec => []FailureIsExplained
<1>1. Recorded => FailureIsExplained
  BY DEF Recorded
<1> QED
  BY <1>1, RecordedInit, RecordedStep, PTL DEF Spec

-----------------------------------------------------------------------------
(* Commits succeed and no process is killed: nothing is left behind, even   *)
(* when messages are repeated and hosts are lost.                           *)

Durable == Faults \intersect {"database", "caller", "kill"} = {}

LEMMA InHandInit == Init => UnfinishedIsInHand
BY DEF Init, UnfinishedIsInHand, Absent

\* A worker step that ends the job, or keeps it in this worker's hands.
LEMMA InHandTouch ==
  ASSUME TypeOK, UnfinishedIsInHand, NEW w \in Workers, task[w].pc # "idle",
         NEW t, NEW r, Touches(w, t, r), t.job = task[w].job,
         \/ r.status \in {"done", "failed"}
         \/ t # Idle /\ t.pc = "running"
  PROVE  UnfinishedIsInHand'
<1> SUFFICES ASSUME NEW j \in Jobs, row'[j].status \in {"pending", "running"}
             PROVE  InHand(j)'
  BY DEF UnfinishedIsInHand
<1>1. CASE j = task[w].job
  <2>1. t # Idle /\ t.pc = "running"
    BY <1>1 DEF Touches
  <2> QED
    BY <1>1, <2>1 DEF Touches, InHand, Holds
<1>2. CASE j # task[w].job
  <2>1. InHand(j)
    BY <1>2 DEF Touches, UnfinishedIsInHand
  <2>2. ASSUME NEW v \in Workers, Holds(v, j), task[v].pc # "finished"
        PROVE  InHand(j)'
    <3>1. v # w
      BY <1>2, <2>2 DEF Holds
    <3> QED
      BY <2>2, <3>1 DEF Touches, InHand, Holds
  <2> QED
    BY <2>1, <2>2 DEF InHand, Touches
<1> QED
  BY <1>1, <1>2

LEMMA InHandStep ==
  ASSUME Durable, Recorded, UnfinishedIsInHand, [Next]_vars
  PROVE  UnfinishedIsInHand'
<1>t. TypeOK
  BY DEF Recorded
<1>1. ASSUME NEW j \in Jobs, Enqueue(j) PROVE UnfinishedIsInHand'
  BY <1>1, <1>t DEF Enqueue, Caller, UnfinishedIsInHand, InHand, Holds, TypeOK
<1>2. ASSUME NEW j \in Jobs, Dispatch(j) PROVE UnfinishedIsInHand'
  BY <1>2, <1>t DEF Dispatch, Caller, Send, UnfinishedIsInHand, InHand, Holds, TypeOK
<1>3. ASSUME NEW j \in Jobs, DispatchRaises(j) PROVE UnfinishedIsInHand'
  BY <1>3, <1>t DEF DispatchRaises, Caller, Send, UnfinishedIsInHand, InHand, Holds, TypeOK
<1>4. ASSUME NEW j \in Jobs, MarkDispatchFailed(j) PROVE UnfinishedIsInHand'
  BY <1>4, <1>t, MarkTouches, ZenonT(40)
     DEF MarkDispatchFailed, Caller, UnfinishedIsInHand, InHand, Holds, TypeOK, Durable
<1>5. ASSUME NEW w \in Workers, NEW j \in Jobs, Receive(w, j) PROVE UnfinishedIsInHand'
  <2>1. row[j].status # "absent"
    BY <1>5 DEF Receive, Recorded, NoMessageWithoutRow
  <2>2. InHand(j)'
    BY <1>5, <1>t, <2>1 DEF Receive, InHand, Holds, TypeOK, Idle
  <2>3. ASSUME NEW i \in Jobs, i # j, InHand(i) PROVE InHand(i)'
    <3>1. ASSUME NEW v \in Workers, Holds(v, i), task[v].pc # "finished"
          PROVE  v # w /\ task'[v] = task[v]
      BY <1>5, <1>t, <3>1 DEF Receive, Holds, TypeOK, Task, Idle
    <3>2. queue'[i] = queue[i] /\ caller' = caller
      BY <1>5, <1>t, <2>3 DEF Receive, TypeOK
    <3> QED
      BY <2>3, <3>1, <3>2 DEF InHand, Holds
  <2> QED
    BY <1>5, <2>2, <2>3 DEF Receive, UnfinishedIsInHand
<1>6. ASSUME NEW w \in Workers, Start(w) PROVE UnfinishedIsInHand'
  <2>1. task[w].pc # "idle"
    BY <1>6 DEF Start
  <2>2. PICK t \in Task, r \in Row :
          Touches(w, t, r) /\ t.job = task[w].job /\ t.pc = "running"
    BY <1>6, <1>t, StartTouches
  <2>3. t # Idle
    BY <2>2 DEF Idle
  <2> QED
    BY <1>t, <2>1, <2>2, <2>3, InHandTouch
<1>7. ASSUME NEW w \in Workers, Succeed(w) PROVE UnfinishedIsInHand'
  <2>1. task[w].pc # "idle"
    BY <1>7 DEF Succeed, Step
  <2>2. PICK r \in Row : Touches(w, Ended(w), r) /\ r.status = "done"
    BY <1>7, <1>t, SucceedTouches
  <2> QED
    BY <1>t, <2>1, <2>2, EndedTask, InHandTouch
<1>8. ASSUME NEW w \in Workers, Raise(w) PROVE UnfinishedIsInHand'
  <2>1. task[w].pc # "idle"
    BY <1>8 DEF Raise, Step
  <2> QED
    BY <1>8, <1>t, <2>1, RaiseTouches, EndedTask, InHandTouch
<1>9. ASSUME NEW w \in Workers, Acknowledge(w) PROVE UnfinishedIsInHand'
  BY <1>9, <1>t DEF Acknowledge, UnfinishedIsInHand, InHand, Holds, TypeOK
<1>10. ASSUME NEW w \in Workers, HostDies(w) PROVE UnfinishedIsInHand'
  <2>1. task[w].pc # "idle" /\ task[w].job \in Jobs
    BY <1>10, <1>t DEF HostDies, TypeOK, Task, Idle
  <2>2. ASSUME NEW i \in Jobs, InHand(i) PROVE InHand(i)'
    BY <1>10, <1>t, <2>1, <2>2 DEF HostDies, Send, InHand, Holds, TypeOK
  <2> QED
    BY <1>10, <2>2 DEF HostDies, UnfinishedIsInHand
<1>11. CASE UNCHANGED vars
  BY <1>11 DEF vars, UnfinishedIsInHand, InHand, Holds
<1> QED
  BY <1>1, <1>2, <1>3, <1>4, <1>5, <1>6, <1>7, <1>8, <1>9, <1>10, <1>11
     DEF Next, CallerStep, WorkerStep, CallerDies, StartFails, RaiseUnrecorded, Kill, Durable

\* While commits succeed and processes live, no job waits for nobody: repeated
\* messages, refusals of the broker and lost hosts leave none behind.
THEOREM NothingIsLeftBehind ==
  ASSUME Durable PROVE Spec => []UnfinishedIsInHand
<1>1. Recorded /\ UnfinishedIsInHand /\ [Next]_vars => (Recorded /\ UnfinishedIsInHand)'
  BY InHandStep, RecordedStep
<1> QED
  BY <1>1, RecordedInit, InHandInit, PTL DEF Spec

-----------------------------------------------------------------------------
(* No message is repeated: a job is run at most once.  The strengthening    *)
(* says how far the row of a job has got, from who has it in hand.          *)

Unrepeated == Faults \intersect {"publish", "host"} = {}

\* Before a worker takes it, a job that was enqueued is pending.
Untaken ==
  \A j \in Jobs :
    /\ caller[j] = "none" => row[j].status = "absent"
    /\ caller[j] \in {"dispatching", "refused"} \/ queue[j] > 0 => row[j].status = "pending"

\* A worker and the row of its job agree.
Agree ==
  \A w \in Workers :
    /\ task[w].pc = "received" =>
         /\ row[task[w].job].status = "pending"
         /\ task[w].status = "pending" /\ ~ task[w].result
    /\ task[w].pc = "running" =>
         row[task[w].job].status = "running" /\ ~ task[w].result

Once == TypeOK /\ OneHolder /\ OutcomeIsExact /\ Untaken /\ Agree

ExactRow(r) ==
  /\ r.status = "done" <=> r.result
  /\ r.status = "failed" <=> r.error

LEMMA OnceInit == Init => Once
BY TypeInit DEF Init, Once, OneHolder, OutcomeIsExact, Untaken, Agree, Holds, Absent, Idle

\* A worker step that keeps its job in step with it.
LEMMA OnceTouch ==
  ASSUME Once, TypeOK', NEW w \in Workers, task[w].pc # "idle",
         NEW t, NEW r, Touches(w, t, r), t # Idle, t.job = task[w].job,
         t.pc \in {"running", "finished"},
         t.pc = "running" => r.status = "running" /\ ~ t.result,
         ExactRow(r)
  PROVE  Once'
<1>1. task[w].job \in Jobs /\ Holds(w, task[w].job)
  BY Busy DEF Once, Holds
<1>2. caller[task[w].job] = "answered" /\ queue[task[w].job] = 0
  BY <1>1 DEF Once, OneHolder
<1>3. OneHolder'
  <2>1. \A v \in Workers, j \in Jobs : Holds(v, j)' <=> Holds(v, j)
    BY <1>1 DEF Touches, Holds
  <2>2. caller' = caller /\ queue' = queue
    BY DEF Touches
  <2> QED
    BY <2>1, <2>2 DEF Once, OneHolder
<1>4. OutcomeIsExact'
  BY <1>1 DEF Once, OutcomeIsExact, Touches, ExactRow
<1>5. Untaken'
  BY <1>2 DEF Once, Untaken, Touches
<1>6. Agree'
  <2> SUFFICES ASSUME NEW v \in Workers, v # w, task[v].pc \in {"received", "running"}
               PROVE  row'[task[v].job] = row[task[v].job]
    BY <1>1 DEF Once, Agree, Touches
  <2>1. task[v].job \in Jobs /\ Holds(v, task[v].job)
    BY Busy DEF Once, Holds
  <2>2. task[v].job # task[w].job
    BY <1>1, <2>1 DEF Once, OneHolder
  <2> QED
    BY <2>1, <2>2 DEF Touches
<1> QED
  BY <1>3, <1>4, <1>5, <1>6 DEF Once

\* The step of the board that a change of one row is.
LEMMA BoardMove ==
  ASSUME TypeOK, TypeOK', NEW j \in Jobs,
         \A i \in Jobs \ {j} : row'[i] = row[i],
         \/ row'[j].status = row[j].status
         \/ <<row[j].status, row'[j].status>> \in
              {<<"absent", "pending">>, <<"pending", "failed">>, <<"pending", "running">>,
               <<"running", "done">>, <<"running", "failed">>}
  PROVE  [Board!Next]_statuses
<1>1. CASE row'[j].status = row[j].status
  BY <1>1 DEF statuses
<1>2. ASSUME NEW from, NEW to, row[j].status = from, row'[j].status = to
      PROVE  statuses[j] = from /\ statuses' = [statuses EXCEPT ![j] = to]
  BY <1>2 DEF statuses
<1> QED
  BY <1>1, <1>2 DEF Board!Next, Board!Move, Board!Post, Board!Refuse, Board!Begin,
                    Board!Finish, Board!Fail

BoardStep == [Board!Next]_statuses

\* Every step keeps the invariant and is a step of the board.
LEMMA OnceStep ==
  ASSUME Unrepeated, Once, [Next]_vars
  PROVE  Once' /\ BoardStep
<1>t. TypeOK /\ TypeOK'
  BY TypeStep DEF Once
<1> DEFINE Kept == OneHolder' /\ OutcomeIsExact' /\ Untaken' /\ Agree'
<1>r. ASSUME row' = row PROVE BoardStep
  BY <1>r DEF BoardStep, statuses
<1>1. ASSUME NEW j \in Jobs, Enqueue(j) PROVE Kept /\ BoardStep
  <2>1. row[j].status = "absent" /\ queue[j] = 0 /\ \A w \in Workers : ~ Holds(w, j)
    BY <1>1, <1>t DEF Enqueue, Caller, Once, Untaken, OneHolder
  <2>2. /\ row'[j] = [status |-> "pending", error |-> FALSE, result |-> FALSE]
        /\ \A i \in Jobs \ {j} : row'[i] = row[i]
    BY <1>1, <1>t DEF Enqueue, Absent, TypeOK
  <2>3. caller'[j] = "dispatching" /\ \A i \in Jobs \ {j} : caller'[i] = caller[i]
    BY <1>1, <1>t DEF Enqueue, Caller, TypeOK
  <2>4. queue' = queue /\ task' = task
    BY <1>1 DEF Enqueue
  <2>5. \A w \in Workers : task[w].pc # "idle" => task[w].job # j
    BY <2>1, <1>t, Busy DEF Holds
  <2>6. OneHolder' /\ OutcomeIsExact' /\ Untaken'
    BY <2>1, <2>2, <2>3, <2>4 DEF Once, OneHolder, OutcomeIsExact, Untaken, Holds
  <2>7. Agree'
    BY <2>2, <2>4, <2>5, <1>t, Busy DEF Once, Agree
  <2>8. BoardStep
    BY <2>1, <2>2, <1>t, BoardMove DEF BoardStep
  <2> QED
    BY <2>6, <2>7, <2>8
<1>2. ASSUME NEW j \in Jobs, Dispatch(j) PROVE Kept /\ BoardStep
  <2>1. queue[j] = 0 /\ row[j].status = "pending" /\ \A w \in Workers : ~ Holds(w, j)
    BY <1>2, <1>t DEF Dispatch, Caller, Once, Untaken, OneHolder
  <2>2. caller'[j] = "answered" /\ \A i \in Jobs \ {j} : caller'[i] = caller[i]
    BY <1>2, <1>t DEF Dispatch, Caller, TypeOK
  <2>3. queue'[j] = 1 /\ \A i \in Jobs \ {j} : queue'[i] = queue[i]
    BY <1>2, <1>t, <2>1 DEF Dispatch, Send, TypeOK, Unrepeated
  <2>4. row' = row /\ task' = task
    BY <1>2 DEF Dispatch
  <2> QED
    BY <1>r, <2>1, <2>2, <2>3, <2>4
       DEF Once, OneHolder, OutcomeIsExact, Untaken, Agree, Holds
<1>3. ASSUME NEW j \in Jobs, DispatchRaises(j) PROVE Kept /\ BoardStep
  <2>1. caller[j] = "dispatching" /\ caller'[j] = "refused"
          /\ \A i \in Jobs \ {j} : caller'[i] = caller[i]
    BY <1>3, <1>t DEF DispatchRaises, Caller, TypeOK
  <2>2. row' = row /\ task' = task /\ queue' = queue
    BY <1>3 DEF DispatchRaises, Unrepeated
  <2> QED
    BY <1>r, <2>1, <2>2 DEF Once, OneHolder, OutcomeIsExact, Untaken, Agree, Holds
<1>4. ASSUME NEW j \in Jobs, MarkDispatchFailed(j) PROVE Kept /\ BoardStep
  <2>1. row[j].status = "pending" /\ queue[j] = 0 /\ \A w \in Workers : ~ Holds(w, j)
    BY <1>4, <1>t DEF MarkDispatchFailed, Caller, Once, Untaken, OneHolder
  <2>2. caller[j] = "refused" /\ caller'[j] = "answered"
          /\ \A i \in Jobs \ {j} : caller'[i] = caller[i]
    BY <1>4, <1>t DEF MarkDispatchFailed, Caller, TypeOK
  <2>3. queue' = queue /\ task' = task
    BY <1>4 DEF MarkDispatchFailed
  <2>4. ~ row[j].result
    BY <2>1 DEF Once, OutcomeIsExact
  <2>5. \A w \in Workers : task[w].pc # "idle" => task[w].job # j
    BY <2>1, <1>t, Busy DEF Holds
  <2>6. OneHolder' /\ OutcomeIsExact' /\ Untaken'
    BY <1>4, <1>t, MarkTouches, <2>1, <2>2, <2>3, <2>4
       DEF Once, OneHolder, OutcomeIsExact, Untaken, Holds
  <2>7. Agree'
    BY <1>4, <1>t, MarkTouches, <2>3, <2>5, Busy DEF Once, Agree
  <2>8. BoardStep
    BY <1>4, <1>t, MarkTouches, <2>1, BoardMove DEF BoardStep
  <2> QED
    BY <2>6, <2>7, <2>8
<1>5. ASSUME NEW j \in Jobs, CallerDies(j) PROVE Kept /\ BoardStep
  <2>1. caller[j] \in {"dispatching", "refused"} /\ caller'[j] = "answered"
          /\ \A i \in Jobs \ {j} : caller'[i] = caller[i]
    BY <1>5, <1>t DEF CallerDies, Caller, TypeOK
  <2>2. row' = row /\ task' = task /\ queue' = queue
    BY <1>5 DEF CallerDies
  <2> QED
    BY <1>r, <2>1, <2>2 DEF Once, OneHolder, OutcomeIsExact, Untaken, Agree, Holds
<1>6. ASSUME NEW w \in Workers, NEW j \in Jobs, Receive(w, j) PROVE Kept /\ BoardStep
  <2>1. queue[j] = 1 /\ task[w].pc = "idle"
    BY <1>6, <1>t DEF Receive, Once, OneHolder, TypeOK
  <2>2. /\ row[j].status = "pending" /\ ~ row[j].result
        /\ caller[j] = "answered" /\ \A v \in Workers : ~ Holds(v, j)
    BY <2>1, <1>t DEF Once, Untaken, OneHolder, OutcomeIsExact, TypeOK
  <2>3. queue'[j] = 0 /\ \A i \in Jobs \ {j} : queue'[i] = queue[i]
    BY <1>6, <1>t, <2>1 DEF Receive, TypeOK
  <2>4. /\ task'[w] = [job |-> j, pc |-> "received", status |-> "pending", result |-> row[j].result]
        /\ \A v \in Workers \ {w} : task'[v] = task[v]
    BY <1>6, <1>t, <2>2 DEF Receive, TypeOK
  <2>5. row' = row /\ caller' = caller
    BY <1>6 DEF Receive
  <2>6. \A v \in Workers, i \in Jobs : Holds(v, i)' => Holds(v, i) \/ (v = w /\ i = j)
    BY <2>4 DEF Holds
  <2>7. OneHolder'
    BY <2>2, <2>3, <2>5, <2>6 DEF Once, OneHolder
  <2>8. OutcomeIsExact' /\ Untaken' /\ Agree'
    BY <2>2, <2>3, <2>4, <2>5 DEF Once, OutcomeIsExact, Untaken, Agree
  <2> QED
    BY <1>r, <2>5, <2>7, <2>8
<1>7. ASSUME NEW w \in Workers, Start(w) PROVE Once' /\ BoardStep
  <2>1. task[w].pc = "received" /\ task[w].job \in Jobs
    BY <1>7, <1>t, Busy DEF Start
  <2>2. /\ row[task[w].job].status = "pending"
        /\ task[w].status = "pending" /\ ~ task[w].result
    BY <2>1 DEF Once, Agree
  <2>3. ExactRow(row[task[w].job])
    BY <2>1 DEF Once, OutcomeIsExact, ExactRow
  <2>4. PICK t \in Task, r \in Row :
          /\ Touches(w, t, r)
          /\ t.job = task[w].job /\ t.pc = "running" /\ ~ t.result
          /\ r.status = "running"
          /\ r.error = row[task[w].job].error /\ r.result = row[task[w].job].result
    BY <1>7, <1>t, <2>2, StartTouches
  <2>5. t # Idle /\ ExactRow(r)
    BY <2>2, <2>3, <2>4 DEF Idle, ExactRow
  <2>6. Once'
    BY <2>1, <2>4, <2>5, <1>t, OnceTouch
  <2>7. BoardStep
    BY <2>1, <2>2, <2>4, <1>t, BoardMove DEF Touches, BoardStep
  <2> QED
    BY <2>6, <2>7
<1>8. ASSUME NEW w \in Workers, StartFails(w) \/ RaiseUnrecorded(w) PROVE Once' /\ BoardStep
  <2>1. task[w].pc # "idle" /\ task[w].job \in Jobs
    BY <1>8, <1>t, Busy DEF StartFails, RaiseUnrecorded, Step
  <2>2. Touches(w, Ended(w), row[task[w].job]) /\ ExactRow(row[task[w].job])
    BY <1>8, <1>t, <2>1, LossTouches DEF Once, OutcomeIsExact, ExactRow
  <2>3. Once'
    BY <2>1, <2>2, <1>t, EndedTask, OnceTouch
  <2>4. BoardStep
    BY <2>1, <2>2, <1>t, BoardMove DEF Touches, BoardStep
  <2> QED
    BY <2>3, <2>4
<1>9. ASSUME NEW w \in Workers, Succeed(w) PROVE Once' /\ BoardStep
  <2>1. task[w].pc = "running" /\ task[w].job \in Jobs
    BY <1>9, <1>t, Busy DEF Succeed, Step
  <2>2. row[task[w].job].status = "running" /\ ~ task[w].result
    BY <2>1 DEF Once, Agree
  <2>3. ~ row[task[w].job].error
    BY <2>1, <2>2 DEF Once, OutcomeIsExact
  <2>4. PICK r \in Row : Touches(w, Ended(w), r) /\ r.status = "done" /\ r.result /\ ~ r.error
    BY <1>9, <1>t, <2>2, <2>3, SucceedTouches
  <2>5. ExactRow(r)
    BY <2>4 DEF ExactRow
  <2>6. Once'
    BY <2>1, <2>4, <2>5, <1>t, EndedTask, OnceTouch
  <2>7. BoardStep
    BY <2>1, <2>2, <2>4, <1>t, BoardMove DEF Touches, BoardStep
  <2> QED
    BY <2>6, <2>7
<1>10. ASSUME NEW w \in Workers, Raise(w) PROVE Once' /\ BoardStep
  <2>1. task[w].pc = "running" /\ task[w].job \in Jobs
    BY <1>10, <1>t, Busy DEF Raise, Step
  <2>2. row[task[w].job].status = "running"
    BY <2>1 DEF Once, Agree
  <2> DEFINE r == [status |-> "failed", error |-> TRUE, result |-> FALSE]
  <2>3. Touches(w, Ended(w), r) /\ ExactRow(r)
    BY <1>10, <1>t, RaiseTouches DEF ExactRow
  <2>4. Once'
    BY <2>1, <2>3, <1>t, EndedTask, OnceTouch
  <2>5. BoardStep
    BY <2>1, <2>2, <2>3, <1>t, BoardMove DEF Touches, BoardStep
  <2> QED
    BY <2>4, <2>5
<1>11. ASSUME NEW w \in Workers, Acknowledge(w) \/ Kill(w) PROVE Kept /\ BoardStep
  <2>1. task'[w] = Idle /\ \A v \in Workers \ {w} : task'[v] = task[v]
    BY <1>11, <1>t DEF Acknowledge, Kill, TypeOK
  <2>2. row' = row /\ caller' = caller /\ queue' = queue
    BY <1>11 DEF Acknowledge, Kill
  <2>3. \A v \in Workers, i \in Jobs : Holds(v, i)' => Holds(v, i)
    BY <2>1 DEF Holds
  <2>4. OneHolder'
    BY <2>2, <2>3 DEF Once, OneHolder
  <2>5. OutcomeIsExact' /\ Untaken' /\ Agree'
    BY <2>1, <2>2 DEF Once, OutcomeIsExact, Untaken, Agree, Idle
  <2> QED
    BY <1>r, <2>2, <2>4, <2>5
<1>12. CASE UNCHANGED vars
  BY <1>12, <1>r, <1>t DEF vars, Once, OneHolder, OutcomeIsExact, Untaken, Agree, Holds, TypeOK
<1> QED
  BY <1>t, <1>1, <1>2, <1>3, <1>4, <1>5, <1>6, <1>7, <1>8, <1>9, <1>10, <1>11, <1>12
     DEF Once, Next, CallerStep, WorkerStep, HostDies, Unrepeated

\* Without repeated messages, no two workers ever have the same job.
THEOREM JobsRunOnce == ASSUME Unrepeated PROVE Spec => []OneHolder
<1>1. Once /\ [Next]_vars => Once'
  BY OnceStep
<1>2. Once => OneHolder
  BY DEF Once
<1> QED
  BY <1>1, <1>2, OnceInit, PTL DEF Spec

\* Without repeated messages, a job shows a result exactly when it is done
\* and an error exactly when it failed.
THEOREM OutcomesAreExact == ASSUME Unrepeated PROVE Spec => []OutcomeIsExact
<1>1. Once /\ [Next]_vars => Once'
  BY OnceStep
<1>2. Once => OutcomeIsExact
  BY DEF Once
<1> QED
  BY <1>1, <1>2, OnceInit, PTL DEF Spec

\* Without repeated messages, the jobs table implements the job board, even
\* when callers and workers die and commits fail.
THEOREM JobsFollowTheBoard == ASSUME Unrepeated PROVE Spec => FollowsBoard
<1>1. Init => Board!Init
  BY DEF Init, Board!Init, Absent, statuses
<1>2. Once /\ [Next]_vars => Once' /\ BoardStep
  BY OnceStep
<1> QED
  BY <1>1, <1>2, OnceInit, PTL DEF Spec, FollowsBoard, Board!Spec, BoardStep
=============================================================================
