------------------------------- MODULE JobBoard -------------------------------
(***************************************************************************)
(* What the jobs table promises to those who poll it: a job is posted      *)
(* pending, a worker takes it at most once, and once it is done or failed  *)
(* its status never changes again.                                         *)
(***************************************************************************)
CONSTANT Jobs    \* the jobs, identified by their id

VARIABLE board   \* the status of each job

Init == board = [j \in Jobs |-> "absent"]

Move(j, from, to) ==
  /\ board[j] = from
  /\ board' = [board EXCEPT ![j] = to]

Post(j)   == Move(j, "absent", "pending")
Refuse(j) == Move(j, "pending", "failed")    \* the broker refused the message
Begin(j)  == Move(j, "pending", "running")
Finish(j) == Move(j, "running", "done")
Fail(j)   == Move(j, "running", "failed")

Next == \E j \in Jobs : Post(j) \/ Refuse(j) \/ Begin(j) \/ Finish(j) \/ Fail(j)

Spec == Init /\ [][Next]_board
=============================================================================
