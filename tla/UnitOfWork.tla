------------------------------ MODULE UnitOfWork ------------------------------
(***************************************************************************)
(* How a database session writes a row (SQLAlchemy's unit of work): it     *)
(* changes the copy it read, nothing is locked meanwhile, and the UPDATE   *)
(* carries the columns that differ from what was read, no other.           *)
(***************************************************************************)

\* Wrong: every column is written.
Written_whole(current, old, new) == new

\* The row once a session that read `old` has committed `new`.
Written(current, old, new) ==
  [f \in DOMAIN current |-> IF new[f] # old[f] THEN new[f] ELSE current[f]]
=============================================================================
