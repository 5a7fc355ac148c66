--------------------------- MODULE MCTaskScheduler ---------------------------
(***************************************************************************)
(* TaskScheduler on small instances, with the claim of its comments that   *)
(* the code does not meet.                                                 *)
(***************************************************************************)
EXTENDS TaskScheduler, TLC

CONSTANTS t1, t2, t3

\* The main thread spawns t1 and t2; t1's function spawns t3.
MCParent == [t \in Tasks |-> IF t = t3 THEN t1 ELSE Main]

\* task.cc:480 "return to scheduler when finished" (task.cc:430: "so uc_link
\* always points to a valid context"): the context a finished fiber returns to
\* is the scheduler context of the worker that runs it.
ReturnsToOwnScheduler == ~undefined_
=============================================================================
