----------------------------- MODULE MCTaskLoop -----------------------------
(* Two tasks and two handles: one task can wait for an operation while the  *)
(* other one waits for another, and every index is reused.  The third task  *)
(* is for the second wake-up of an idle one.                                *)
EXTENDS TaskLoop

CONSTANTS t1, t2, t3, h1, h2

MCTasks == {t1, t2}
MCThreeTasks == {t1, t2, t3}
MCHandles == {h1, h2}
=============================================================================
