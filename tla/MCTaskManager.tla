--------------------------- MODULE MCTaskManager ---------------------------
(***************************************************************************)
(* Values for the constants of TaskManager.                                *)
(***************************************************************************)
EXTENDS TaskManager, TLC

CONSTANTS a, b, h1, h2, h3, ws, http, main

\* The schedules the clients create.
AOnce        == {[id |-> a, code |-> "once"]}
AOnceBWeekly == AOnce \cup {[id |-> b, code |-> "weekly"]}
ABWeekly     == [id : {a, b}, code : {"weekly"}]

\* What a reused stack frame may read as.
None      == {}
AnotherId == {[id |-> b, code |-> "once"]}

Symm == Permutations(Handles)

\* With overlapping calls updates of task_count are lost for ever.  The executions
\* in which it falls below Floor are cut there, and NVS refuses every access.
Floor == -1
Overlapping ==
  /\ Init /\ [][Next /\ task_count' >= Floor /\ flash' = << >> /\ stale']_vars
  /\ Fairness
=============================================================================
