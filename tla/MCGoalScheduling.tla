-------------------------- MODULE MCGoalScheduling --------------------------
(* Small instances of GoalScheduling, by what the user and the model do.   *)
EXTENDS GoalScheduling, TLC

CONSTANTS g1, g2, g3, u1

Symmetry == Permutations(Work)

\* The model reschedules goals, the user adds to them; nobody ends
\* one that runs.
Scheduling == {"create", "queue", "pause", "resume", "complete",
               "postpone", "block", "promote", "reorder", "delete"}

\* Goals end in every way, and the forwarder promotes their successors.
Ending == {"create", "queue", "resume", "complete", "arm",
           "cancel", "replace", "cancelAll"}
=============================================================================
