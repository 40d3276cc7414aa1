----------------------------- MODULE MCGoalMode -----------------------------
(* Instances of GoalMode small enough for TLC. *)
EXTENDS GoalMode, TLC

\* A goal the gate applies to, and one it does not.
Gated == [kind |-> "standard", managed |-> FALSE, criterion |-> TRUE, verifyCmd |-> TRUE]
Plain == [kind |-> "unblock", managed |-> FALSE, criterion |-> FALSE, verifyCmd |-> FALSE]

GatedAndPlain == {Gated, Plain}
OneBudget == {1}

Symmetry == Permutations(Goals) \cup Permutations(Requests)
=============================================================================
