---------------------------- MODULE MCAgentTurns ----------------------------
(* Small instances of AgentTurns: messages, turn goroutines and drive      *)
(* goroutines are interchangeable.                                         *)
EXTENDS AgentTurns, TLC

Symmetry == Permutations(Inputs) \cup Permutations(Turns) \cup Permutations(Drivers)

=============================================================================
