---------------------------- MODULE MCAgentPool -----------------------------
(* Four callers of two models; the caps are small enough to block on each. *)
EXTENDS AgentPool, TLC

CONSTANTS c1, c2, c3, c4, fast, slow

SlowIsCapped == (slow :> 1) @@ (fast :> 0)

TwoModels == (c1 :> slow) @@ (c2 :> slow) @@ (c3 :> fast) @@ (c4 :> fast)
=============================================================================
