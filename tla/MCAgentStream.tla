---------------------------- MODULE MCAgentStream ---------------------------
(* One agent and two or three calls, one of which a guardrail answers.      *)
EXTENDS AgentStream

CONSTANTS c1, c2

\* A turn of text.
OnePast == {<<Message("user"), Message("answer")>>}
=============================================================================
