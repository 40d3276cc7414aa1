------------------------------ MODULE SlotPool ------------------------------
(***************************************************************************)
(* What a bounded pool promises (docs/ORCHESTRATOR.md, "Caps &             *)
(* backpressure"), with nothing said about counters, queues or channels:   *)
(* callers take and give back slots, and neither the total cap nor the cap *)
(* of a model is ever exceeded.                                            *)
(***************************************************************************)
EXTENDS Naturals, FiniteSets

CONSTANTS Callers, ModelOf, TotalCap, ModelCap

VARIABLE held   \* the callers that have a slot

Under(cap, taken) == cap = 0 \/ Cardinality(taken) < cap

SameModel(c) == {d \in held : ModelOf[d] = ModelOf[c]}

Take(c) ==
  /\ c \notin held
  /\ Under(TotalCap, held) /\ Under(ModelCap[ModelOf[c]], SameModel(c))
  /\ held' = held \cup {c}

Give(c) == c \in held /\ held' = held \ {c}

Init == held = {}

Next == \E c \in Callers : Take(c) \/ Give(c)

Spec == Init /\ [][Next]_held
=============================================================================
