------------------------------ MODULE MCHubRun ------------------------------
(* The loop and three delegations share three slots: two delegations may run *)
(* at once, a third waits for a slot; two of them are of a model capped at   *)
(* one agent, so one may wait although the pool has room.                    *)
EXTENDS HubRun, TLC

CONSTANTS d1, d2, d3, fast, slow

ModelsOfRoles == (Orch :> fast) @@ (d1 :> fast) @@ (d2 :> slow) @@ (d3 :> slow)

SlowIsCapped == (slow :> 1) @@ (fast :> 0)
=============================================================================
