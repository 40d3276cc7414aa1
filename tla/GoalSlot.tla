------------------------------ MODULE GoalSlot ------------------------------
(***************************************************************************)
(* What the goal event log promises, with nothing said about the process   *)
(* that writes it, its mutex, its crashes or its replays: there is one     *)
(* slot, the goal in it lives through the statuses of docs/GOALS.md in a   *)
(* legal order, and a goal that left the slot never comes back.  A record  *)
(* can be lost; until the gap is closed the goal in the slot may take any  *)
(* status, and a new goal may take the place of one whose end was lost.    *)
(***************************************************************************)
CONSTANTS Goals, Empty

VARIABLES slot, gone, lossy

vars == <<slot, gone, lossy>>

Full == slot # Empty

Init == slot = Empty /\ gone = {} /\ lossy = FALSE

Create(g) ==
  /\ slot = Empty /\ g \in Goals \ gone
  /\ slot' = [id |-> g, status |-> "active"]
  /\ gone' = gone /\ lossy' = FALSE

Go(from, to) ==
  /\ ~lossy /\ lossy' = FALSE
  /\ Full /\ slot.status \in from
  /\ slot' = [slot EXCEPT !.status = to]

Pause == Go({"active"}, "paused") /\ gone' = gone

Block == Go({"active"}, "blocked") /\ gone' = gone

Resume == Go({"paused", "blocked"}, "active") /\ gone' = gone

\* Only a goal that is being worked on can be completed.
Complete == Go({"active"}, "complete") /\ gone' = gone \cup {slot.id}

\* A cancelled, replaced or expired goal, and the end of a completed one.
Leave == Full /\ slot' = Empty /\ gone' = gone \cup {slot.id} /\ lossy' = FALSE

\* A record of the goal's life is lost.
Lose == lossy' = TRUE /\ UNCHANGED <<slot, gone>>

\* The gap is closed, by a record or because a restart takes the log as it is.
Settle == lossy' = FALSE /\ UNCHANGED <<slot, gone>>

\* A status that does not follow from the one in the log.
Stray(to) ==
  /\ lossy /\ lossy' \in BOOLEAN
  /\ Full /\ slot' = [slot EXCEPT !.status = to]
  /\ gone' = IF to = "complete" THEN gone \cup {slot.id} ELSE gone

\* A new goal where the end of the last one is missing.
Supersede(g) ==
  /\ lossy /\ lossy' = FALSE
  /\ Full /\ g \in Goals \ (gone \cup {slot.id})
  /\ slot' = [id |-> g, status |-> "active"]
  /\ gone' = gone \cup {slot.id}

Next ==
  \/ \E g \in Goals : Create(g) \/ Supersede(g)
  \/ Pause \/ Block \/ Resume \/ Complete \/ Leave
  \/ Lose \/ Settle
  \/ \E s \in {"active", "paused", "blocked", "complete"} : Stray(s)

Spec == Init /\ [][Next]_vars
=============================================================================
