--------------------------- MODULE ToolScheduler ----------------------------
(***************************************************************************)
(* One batch of tool calls: the agent adds them to a ToolScheduler in the  *)
(* order in which the model made them and collects their results           *)
(* (internal/agentic/tool_scheduler.go, agent_tools.go).                   *)
(*                                                                         *)
(* The agent's goroutine, one goroutine per running call and one watcher   *)
(* per queued call meet at the scheduler's mutex and at each call's once.  *)
(* A call is chosen to start under the mutex and becomes active under      *)
(* another acquisition of it: in between it is in neither list.            *)
(*                                                                         *)
(* The agent arms no deadline (NewToolScheduler leaves taskTimeout at zero *)
(* and scheduleAndRunToolCalls sets none), so watchDeadline never runs.    *)
(***************************************************************************)
EXTENDS Naturals, FiniteSets

CONSTANTS
    N,          \* calls in the batch
    Batches,    \* the batches: what each call declares it reads, writes, and
                \* its category
    NoCategory,
    MaxPar,     \* maxParallel
    Hanging     \* calls whose tool may never return

Calls == 1 .. N

ASSUME BatchOK == N \in Nat /\ MaxPar \in Nat \ {0} /\ Hanging \subseteq Calls

VARIABLES
    access,     \* the access each call declares
    next,       \* the next call to Add
    at,         \* where each call is
    watched,    \* calls with a cancellation watcher
    result,     \* what each call's once has set
    cancelled,  \* the scheduler's context has ended
    collected   \* Collect has returned

vars == <<access, next, at, watched, result, cancelled, collected>>

\* unsent: not added;  admitted: Add found it free;  pending;  picked: taken
\* off pending;  running: in active;  returned: executed, still in active;
\* gone.
Places == {"unsent", "admitted", "pending", "picked", "running", "returned", "gone"}

Outcomes == {"none", "own", "cancelled"}

In(places) == {c \in Calls : at[c] \in places}

Pending == In({"pending"})
ActiveCalls == In({"running", "returned"})
Starting == In({"admitted", "picked"})

TypeOK ==
  /\ access \in Batches
  /\ next \in 1 .. N + 1
  /\ at \in [Calls -> Places] /\ result \in [Calls -> Outcomes]
  /\ watched \subseteq Calls
  /\ cancelled \in BOOLEAN /\ collected \in BOOLEAN

-----------------------------------------------------------------------------

\* toolaccess.Conflict: the same category, or a path that one of them writes.
Conflict(a, b) ==
  \/ a.category # NoCategory /\ a.category = b.category
  \/ a.writes \cap (b.writes \cup b.reads) # {}
  \/ a.reads \cap b.writes # {}

Clash(c, cs) == \E d \in cs : Conflict(access[c], access[d])

\* The result is set and done is closed by the first to come.
Once(c, outcome) ==
  result' = IF result[c] = "none" THEN [result EXCEPT ![c] = outcome] ELSE result

-----------------------------------------------------------------------------

\* A variant that leaves a queued call unwatched.
AddUnwatched(c) ==
  /\ c = next /\ c \in Calls /\ In({"admitted"}) = {}
  /\ next' = next + 1
  /\ IF ~Clash(c, ActiveCalls \cup Pending) /\ Cardinality(ActiveCalls) < MaxPar
       THEN at' = [at EXCEPT ![c] = "admitted"]
       ELSE at' = [at EXCEPT ![c] = "pending"]
  /\ UNCHANGED <<access, watched, result, cancelled, collected>>

\* Add, up to its unlock: pending keeps the order of submission, so the
\* calls' numbers say it.  The goroutine starts an admitted call before it
\* adds another.
Add(c) ==
  /\ c = next /\ c \in Calls /\ In({"admitted"}) = {}
  /\ next' = next + 1
  /\ IF ~Clash(c, ActiveCalls \cup Pending) /\ Cardinality(ActiveCalls) < MaxPar
       THEN at' = [at EXCEPT ![c] = "admitted"] /\ UNCHANGED watched
       ELSE at' = [at EXCEPT ![c] = "pending"] /\ watched' = watched \cup {c}
  /\ UNCHANGED <<access, result, cancelled, collected>>

\* The second acquisition: start appends the call to active and runs it,
\* also if a watcher has answered it already.
Start(c) ==
  /\ c \in Starting
  /\ at' = [at EXCEPT ![c] = "running"]
  /\ UNCHANGED <<access, next, watched, result, cancelled, collected>>

\* A variant whose panics close nothing.
ReturnUnanswered(c) ==
  /\ at[c] = "running"
  /\ at' = [at EXCEPT ![c] = "returned"]
  /\ result' \in {result, IF result[c] = "none" THEN [result EXCEPT ![c] = "own"] ELSE result}
  /\ UNCHANGED <<access, next, watched, cancelled, collected>>

\* Execute returns or panics.
Return(c) ==
  /\ at[c] = "running"
  /\ at' = [at EXCEPT ![c] = "returned"] /\ Once(c, "own")
  /\ UNCHANGED <<access, next, watched, cancelled, collected>>

\* What collectUnblocked picks, in the order of submission: a call that
\* clashes with nothing active and nothing picked before it, under the cap.
Unblocked(picks, active) ==
  \A c \in Pending :
    LET before == {d \in picks : d < c}
    IN c \in picks <=> /\ ~Clash(c, active \cup before)
                       /\ Cardinality(active) + Cardinality(before) < MaxPar

\* A variant that looks at the queue before it has left the active list.
FinishLooksFirst(c) ==
  /\ at[c] = "returned"
  /\ \E picks \in SUBSET Pending :
       /\ Unblocked(picks, ActiveCalls)
       /\ at' = [d \in Calls |-> IF d = c THEN "gone"
                                 ELSE IF d \in picks THEN "picked" ELSE at[d]]
  /\ UNCHANGED <<access, next, watched, result, cancelled, collected>>

\* finish, up to the unlock of removeAndFindUnblocked.
Finish(c) ==
  /\ at[c] = "returned"
  /\ \E picks \in SUBSET Pending :
       /\ Unblocked(picks, ActiveCalls \ {c})
       /\ at' = [d \in Calls |-> IF d = c THEN "gone"
                                 ELSE IF d \in picks THEN "picked" ELSE at[d]]
  /\ UNCHANGED <<access, next, watched, result, cancelled, collected>>

\* watchCancellation: the call may be pending, starting or running by now.
CancelQueued(c) ==
  /\ cancelled /\ c \in watched /\ result[c] = "none"
  /\ Once(c, "cancelled")
  /\ UNCHANGED <<access, next, at, watched, cancelled, collected>>

\* The turn is stopped.
CancelTurn ==
  /\ ~cancelled /\ cancelled' = TRUE
  /\ UNCHANGED <<access, next, at, watched, result, collected>>

\* Collect returns and the deferred Shutdown cancels the context.
Collect ==
  /\ ~collected /\ next = N + 1 /\ In({"admitted"}) = {}
  /\ \A c \in Calls : result[c] # "none"
  /\ collected' = TRUE /\ cancelled' = TRUE
  /\ UNCHANGED <<access, next, at, watched, result>>

-----------------------------------------------------------------------------

Init ==
  /\ access \in Batches
  /\ next = 1
  /\ at = [c \in Calls |-> "unsent"] /\ result = [c \in Calls |-> "none"]
  /\ watched = {} /\ cancelled = FALSE /\ collected = FALSE

Goes(c) == Add(c) \/ Start(c) \/ Finish(c) \/ CancelQueued(c)

Next ==
  \/ \E c \in Calls : Goes(c) \/ Return(c)
  \/ CancelTurn \/ Collect

\* Goroutines run on; a tool returns unless it hangs.  Nothing is assumed of the
\* user's cancellation.
Fairness ==
  /\ \A c \in Calls : WF_vars(Goes(c))
  /\ \A c \in Calls \ Hanging : WF_vars(Return(c))
  /\ WF_vars(Collect)

Spec == Init /\ [][Next]_vars /\ Fairness

-----------------------------------------------------------------------------

\* "At least one task always makes progress" (collectUnblocked): no call
\* waits unless one that will look at the queue again is on its way.
NobodyForgotten == Pending # {} => Starting \cup ActiveCalls # {}

\* Tools that hang.
Hung == {c \in Hanging : at[c] = "running"}

\* A call left in the queue for a reason: the cap is full of tools that hang, or
\* it clashes with one of them or with another queued call.
Excused(d) ==
  /\ at[d] = "pending"
  /\ Cardinality(Hung) >= MaxPar \/ Clash(d, Hung \cup (Pending \ {d}))

\* Collect returns, or some tool never does, and that is all that holds it up:
\* every other call is answered in the end, but for those that wait behind such a
\* tool (collectUnblocked, Collect).  Nothing but the tool can end that wait.
CollectReturns ==
  <>collected \/ <>[](Hung # {} /\ \A d \in Calls \ Hung : result[d] = "none" => Excused(d))

\* A queued call fails fast when the turn is stopped, whatever the running
\* tools do.
FailsFast == \A c \in Calls : at[c] = "pending" /\ cancelled ~> result[c] # "none"

\* "Tools with conflicting accesses are serialized" (the type's comment).  It does not
\* hold: see the README.
Serialized ==
  \A c, d \in In({"running"}) : c # d => ~Conflict(access[c], access[d])
=============================================================================
