----------------------------- MODULE AgentPool ------------------------------
(***************************************************************************)
(* BoundedAgentPool of core/orchestrator/pool.go: two caps, counters under *)
(* one mutex, and a queue of channels on which blocked callers sleep.      *)
(*                                                                         *)
(* A caller is a goroutine that wants an agent.  A step is what runs under *)
(* one acquisition of the pool's mutex, or the select that parks a caller. *)
(* A caller owns one waiter channel at a time, so the channel is named by  *)
(* its caller.  The channels are unbuffered and the signal is sent only if *)
(* a receiver is already there: a caller that has queued its channel and   *)
(* has not reached the select yet is not there.                            *)
(***************************************************************************)
EXTENDS Naturals, FiniteSets, SequencesExt

CONSTANTS
    Callers,    \* goroutines that call Acquire
    Models,     \* model ids
    ModelOf,    \* the model of the role each caller asks for
    TotalCap,   \* MaxTotalAgents, 0 for unlimited
    ModelCap    \* MaxAgentsPerModel, 0 for unlimited

ASSUME PoolOK ==
    /\ IsFiniteSet(Callers)
    /\ ModelOf \in [Callers -> Models]
    /\ TotalCap \in Nat /\ ModelCap \in [Models -> Nat]

VARIABLES
    total,      \* BoundedAgentPool.total
    perModel,   \* BoundedAgentPool.perModel
    waiters,    \* BoundedAgentPool.waiters
    at          \* where each caller is in Acquire

poolVars == <<total, perModel, waiters, at>>

\* idle: outside;  queued: its waiter is appended, the select not reached;
\* asleep: in the select;  cancelled: its context ended in the select;
\* woken: it received the signal;  reserved: billed, in the factory;
\* live: it has its handle.
Places == {"idle", "queued", "asleep", "cancelled", "woken", "reserved", "live"}

TypeOK ==
  /\ total \in Nat
  /\ perModel \in [Models -> Nat]
  /\ waiters \in Seq(Callers)
  /\ at \in [Callers -> Places]

-----------------------------------------------------------------------------

\* A variant with the comparison off by one.
UpTo(cap, count) == cap = 0 \/ count <= cap

Under(cap, count) == cap = 0 \/ count < cap

UnderCaps(c) ==
  Under(TotalCap, total) /\ Under(ModelCap[ModelOf[c]], perModel[ModelOf[c]])

\* tryReserve, from the caller's first try or after a signal.
Reserve(c) ==
  /\ at[c] \in {"idle", "woken"} /\ UnderCaps(c)
  /\ total' = total + 1
  /\ perModel' = [perModel EXCEPT ![ModelOf[c]] = @ + 1]
  /\ at' = [at EXCEPT ![c] = "reserved"]
  /\ UNCHANGED waiters

\* tryReserve again, blocked: a new waiter at the tail, even for a caller
\* that had waited at the head.
Enqueue(c) ==
  /\ at[c] \in {"idle", "woken"} /\ ~UnderCaps(c)
  /\ waiters' = Append(waiters, c)
  /\ at' = [at EXCEPT ![c] = "queued"]
  /\ UNCHANGED <<total, perModel>>

Park(c) ==
  /\ at[c] = "queued"
  /\ at' = [at EXCEPT ![c] = "asleep"]
  /\ UNCHANGED <<total, perModel, waiters>>

\* The caller's context ends: it leaves the select, and then the queue.
GiveUp(c) ==
  /\ at[c] = "asleep"
  /\ at' = [at EXCEPT ![c] = "cancelled"]
  /\ UNCHANGED <<total, perModel, waiters>>

\* A variant that leaves the channel in the queue.
CancelLeavingWaiter(c) ==
  /\ at[c] = "cancelled"
  /\ at' = [at EXCEPT ![c] = "idle"]
  /\ UNCHANGED <<total, perModel, waiters>>

\* The channel leaves the queue, unless a release took it out already.
CancelWaiter(c) ==
  /\ at[c] = "cancelled"
  /\ IF \E i \in DOMAIN waiters : waiters[i] = c
     THEN \E i \in DOMAIN waiters :
            /\ waiters[i] = c /\ \A j \in 1 .. i - 1 : waiters[j] # c
            /\ waiters' = RemoveAt(waiters, i)
     ELSE UNCHANGED waiters
  /\ at' = [at EXCEPT ![c] = "idle"]
  /\ UNCHANGED <<total, perModel>>

\* A variant that forgets the decrement.
Unchanged(n) == n

Less(n) == IF n > 0 THEN n - 1 ELSE 0

\* The receiver of the non-blocking send: the head waiter, if it sleeps.
Signalled ==
  {d \in Callers : waiters # <<>> /\ d = Head(waiters) /\ at[d] = "asleep"}

ReleaseLocked(c) ==
  /\ total' = Less(total)
  /\ perModel' = [perModel EXCEPT ![ModelOf[c]] = Less(@)]
  /\ waiters' = IF waiters = <<>> THEN <<>> ELSE Tail(waiters)
  /\ at' = [d \in Callers |-> IF d = c THEN "idle"
                              ELSE IF d \in Signalled THEN "woken" ELSE at[d]]

\* The factory built the agent, and the handle is registered; or it failed.
Built(c) ==
  /\ at[c] = "reserved"
  /\ at' = [at EXCEPT ![c] = "live"]
  /\ UNCHANGED <<total, perModel, waiters>>

\* A variant that returns the factory's error without the rollback.
BuildFailsKeepingSlot(c) ==
  /\ at[c] = "reserved"
  /\ at' = [at EXCEPT ![c] = "idle"]
  /\ UNCHANGED <<total, perModel, waiters>>

BuildFails(c) == at[c] = "reserved" /\ ReleaseLocked(c)

Release(c) == at[c] = "live" /\ ReleaseLocked(c)

-----------------------------------------------------------------------------

PoolInit ==
  /\ total = 0 /\ perModel = [m \in Models |-> 0]
  /\ waiters = <<>> /\ at = [c \in Callers |-> "idle"]

Init == PoolInit

Step(c) ==
  \/ Reserve(c) \/ Enqueue(c) \/ Park(c) \/ GiveUp(c) \/ CancelWaiter(c)
  \/ Built(c) \/ BuildFails(c) \/ Release(c)

Next == \E c \in Callers : Step(c)

Spec == Init /\ [][Next]_poolVars

-----------------------------------------------------------------------------
(***************************************************************************)
(* Properties.                                                             *)
(***************************************************************************)
Holders == {c \in Callers : at[c] \in {"reserved", "live"}}

HoldersOf(m) == {c \in Holders : ModelOf[c] = m}

\* The counters, which are decremented only when positive, are exact: every
\* exit from Acquire and every release bills each of them once.
CountsExact ==
  /\ total = Cardinality(Holders)
  /\ \A m \in Models : perModel[m] = Cardinality(HoldersOf(m))

\* The pool keeps the promise of SlotPool: no interleaving of reservations,
\* rollbacks and releases exceeds a cap.
Slots == INSTANCE SlotPool WITH held <- Holders

KeepsTheCaps == Slots!Spec

\* The queue holds each channel once, and only channels of callers that are
\* still in the select, on their way to it or on their way out of the queue:
\* no signal is ever sent to a caller that has moved on.
QueueSound ==
  /\ \A i, j \in DOMAIN waiters : waiters[i] = waiters[j] => i = j
  /\ \A i \in DOMAIN waiters : at[waiters[i]] \in {"queued", "asleep", "cancelled"}

\* docs/ORCHESTRATOR.md: a blocked Acquire "proceeds as agents release".  On a
\* pool whose slots are all free and where nobody is on the way, nobody sleeps.
NobodySleepsOnAFreePool ==
  (\A c \in Callers : at[c] \in {"idle", "asleep"}) =>
      \A c \in Callers : at[c] = "idle"
=============================================================================
