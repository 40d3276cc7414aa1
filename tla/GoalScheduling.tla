--------------------------- MODULE GoalScheduling ---------------------------
(***************************************************************************)
(* The goal slot, the queue of upcoming goals and everyone who moves goals *)
(* between them: the model's goal tool (tools/goal), the user's /goal      *)
(* commands (core/commands) and the event forwarder, which promotes the    *)
(* head of the queue when an event says that the slot was cleared          *)
(* (internal/app/events_goal.go).                                          *)
(*                                                                         *)
(* GoalMode and GoalQueueStore have a mutex each and no operation holds    *)
(* both: a step is one call on one of them, and an operation that needs    *)
(* several calls is several steps, between which the other two actors run. *)
(* A goal is named by its objective: a copy that is queued again under a   *)
(* new id is the same goal.  The events that only redraw the goal bubble   *)
(* are left out; they share the bus, so a publisher may find it full.      *)
(***************************************************************************)
EXTENDS Naturals, Sequences, FiniteSets

CONSTANTS
    Work,           \* goals that the user and the model set
    Probes,         \* unblocking investigations, set by the tool itself
    None,
    Commands,       \* what the user and the model do in this instance
    MaxSpawns,      \* maxConsecutiveUnblockSpawns
    MaxQueue,       \* bound on the queue, for insertions
    MaxFeed         \* bound on the events under way, for clearing the slot

Goals == Work \cup Probes

Statuses == {"active", "paused", "blocked"}

Slots == [goal : Goals, status : Statuses, armed : BOOLEAN]

Events == [kind : {"completed"}, armed : BOOLEAN]
            \cup [kind : {"cleared"}, cancel : BOOLEAN]

ASSUME GoalsOK ==
    /\ IsFiniteSet(Goals) /\ Work \cap Probes = {}
    /\ None \notin Goals /\ None \notin Slots /\ None \notin Events
    /\ {MaxSpawns, MaxQueue, MaxFeed} \subseteq Nat

VARIABLES
    slot,       \* GoalMode.state
    queue,      \* the goals of the queue file
    bus,        \* goal events on event.Bus.Agent
    backlog,    \* goalEventPublisher.queue
    sending,    \* the event that drain took off the backlog, or None
    draining,   \* goalEventPublisher.draining
    pc,         \* where each actor is in its operation
    hand,       \* the goal its operation is about
    seen,       \* the goal the tool's operation saw in the slot, or None
    armed,      \* App.goalPauseOnComplete
    parks,      \* the promotion under way has a pauseCause
    spawns      \* GoalTool.unblockSpawns

\* What happened, for the properties.
VARIABLES
    known,      \* goals that were accepted
    closed,     \* goals that were completed, cancelled, replaced or deleted
    cancelled,  \* the last clear the forwarder heard was a cancel
    parked,     \* goals promoted after a cancel and not resumed since
    unseen      \* goals that the tool threw out of the slot without a look

feed == <<bus, backlog, sending, draining>>
history == <<known, closed, cancelled, parked, unseen>>
vars == <<slot, queue, feed, pc, hand, seen, armed, parks, spawns, history>>

Actors == {"tool", "user", "forwarder"}

Steps == {"idle",
          "adding",                                 \* create behind a goal
          "wiping",                                 \* cancel all
          "postponing", "clearing",                 \* postpone
          "requeueing", "unseating", "spawning",    \* block
          "swapping", "demoting", "replacing",      \* promote
          "taking", "holding", "restoring",         \* promotion of the head
          "parking"}

\* The actor's goal is in nobody else's keeping.
Keeping == {"adding", "holding", "restoring", "swapping", "demoting", "replacing"}

TypeOK ==
  /\ slot \in Slots \cup {None}
  /\ queue \in Seq(Goals)
  /\ bus \in Seq(Events) /\ backlog \in Seq(Events)
  /\ sending \in Events \cup {None} /\ draining \in BOOLEAN
  /\ pc \in [Actors -> Steps] /\ hand \in [Actors -> Goals \cup {None}]
  /\ seen \in Goals \cup {None}
  /\ armed \in BOOLEAN /\ parks \in BOOLEAN /\ spawns \in 0 .. MaxSpawns
  /\ cancelled \in BOOLEAN /\ known \subseteq Goals /\ closed \subseteq known /\ parked \subseteq known
  /\ unseen \subseteq known

-----------------------------------------------------------------------------
(* The queue file, one locked operation each.                              *)

InQueue(g) == \E i \in DOMAIN queue : queue[i] = g

\* Remove, of the first copy of the goal.
Without(q, g) ==
  LET first == CHOOSE i \in DOMAIN q : q[i] = g /\ \A j \in 1 .. i - 1 : q[j] # g
  IN SubSeq(q, 1, first - 1) \o SubSeq(q, first + 1, Len(q))

Front(g) == queue' = <<g>> \o queue

Back(g) == queue' = Append(queue, g)

Room == Len(queue) < MaxQueue

-----------------------------------------------------------------------------
(* goalEventPublisher.  Publish runs under the goal mode's mutex.          *)

Completed(g) == [kind |-> "completed", armed |-> g.armed]
Cleared(cancel) == [kind |-> "cleared", cancel |-> cancel]

\* Two events of one operation may come apart: the bus has room for the first
\* only, or drain, outside the goal mode's mutex, sends the event it holds in
\* between, or takes the first while the second finds room.
Split(first, second) ==
  \/ /\ bus' = Append(bus, first) /\ backlog' = <<second>> /\ draining' = TRUE
     /\ UNCHANGED sending
  \/ /\ sending # None
     /\ bus' = bus \o <<first, sending, second>> /\ sending' = None
     /\ UNCHANGED <<backlog, draining>>
  \/ /\ sending = None
     /\ sending' = first /\ draining' = TRUE /\ bus' = Append(bus, second)
     /\ UNCHANGED backlog

\* An event goes on the bus if no event waits before it and the bus has room,
\* which it may not.
Publish(es) ==
  \/ backlog = <<>> /\ bus' = bus \o es /\ UNCHANGED <<backlog, sending, draining>>
  \/ backlog' = backlog \o es /\ draining' = TRUE /\ UNCHANGED <<bus, sending>>
  \/ backlog = <<>> /\ Len(es) = 2 /\ Split(es[1], es[2])

Quiet == Len(bus) + Len(backlog) < MaxFeed

\* A variant whose goroutine ends with the first event.
DrainTakesOne ==
  /\ draining /\ sending = None
  /\ draining' = FALSE /\ backlog # <<>>
  /\ sending' = Head(backlog) /\ backlog' = Tail(backlog)
  /\ UNCHANGED <<slot, queue, bus, pc, hand, seen, armed, parks, spawns, history>>

\* One turn of drain's loop takes an event, or ends the goroutine.
DrainTakes ==
  /\ draining /\ sending = None
  /\ IF backlog = <<>>
       THEN draining' = FALSE /\ UNCHANGED <<backlog, sending>>
       ELSE /\ sending' = Head(backlog) /\ backlog' = Tail(backlog)
            /\ UNCHANGED draining
  /\ UNCHANGED <<slot, queue, bus, pc, hand, seen, armed, parks, spawns, history>>

\* Its send is outside the mutex: an event published since has gone ahead.
DrainSends ==
  /\ sending # None
  /\ bus' = Append(bus, sending) /\ sending' = None
  /\ UNCHANGED <<slot, queue, backlog, draining, pc, hand, seen, armed, parks, spawns, history>>

-----------------------------------------------------------------------------
(* GoalMode, one locked operation each.                                    *)

Holds(statuses) == slot # None /\ slot.status \in statuses

Active(g) == [goal |-> g, status |-> "active", armed |-> FALSE]

SetStatus(s) == slot' = [slot EXCEPT !.status = s]

\* clearInternal: an event without a change unless the clear is a cancel.
Clear(cancel) == slot' = None /\ Publish(<<Cleared(cancel)>>)

\* CreateGoal with Replace clears first, as the system.
Replace(g) ==
  /\ slot' = Active(g)
  /\ IF slot = None THEN UNCHANGED feed ELSE Publish(<<Cleared(FALSE)>>)

-----------------------------------------------------------------------------
(* What an operation leaves to its actor's next step.                      *)

Goto(a, step, g) ==
  pc' = [pc EXCEPT ![a] = step] /\ hand' = [hand EXCEPT ![a] = g]

Done(a) == Goto(a, "idle", None)

At(a, step) == pc[a] = step

\* An actor begins an operation that this instance has.
Begins(a, command) == At(a, "idle") /\ command \in Commands

Ends(g) == closed' = closed \cup {g}

-----------------------------------------------------------------------------
(* Operations of one call: /goal commands and goal tool actions.           *)

\* create with no goal in the slot; CreateGoal refuses if there is one.
Start(a, g) ==
  /\ Begins(a, "create") /\ g \in Work \ known /\ slot = None
  /\ slot' = Active(g) /\ known' = known \cup {g}
  /\ UNCHANGED <<queue, feed, pc, hand, seen, armed, parks, spawns, closed, parked, unseen, cancelled>>

\* /goal:replace and create with replace.
ReplaceCurrent(a, g) ==
  /\ Begins(a, "replace") /\ g \in Work \ known /\ slot # None /\ Quiet
  /\ Replace(g) /\ known' = known \cup {g} /\ Ends(slot.goal)
  /\ UNCHANGED <<queue, pc, hand, seen, armed, parks, spawns, parked, unseen, cancelled>>

\* /goal:next and /goal:next:last.
QueueUp(g) ==
  /\ Begins("user", "queue") /\ g \in Work \ known /\ Room
  /\ Front(g) \/ Back(g)
  /\ known' = known \cup {g}
  /\ UNCHANGED <<slot, feed, pc, hand, seen, armed, parks, spawns, closed, parked, unseen, cancelled>>

\* The tool's create finds a goal, and appends or prepends its own in a
\* second call.
FindsAGoal(g) ==
  /\ Begins("tool", "queue") /\ g \in Work \ known /\ slot # None /\ Room
  /\ Goto("tool", "adding", g) /\ known' = known \cup {g}
  /\ UNCHANGED <<slot, queue, feed, seen, armed, parks, spawns, closed, parked, unseen, cancelled>>

Enqueue ==
  /\ At("tool", "adding")
  /\ Front(hand["tool"]) \/ Back(hand["tool"])
  /\ Done("tool")
  /\ UNCHANGED <<slot, feed, seen, armed, parks, spawns, history>>

Pause(a) ==
  /\ Begins(a, "pause") /\ Holds({"active"})
  /\ SetStatus("paused")
  /\ UNCHANGED <<queue, feed, pc, hand, seen, armed, parks, spawns, history>>

\* The tool's resume also resets its count of investigations.
Resume(a) ==
  /\ Begins(a, "resume") /\ Holds({"paused", "blocked"})
  /\ SetStatus("active") /\ parked' = parked \ {slot.goal}
  /\ spawns' = IF a = "tool" THEN 0 ELSE spawns
  /\ UNCHANGED <<queue, feed, pc, hand, seen, armed, parks, known, closed, unseen, cancelled>>

\* /goal:pause:next and its :off.
Arm ==
  /\ Begins("user", "arm") /\ slot # None
  /\ slot' = [slot EXCEPT !.armed = ~@]
  /\ UNCHANGED <<queue, feed, pc, hand, seen, armed, parks, spawns, history>>

Complete ==
  /\ Begins("tool", "complete") /\ Holds({"active"}) /\ Quiet
  /\ slot' = None /\ Publish(<<Completed(slot), Cleared(FALSE)>>)
  /\ Ends(slot.goal) /\ spawns' = 0
  /\ UNCHANGED <<queue, pc, hand, seen, armed, parks, known, parked, unseen, cancelled>>

\* By the user or the model.
Cancel(a) ==
  /\ Begins(a, "cancel") /\ slot # None /\ Quiet
  /\ Clear(TRUE) /\ Ends(slot.goal)
  /\ UNCHANGED <<queue, pc, hand, seen, armed, parks, spawns, known, parked, unseen, cancelled>>

\* The manager's delete and the tool's cancel of a queued goal.
Delete(a, g) ==
  /\ Begins(a, "delete") /\ InQueue(g)
  /\ queue' = Without(queue, g) /\ Ends(g)
  /\ UNCHANGED <<slot, feed, pc, hand, seen, armed, parks, spawns, known, parked, unseen, cancelled>>

\* Move and ReorderByMapping: any other order of the same entries.
Reorder(a) ==
  /\ Begins(a, "reorder")
  /\ \E i, j \in DOMAIN queue :
       queue' = [queue EXCEPT ![i] = queue[j], ![j] = queue[i]]
  /\ UNCHANGED <<slot, feed, pc, hand, seen, armed, parks, spawns, history>>

-----------------------------------------------------------------------------
(* cancel all: the queue first, then the slot.                             *)

WipeQueue(a) ==
  /\ Begins(a, "cancelAll") /\ queue # <<>>
  /\ queue' = <<>> /\ closed' = closed \cup {queue[i] : i \in DOMAIN queue}
  /\ Goto(a, "wiping", None)
  /\ UNCHANGED <<slot, feed, seen, armed, parks, spawns, known, parked, unseen, cancelled>>

CancelRest(a) ==
  /\ At(a, "wiping")
  /\ IF slot = None THEN UNCHANGED <<slot, feed, closed>>
                    ELSE Clear(TRUE) /\ Ends(slot.goal)
  /\ Done(a)
  /\ UNCHANGED <<queue, seen, armed, parks, spawns, known, parked, unseen, cancelled>>

-----------------------------------------------------------------------------
(* The tool's operations that demote the goal in the slot.                 *)

Looks(step) ==
  /\ seen' = slot.goal /\ pc' = [pc EXCEPT !["tool"] = step]
  /\ UNCHANGED hand

Postpone ==
  /\ Begins("tool", "postpone") /\ slot # None /\ Room /\ Quiet
  /\ Looks("postponing")
  /\ UNCHANGED <<slot, queue, feed, armed, parks, spawns, history>>

\* MarkBlocked; for a standard goal under the cap, an investigation follows.
Block ==
  /\ Begins("tool", "block") /\ Holds({"active"})
  /\ SetStatus("blocked")
  /\ IF slot.goal \in Probes \/ spawns >= MaxSpawns
       THEN UNCHANGED <<pc, hand, seen>>
       ELSE Looks("requeueing") /\ Room /\ Quiet /\ ~(Probes \subseteq known)
  /\ UNCHANGED <<queue, feed, armed, parks, spawns, history>>

\* The slot may hold another goal than the one the operation saw and queued.
Unseen ==
  unseen' = IF slot = None \/ slot.goal = seen THEN unseen ELSE unseen \cup {slot.goal}

\* A copy of the goal it saw: at the back to postpone, at the front to block.
Requeue ==
  /\ \/ At("tool", "postponing") /\ Back(seen) /\ Goto("tool", "clearing", None)
     \/ At("tool", "requeueing") /\ Front(seen) /\ Goto("tool", "unseating", None)
  /\ UNCHANGED <<slot, feed, seen, armed, parks, spawns, history>>

\* CancelGoal as the runtime, of whatever is in the slot by now.
Unseat ==
  /\ pc["tool"] \in {"clearing", "unseating"}
  /\ seen' = None
  /\ IF slot = None
       THEN Done("tool") /\ UNCHANGED <<slot, feed>>
       ELSE /\ Clear(FALSE)
            /\ Goto("tool", IF At("tool", "clearing") THEN "idle" ELSE "spawning", None)
  /\ Unseen
  /\ UNCHANGED <<queue, armed, parks, spawns, known, closed, parked, cancelled>>

\* CreateGoal of the investigation, refused if the slot was filled.
Spawn(p) ==
  /\ At("tool", "spawning") /\ p \in Probes \ known
  /\ IF slot = None
       THEN slot' = Active(p) /\ known' = known \cup {p} /\ spawns' = spawns + 1
       ELSE UNCHANGED <<slot, known, spawns>>
  /\ Done("tool")
  /\ UNCHANGED <<queue, feed, seen, armed, parks, closed, parked, unseen, cancelled>>

\* promote takes the goal out of the queue,
Promote(g) ==
  /\ Begins("tool", "promote") /\ InQueue(g) /\ Quiet
  /\ queue' = Without(queue, g) /\ Goto("tool", "swapping", g)
  /\ UNCHANGED <<slot, feed, seen, armed, parks, spawns, history>>

\* looks at the slot,
LookToDemote ==
  /\ At("tool", "swapping")
  /\ IF slot = None THEN pc' = [pc EXCEPT !["tool"] = "replacing"] /\ UNCHANGED <<hand, seen>>
                    ELSE Looks("demoting")
  /\ UNCHANGED <<slot, queue, feed, armed, parks, spawns, history>>

\* puts the goal it saw in front of the queue,
Demote ==
  /\ At("tool", "demoting")
  /\ Front(seen) /\ pc' = [pc EXCEPT !["tool"] = "replacing"]
  /\ UNCHANGED <<slot, feed, hand, seen, armed, parks, spawns, history>>

\* and replaces whatever is in the slot by now.
ReplaceByPromoted ==
  /\ At("tool", "replacing")
  /\ Replace(hand["tool"]) /\ parked' = parked \ {hand["tool"]}
  /\ Done("tool") /\ seen' = None /\ Unseen
  /\ UNCHANGED <<queue, armed, parks, spawns, known, closed, cancelled>>

-----------------------------------------------------------------------------
(* The promotion of the head of the queue.                                 *)

\* /goal:resume with no goal in the slot.
ResumeQueued ==
  /\ Begins("user", "resume") /\ slot = None /\ queue # <<>>
  /\ Goto("user", "taking", Head(queue))
  /\ UNCHANGED <<slot, queue, feed, seen, armed, parks, spawns, history>>

\* handleGoalUpdate of a completion: a flag for the clear that follows it.
HearCompleted ==
  /\ At("forwarder", "idle") /\ bus # <<>> /\ Head(bus).kind = "completed"
  /\ armed' = Head(bus).armed
  /\ bus' = Tail(bus)
  /\ UNCHANGED <<slot, queue, backlog, sending, draining, pc, hand, seen, parks, spawns, history>>

\* A variant that does not look at who cleared the slot.
HearClearedByAnyone ==
  /\ At("forwarder", "idle") /\ bus # <<>> /\ Head(bus).kind = "cleared"
  /\ bus' = Tail(bus) /\ armed' = FALSE
  /\ parks' = armed /\ cancelled' = Head(bus).cancel
  /\ IF queue = <<>> THEN UNCHANGED <<pc, hand>>
                     ELSE Goto("forwarder", "taking", Head(queue))
  /\ UNCHANGED <<slot, queue, backlog, sending, draining, seen, spawns, known, closed, parked, unseen>>

\* handleGoalUpdate of a clear, and the read of the queue.
HearCleared ==
  /\ At("forwarder", "idle") /\ bus # <<>> /\ Head(bus).kind = "cleared"
  /\ bus' = Tail(bus) /\ armed' = FALSE
  /\ parks' = (Head(bus).cancel \/ armed) /\ cancelled' = Head(bus).cancel
  /\ IF queue = <<>> THEN UNCHANGED <<pc, hand>>
                     ELSE Goto("forwarder", "taking", Head(queue))
  /\ UNCHANGED <<slot, queue, backlog, sending, draining, seen, spawns, known, closed, parked, unseen>>

\* A variant that installs the head it read without removing it.
TakeCopy(a) ==
  /\ At(a, "taking")
  /\ Goto(a, IF InQueue(hand[a]) THEN "holding" ELSE "idle", hand[a])
  /\ UNCHANGED <<slot, queue, feed, seen, armed, parks, spawns, history>>

\* Remove, or nothing if the entry has gone.
Take(a) ==
  /\ At(a, "taking")
  /\ IF InQueue(hand[a])
       THEN queue' = Without(queue, hand[a]) /\ Goto(a, "holding", hand[a])
       ELSE Done(a) /\ UNCHANGED queue
  /\ UNCHANGED <<slot, feed, seen, armed, parks, spawns, history>>

Pausing(a) == a = "forwarder" /\ parks

\* A variant that forgets the goal it could not install.
InstallOrForget(a) ==
  /\ At(a, "holding")
  /\ IF slot = None THEN slot' = Active(hand[a]) ELSE UNCHANGED slot
  /\ Done(a)
  /\ UNCHANGED <<queue, feed, seen, armed, parks, spawns, history>>

\* CreateGoal, refused if the slot was filled.
Install(a) ==
  /\ At(a, "holding")
  /\ IF slot = None
       THEN /\ slot' = Active(hand[a])
            /\ parked' = IF a = "forwarder" /\ cancelled THEN parked \cup {hand[a]}
                                                         ELSE parked \ {hand[a]}
            /\ IF Pausing(a) THEN Goto(a, "parking", hand[a]) ELSE Done(a)
       ELSE Goto(a, "restoring", hand[a]) /\ UNCHANGED <<slot, parked, cancelled>>
  /\ UNCHANGED <<queue, feed, seen, armed, parks, spawns, known, closed, unseen, cancelled>>

\* pausePromotedGoal: whatever is in the slot; a goal that cannot be paused
\* sends the promoted one back to the queue.
Park ==
  /\ At("forwarder", "parking")
  /\ IF Holds({"active", "paused"})
       THEN SetStatus("paused") /\ Done("forwarder")
       ELSE UNCHANGED slot /\ Goto("forwarder", "restoring", hand["forwarder"])
  /\ UNCHANGED <<queue, feed, seen, armed, parks, spawns, history>>

Restore(a) ==
  /\ At(a, "restoring")
  /\ Front(hand[a]) /\ Done(a)
  /\ UNCHANGED <<slot, feed, seen, armed, parks, spawns, history>>

-----------------------------------------------------------------------------

Init ==
  /\ slot = None /\ queue = <<>>
  /\ bus = <<>> /\ backlog = <<>> /\ sending = None /\ draining = FALSE
  /\ pc = [a \in Actors |-> "idle"] /\ hand = [a \in Actors |-> None] /\ seen = None
  /\ armed = FALSE /\ parks = FALSE /\ spawns = 0
  /\ known = {} /\ closed = {} /\ cancelled = FALSE /\ parked = {} /\ unseen = {}

Asks(a) ==
  \/ \E g \in Work : Start(a, g) \/ ReplaceCurrent(a, g)
  \/ Pause(a) \/ Resume(a) \/ Cancel(a) \/ WipeQueue(a) \/ Reorder(a)
  \/ \E g \in Goals : Delete(a, g)

UserAsks == Asks("user") \/ Arm \/ ResumeQueued \/ \E g \in Work : QueueUp(g)

ToolAsks ==
  \/ Asks("tool") \/ Complete \/ Postpone \/ Block
  \/ \E g \in Work : FindsAGoal(g)
  \/ \E g \in Goals : Promote(g)

UserGoesOn == Take("user") \/ Install("user") \/ Restore("user") \/ CancelRest("user")

ToolGoesOn ==
  \/ Enqueue \/ CancelRest("tool") \/ Requeue \/ Unseat
  \/ LookToDemote \/ Demote \/ ReplaceByPromoted
  \/ \E p \in Probes : Spawn(p)

Forwards ==
  \/ HearCompleted \/ HearCleared
  \/ Take("forwarder") \/ Install("forwarder") \/ Park \/ Restore("forwarder")

Publishes == DrainTakes \/ DrainSends

Next == UserAsks \/ ToolAsks \/ UserGoesOn \/ ToolGoesOn \/ Forwards \/ Publishes

\* The goroutines run on; what the user and the model ask is up to them.
Fairness ==
  /\ WF_vars(UserGoesOn) /\ WF_vars(ToolGoesOn)
  /\ WF_vars(Forwards) /\ WF_vars(Publishes)

Spec == Init /\ [][Next]_vars /\ Fairness

-----------------------------------------------------------------------------

InSlot(g) == slot # None /\ slot.goal = g

Kept(g) ==
  \/ InSlot(g) \/ InQueue(g)
  \/ \E a \in Actors : pc[a] \in Keeping /\ hand[a] = g

\* A goal that was accepted is in the slot, in the queue or in the hands of
\* an operation, until it is completed or somebody ends it; the one way to
\* lose it is a tool call that clears a slot it has not looked at since the
\* forwarder filled it.
NothingLost == \A g \in known : g \in closed \cup unseen \/ Kept(g)

\* promote "demotes the current goal to the front of the queue" and replaces
\* it "atomically" (goal.go): nothing is thrown out that nobody looked at.  It does
\* not hold: see the README.
NothingUnseen == unseen = {}

Copies(g) ==
  Cardinality({i \in DOMAIN queue : queue[i] = g})
    + Cardinality({a \in Actors : pc[a] \in Keeping /\ hand[a] = g})
    + (IF InSlot(g) THEN 1 ELSE 0)

\* The copy that the tool puts in the queue before it clears the slot.
Moving(g) ==
  g = seen /\ pc["tool"] \in {"clearing", "unseating", "replacing"}

\* A goal waits or runs, and never twice, except in the middle of the tool's
\* operation that moves it; one that was completed is neither.
RunsOnce ==
  \A g \in known : Copies(g) <= (IF g \in closed THEN 0 ELSE 1) \/ Moving(g)

\* A goal promoted after a cancel is not worked on until somebody resumes it:
\* "a cancel never auto-starts the next goal" (events_goal.go).
ParkedWaits ==
  At("forwarder", "idle") /\ Holds({"active"}) => slot.goal \notin parked

\* When the slot was cleared and goals wait in the queue, the slot is filled,
\* however the event reaches the forwarder.
ClearUnderWay ==
  \/ \E i \in DOMAIN bus : bus[i].kind = "cleared"
  \/ \E i \in DOMAIN backlog : backlog[i].kind = "cleared"
  \/ sending # None /\ sending.kind = "cleared"

SuccessorRuns ==
  ClearUnderWay /\ slot = None /\ queue # <<>> ~> slot # None \/ queue = <<>>
=============================================================================
