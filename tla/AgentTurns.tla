----------------------------- MODULE AgentTurns -----------------------------
(***************************************************************************)
(* Who runs a turn of the one agent, and where the user's messages wait    *)
(* meanwhile: AgentManager (core/agentmanager*.go), its SteeringQueue      *)
(* (core/steering.go), the run loop of agentic.Agent                       *)
(* (internal/agentic/agent_run.go) and the GoalDriver (core/goal_driver.go *)
(* with agentManagerRunner of internal/app/subsystems_goal.go).            *)
(*                                                                         *)
(* A process is a goroutine: the user interface, a manager-owned turn      *)
(* (runAgentTurn), or a drive loop begun by GoalDriver.Start.  A step is   *)
(* what runs between two acquisitions of a mutex, so a value read under    *)
(* one lock may be stale at the next.  A text is the set of the user's     *)
(* messages joined in it, or {Continue} for the driver's prompt.           *)
(*                                                                         *)
(* Left out: the opt-in loop auto-resume (off unless execution sets        *)
(* loop_auto_resume), the turn recorder, images, and what the agent says.  *)
(***************************************************************************)
EXTENDS Naturals, Sequences, FiniteSets

CONSTANTS
    Inputs,     \* the messages the user types, each once
    Turns,      \* bound: goroutines of runAgentTurn alive at a time
    Drivers,    \* bound: goroutines of GoalDriver.Start alive at a time
    Ui,         \* the goroutine of the user interface
    Continue,   \* ContinuationPrompt
    NoTurn,     \* a nil cancel function
    MaxQueue,   \* bound: texts waiting in Agent.queue
    MayPanic    \* whether a turn of the manager may panic

ASSUME ProcsOK ==
    /\ Turns \cap Drivers = {} /\ Ui \notin Turns \cup Drivers
    /\ NoTurn \notin Turns
    /\ Continue \notin Inputs
    /\ MaxQueue \in Nat /\ MayPanic \in BOOLEAN

Procs == {Ui} \cup Turns \cup Drivers

Texts == (SUBSET Inputs) \cup {{Continue}}

VARIABLES
    running,    \* AgentManager.running
    latest,     \* the turn whose gen is AgentManager.cancelGen
    cancel,     \* the turn AgentManager.cancel would cancel
    cancelled,  \* turns whose context is cancelled
    pending,    \* AgentManager.pendingSteering
    steering,   \* SteeringQueue.pending
    processing, \* Agent.processing
    queue,      \* Agent.queue
    delivered,  \* the user's messages in Agent.history
    driving,    \* GoalDriver.driving
    stopped,    \* the drive loop's context is cancelled
    active,     \* GoalMode.GetActiveGoal() # nil
    submitted,  \* messages the user sent
    restored,   \* messages ESC put back into the input line
    escaped,    \* the user's last act was ESC
    pc,         \* where each process is
    role,       \* what it is: the interface, a turn, a drive loop
    text,       \* the text it carries
    failed      \* its last Agent.Run returned an error

manager == <<running, latest, cancel, cancelled, pending>>
agent == <<processing, queue, delivered>>
drive == <<driving, stopped>>
user == <<submitted, restored, escaped>>
vars == <<manager, steering, agent, drive, active, user, pc, role, text, failed>>

Places ==
    {"idle", "send", "check", "append", "start",       \* SendUserInput
     "enter", "turn", "stash", "next", "finish",       \* Agent.Run
     "leftover", "cleanup", "hook",                    \* runAgentTurn
     "drive", "loop", "runner", "dispatch", "flush", "judge", "undrive", \* Drive
     "restore", "stop"}                                \* handleEscape

Roles == {"ui", "turn", "panicked", "drive"}

TypeOK ==
    /\ running \in BOOLEAN /\ processing \in BOOLEAN
    /\ latest \in Turns \cup {NoTurn} /\ cancel \in Turns \cup {NoTurn}
    /\ cancelled \subseteq Turns
    /\ pending \subseteq Inputs /\ steering \subseteq Inputs
    /\ queue \in Seq(Texts)
    /\ delivered \subseteq Inputs /\ restored \subseteq Inputs
    /\ submitted \subseteq Inputs
    /\ driving \in BOOLEAN /\ stopped \in BOOLEAN
    /\ active \in BOOLEAN /\ escaped \in BOOLEAN
    /\ pc \in [Procs -> Places]
    /\ role \in [Procs -> Roles]
    /\ text \in [Procs -> Texts]
    /\ failed \in [Procs -> BOOLEAN]

Init ==
    /\ running = FALSE /\ latest = NoTurn /\ cancel = NoTurn
    /\ cancelled = {} /\ pending = {} /\ steering = {}
    /\ processing = FALSE /\ queue = <<>> /\ delivered = {}
    /\ driving = FALSE /\ stopped = FALSE /\ active = FALSE
    /\ submitted = {} /\ restored = {} /\ escaped = FALSE
    /\ pc = [p \in Procs |-> "idle"]
    /\ role = [p \in Procs |-> IF p = Ui THEN "ui"
                               ELSE IF p \in Turns THEN "turn" ELSE "drive"]
    /\ text = [p \in Procs |-> {}]
    /\ failed = [p \in Procs |-> FALSE]

Goto(p, place) == pc' = [pc EXCEPT ![p] = place]
Carry(p, t) == text' = [text EXCEPT ![p] = t]

-----------------------------------------------------------------------------
(* SendUserInput: the manager's state and the agent's are read under       *)
(* different locks, and the message goes into the steering queue or starts *)
(* a turn under a third.                                                   *)

\* Where SendUserInput returns to.
Return(p) ==
    CASE role[p] = "turn" -> "hook"
      [] role[p] = "drive" -> "judge"
      [] OTHER -> "idle"

SendRead(p) ==
    /\ pc[p] = "send"
    /\ Goto(p, IF running THEN "append" ELSE "check")
    /\ UNCHANGED <<manager, steering, agent, drive, active, user, role, text, failed>>

SendCheck(p) ==
    /\ pc[p] = "check"
    /\ Goto(p, IF processing THEN "append" ELSE "start")
    /\ UNCHANGED <<manager, steering, agent, drive, active, user, role, text, failed>>

SendAppend(p) ==
    /\ pc[p] = "append"
    /\ steering' = steering \cup text[p]
    /\ Carry(p, {})
    /\ Goto(p, Return(p))
    /\ UNCHANGED <<manager, agent, drive, active, user, role, failed>>

SendStart(p) ==
    /\ pc[p] = "start"
    /\ \E t \in Turns :
        /\ pc[t] = "idle"
        /\ running' = TRUE /\ latest' = t /\ cancel' = t
        /\ cancelled' = cancelled \ {t}
        /\ pc' = [pc EXCEPT ![p] = Return(p), ![t] = "enter"]
        /\ role' = [role EXCEPT ![t] = "turn"]
        /\ text' = [text EXCEPT ![p] = {}, ![t] = text[p]]
    /\ UNCHANGED <<pending, steering, agent, drive, active, user, failed>>

-----------------------------------------------------------------------------
(* Agent.Run, called by a turn of the manager or by the drive loop.        *)

CtxDone(p) == IF role[p] = "drive" THEN stopped ELSE p \in cancelled

\* Where Agent.Run returns to.
AfterRun(p) == IF role[p] = "drive" THEN "dispatch" ELSE "leftover"

\* The text becomes a message of the history; a done context ends the turn
\* before its first round.
Deliver(p, t) ==
    /\ delivered' = delivered \cup (t \cap Inputs)
    /\ Goto(p, IF CtxDone(p) THEN "finish" ELSE "turn")
    /\ failed' = [failed EXCEPT ![p] = CtxDone(p)]
\* Not the code: a second Run would go ahead while one is processing.
RunEnterUnguarded(p) ==
    /\ pc[p] = "enter"
    /\ Carry(p, {})
    /\ processing' = TRUE
    /\ Deliver(p, text[p])
    /\ UNCHANGED <<manager, steering, queue, drive, active, user, role>>

RunEnter(p) ==
    /\ pc[p] = "enter"
    /\ Carry(p, {})
    /\ IF processing
         THEN /\ Len(queue) < MaxQueue
              /\ queue' = Append(queue, text[p])
              /\ failed' = [failed EXCEPT ![p] = FALSE]
              /\ Goto(p, AfterRun(p))
              /\ UNCHANGED <<processing, delivered>>
         ELSE /\ processing' = TRUE
              /\ Deliver(p, text[p])
              /\ UNCHANGED queue
    /\ UNCHANGED <<manager, steering, drive, active, user, role>>

\* drainSteeringIntoHistory, between two rounds of a turn.
DrainSteering(p) ==
    /\ pc[p] = "turn" /\ steering # {}
    /\ delivered' = delivered \cup steering
    /\ steering' = {}
    /\ UNCHANGED <<manager, processing, queue, drive, active, user, pc, role, text, failed>>

\* The last round ends the turn: EventEnd reaches finalizeTurn, which takes
\* what is left in the steering queue ...
TurnEnds(p) ==
    /\ pc[p] = "turn"
    /\ Carry(p, steering)
    /\ steering' = {}
    /\ Goto(p, "stash")
    /\ UNCHANGED <<manager, agent, drive, active, user, role, failed>>

\* ... and, under the manager's lock, makes it the pending steering.
FinalizeTurn(p) ==
    /\ pc[p] = "stash"
    /\ pending' = IF text[p] = {} THEN pending ELSE text[p]
    /\ Carry(p, {})
    /\ Goto(p, "next")
    /\ UNCHANGED <<running, latest, cancel, cancelled, steering, agent, drive,
                   active, user, role, failed>>

\* The provider fails or the context is cancelled: no EventEnd of the agent.
TurnFails(p) ==
    /\ pc[p] = "turn"
    /\ failed' = [failed EXCEPT ![p] = TRUE]
    /\ Goto(p, "finish")
    /\ UNCHANGED <<manager, steering, agent, drive, active, user, role, text>>

NextQueued(p) ==
    /\ pc[p] = "next"
    /\ IF queue = <<>>
         THEN Goto(p, "finish") /\ UNCHANGED <<queue, delivered, failed>>
         ELSE queue' = Tail(queue) /\ Deliver(p, Head(queue))
    /\ UNCHANGED <<manager, steering, processing, drive, active, user, role, text>>

FinishProcessing(p) ==
    /\ pc[p] = "finish"
    /\ processing' = FALSE
    /\ Goto(p, AfterRun(p))
    /\ UNCHANGED <<manager, steering, queue, delivered, drive, active, user,
                   role, text, failed>>

\* The goal tool, called by the model during a turn: it creates, completes,
\* blocks or cancels the goal.
GoalTool(p) ==
    /\ pc[p] = "turn"
    /\ active' = ~active
    /\ UNCHANGED <<manager, steering, agent, drive, user, pc, role, text, failed>>

-----------------------------------------------------------------------------
(* runAgentTurn after Agent.Run, and its deferred cleanup.                 *)

\* A panic unwinds past finishProcessing to the cleanup, which will not run
\* the post-turn hook.
Panic(p) ==
    /\ MayPanic
    /\ pc[p] = "turn" /\ role[p] = "turn"
    /\ role' = [role EXCEPT ![p] = "panicked"]
    /\ Goto(p, "cleanup")
    /\ UNCHANGED <<manager, steering, agent, drive, active, user, text, failed>>

FlushLeftover(p) ==
    /\ pc[p] = "leftover"
    /\ pending' = IF steering = {} THEN pending ELSE steering
    /\ steering' = {}
    /\ Goto(p, "cleanup")
    /\ UNCHANGED <<running, latest, cancel, cancelled, agent, drive, active,
                   user, role, text, failed>>
\* Not the code: the cleanup would leave the pending steering behind.
CleanupKeepingPending(p) ==
    /\ pc[p] = "cleanup"
    /\ running' = FALSE
    /\ cancel' = IF latest = p THEN NoTurn ELSE cancel
    /\ cancelled' = cancelled \cup {p}
    /\ Carry(p, pending)
    /\ Goto(p, IF pending = {} THEN Return(p) ELSE "send")
    /\ UNCHANGED <<latest, pending, steering, agent, drive, active, user, role, failed>>

\* Not the code: an older turn would drop the cancel function of a newer one.
CleanupAnyGen(p) ==
    /\ pc[p] = "cleanup"
    /\ running' = FALSE
    /\ cancel' = NoTurn
    /\ cancelled' = cancelled \cup {p}
    /\ Carry(p, pending)
    /\ pending' = {}
    /\ Goto(p, IF pending = {} THEN Return(p) ELSE "send")
    /\ UNCHANGED <<latest, steering, agent, drive, active, user, role, failed>>

\* Not the code: the cleanup would stay busy for the follow-up turn.
CleanupStayingBusy(p) ==
    /\ pc[p] = "cleanup"
    /\ running' = (pending # {})
    /\ cancel' = IF latest = p THEN NoTurn ELSE cancel
    /\ cancelled' = cancelled \cup {p}
    /\ Carry(p, pending)
    /\ pending' = {}
    /\ Goto(p, IF pending = {} THEN Return(p) ELSE "send")
    /\ UNCHANGED <<latest, steering, agent, drive, active, user, role, failed>>

Cleanup(p) ==
    /\ pc[p] = "cleanup"
    /\ running' = FALSE
    /\ cancel' = IF latest = p THEN NoTurn ELSE cancel
    /\ cancelled' = cancelled \cup {p}
    /\ Carry(p, pending)
    /\ pending' = {}
    /\ Goto(p, IF pending = {} THEN Return(p) ELSE "send")
    /\ UNCHANGED <<latest, steering, agent, drive, active, user, role, failed>>

PostTurnHook(p) ==
    /\ pc[p] = "hook"
    /\ Goto(p, IF active THEN "drive" ELSE "idle")
    /\ UNCHANGED <<manager, steering, agent, drive, active, user, role, text, failed>>

-----------------------------------------------------------------------------
(* GoalDriver.Drive, called by the post-turn hook or by Start.             *)
\* Not the code: Drive would not look at its driving flag.
DriveEnterUnguarded(p) ==
    /\ pc[p] = "drive"
    /\ driving' = TRUE /\ stopped' = FALSE
    /\ role' = [role EXCEPT ![p] = "drive"]
    /\ Goto(p, "loop")
    /\ UNCHANGED <<manager, steering, agent, active, user, text, failed>>

DriveEnter(p) ==
    /\ pc[p] = "drive"
    /\ IF driving
         THEN Goto(p, "idle") /\ UNCHANGED <<drive, role>>
         ELSE /\ driving' = TRUE /\ stopped' = FALSE
              /\ role' = [role EXCEPT ![p] = "drive"]
              /\ Goto(p, "loop")
    /\ UNCHANGED <<manager, steering, agent, active, user, text, failed>>

DriveLoop(p) ==
    /\ pc[p] = "loop"
    /\ Goto(p, IF stopped \/ ~active THEN "undrive" ELSE "runner")
    /\ UNCHANGED <<manager, steering, agent, drive, active, user, role, text, failed>>

\* A budget is reached, before the turn or after it, or the model stopped in
\* silence.
DriveGivesUp(p) ==
    /\ \/ pc[p] = "loop" /\ ~stopped
       \/ pc[p] = "judge" /\ ~failed[p]
    /\ active
    /\ active' = FALSE
    /\ Goto(p, "undrive")
    /\ UNCHANGED <<manager, steering, agent, drive, user, role, text, failed>>

\* The stall watchdog blocks the goal after a turn without progress.
StallBlocks(p) ==
    /\ pc[p] = "judge" /\ ~failed[p] /\ active
    /\ active' = FALSE
    /\ Goto(p, "loop")
    /\ UNCHANGED <<manager, steering, agent, drive, user, role, text, failed>>

\* agentManagerRunner.Run: ErrAgentBusy while the manager runs a turn.
RunnerGuard(p) ==
    /\ pc[p] = "runner"
    /\ IF running
         THEN Goto(p, "undrive") /\ UNCHANGED text
         ELSE Goto(p, "enter") /\ Carry(p, {Continue})
    /\ UNCHANGED <<manager, steering, agent, drive, active, user, role, failed>>

\* DispatchPendingSteering: the stash under the manager's mutex, then the
\* live queue under its own.
DispatchPendingSteering(p) ==
    /\ pc[p] = "dispatch"
    /\ Carry(p, pending)
    /\ pending' = {}
    /\ Goto(p, "flush")
    /\ UNCHANGED <<running, latest, cancel, cancelled, steering, agent, drive, active,
                   user, role, failed>>

FlushLive(p) ==
    /\ pc[p] = "flush"
    /\ Carry(p, text[p] \cup steering)
    /\ steering' = {}
    /\ Goto(p, IF text[p] \cup steering = {} THEN "judge" ELSE "send")
    /\ UNCHANGED <<manager, agent, drive, active, user, role, failed>>

\* handleTurnError pauses the goal of a failed turn.
DriveJudge(p) ==
    /\ pc[p] = "judge"
    /\ active' = (active /\ ~failed[p])
    /\ Goto(p, IF active /\ ~failed[p] THEN "loop" ELSE "undrive")
    /\ UNCHANGED <<manager, steering, agent, drive, user, role, text, failed>>
\* Not the code: a loop would end without clearing its driving flag.
DriveExitKeepingFlag(p) ==
    /\ pc[p] = "undrive"
    /\ Goto(p, "idle")
    /\ UNCHANGED <<manager, steering, agent, drive, active, user, role, text, failed>>

DriveExit(p) ==
    /\ pc[p] = "undrive"
    /\ driving' = FALSE /\ stopped' = FALSE
    /\ Goto(p, "idle")
    /\ UNCHANGED <<manager, steering, agent, active, user, role, text, failed>>

-----------------------------------------------------------------------------
(* The user.                                                               *)

Submit(i) ==
    /\ pc[Ui] = "idle" /\ i \notin submitted
    /\ submitted' = submitted \cup {i}
    /\ escaped' = FALSE
    /\ Carry(Ui, {i})
    /\ Goto(Ui, "send")
    /\ UNCHANGED <<manager, steering, agent, drive, active, restored, role, failed>>

\* /goal create or resume, or the promotion of a queued goal: the goal is
\* active and GoalDriver.Start begins a goroutine.
StartGoal(d) ==
    /\ pc[Ui] = "idle" /\ pc[d] = "idle"
    /\ active' = TRUE
    /\ escaped' = FALSE
    /\ Goto(d, "drive")
    /\ UNCHANGED <<manager, steering, agent, drive, submitted, restored, role,
                   text, failed>>

\* /goal pause or cancel.
EndGoal ==
    /\ pc[Ui] = "idle" /\ active
    /\ active' = FALSE
    /\ UNCHANGED <<manager, steering, agent, drive, user, pc, role, text, failed>>

\* handleEscape: CancelTurn, restoreSteeringToInput, GoalDriver.Stop.
CancelTurn ==
    /\ pc[Ui] = "idle"
    /\ cancelled' = cancelled \cup ({cancel} \cap Turns)
    /\ cancel' = NoTurn
    /\ Goto(Ui, "restore")
    /\ UNCHANGED <<running, latest, pending, steering, agent, drive, active,
                   user, role, text, failed>>

RestoreSteering ==
    /\ pc[Ui] = "restore"
    /\ restored' = restored \cup steering
    /\ steering' = {}
    /\ Goto(Ui, "stop")
    /\ UNCHANGED <<manager, agent, drive, active, submitted, escaped, role,
                   text, failed>>

StopDriver ==
    /\ pc[Ui] = "stop"
    /\ stopped' = driving
    /\ escaped' = TRUE
    /\ Goto(Ui, "idle")
    /\ UNCHANGED <<manager, steering, agent, driving, active, submitted,
                   restored, role, text, failed>>

-----------------------------------------------------------------------------
Send(p) == SendRead(p) \/ SendCheck(p) \/ SendAppend(p) \/ SendStart(p)

Run(p) ==
    \/ RunEnter(p) \/ TurnEnds(p) \/ FinalizeTurn(p) \/ TurnFails(p)
    \/ NextQueued(p) \/ FinishProcessing(p)

AfterTurn(p) == FlushLeftover(p) \/ Cleanup(p) \/ PostTurnHook(p)

Drive(p) ==
    \/ DriveEnter(p) \/ DriveLoop(p) \/ DriveGivesUp(p) \/ StallBlocks(p) \/ RunnerGuard(p)
    \/ DispatchPendingSteering(p) \/ FlushLive(p) \/ DriveJudge(p) \/ DriveExit(p)

Escape == RestoreSteering \/ StopDriver

\* What a goroutine does without being asked.
Goroutine(p) ==
    IF p = Ui THEN Send(p) \/ Escape
    ELSE Send(p) \/ Run(p) \/ AfterTurn(p) \/ Drive(p)

Next ==
    \/ \E p \in Procs : Goroutine(p)
    \/ \E p \in Turns \cup Drivers : DrainSteering(p) \/ GoalTool(p) \/ Panic(p)
    \/ \E i \in Inputs : Submit(i)
    \/ \E d \in Drivers : StartGoal(d)
    \/ EndGoal \/ CancelTurn

Spec == Init /\ [][Next]_vars

\* The Go scheduler runs every goroutine that can run, and a turn of the
\* provider ends: it finishes, fails, or is cut off by the idle timeout.
FairSpec == Spec /\ \A p \in Procs : WF_vars(Goroutine(p))

-----------------------------------------------------------------------------
\* The processes between the start and the end of a turn of the agent.
Inside == {p \in Procs : pc[p] \in {"turn", "stash", "next", "finish"}}

\* At most one goroutine is inside Agent.Run, and while it is there the agent
\* says it is processing: turns of the manager and of the drive loop never
\* write the history together (Agent.runInternal).
OneTurnInTheAgent ==
    /\ \A p, q \in Inside : p = q
    /\ Inside # {} => processing

\* The places a message is in: carried by a goroutine, queued in the agent, in
\* the steering queue, pending, in the history, or back in the input line.
Kept == <<steering, pending, delivered, restored>>

Holders(i) ==
    {<<"goroutine", p>> : p \in {q \in Procs : i \in text[q]}}
      \cup {<<"queue", k>> : k \in {n \in DOMAIN queue : i \in queue[n]}}
      \cup {<<"kept", h>> : h \in {n \in 1..4 : i \in Kept[n]}}

\* A message is in one place at a time, so nothing is delivered twice, however
\* the flushes of finalizeTurn, runAgentTurn, DispatchPendingSteering and ESC
\* interleave; and nothing the user did not send is anywhere.
EachInputOnce ==
    \A i \in Inputs :
        /\ \A a, b \in Holders(i) : a = b
        /\ Holders(i) # {} => i \in submitted

\* A goroutine of runAgentTurn between its start and the end of its cleanup.
BeforeCleanup(t) ==
    pc[t] \in {"enter", "turn", "stash", "next", "finish", "leftover", "cleanup"}

\* The turn started last can be cancelled until its cleanup, unless it was:
\* the cleanup of an older turn never drops the newer one's cancel function
\* (AgentManager.cancelGen).
NewestIsCancellable ==
    \A t \in Turns :
        t = latest /\ role[t] = "turn" /\ t \notin cancelled /\ BeforeCleanup(t)
        => cancel = t

\* The manager is not busy without a turn that will end it: running is set
\* only while some turn has its cleanup ahead (runAgentTurn's defer).
BusyHasAnOwner ==
    running => \E t \in Turns : role[t] \in {"turn", "panicked"} /\ BeforeCleanup(t)

\* Two drive loops never run at once (GoalDriver.driving).
InDrive == {p \in Procs : role[p] = "drive" /\ pc[p] \notin {"idle", "drive"}}

OneDriveLoop ==
    /\ \A p, q \in InDrive : p = q
    /\ InDrive # {} <=> driving

\* What each kind of process does and carries.
Shape ==
    /\ role[Ui] = "ui"
    /\ pc[Ui] \in {"idle", "send", "check", "append", "start", "restore", "stop"}
    /\ \A p \in Turns \cup Drivers :
        /\ role[p] # "ui"
        /\ pc[p] \in {"loop", "runner", "dispatch", "flush", "judge", "undrive"}
              => role[p] = "drive"
        /\ pc[p] \in {"leftover", "cleanup", "hook"} => p \in Turns /\ role[p] # "drive"
        /\ role[p] = "panicked"
              => p \in Turns /\ pc[p] \in {"idle", "cleanup", "send", "check", "append", "start"}
    /\ \A d \in Drivers : role[d] = "drive"
    /\ \A p \in Procs :
        pc[p] \in {"send", "check", "append", "start", "stash", "flush"} => text[p] \subseteq Inputs

\* The texts of two goroutines or two queue entries share no message, nor does
\* one of them with what is kept elsewhere: EachInputOnce, place by place.
Apart ==
    /\ \A p, q \in Procs : p # q => text[p] \cap text[q] \cap Inputs = {}
    /\ \A j, k \in DOMAIN queue : j # k => queue[j] \cap queue[k] \cap Inputs = {}
    /\ \A p \in Procs, k \in DOMAIN queue : text[p] \cap queue[k] \cap Inputs = {}
    /\ \A p \in Procs, h \in 1..4 : text[p] \cap Kept[h] = {}
    /\ \A k \in DOMAIN queue, h \in 1..4 : queue[k] \cap Kept[h] = {}
    /\ \A g, h \in 1..4 : g # h => Kept[g] \cap Kept[h] = {}
    /\ \A p \in Procs : text[p] \cap Inputs \subseteq submitted
    /\ \A k \in DOMAIN queue : queue[k] \cap Inputs \subseteq submitted
    /\ \A h \in 1..4 : Kept[h] \subseteq submitted

\* The inductive invariant: the goroutines that hold the agent, the manager's
\* flag and the driver's flag are where the flags say, and messages are apart.
IInv ==
    /\ TypeOK /\ Shape /\ Apart
    /\ OneTurnInTheAgent /\ NewestIsCancellable /\ BusyHasAnOwner /\ OneDriveLoop

\* A drive loop that ESC stopped comes down, whatever it was doing
\* (GoalDriver.Stop: no further continuation turn is launched).
StopEndsTheLoop == driving /\ stopped ~> ~driving

-----------------------------------------------------------------------------
(* What the comments of the code say, and its goroutines break: the README  *)
(* says how to see each.                                                   *)

\* steering.go:9-11: the messages sent while the agent runs "are merged and
\* delivered as a single follow-up turn when the current turn completes".  So
\* each is somewhere until it is delivered or given back to the user.
NoInputIsLost == \A i \in submitted : Holders(i) # {}

\* agentmanager.go:469: "IsRunning reports whether a user turn is currently in
\* progress".  It is the one guard of the drive loop against a busy agent.
IsRunningIsTruthful ==
    (\E t \in Inside : role[t] = "turn") => running

\* goal_driver.go:74-78, of ErrAgentBusy: "the goal stays active (never
\* paused) and the post-turn hook of the in-flight turn re-starts the drive
\* once the agent is idle".  So an active goal is not left with no goroutine
\* to drive it, unless the user pressed ESC.
ActiveGoalIsDriven ==
    active /\ ~escaped => \E p \in Procs : pc[p] # "idle"

=============================================================================
