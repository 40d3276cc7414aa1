------------------------------- MODULE HubRun -------------------------------
(***************************************************************************)
(* A hub run of the orchestrator: the conversation loop of                 *)
(* core/orchestrator/runtime_loop.go, the specialists it delegates to in   *)
(* the background (runtime_record.go), the user's answers                  *)
(* (runtime_steer.go) and the bounded pool that the loop and the           *)
(* specialists draw their agents from (AgentPool).                         *)
(*                                                                         *)
(* The loop acquires a fresh orchestrator agent for each turn.  The tools  *)
(* of a turn run in parallel (internal/agentic/tool_scheduler.go; delegate *)
(* and ask_user declare no resource they could conflict on), so several    *)
(* delegations may be waiting for a slot at once.  A step is what runs     *)
(* under one acquisition of loopMu, orchSteerMu, pendingMu or the pool's   *)
(* mutex.  A text is kept in sets: that the same text may reach one prompt *)
(* twice is not told apart.  Which texts the specialists get is left out,  *)
(* and so are the events and the goal's token account, whose exhaustion is *)
(* one of the errors a turn may end with.                                  *)
(***************************************************************************)
EXTENDS Naturals, Sequences, FiniteSets

CONSTANTS
    Orch,           \* the conversation loop as a caller of the pool
    Delegations,    \* bound: delegate and rework calls, each used once
    Reworks,        \* those that are rework calls
    Models, ModelOf, TotalCap, ModelCap,
    Answers,        \* what the user may say, each once
    MaxTurns        \* bound: turns in which the orchestrator calls tools

ASSUME HubOK ==
  /\ Orch \notin Delegations /\ IsFiniteSet(Delegations)
  /\ ModelOf \in [{Orch} \cup Delegations -> Models]
  /\ TotalCap \in Nat /\ ModelCap \in [Models -> Nat]
  /\ MaxTurns \in Nat

VARIABLES
    total, perModel, waiters, at,   \* the pool
    loop,           \* where runOrchestratorLoop is
    turns,          \* turns begun
    lastAction,     \* Runtime.lastAction
    pendingUser,    \* Runtime.pendingUser
    resumeCh,       \* Runtime.resumeCh, Nil or a channel
    pendingDone,    \* Runtime.pendingDone, Nil or a channel
    held,           \* the channel the loop waits on
    signalled,      \* that channel is closed
    pending,        \* Runtime.pending
    stage,          \* where each delegation is
    relabel,        \* rework calls that have yet to record their action
    cancelled,      \* the run's context is cancelled
    orchSteer,      \* Runtime.orchSteer
    brief,          \* the orchestrator handle's own steering queue
    heard,          \* texts in a prompt of the orchestrator
    call,           \* where the user's steering call is
    said,           \* texts SteerOrchestrator was called with
    owed            \* those it was called with while the loop was paused

Pool == INSTANCE AgentPool WITH Callers <- {Orch} \cup Delegations

poolVars == <<total, perModel, waiters, at>>
chanVars == <<resumeCh, pendingDone, held, signalled>>
textVars == <<orchSteer, brief, heard, said, owed>>
vars == <<poolVars, loop, turns, lastAction, pendingUser, chanVars,
          pending, stage, relabel, cancelled, textVars, call>>

Nil == 0

None == 0
Delegate == 1
Rework == 2
AskedUser == 3

Larger(a, b) == IF a > b THEN a ELSE b

\* Three variables refer to channels; what none refers to is garbage, and its
\* number is used again.  That a channel is closed matters to its waiter only.
Chans == 1..3

NewChan == CHOOSE n \in Chans : n \notin {resumeCh, pendingDone, held}

Channel(ch) == IF ch = Nil THEN NewChan ELSE ch

Close(ch) == signalled' = (signalled \/ held = ch)

WaitsOver == held' = Nil /\ signalled' = FALSE

TypeOK ==
  /\ Pool!TypeOK
  /\ loop \in {"top", "acquire", "briefed", "turn", "decide", "paused",
               "awaiting", "over"}
  /\ turns \in 0..(MaxTurns + 1)
  /\ lastAction \in None..AskedUser
  /\ {pendingUser, cancelled, signalled} \subseteq BOOLEAN
  /\ {resumeCh, pendingDone, held} \subseteq Chans \cup {Nil}
  /\ pending \subseteq Delegations /\ relabel \subseteq Delegations
  /\ stage \in [Delegations ->
        {"unused", "delegating", "running", "untracked", "done"}]
  /\ UNION {orchSteer, brief, heard, said, owed} \subseteq Answers
  /\ call \in [step : {"none", "buffered", "steered"}, texts : SUBSET Answers]

-----------------------------------------------------------------------------
(***************************************************************************)
(* The loop.                                                               *)
(***************************************************************************)
\* The deferred reset of the loop's state, and Run's own cancel.
Over ==
  /\ loop' = "over" /\ pendingUser' = FALSE /\ lastAction' = None
  /\ cancelled' = TRUE

TurnBegins ==
  /\ loop = "top" /\ ~cancelled
  /\ loop' = "acquire" /\ lastAction' = None
  /\ turns' = turns + 1
  /\ UNCHANGED <<poolVars, pendingUser, chanVars, pending, stage, relabel,
                 cancelled, textVars, call>>

TopCancelled ==
  /\ loop = "top" /\ cancelled /\ Over
  /\ UNCHANGED <<poolVars, turns, chanVars, pending, stage, relabel,
                 textVars, call>>

\* Acquire in acquireAndRun; an error of it ends the run.
LoopAcquires ==
  /\ loop = "acquire"
  /\ \/ /\ \/ Pool!Reserve(Orch) \/ Pool!Enqueue(Orch) \/ Pool!Park(Orch)
           \/ Pool!Built(Orch)
           \/ cancelled /\ Pool!GiveUp(Orch)
        /\ UNCHANGED <<loop, lastAction, pendingUser, cancelled>>
     \/ /\ Pool!BuildFails(Orch) \/ Pool!CancelWaiter(Orch)
        /\ Over
  /\ UNCHANGED <<turns, chanVars, pending, stage, relabel, textVars, call>>

\* acquireAndRun moves the buffered texts into the handle's queue, ...
DrainOrchSteer ==
  /\ loop = "acquire" /\ at[Orch] = "live"
  /\ loop' = "briefed"
  /\ brief' = brief \cup orchSteer /\ orchSteer' = {}
  /\ UNCHANGED <<poolVars, turns, lastAction, pendingUser, chanVars,
                 pending, stage, relabel, cancelled, heard, said, owed, call>>

\* ... and RunTurn drains the queue into the prompt.
RunTurn ==
  /\ loop = "briefed"
  /\ loop' = "turn"
  /\ heard' = heard \cup brief /\ brief' = {}
  /\ UNCHANGED <<poolVars, turns, lastAction, pendingUser, chanVars,
                 pending, stage, relabel, cancelled, orchSteer, said, owed, call>>

InTool == {d \in Delegations : stage[d] = "delegating"} \cup relabel

\* The turn ends and its handle, with the queue in it, is released.  An error
\* of the turn ends the run.
TurnEnds ==
  /\ loop = "turn" /\ InTool = {}
  /\ Pool!Release(Orch)
  /\ brief' = {}
  /\ \/ loop' = "decide" /\ UNCHANGED <<lastAction, pendingUser, cancelled>>
     \/ Over
  /\ UNCHANGED <<turns, chanVars, pending, stage, relabel, orchSteer,
                 heard, said, owed, call>>

\* No tool was called: the output of the turn is the final answer.
FinalAnswer ==
  /\ loop = "decide" /\ lastAction = None /\ Over
  /\ UNCHANGED <<poolVars, turns, chanVars, pending, stage, relabel,
                 textVars, call>>

\* A variant that leaves pendingUser as AskUser set it.
WaitTrustingAskUser ==
  /\ loop = "decide" /\ lastAction = AskedUser
  /\ resumeCh' = Channel(resumeCh)
  /\ IF orchSteer # {}
     THEN orchSteer' = {} /\ loop' = "top" /\ UNCHANGED held
     ELSE held' = resumeCh' /\ loop' = "paused" /\ UNCHANGED orchSteer
  /\ UNCHANGED <<poolVars, turns, lastAction, pendingUser, pendingDone, signalled,
                 pending, stage, relabel, cancelled, brief, heard, said, owed,
                 call>>

\* waitForUserAnswer: a new channel if there is none; a text buffered by now
\* is taken for the answer, and the buffer is emptied.
WaitForUserAnswer ==
  /\ loop = "decide" /\ lastAction = AskedUser
  /\ resumeCh' = Channel(resumeCh)
  /\ IF orchSteer # {}
     THEN /\ orchSteer' = {} /\ pendingUser' = FALSE /\ loop' = "top"
          /\ UNCHANGED held
     ELSE /\ held' = resumeCh' /\ pendingUser' = TRUE /\ loop' = "paused"
          /\ UNCHANGED orchSteer
  /\ UNCHANGED <<poolVars, turns, lastAction, pendingDone, signalled, pending,
                 stage, relabel, cancelled, brief, heard, said, owed, call>>

\* A variant that waits for the answer only.
ResumesOnAnswer ==
  /\ loop = "paused" /\ signalled /\ loop' = "top" /\ WaitsOver
  /\ UNCHANGED <<poolVars, turns, lastAction, pendingUser, resumeCh, pendingDone,
                 pending, stage, relabel, cancelled, textVars, call>>

Resumes ==
  /\ loop = "paused" /\ WaitsOver
  /\ \/ /\ signalled /\ loop' = "top"
        /\ UNCHANGED <<lastAction, pendingUser, cancelled>>
     \/ cancelled /\ Over
  /\ UNCHANGED <<poolVars, turns, resumeCh, pendingDone, pending, stage, relabel,
                 textVars, call>>

\* WaitForDelegations reads pendingDone, and waits on it without a context.
WaitForDelegations ==
  /\ loop = "decide" /\ lastAction \in {Delegate, Rework}
  /\ held' = pendingDone
  /\ loop' = IF pendingDone = Nil THEN "top" ELSE "awaiting"
  /\ UNCHANGED <<poolVars, turns, lastAction, pendingUser, resumeCh, pendingDone,
                 signalled, pending, stage, relabel, cancelled, textVars, call>>

Synthesises ==
  /\ loop = "awaiting" /\ signalled /\ loop' = "top" /\ WaitsOver
  /\ UNCHANGED <<poolVars, turns, lastAction, pendingUser, resumeCh, pendingDone,
                 pending, stage, relabel, cancelled, textVars, call>>

-----------------------------------------------------------------------------
(***************************************************************************)
(* The orchestrator's tools.                                               *)
(***************************************************************************)
MayCallTools == loop = "turn" /\ turns <= MaxTurns

AskUser ==
  /\ MayCallTools
  /\ pendingUser' = TRUE /\ lastAction' = AskedUser
  /\ resumeCh' = Channel(resumeCh)
  /\ UNCHANGED <<poolVars, loop, turns, pendingDone, held, signalled, pending,
                 stage, relabel, cancelled, textVars, call>>

CallDelegate(d) ==
  /\ MayCallTools /\ stage[d] = "unused"
  /\ stage' = [stage EXCEPT ![d] = IF cancelled THEN "done" ELSE "delegating"]
  /\ UNCHANGED <<poolVars, loop, turns, lastAction, pendingUser, chanVars,
                 pending, relabel, cancelled, textVars, call>>

\* Acquire in startDelegate, on the goroutine of the tool call.
DelegateAcquires(d) ==
  /\ stage[d] = "delegating"
  /\ \/ /\ \/ Pool!Reserve(d) \/ Pool!Enqueue(d) \/ Pool!Park(d) \/ Pool!Built(d)
           \/ cancelled /\ Pool!GiveUp(d)
        /\ UNCHANGED stage
     \/ /\ Pool!BuildFails(d) \/ Pool!CancelWaiter(d)
        /\ stage' = [stage EXCEPT ![d] = "done"]
  /\ UNCHANGED <<loop, turns, lastAction, pendingUser, chanVars, pending,
                 relabel, cancelled, textVars, call>>

\* trackPending, under pendingMu.
TrackPending(d) ==
  /\ pending' = pending \cup {d}
  /\ pendingDone' = Channel(pendingDone)

\* DelegateAsync with its handle: the specialist's goroutine is started.
Launch(d) ==
  /\ stage[d] = "delegating" /\ at[d] = "live" /\ ~cancelled
  /\ lastAction' = Larger(lastAction, Delegate)
  /\ TrackPending(d)
  /\ stage' = [stage EXCEPT ![d] = "running"]
  /\ relabel' = relabel \cup ({d} \cap Reworks)
  /\ UNCHANGED <<poolVars, loop, turns, pendingUser, resumeCh, held, signalled,
                 cancelled, textVars, call>>

\* A variant that forgets the handle.
LaunchRefusedKeepingAgent(d) ==
  /\ stage[d] = "delegating" /\ cancelled /\ at[d] = "live"
  /\ stage' = [stage EXCEPT ![d] = "done"]
  /\ UNCHANGED <<poolVars, loop, turns, lastAction, pendingUser, chanVars,
                 pending, relabel, cancelled, textVars, call>>

\* DelegateAsync finds the run cancelled and gives the handle back.
LaunchRefused(d) ==
  /\ stage[d] = "delegating" /\ cancelled
  /\ Pool!Release(d)
  /\ stage' = [stage EXCEPT ![d] = "done"]
  /\ UNCHANGED <<loop, turns, lastAction, pendingUser, chanVars, pending,
                 relabel, cancelled, textVars, call>>

\* ReworkAsync records its action whatever was recorded before.
Relabel(d) ==
  /\ d \in relabel
  /\ relabel' = relabel \ {d} /\ lastAction' = Rework
  /\ UNCHANGED <<poolVars, loop, turns, pendingUser, chanVars, pending,
                 stage, cancelled, textVars, call>>

-----------------------------------------------------------------------------
(***************************************************************************)
(* The specialist's goroutine.                                             *)
(***************************************************************************)
\* Variants: the channel is closed by the first delegation that ends, or by none.
UntrackClosingEarly(d) ==
  /\ stage[d] = "running"
  /\ stage' = [stage EXCEPT ![d] = "untracked"]
  /\ pending' = pending \ {d}
  /\ pendingDone' = Nil
  /\ IF pendingDone # Nil THEN Close(pendingDone) ELSE UNCHANGED signalled
  /\ UNCHANGED <<poolVars, loop, turns, lastAction, pendingUser, resumeCh, held,
                 relabel, cancelled, textVars, call>>

UntrackWithoutClosing(d) ==
  /\ stage[d] = "running"
  /\ stage' = [stage EXCEPT ![d] = "untracked"]
  /\ pending' = pending \ {d}
  /\ UNCHANGED <<poolVars, loop, turns, lastAction, pendingUser, chanVars,
                 relabel, cancelled, textVars, call>>

\* Its turn ends, well or badly, and untrackPending.
UntrackPending(d) ==
  /\ stage[d] = "running"
  /\ stage' = [stage EXCEPT ![d] = "untracked"]
  /\ pending' = pending \ {d}
  /\ IF pending' = {} /\ pendingDone # Nil
     THEN Close(pendingDone) /\ pendingDone' = Nil
     ELSE UNCHANGED <<signalled, pendingDone>>
  /\ UNCHANGED <<poolVars, loop, turns, lastAction, pendingUser, resumeCh, held,
                 relabel, cancelled, textVars, call>>

GiveBack(d) ==
  /\ stage[d] = "untracked"
  /\ Pool!Release(d)
  /\ stage' = [stage EXCEPT ![d] = "done"]
  /\ UNCHANGED <<loop, turns, lastAction, pendingUser, chanVars, pending,
                 relabel, cancelled, textVars, call>>

-----------------------------------------------------------------------------
(***************************************************************************)
(* The user.                                                               *)
(***************************************************************************)
NoCall == [step |-> "none", texts |-> {}]

\* A variant that only gives the text to a live orchestrator.
SteerWithoutBuffer(a) ==
  /\ call = NoCall /\ loop # "over" /\ a \notin said
  /\ call' = [step |-> "buffered", texts |-> {a}]
  /\ said' = said \cup {a}
  /\ owed' = IF loop = "paused" THEN owed \cup {a} ELSE owed
  /\ UNCHANGED <<poolVars, loop, turns, lastAction, pendingUser, chanVars,
                 pending, stage, relabel, cancelled, orchSteer, brief, heard>>

\* SteerOrchestrator buffers the text, ...
SteerOrchestrator(a) ==
  /\ call = NoCall /\ loop # "over" /\ a \notin said
  /\ call' = [step |-> "buffered", texts |-> {a}]
  /\ orchSteer' = orchSteer \cup {a} /\ said' = said \cup {a}
  /\ owed' = IF loop = "paused" THEN owed \cup {a} ELSE owed
  /\ UNCHANGED <<poolVars, loop, turns, lastAction, pendingUser, chanVars,
                 pending, stage, relabel, cancelled, brief, heard>>

\* ... gives it to a live orchestrator too, ...
SteerHandle ==
  /\ call.step = "buffered"
  /\ call' = [step |-> "steered", texts |-> {}]
  /\ brief' = IF at[Orch] = "live" THEN brief \cup call.texts ELSE brief
  /\ UNCHANGED <<poolVars, loop, turns, lastAction, pendingUser, chanVars,
                 pending, stage, relabel, cancelled, orchSteer, heard, said, owed>>

\* ... and resumes a paused loop.
ResumeLoop ==
  /\ call.step = "steered"
  /\ call' = NoCall
  /\ IF loop # "over" /\ pendingUser /\ resumeCh # Nil
     THEN pendingUser' = FALSE /\ Close(resumeCh) /\ resumeCh' = Nil
     ELSE UNCHANGED <<pendingUser, signalled, resumeCh>>
  /\ UNCHANGED <<poolVars, loop, turns, lastAction, pendingDone, held, pending,
                 stage, relabel, cancelled, textVars>>

\* SteerAll gives its text, which is not followed here, to the live handles
\* only; then it resumes a paused loop as SteerOrchestrator does.
SteerAll ==
  /\ call = NoCall /\ loop # "over"
  /\ call' = [step |-> "steered", texts |-> {}]
  /\ UNCHANGED <<poolVars, loop, turns, lastAction, pendingUser, chanVars,
                 pending, stage, relabel, cancelled, textVars>>

Cancel ==
  /\ loop # "over" /\ ~cancelled /\ cancelled' = TRUE
  /\ UNCHANGED <<poolVars, loop, turns, lastAction, pendingUser, chanVars,
                 pending, stage, relabel, textVars, call>>

-----------------------------------------------------------------------------

Init ==
  /\ Pool!Init
  /\ loop = "top" /\ turns = 0 /\ lastAction = None
  /\ pendingUser = FALSE /\ cancelled = FALSE
  /\ resumeCh = Nil /\ pendingDone = Nil /\ held = Nil
  /\ signalled = FALSE
  /\ pending = {} /\ relabel = {}
  /\ stage = [d \in Delegations |-> "unused"]
  /\ orchSteer = {} /\ brief = {} /\ heard = {} /\ said = {} /\ owed = {}
  /\ call = NoCall

\* The loop's own steps; calling tools is the model's choice.
LoopStep ==
  \/ TurnBegins \/ TopCancelled \/ LoopAcquires \/ DrainOrchSteer \/ RunTurn
  \/ TurnEnds \/ FinalAnswer \/ WaitForUserAnswer \/ Resumes
  \/ WaitForDelegations \/ Synthesises

\* What goes on once a delegation has been called.
DelegationStep(d) ==
  \/ DelegateAcquires(d) \/ Launch(d) \/ LaunchRefused(d) \/ Relabel(d)
  \/ UntrackPending(d) \/ GiveBack(d)

UserStep == (\E a \in Answers : SteerOrchestrator(a)) \/ SteerHandle
            \/ ResumeLoop \/ SteerAll \/ Cancel

Finished ==
  /\ loop = "over" /\ \A d \in Delegations : stage[d] \in {"unused", "done"}
  /\ UNCHANGED vars

Next ==
  \/ LoopStep \/ AskUser \/ UserStep \/ Finished
  \/ \E d \in Delegations : CallDelegate(d) \/ DelegationStep(d)

\* Go runs every goroutine that can run, and an agent's turn ends (its stream
\* has an idle timeout); nothing is assumed of the user.
Fairness == WF_vars(LoopStep) /\ \A d \in Delegations : WF_vars(DelegationStep(d))

Spec == Init /\ [][Next]_vars /\ Fairness

-----------------------------------------------------------------------------
(***************************************************************************)
(* Properties.                                                             *)
(***************************************************************************)
\* The pool is used as it must be: whatever the loop and the delegations do,
\* every agent that was acquired is released, once.
AgentsAreReturned ==
  /\ Pool!CountsExact
  /\ loop \in {"top", "decide", "paused", "awaiting", "over"} => at[Orch] = "idle"
  /\ \A d \in Delegations : stage[d] \in {"unused", "done"} => at[d] = "idle"

\* Between two turns the loop never waits for a slot: its delegations took
\* theirs while the loop's own agent held one, and none is taken without it.
LoopFindsASlot == at[Orch] \in {"idle", "reserved", "live"}

\* A loop that is paused for the user can be resumed: the channel it waits on
\* is closed, or is the one that the next answer closes.
PausedIsResumable ==
  loop = "paused" /\ ~signalled => pendingUser /\ resumeCh = held

\* A loop that waits for its specialists is woken by the last of them: the
\* channel it waits on is closed, or is the one untrackPending closes next.
AwaitedWillSignal ==
  loop = "awaiting" /\ ~signalled => pendingDone = held /\ pending # {}

\* The turn that follows WaitForDelegations follows every delegation.
SynthesisSeesAll ==
  [][loop = "awaiting" /\ loop' = "top" => pending = {}]_vars

\* An answer given to a paused loop reaches a prompt of the orchestrator, or
\* is on its way there, as long as the run lasts.
PausedAnswerArrives == loop # "over" => owed \subseteq orchSteer \cup brief \cup heard

\* runtime_steer.go: an answer is buffered "so it survives across loop
\* iterations even when no orchestrator handle is currently live".  It does not
\* hold: the README says which schedule loses one.
AnswersSurvive == loop # "over" => said \subseteq orchSteer \cup brief \cup heard

\* Cancel ends the run wherever it was: waiting for a slot, inside a tool, for
\* the user or, with no context to watch, for the specialists.
CancelEndsTheRun == cancelled ~> loop = "over"

\* The wait for the specialists, which no context ends, does end.
AwaitEnds == loop = "awaiting" ~> loop # "awaiting"
=============================================================================
