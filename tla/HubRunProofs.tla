---------------------------- MODULE HubRunProofs ----------------------------
(***************************************************************************)
(* Theorems about HubRun, for every set of delegations, models and caps.   *)
(*                                                                         *)
(* The run takes and gives back its agents by the steps of AgentPool only, *)
(* so what AgentPoolProofs shows of the pool's steps holds of the run.  On *)
(* top of that, the invariant says where the loop may be while a tool is   *)
(* running, who has a slot at which place, which channels the three        *)
(* references name, and how far an answer has come.                        *)
(***************************************************************************)
EXTENDS HubRun, FiniteSetTheorems, TLAPS

Agents == {Orch} \cup Delegations

\* The pool of this run, with what is proved about its steps.
PoolProofs == INSTANCE AgentPoolProofs WITH Callers <- Agents

-----------------------------------------------------------------------------
(***************************************************************************)
(* The inductive invariant.                                                *)
(***************************************************************************)
PoolPart ==
  /\ PoolProofs!PoolInv /\ PoolProofs!QueueInv
  /\ PoolProofs!RoomFor(Orch)

\* A tool runs in a turn only.
InTurn == InTool # {} => loop = "turn"

\* Who has a slot.  The loop's own agent is never in the queue.
Slots ==
  /\ at[Orch] \in {"idle", "reserved", "live"}
  /\ loop \in {"top", "decide", "paused", "awaiting", "over"} => at[Orch] = "idle"
  /\ loop \in {"briefed", "turn"} => at[Orch] = "live"
  /\ \A d \in Delegations :
        /\ stage[d] \in {"unused", "done"} => at[d] = "idle"
        /\ stage[d] \in {"running", "untracked"} => at[d] = "live"

\* The pending set and its channel are those of the running specialists.
Tracked ==
  /\ pending = {d \in Delegations : stage[d] = "running"}
  /\ pendingDone = Nil <=> pending = {}

\* The references to channels do not mix up the two kinds of them, and nobody
\* but a waiting loop holds one.
Channels ==
  /\ {resumeCh, pendingDone, held} \subseteq Chans \cup {Nil}
  /\ resumeCh # Nil => resumeCh # pendingDone
  /\ loop \notin {"paused", "awaiting"} => held = Nil /\ signalled = FALSE
  /\ loop = "paused" => held # Nil /\ held # pendingDone
  /\ loop = "awaiting" => held # Nil /\ held # resumeCh

\* What ends a wait is what it waits for.
Wakes ==
  /\ PausedIsResumable /\ AwaitedWillSignal
  /\ loop = "awaiting" /\ signalled => pending = {}

\* How far the answers to a pause have come.
Arrives ==
  /\ loop \in {"top", "acquire", "paused"} => owed \subseteq orchSteer \cup heard
  /\ loop = "briefed" => owed \subseteq brief \cup heard
  /\ loop \in {"turn", "decide", "awaiting"} => owed \subseteq heard

\* The turn after the last that may call tools ends the run.
LastTurn ==
  /\ turns \in 0 .. MaxTurns + 1
  /\ turns = MaxTurns + 1 =>
        loop \notin {"top", "paused", "awaiting"} /\ lastAction = None /\ InTool = {}

Flags == pendingUser \in BOOLEAN /\ cancelled \in BOOLEAN /\ signalled \in BOOLEAN

Types ==
  /\ loop \in {"top", "acquire", "briefed", "turn", "decide", "paused",
               "awaiting", "over"}
  /\ lastAction \in None .. AskedUser
  /\ pending \subseteq Delegations /\ relabel \subseteq Delegations
  /\ stage \in [Delegations ->
        {"unused", "delegating", "running", "untracked", "done"}]
  /\ orchSteer \subseteq Answers /\ brief \subseteq Answers /\ heard \subseteq Answers
  /\ said \subseteq Answers /\ owed \subseteq Answers
  /\ call \in [step : {"none", "buffered", "steered"}, texts : SUBSET Answers]

IInv ==
  /\ PoolPart /\ Flags /\ Types /\ LastTurn /\ InTurn /\ Slots /\ Tracked
  /\ Channels /\ Wakes /\ Arrives

-----------------------------------------------------------------------------
(***************************************************************************)
(* The pool.                                                               *)
(***************************************************************************)
LEMMA AgentsAre == Orch \in Agents /\ \A d \in Delegations : d \in Agents /\ d # Orch
BY HubOK DEF Agents

\* The constants of the run are fit for the pool.
LEMMA PoolFits == PoolProofs!PoolOK
<1>1. IsFiniteSet(Agents)
  BY HubOK, FS_AddElement DEF Agents
<1> QED BY <1>1, HubOK DEF Agents, PoolProofs!PoolOK, PoolProofs!IsFiniteSet, IsFiniteSet

\* The pool of the proofs is the pool of the run.
LEMMA SamePool ==
  /\ Pool!Init <=> PoolProofs!Init
  /\ Pool!CountsExact <=> PoolProofs!CountsExact
  /\ \A c \in Agents :
        /\ Pool!Reserve(c) <=> PoolProofs!Reserve(c)
        /\ Pool!Enqueue(c) <=> PoolProofs!Enqueue(c)
        /\ Pool!Park(c) <=> PoolProofs!Park(c)
        /\ Pool!GiveUp(c) <=> PoolProofs!GiveUp(c)
        /\ Pool!CancelWaiter(c) <=> PoolProofs!CancelWaiter(c)
        /\ Pool!Built(c) <=> PoolProofs!Built(c)
        /\ Pool!BuildFails(c) <=> PoolProofs!BuildFails(c)
        /\ Pool!Release(c) <=> PoolProofs!Release(c)
<1>1. Pool!Init <=> PoolProofs!Init
  BY DEF Pool!Init, PoolProofs!Init, Pool!PoolInit, PoolProofs!PoolInit, Agents
<1>2. Pool!CountsExact <=> PoolProofs!CountsExact
  BY DEF Pool!CountsExact, PoolProofs!CountsExact, Pool!Holders, PoolProofs!Holders,
         Pool!HoldersOf, PoolProofs!HoldersOf, Pool!Cardinality, PoolProofs!Cardinality, Agents
<1>3. ASSUME NEW c \in Agents
      PROVE  /\ Pool!Reserve(c) <=> PoolProofs!Reserve(c)
             /\ Pool!Enqueue(c) <=> PoolProofs!Enqueue(c)
  BY DEF Pool!Reserve, PoolProofs!Reserve, Pool!Enqueue, PoolProofs!Enqueue,
         Pool!UnderCaps, PoolProofs!UnderCaps, Pool!Under, PoolProofs!Under
<1>4. ASSUME NEW c \in Agents
      PROVE  /\ Pool!Park(c) <=> PoolProofs!Park(c)
             /\ Pool!GiveUp(c) <=> PoolProofs!GiveUp(c)
             /\ Pool!CancelWaiter(c) <=> PoolProofs!CancelWaiter(c)
             /\ Pool!Built(c) <=> PoolProofs!Built(c)
  BY DEF Pool!Park, PoolProofs!Park, Pool!GiveUp, PoolProofs!GiveUp, Pool!CancelWaiter,
         PoolProofs!CancelWaiter, Pool!RemoveAt, PoolProofs!RemoveAt, Pool!Built, PoolProofs!Built
<1>5. ASSUME NEW c \in Agents
      PROVE  Pool!ReleaseLocked(c) <=> PoolProofs!ReleaseLocked(c)
  BY DEF Pool!ReleaseLocked, PoolProofs!ReleaseLocked, Pool!Less, PoolProofs!Less,
         Pool!Signalled, PoolProofs!Signalled, Agents
<1>6. ASSUME NEW c \in Agents
      PROVE  /\ Pool!BuildFails(c) <=> PoolProofs!BuildFails(c)
             /\ Pool!Release(c) <=> PoolProofs!Release(c)
  BY <1>5 DEF Pool!BuildFails, PoolProofs!BuildFails, Pool!Release, PoolProofs!Release
<1> QED BY <1>1, <1>2, <1>3, <1>4, <1>6

\* What a step of the run does to the pool: nothing, or one step of one of the
\* run's agents; a delegation reserves in a turn only.
LEMMA PoolStep ==
  ASSUME Types, InTurn, [Next]_vars
  PROVE  \/ UNCHANGED poolVars
         \/ \E c \in Agents :
               /\ PoolProofs!Step(c)
               /\ PoolProofs!Reserve(c) => c = Orch \/ loop = "turn"
<1> USE AgentsAre, SamePool
<1>1. ASSUME LoopAcquires \/ TurnEnds PROVE PoolProofs!Step(Orch)
  BY <1>1 DEF LoopAcquires, TurnEnds, PoolProofs!Step
<1>2. ASSUME NEW d \in Delegations, DelegateAcquires(d) \/ LaunchRefused(d) \/ GiveBack(d)
      PROVE  /\ PoolProofs!Step(d)
             /\ PoolProofs!Reserve(d) => loop = "turn"
  <2>1. PoolProofs!Step(d)
    BY <1>2 DEF DelegateAcquires, LaunchRefused, GiveBack, PoolProofs!Step
  <2>2. CASE DelegateAcquires(d)
    BY <2>1, <2>2 DEF DelegateAcquires, InTurn, InTool
  <2>3. CASE LaunchRefused(d) \/ GiveBack(d)
    <3>1. at[d] = "live"
      BY <2>3 DEF LaunchRefused, GiveBack, Pool!Release
    <3> QED BY <2>1, <3>1 DEF PoolProofs!Reserve
  <2> QED BY <1>2, <2>2, <2>3
<1>3. CASE \/ TurnBegins \/ TopCancelled \/ DrainOrchSteer \/ RunTurn \/ FinalAnswer
           \/ WaitForUserAnswer \/ Resumes \/ WaitForDelegations \/ Synthesises
  BY <1>3 DEF TurnBegins, TopCancelled, DrainOrchSteer, RunTurn, FinalAnswer,
              WaitForUserAnswer, Resumes, WaitForDelegations, Synthesises
<1>4. CASE AskUser \/ UserStep \/ Finished \/ UNCHANGED vars
  BY <1>4 DEF AskUser, UserStep, SteerOrchestrator, SteerHandle, ResumeLoop, SteerAll,
              Cancel, Finished, vars
<1>5. ASSUME NEW d \in Delegations,
             CallDelegate(d) \/ Launch(d) \/ Relabel(d) \/ UntrackPending(d)
      PROVE  UNCHANGED poolVars
  BY <1>5 DEF CallDelegate, Launch, Relabel, UntrackPending
<1> QED BY <1>1, <1>2, <1>3, <1>4, <1>5 DEF Next, LoopStep, DelegationStep

\* The pool's own invariant holds, and there is room for the loop's agent
\* whenever it has none: it holds a slot in every turn, and delegations reserve
\* in turns only.
LEMMA PoolPartStep == Types /\ InTurn /\ Slots /\ PoolPart /\ [Next]_vars => PoolPart'
<1> SUFFICES ASSUME Types, InTurn, Slots, PoolPart, [Next]_vars PROVE PoolPart'
  OBVIOUS
<1>1. CASE UNCHANGED poolVars
  BY <1>1 DEF PoolPart, poolVars, PoolProofs!PoolInv, PoolProofs!CountsExact,
      PoolProofs!QueueInv, PoolProofs!QueueSound, PoolProofs!RoomFor,
      PoolProofs!Holders, PoolProofs!HoldersOf
<1>2. ASSUME NEW c \in Agents, PoolProofs!Step(c),
             PoolProofs!Reserve(c) => c = Orch \/ loop = "turn"
      PROVE  PoolPart'
  <2>1. [PoolProofs!Next]_(PoolProofs!poolVars)
    BY <1>2 DEF PoolProofs!Next
  <2>2. PoolProofs!PoolInv' /\ PoolProofs!QueueInv'
    BY <2>1, PoolFits, PoolProofs!PoolInvNext, PoolProofs!QueueSoundNext DEF PoolPart
  <2>3. PoolProofs!Reserve(c) => c = Orch \/ Orch \in PoolProofs!Holders
    BY <1>2, AgentsAre DEF Slots, PoolProofs!Holders
  <2>4. PoolProofs!RoomFor(Orch)'
    BY <1>2, <2>3, AgentsAre, PoolFits, PoolProofs!RoomKept DEF PoolPart
  <2> QED BY <2>2, <2>4 DEF PoolPart
<1> QED BY <1>1, <1>2, PoolStep

-----------------------------------------------------------------------------
(***************************************************************************)
(* The loop, the delegations and the user: one lemma for each part, which  *)
(* says which other parts a step needs to preserve it.                     *)
(***************************************************************************)
\* A new channel is one that no reference names.
LEMMA NewChanIsFresh ==
  ASSUME {resumeCh, pendingDone, held} \subseteq Chans \cup {Nil},
         Nil \in {resumeCh, pendingDone, held}
  PROVE  NewChan \in Chans /\ NewChan \notin {resumeCh, pendingDone, held, Nil}
<1>1. \E n \in Chans : n \notin {resumeCh, pendingDone, held}
  BY DEF Chans, Nil
<1>2. NewChan \in Chans /\ NewChan \notin {resumeCh, pendingDone, held}
  BY <1>1 DEF NewChan
<1> QED BY <1>2 DEF Chans, Nil

\* A step keeps the types.
LEMMA FlagsStep == Flags /\ [Next]_vars => Flags'
<1> SUFFICES ASSUME Flags, [Next]_vars PROVE Flags'
  OBVIOUS
<1> USE DEF Flags, chanVars
<1>1. CASE \/ TurnBegins \/ TopCancelled \/ LoopAcquires \/ DrainOrchSteer \/ RunTurn
           \/ TurnEnds
  BY <1>1 DEF TurnBegins, TopCancelled, LoopAcquires, DrainOrchSteer, RunTurn, TurnEnds, Over
<1>2. CASE FinalAnswer \/ WaitForUserAnswer \/ Resumes \/ WaitForDelegations \/ Synthesises
  BY <1>2 DEF FinalAnswer, WaitForUserAnswer, Resumes, WaitForDelegations, Synthesises,
              Over, WaitsOver
<1>3. CASE AskUser \/ UserStep \/ Finished \/ UNCHANGED vars
  BY <1>3 DEF AskUser, UserStep, SteerOrchestrator, SteerHandle, ResumeLoop, SteerAll,
              Cancel, Finished, vars, Close
<1>4. ASSUME NEW d \in Delegations, CallDelegate(d) \/ DelegationStep(d) PROVE Flags'
  BY <1>4 DEF CallDelegate, DelegationStep, DelegateAcquires, Launch, LaunchRefused, Relabel,
              UntrackPending, GiveBack, Close
<1> QED BY <1>1, <1>2, <1>3, <1>4 DEF Next, LoopStep

LEMMA TypesStep == Types /\ [Next]_vars => Types'
<1> SUFFICES ASSUME Types, [Next]_vars PROVE Types'
  OBVIOUS
<1> USE DEF Types, None, AskedUser, textVars
<1>1. CASE TurnBegins \/ TopCancelled \/ FinalAnswer
  BY <1>1 DEF TurnBegins, TopCancelled, FinalAnswer, Over
<1>2. CASE LoopAcquires
  BY <1>2 DEF LoopAcquires, Over
<1>3. CASE TurnEnds
  BY <1>3 DEF TurnEnds, Over
<1>4. CASE DrainOrchSteer \/ RunTurn
  BY <1>4 DEF DrainOrchSteer, RunTurn
<1>5. CASE WaitForUserAnswer
  BY <1>5 DEF WaitForUserAnswer
<1>6. CASE Resumes
  BY <1>6 DEF Resumes, Over
<1>7. CASE WaitForDelegations \/ Synthesises
  BY <1>7 DEF WaitForDelegations, Synthesises
<1>8. CASE AskUser \/ Finished \/ UNCHANGED vars
  BY <1>8 DEF AskUser, Finished, vars
<1>9. CASE UserStep
  <2>1. ASSUME NEW a \in Answers, SteerOrchestrator(a) PROVE Types'
    BY <2>1 DEF SteerOrchestrator, NoCall
  <2>2. CASE SteerHandle \/ SteerAll
    BY <2>2 DEF SteerHandle, SteerAll, NoCall
  <2>3. CASE ResumeLoop \/ Cancel
    BY <2>3 DEF ResumeLoop, Cancel, NoCall
  <2> QED BY <1>9, <2>1, <2>2, <2>3 DEF UserStep
<1>10. ASSUME NEW d \in Delegations, CallDelegate(d) \/ DelegationStep(d) PROVE Types'
  <2>1. CASE CallDelegate(d) \/ DelegateAcquires(d) \/ LaunchRefused(d) \/ GiveBack(d)
    BY <2>1 DEF CallDelegate, DelegateAcquires, LaunchRefused, GiveBack
  <2>2. CASE Launch(d) \/ Relabel(d)
    BY <2>2 DEF Launch, Relabel, TrackPending, Larger, Delegate, Rework
  <2>3. CASE UntrackPending(d)
    BY <2>3 DEF UntrackPending
  <2> QED BY <1>10, <2>1, <2>2, <2>3 DEF DelegationStep
<1> QED BY <1>1, <1>2, <1>3, <1>4, <1>5, <1>6, <1>7, <1>8, <1>9, <1>10 DEF Next, LoopStep

\* A turn ends when its tools have returned, and tools are called in turns.
LEMMA InTurnStep == Types /\ InTurn /\ [Next]_vars => InTurn'
<1> SUFFICES ASSUME Types, InTurn, [Next]_vars PROVE InTurn'
  OBVIOUS
<1> USE DEF Types, InTurn, InTool
<1>1. CASE LoopStep
  BY <1>1 DEF LoopStep, TurnBegins, TopCancelled, LoopAcquires, DrainOrchSteer, RunTurn, TurnEnds,
    FinalAnswer, WaitForUserAnswer, Resumes, WaitForDelegations, Synthesises, Over
<1>2. CASE AskUser \/ UserStep \/ Finished \/ UNCHANGED vars
  BY <1>2 DEF AskUser, UserStep, SteerOrchestrator, SteerHandle, ResumeLoop, SteerAll,
              Cancel, Finished, vars
<1>3. ASSUME NEW d \in Delegations, CallDelegate(d) PROVE InTurn'
  BY <1>3 DEF CallDelegate, MayCallTools
<1>4. ASSUME NEW d \in Delegations, DelegationStep(d) PROVE InTurn'
  <2>1. loop' = loop
    BY <1>4 DEF DelegationStep, DelegateAcquires, Launch, LaunchRefused, Relabel,
                UntrackPending, GiveBack
  <2>2. InTool' \subseteq InTool
    BY <1>4 DEF DelegationStep, DelegateAcquires, Launch, LaunchRefused, Relabel,
                UntrackPending, GiveBack
  <2> QED BY <2>1, <2>2
<1> QED BY <1>1, <1>2, <1>3, <1>4 DEF Next

\* The turn that may call no tool leaves no action behind, and its end ends the
\* run.
LEMMA LastTurnStep == Types /\ InTurn /\ LastTurn /\ [Next]_vars => LastTurn'
<1> SUFFICES ASSUME Types, InTurn, LastTurn, [Next]_vars PROVE LastTurn'
  OBVIOUS
<1> USE HubOK DEF Types, InTurn, LastTurn, None, Delegate, Rework, AskedUser
<1>1. CASE LoopStep
  BY <1>1 DEF LoopStep, TurnBegins, TopCancelled, LoopAcquires, DrainOrchSteer, RunTurn, TurnEnds,
    FinalAnswer, WaitForUserAnswer, Resumes, WaitForDelegations, Synthesises, Over, InTool
<1>2. CASE UserStep \/ Finished \/ UNCHANGED vars
  BY <1>2 DEF UserStep, SteerOrchestrator, SteerHandle, ResumeLoop, SteerAll,
              Cancel, Finished, vars, InTool
<1>3. CASE AskUser
  BY <1>3 DEF AskUser, MayCallTools
<1>4. ASSUME NEW d \in Delegations, CallDelegate(d) PROVE LastTurn'
  BY <1>4 DEF CallDelegate, MayCallTools
<1>5. ASSUME NEW d \in Delegations, DelegationStep(d) PROVE LastTurn'
  <2>1. loop' = loop /\ turns' = turns
    BY <1>5 DEF DelegationStep, DelegateAcquires, Launch, LaunchRefused, Relabel,
                UntrackPending, GiveBack
  <2>2. CASE InTool = {}
    <3>1. InTool' = {} /\ lastAction' = lastAction
      BY <1>5, <2>2 DEF InTool, DelegationStep, DelegateAcquires, Launch, LaunchRefused,
                        Relabel, UntrackPending, GiveBack
    <3> QED BY <2>1, <3>1
  <2>3. CASE InTool # {}
    BY <2>1, <2>3
  <2> QED BY <2>2, <2>3
<1> QED BY <1>1, <1>2, <1>3, <1>4, <1>5 DEF Next

\* What a step of the pool does to an agent that does not take it: nothing, or
\* it wakes it up.
LEMMA OthersStay ==
  ASSUME NEW c \in Agents, at \in [Agents -> PoolProofs!Places], PoolProofs!Step(c)
  PROVE  \A x \in Agents \ {c} : at'[x] = at[x] \/ (at[x] = "asleep" /\ at'[x] = "woken")
BY DEF PoolProofs!Step, PoolProofs!Reserve, PoolProofs!Enqueue, PoolProofs!Park,
       PoolProofs!GiveUp, PoolProofs!CancelWaiter, PoolProofs!Built, PoolProofs!BuildFails,
       PoolProofs!Release, PoolProofs!ReleaseLocked, PoolProofs!Signalled

\* Where a step of the pool leaves the agent that takes it.
LEMMA TakerGoes ==
  ASSUME NEW c \in Agents, at \in [Agents -> PoolProofs!Places]
  PROVE  /\ PoolProofs!Reserve(c) => at[c] \in {"idle", "woken"} /\ at'[c] = "reserved"
         /\ PoolProofs!Enqueue(c) => at[c] \in {"idle", "woken"} /\ ~PoolProofs!UnderCaps(c)
         /\ PoolProofs!Park(c) => at[c] = "queued"
         /\ PoolProofs!GiveUp(c) => at[c] = "asleep"
         /\ PoolProofs!CancelWaiter(c) => at[c] = "cancelled" /\ at'[c] = "idle"
         /\ PoolProofs!Built(c) => at[c] = "reserved" /\ at'[c] = "live"
         /\ PoolProofs!BuildFails(c) => at[c] = "reserved" /\ at'[c] = "idle"
         /\ PoolProofs!Release(c) => at[c] = "live" /\ at'[c] = "idle"
BY DEF PoolProofs!Reserve, PoolProofs!Enqueue, PoolProofs!Park,
       PoolProofs!GiveUp, PoolProofs!CancelWaiter, PoolProofs!Built, PoolProofs!BuildFails,
       PoolProofs!Release, PoolProofs!ReleaseLocked

\* Every exit of the loop and of a delegation gives back what it took; the
\* loop's agent never has to wait, since there is room for it.
LEMMA SlotsStep == Types /\ InTurn /\ PoolPart /\ Slots /\ [Next]_vars => Slots'
<1> SUFFICES ASSUME Types, InTurn, PoolPart, Slots, [Next]_vars PROVE Slots'
  OBVIOUS
<1> USE AgentsAre, SamePool
<1>0. at \in [Agents -> PoolProofs!Places]
  BY DEF PoolPart, PoolProofs!PoolInv
<1>1. CASE LoopAcquires
  <2>1. PoolProofs!UnderCaps(Orch) \/ at[Orch] \notin {"idle", "woken"}
    <3>1. at[Orch] \in {"idle", "woken"} => Orch \notin PoolProofs!Holders
      BY DEF PoolProofs!Holders
    <3> QED BY <3>1, PoolFits, PoolProofs!RoomSuffices DEF PoolPart
  <2>2. PoolProofs!Step(Orch)
    BY <1>1 DEF LoopAcquires, PoolProofs!Step
  <2>3. /\ loop = "acquire"
        /\ \/ PoolProofs!Reserve(Orch) /\ loop' = loop
           \/ PoolProofs!Built(Orch) /\ loop' = loop
           \/ PoolProofs!BuildFails(Orch)
    BY <1>0, <1>1, <2>1, TakerGoes DEF LoopAcquires, Slots
  <2>4. at'[Orch] \in {"idle", "reserved", "live"} /\ loop' \in {"acquire", "over"}
        /\ (loop' = "over" => at'[Orch] = "idle")
    BY <1>0, <1>1, <2>3, TakerGoes DEF LoopAcquires, Over
  <2>5. \A d \in Delegations :
           at'[d] = at[d] \/ (at[d] = "asleep" /\ at'[d] = "woken")
    BY <1>0, <2>2, OthersStay
  <2>6. stage' = stage
    BY <1>1 DEF LoopAcquires
  <2> QED BY <2>4, <2>5, <2>6 DEF Slots
<1>2. CASE TurnEnds
  <2>1. PoolProofs!Release(Orch) /\ loop = "turn" /\ loop' \in {"decide", "over"} /\ stage' = stage
    BY <1>2 DEF TurnEnds, Over
  <2>2. at'[Orch] = "idle"
    BY <1>0, <2>1, TakerGoes
  <2>3. \A d \in Delegations :
           at'[d] = at[d] \/ (at[d] = "asleep" /\ at'[d] = "woken")
    BY <1>0, <2>1, OthersStay DEF PoolProofs!Step
  <2> QED BY <2>1, <2>2, <2>3 DEF Slots
<1>3. CASE \/ TurnBegins \/ TopCancelled \/ DrainOrchSteer \/ RunTurn \/ FinalAnswer
           \/ WaitForUserAnswer \/ Resumes \/ WaitForDelegations \/ Synthesises
  BY <1>3 DEF Slots, poolVars, TurnBegins, TopCancelled, DrainOrchSteer, RunTurn, FinalAnswer,
              WaitForUserAnswer, Resumes, WaitForDelegations, Synthesises, Over
<1>4. CASE AskUser \/ UserStep \/ Finished \/ UNCHANGED vars
  BY <1>4 DEF Slots, poolVars, AskUser, UserStep, SteerOrchestrator, SteerHandle, ResumeLoop,
              SteerAll, Cancel, Finished, vars
<1>5. ASSUME NEW d \in Delegations, CallDelegate(d) \/ DelegationStep(d) PROVE Slots'
  <2>1. loop' = loop
    BY <1>5 DEF CallDelegate, DelegationStep, DelegateAcquires, Launch, LaunchRefused,
                Relabel, UntrackPending, GiveBack
  <2>2. CASE CallDelegate(d) \/ Launch(d) \/ Relabel(d) \/ UntrackPending(d)
    BY <2>1, <2>2 DEF Slots, Types, poolVars, CallDelegate, Launch, Relabel, UntrackPending
  <2>3. CASE DelegateAcquires(d) \/ LaunchRefused(d) \/ GiveBack(d)
    <3>1. PoolProofs!Step(d)
      BY <2>3 DEF DelegateAcquires, LaunchRefused, GiveBack, PoolProofs!Step
    <3>2. \A x \in Agents \ {d} :
             at'[x] = at[x] \/ (at[x] = "asleep" /\ at'[x] = "woken")
      BY <1>0, <3>1, OthersStay
    <3>3. \/ stage' = stage /\ stage[d] = "delegating"
          \/ stage' = [stage EXCEPT ![d] = "done"] /\ at'[d] = "idle"
      <4>1. CASE DelegateAcquires(d)
        <5>1. /\ stage[d] = "delegating"
              /\ \/ stage' = stage
                 \/ /\ PoolProofs!BuildFails(d) \/ PoolProofs!CancelWaiter(d)
                    /\ stage' = [stage EXCEPT ![d] = "done"]
          BY <4>1 DEF DelegateAcquires
        <5> QED BY <1>0, <5>1, TakerGoes
      <4>2. CASE LaunchRefused(d) \/ GiveBack(d)
        BY <1>0, <4>2, TakerGoes DEF LaunchRefused, GiveBack
      <4> QED BY <2>3, <4>1, <4>2
    <3>4. at'[Orch] = at[Orch]
      BY <3>2 DEF Slots
    <3>5. \A x \in Delegations :
             /\ stage'[x] \in {"unused", "done"} => at'[x] = "idle"
             /\ stage'[x] \in {"running", "untracked"} => at'[x] = "live"
      BY <3>2, <3>3 DEF Slots, Types
    <3> QED BY <2>1, <3>4, <3>5 DEF Slots
  <2> QED BY <1>5, <2>2, <2>3 DEF DelegationStep
<1> QED BY <1>1, <1>2, <1>3, <1>4, <1>5 DEF Next, LoopStep

\* Launch adds to the pending set, untrackPending removes from it; the channel
\* is made with the first and dropped with the last.
LEMMA TrackedStep ==
  Types /\ Channels /\ Tracked /\ [Next]_vars => Tracked'
<1> SUFFICES ASSUME Types, Channels, Tracked, [Next]_vars PROVE Tracked'
  OBVIOUS
<1> USE DEF Types, Tracked
<1>1. CASE LoopStep
  BY <1>1 DEF LoopStep, TurnBegins, TopCancelled, LoopAcquires, DrainOrchSteer, RunTurn, TurnEnds,
    FinalAnswer, WaitForUserAnswer, Resumes, WaitForDelegations, Synthesises, chanVars
<1>2. CASE AskUser \/ UserStep \/ Finished \/ UNCHANGED vars
  BY <1>2 DEF AskUser, UserStep, SteerOrchestrator, SteerHandle, ResumeLoop, SteerAll,
              Cancel, Finished, vars, chanVars
<1>3. ASSUME NEW d \in Delegations,
             \/ CallDelegate(d) \/ DelegateAcquires(d) \/ LaunchRefused(d) \/ GiveBack(d)
             \/ Relabel(d)
      PROVE  Tracked'
  <2>1. pending' = pending /\ pendingDone' = pendingDone
    BY <1>3 DEF CallDelegate, DelegateAcquires, LaunchRefused, GiveBack, Relabel, chanVars
  <2>2. \A x \in Delegations : stage'[x] = "running" <=> stage[x] = "running"
    BY <1>3 DEF CallDelegate, DelegateAcquires, LaunchRefused, GiveBack, Relabel
  <2> QED BY <2>1, <2>2
<1>4. ASSUME NEW d \in Delegations, Launch(d) PROVE Tracked'
  <2>1. pendingDone' # Nil
    BY <1>4, NewChanIsFresh DEF Launch, TrackPending, Channel, Channels
  <2>2. /\ pending' = pending \cup {d}
        /\ stage' = [stage EXCEPT ![d] = "running"]
    BY <1>4 DEF Launch, TrackPending
  <2> QED BY <2>1, <2>2
<1>5. ASSUME NEW d \in Delegations, UntrackPending(d) PROVE Tracked'
  <2>1. /\ pending' = pending \ {d}
        /\ stage' = [stage EXCEPT ![d] = "untracked"]
        /\ IF pending' = {} /\ pendingDone # Nil THEN pendingDone' = Nil
                                                 ELSE pendingDone' = pendingDone
        /\ stage[d] = "running"
    BY <1>5 DEF UntrackPending
  <2>2. pending' = {x \in Delegations : stage'[x] = "running"}
    BY <2>1
  <2>3. pendingDone # Nil
    BY <2>1
  <2> QED BY <2>1, <2>2, <2>3
<1> QED BY <1>1, <1>2, <1>3, <1>4, <1>5 DEF Next, DelegationStep

\* A specialist is launched in a turn, when the loop holds no channel; a
\* channel for the user is made in a turn or after it.
LEMMA ChannelsStep ==
  Flags /\ Types /\ InTurn /\ Channels /\ [Next]_vars => Channels'
<1> SUFFICES ASSUME Flags, Types, InTurn, Channels, [Next]_vars PROVE Channels'
  OBVIOUS
<1> USE DEF Channels
<1>1. CASE \/ TurnBegins \/ TopCancelled \/ LoopAcquires \/ DrainOrchSteer \/ RunTurn
           \/ TurnEnds \/ FinalAnswer
  BY <1>1 DEF TurnBegins, TopCancelled, LoopAcquires, DrainOrchSteer, RunTurn, TurnEnds,
              FinalAnswer, Over, chanVars
<1>2. CASE WaitForUserAnswer
  <2>1. held = Nil /\ ~signalled
    BY <1>2 DEF WaitForUserAnswer
  <2>2. resumeCh' \in Chans /\ resumeCh' # pendingDone /\ resumeCh' # Nil
    BY <1>2, <2>1, NewChanIsFresh DEF WaitForUserAnswer, Channel
  <2>3. /\ UNCHANGED <<pendingDone, signalled>>
        /\ \/ loop' = "top" /\ held' = held
           \/ loop' = "paused" /\ held' = resumeCh'
    BY <1>2 DEF WaitForUserAnswer
  <2> QED BY <2>1, <2>2, <2>3
<1>3. CASE Resumes \/ Synthesises
  BY <1>3 DEF Resumes, Synthesises, WaitsOver, Over
<1>4. CASE WaitForDelegations
  BY <1>4 DEF WaitForDelegations
<1>5. CASE AskUser
  <2>1. loop = "turn" /\ UNCHANGED <<loop, pendingDone, held, signalled>>
    BY <1>5 DEF AskUser, MayCallTools
  <2>2. resumeCh' \in Chans /\ resumeCh' # pendingDone
    BY <1>5, <2>1, NewChanIsFresh DEF AskUser, Channel
  <2> QED BY <2>1, <2>2
<1>6. CASE UserStep
  <2>1. CASE ResumeLoop
    <3>1. CASE UNCHANGED <<signalled, resumeCh>>
      BY <2>1, <3>1 DEF ResumeLoop
    <3>2. CASE resumeCh # Nil /\ Close(resumeCh) /\ resumeCh' = Nil
      <4>1. held = Nil => signalled' = signalled
        BY <3>2 DEF Close, Flags
      <4> QED BY <2>1, <3>2, <4>1 DEF ResumeLoop
    <3> QED BY <2>1, <3>1, <3>2 DEF ResumeLoop
  <2>2. CASE ~ResumeLoop
    BY <1>6, <2>2 DEF UserStep, SteerOrchestrator, SteerHandle, SteerAll, Cancel, chanVars
  <2> QED BY <2>1, <2>2
<1>7. ASSUME NEW d \in Delegations, Launch(d) PROVE Channels'
  <2>1. loop = "turn" /\ UNCHANGED <<loop, resumeCh, held, signalled>>
    BY <1>7 DEF Launch, InTurn, InTool
  <2>2. pendingDone' \in Chans /\ (resumeCh # Nil => resumeCh # pendingDone')
    BY <1>7, <2>1, NewChanIsFresh DEF Launch, TrackPending, Channel
  <2> QED BY <2>1, <2>2
<1>8. ASSUME NEW d \in Delegations, UntrackPending(d) PROVE Channels'
  <2>1. UNCHANGED <<loop, resumeCh, held>>
    BY <1>8 DEF UntrackPending
  <2>2. CASE UNCHANGED <<signalled, pendingDone>>
    BY <2>1, <2>2
  <2>3. CASE pendingDone # Nil /\ Close(pendingDone) /\ pendingDone' = Nil
    <3>1. held = Nil => signalled' = signalled
      BY <2>3 DEF Close, Flags
    <3> QED BY <2>1, <2>3, <3>1
  <2> QED BY <1>8, <2>2, <2>3 DEF UntrackPending
<1>9. ASSUME NEW d \in Delegations,
             \/ CallDelegate(d) \/ DelegateAcquires(d) \/ LaunchRefused(d) \/ GiveBack(d)
             \/ Relabel(d)
      PROVE  Channels'
  BY <1>9 DEF CallDelegate, DelegateAcquires, LaunchRefused, GiveBack, Relabel, chanVars
<1>10. CASE Finished \/ UNCHANGED vars
  BY <1>10 DEF Finished, vars, chanVars
<1> QED BY <1>1, <1>2, <1>3, <1>4, <1>5, <1>6, <1>7, <1>8, <1>9, <1>10
        DEF Next, LoopStep, DelegationStep

\* The channel of a wait is closed by what the wait is for, and by nothing else.
LEMMA WakesStep ==
  /\ Flags /\ Types /\ InTurn /\ Tracked /\ Channels /\ Wakes /\ [Next]_vars
  => Wakes'
<1> SUFFICES ASSUME Flags, Types, InTurn, Tracked, Channels, Wakes, [Next]_vars PROVE Wakes'
  OBVIOUS
<1> USE DEF Wakes, PausedIsResumable, AwaitedWillSignal
<1>1. CASE \/ TurnBegins \/ TopCancelled \/ LoopAcquires \/ DrainOrchSteer \/ RunTurn
           \/ TurnEnds \/ FinalAnswer \/ Resumes \/ Synthesises
  <2>1. loop' \notin {"paused", "awaiting"}
    BY <1>1 DEF TurnBegins, TopCancelled, LoopAcquires, DrainOrchSteer, RunTurn, TurnEnds,
                FinalAnswer, Resumes, Synthesises, Over
  <2> QED BY <2>1
<1>2. CASE WaitForUserAnswer
  BY <1>2 DEF WaitForUserAnswer
<1>3. CASE WaitForDelegations
  BY <1>3 DEF WaitForDelegations, Channels, Tracked
<1>4. CASE ResumeLoop
  <2>1. UNCHANGED <<loop, held, pendingDone, pending>>
    BY <1>4 DEF ResumeLoop
  <2>2. CASE UNCHANGED <<pendingUser, signalled, resumeCh>>
    BY <2>1, <2>2
  <2>3. CASE resumeCh # Nil /\ Close(resumeCh)
    <3>1. loop = "paused" => signalled'
      BY <2>3 DEF Close
    <3>2. loop = "awaiting" => (signalled' <=> signalled)
      BY <2>3 DEF Close, Channels
    <3> QED BY <2>1, <3>1, <3>2
  <2> QED BY <1>4, <2>2, <2>3 DEF ResumeLoop
<1>5. CASE (UserStep /\ ~ResumeLoop) \/ Finished \/ UNCHANGED vars
  BY <1>5 DEF UserStep, SteerOrchestrator, SteerHandle, SteerAll, Cancel, Finished, vars, chanVars
<1>6. ASSUME loop = "turn", loop' = loop PROVE Wakes'
  BY <1>6
<1>7. ASSUME NEW d \in Delegations, UntrackPending(d) PROVE Wakes'
  <2>1. /\ UNCHANGED <<loop, held, resumeCh, pendingUser>> /\ pending' \subseteq pending
        /\ d \in pending
    BY <1>7 DEF UntrackPending, Tracked
  <2>2. CASE pending' = {} /\ pendingDone # Nil
    <3>1. Close(pendingDone)
      BY <1>7, <2>2 DEF UntrackPending
    <3>2. loop = "awaiting" => signalled'
      BY <2>1, <3>1 DEF Close
    <3>3. loop = "paused" => (signalled' <=> signalled)
      BY <3>1 DEF Close, Channels
    <3> QED BY <2>1, <2>2, <3>2, <3>3
  <2>3. CASE pending' # {}
    <3>1. UNCHANGED <<signalled, pendingDone>>
      BY <1>7, <2>3 DEF UntrackPending
    <3> QED BY <2>1, <2>3, <3>1
  <2> QED BY <2>1, <2>2, <2>3 DEF Tracked
<1>8. ASSUME NEW d \in Delegations,
             \/ CallDelegate(d) \/ DelegateAcquires(d) \/ LaunchRefused(d) \/ GiveBack(d)
             \/ Relabel(d)
      PROVE  Wakes'
  BY <1>8 DEF CallDelegate, DelegateAcquires, LaunchRefused, GiveBack, Relabel, chanVars
<1>9. AskUser \/ (\E d \in Delegations : Launch(d)) => loop = "turn" /\ loop' = loop
  BY DEF AskUser, MayCallTools, Launch, InTurn, InTool
<1> QED BY <1>1, <1>2, <1>3, <1>4, <1>5, <1>6, <1>7, <1>8, <1>9 DEF Next, LoopStep, DelegationStep

\* An answer to a pause is in the buffer until the loop hands it to the next
\* agent, and then in its queue until the prompt is made.
LEMMA ArrivesStep == Arrives /\ [Next]_vars => Arrives'
<1> SUFFICES ASSUME Arrives, [Next]_vars PROVE Arrives'
  OBVIOUS
<1> USE DEF Arrives, textVars
<1>1. CASE \/ TurnBegins \/ TopCancelled \/ LoopAcquires \/ DrainOrchSteer \/ RunTurn
           \/ TurnEnds \/ FinalAnswer
  BY <1>1 DEF TurnBegins, TopCancelled, LoopAcquires, DrainOrchSteer, RunTurn, TurnEnds,
              FinalAnswer, Over
<1>2. CASE WaitForUserAnswer \/ Resumes \/ WaitForDelegations \/ Synthesises
  BY <1>2 DEF WaitForUserAnswer, Resumes, WaitForDelegations, Synthesises, Over
<1>3. CASE AskUser \/ Finished \/ UNCHANGED vars
  BY <1>3 DEF AskUser, Finished, vars
<1>4. CASE UserStep
  BY <1>4 DEF UserStep, SteerOrchestrator, SteerHandle, ResumeLoop, SteerAll, Cancel
<1>5. ASSUME NEW d \in Delegations, CallDelegate(d) \/ DelegationStep(d) PROVE Arrives'
  BY <1>5 DEF CallDelegate, DelegationStep, DelegateAcquires, Launch, LaunchRefused, Relabel,
              UntrackPending, GiveBack
<1> QED BY <1>1, <1>2, <1>3, <1>4, <1>5 DEF Next, LoopStep

-----------------------------------------------------------------------------
(***************************************************************************)
(* The theorems.                                                           *)
(***************************************************************************)
LEMMA RunBegins == Init => IInv
<1> SUFFICES ASSUME Init PROVE IInv
  OBVIOUS
<1>1. PoolProofs!Init
  BY SamePool DEF Init
<1>2. PoolPart
  <2>1. PoolProofs!PoolInv /\ PoolProofs!QueueInv
    BY <1>1, PoolFits, PoolProofs!PoolInvInit, PoolProofs!QueueInvInit
  <2>2. PoolProofs!RoomFor(Orch)
    BY <1>1, PoolFits, AgentsAre, PoolProofs!RoomAtFirst
  <2> QED BY <2>1, <2>2 DEF PoolPart
<1>3. at = [c \in Agents |-> "idle"]
  BY <1>1 DEF PoolProofs!Init, PoolProofs!PoolInit
<1>4. Flags
  BY DEF Init, Flags
<1>5. Types
  BY DEF Init, Types, NoCall, None, AskedUser
<1>6. InTool = {}
  BY DEF Init, InTool
<1>7. LastTurn /\ InTurn
  BY <1>6, HubOK DEF Init, LastTurn, InTurn
<1>8. Slots
  BY <1>3, AgentsAre DEF Init, Slots
<1>9. Tracked /\ Channels
  BY DEF Init, Tracked, Channels
<1>10. Wakes /\ Arrives
  BY DEF Init, Wakes, PausedIsResumable, AwaitedWillSignal, Arrives
<1> QED BY <1>2, <1>4, <1>5, <1>7, <1>8, <1>9, <1>10 DEF IInv

LEMMA RunGoesOn == IInv /\ [Next]_vars => IInv'
BY FlagsStep, TypesStep, InTurnStep, LastTurnStep, PoolPartStep, SlotsStep, TrackedStep,
   ChannelsStep, WakesStep, ArrivesStep DEF IInv

\* The inductive invariant holds in every state of a run.
THEOREM InvHolds == Spec => []IInv
BY RunBegins, RunGoesOn, PTL DEF Spec

\* Every variable of the run has its type.
THEOREM TypeCorrect == Spec => []TypeOK
<1>1. IInv => TypeOK
  <2> SUFFICES ASSUME IInv PROVE TypeOK
    OBVIOUS
  <2>1. Pool!TypeOK
    BY DEF IInv, PoolPart, PoolProofs!PoolInv, PoolProofs!QueueInv, Pool!TypeOK,
           PoolProofs!Places, Pool!Places, Agents
  <2>2. {pendingUser, cancelled, signalled} \subseteq BOOLEAN
    BY DEF IInv, Flags
  <2>3. UNION {orchSteer, brief, heard, said, owed} \subseteq Answers
    BY DEF IInv, Types
  <2> QED BY <2>1, <2>2, <2>3 DEF IInv, Types, Channels, LastTurn, TypeOK
<1> QED BY <1>1, InvHolds, PTL

\* Every agent that the loop or a delegation acquired is given back, once: the
\* counters of the pool are exact and whoever has ended its turn, or never got
\* to one, has no slot.
THEOREM AgentsAreReturnedHolds == Spec => []AgentsAreReturned
<1>1. IInv => AgentsAreReturned
  BY SamePool DEF IInv, PoolPart, PoolProofs!PoolInv, Slots, AgentsAreReturned
<1> QED BY <1>1, InvHolds, PTL

\* The loop never queues for its own agent, whatever the caps are.
THEOREM LoopFindsASlotHolds == Spec => []LoopFindsASlot
<1>1. IInv => LoopFindsASlot
  BY DEF IInv, Slots, LoopFindsASlot
<1> QED BY <1>1, InvHolds, PTL

\* A paused loop that has not been woken is resumed by the next answer.
THEOREM PausedIsResumableHolds == Spec => []PausedIsResumable
<1>1. IInv => PausedIsResumable
  BY DEF IInv, Wakes
<1> QED BY <1>1, InvHolds, PTL

\* A loop that waits for its specialists is woken by the last of them.
THEOREM AwaitedWillSignalHolds == Spec => []AwaitedWillSignal
<1>1. IInv => AwaitedWillSignal
  BY DEF IInv, Wakes
<1> QED BY <1>1, InvHolds, PTL

\* An answer to a pause is never lost on its way to the prompt.
THEOREM PausedAnswerArrivesHolds == Spec => []PausedAnswerArrives
<1>1. IInv => PausedAnswerArrives
  BY DEF IInv, Types, Arrives, PausedAnswerArrives
<1> QED BY <1>1, InvHolds, PTL

\* The turn after a wait for the specialists starts when none is pending.
THEOREM SynthesisSeesAllHolds == Spec => SynthesisSeesAll
<1>1. IInv /\ [Next]_vars => [loop = "awaiting" /\ loop' = "top" => pending = {}]_vars
  <2> SUFFICES ASSUME IInv, [Next]_vars, loop = "awaiting", loop' = "top" PROVE pending = {}
    OBVIOUS
  <2>1. CASE LoopStep
    <3>1. Synthesises
      BY <2>1 DEF LoopStep, TurnBegins, TopCancelled, LoopAcquires, DrainOrchSteer, RunTurn,
                  TurnEnds, FinalAnswer, WaitForUserAnswer, Resumes, WaitForDelegations
    <3> QED BY <3>1 DEF Synthesises, IInv, Wakes
  <2>2. CASE AskUser \/ UserStep \/ Finished \/ UNCHANGED vars
    BY <2>2 DEF AskUser, UserStep, SteerOrchestrator, SteerHandle, ResumeLoop, SteerAll,
                Cancel, Finished, vars
  <2>3. ASSUME NEW d \in Delegations, CallDelegate(d) \/ DelegationStep(d) PROVE FALSE
    BY <2>3 DEF CallDelegate, DelegationStep, DelegateAcquires, Launch, LaunchRefused,
                Relabel, UntrackPending, GiveBack
  <2> QED BY <2>1, <2>2, <2>3 DEF Next
<1> QED BY <1>1, InvHolds, PTL DEF Spec, SynthesisSeesAll

\* A run is a run of AgentPool: the loop and the delegations use the pool by
\* its operations only, so what is proved of AgentPool holds of its pool.
THEOREM RunsOnThePool == Spec => PoolProofs!Spec
<1>1. Init => PoolProofs!Init
  BY SamePool DEF Init
<1>2. IInv /\ [Next]_vars => [PoolProofs!Next]_(PoolProofs!poolVars)
  BY PoolStep DEF IInv, PoolProofs!Next, PoolProofs!poolVars, poolVars
<1> QED BY <1>1, <1>2, InvHolds, PTL DEF Spec, PoolProofs!Spec

\* Whatever the loop, its delegations and the user do, a run keeps the promise
\* of SlotPool: the caps are never exceeded.
THEOREM RunKeepsTheCaps == Spec => PoolProofs!KeepsTheCaps
BY RunsOnThePool, PoolFits, PoolProofs!KeepsTheCapsHolds, PTL
=============================================================================
