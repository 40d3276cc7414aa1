-------------------------- MODULE AgentTurnsProofs --------------------------
(***************************************************************************)
(* Theorems about AgentTurns, for every set of messages and goroutines and *)
(* every bound.  Each part of the inductive invariant has a lemma that     *)
(* says which other parts a step needs to preserve it.  The actions are    *)
(* taken in the groups of Next; an action that takes from or adds to the   *)
(* agent's queue has a step of its own where the queue matters.            *)
(***************************************************************************)
EXTENDS AgentTurns, TLAPS

\* A process is the interface or a goroutine, never both.
LEMMA UiApart == \A p \in Turns \cup Drivers : p \in Procs /\ p # Ui
BY ProcsOK DEF Procs

\* Every text but the driver's prompt is made of messages.
LEMMA TextsAre ==
  /\ {} \in Texts /\ {Continue} \in Texts
  /\ \A S : S \subseteq Inputs => S \in Texts
  /\ \A t \in Texts : t \cap Inputs \subseteq Inputs
BY DEF Texts

\* Every place and role that a step names.
LEMMA PlacesAre ==
  /\ "idle" \in Places /\ "send" \in Places /\ "check" \in Places
  /\ "append" \in Places /\ "start" \in Places /\ "enter" \in Places
  /\ "turn" \in Places /\ "stash" \in Places /\ "next" \in Places
  /\ "finish" \in Places /\ "leftover" \in Places /\ "cleanup" \in Places
  /\ "hook" \in Places /\ "drive" \in Places /\ "loop" \in Places
  /\ "runner" \in Places /\ "dispatch" \in Places /\ "flush" \in Places /\ "judge" \in Places
  /\ "undrive" \in Places /\ "restore" \in Places /\ "stop" \in Places
  /\ "turn" \in Roles /\ "panicked" \in Roles /\ "drive" \in Roles
  /\ \A p : Return(p) \in Places /\ AfterRun(p) \in Places
BY DEF Places, Roles, Return, AfterRun

\* Whether a context is done is a truth value.
LEMMA CtxDoneType ==
  ASSUME stopped \in BOOLEAN, NEW p \in Procs
  PROVE  CtxDone(p) \in BOOLEAN
<1>1. CASE role[p] = "drive"
  BY <1>1 DEF CtxDone
<1>2. CASE role[p] # "drive"
  <2>1. CtxDone(p) = (p \in cancelled)
    BY <1>2 DEF CtxDone
  <2>2. (p \in cancelled) \in BOOLEAN
    OBVIOUS
  <2> QED BY <2>1, <2>2
<1> QED BY <1>1, <1>2

\* What is left of a queue when its head is taken.
LEMMA TailOfQueue ==
  ASSUME NEW s \in Seq(Texts), s # <<>>
  PROVE  /\ Head(s) = s[1] /\ 1 \in DOMAIN s /\ Head(s) \in Texts
         /\ Tail(s) \in Seq(Texts)
         /\ \A k \in DOMAIN Tail(s) :
               k + 1 \in DOMAIN s /\ k + 1 # 1 /\ Tail(s)[k] = s[k + 1]
<1>1. Len(s) \in Nat /\ Len(s) # 0 /\ DOMAIN s = 1..Len(s)
  OBVIOUS
<1>2. Tail(s) \in Seq(Texts) /\ Len(Tail(s)) = Len(s) - 1
  BY <1>1
<1>3. \A k \in 1..Len(s) - 1 : Tail(s)[k] = s[k + 1]
  BY <1>1
<1>4. DOMAIN Tail(s) = 1..Len(s) - 1
  BY <1>2
<1>5. Head(s) = s[1] /\ s[1] \in Texts
  BY <1>1
<1> QED BY <1>1, <1>2, <1>3, <1>4, <1>5

\* What a queue holds when a text joins it.
LEMMA JoinQueue ==
  ASSUME NEW s \in Seq(Texts), NEW t \in Texts
  PROVE  /\ Append(s, t) \in Seq(Texts)
         /\ \A k \in DOMAIN Append(s, t) :
               \/ k \in DOMAIN s /\ Append(s, t)[k] = s[k]
               \/ k = Len(s) + 1 /\ k \notin DOMAIN s /\ Append(s, t)[k] = t
<1>1. Len(s) \in Nat /\ DOMAIN s = 1..Len(s)
  OBVIOUS
<1>2. Append(s, t) \in Seq(Texts) /\ DOMAIN Append(s, t) = 1..Len(s) + 1
  BY <1>1
<1>3. /\ \A k \in 1..Len(s) : Append(s, t)[k] = s[k]
      /\ Append(s, t)[Len(s) + 1] = t
  BY <1>1
<1> QED BY <1>1, <1>2, <1>3

-----------------------------------------------------------------------------
(* One lemma for each part of the inductive invariant *)

\* A step keeps the types; Shape says which texts are made of messages only and
\* that a cleanup is that of a turn.
LEMMA TypeStep == TypeOK /\ Shape /\ [Next]_vars => TypeOK'
<1> SUFFICES ASSUME TypeOK, Shape, [Next]_vars
             PROVE  TypeOK'
  OBVIOUS
<1>0. /\ Ui \in Procs
      /\ \A p \in Procs : pc[p] \in {"append", "stash", "flush"} => text[p] \subseteq Inputs
  BY DEF Procs, Shape
<1> USE <1>0, UiApart, TextsAre, PlacesAre
    DEF Goto, Carry, manager, agent, drive, user, TypeOK
<1>1. ASSUME NEW p \in Procs, Send(p)
      PROVE  TypeOK'
  <2>1. CASE SendRead(p) \/ SendCheck(p)
    BY <2>1 DEF SendRead, SendCheck
  <2>2. CASE SendAppend(p)
    BY <2>2 DEF SendAppend
  <2>3. ASSUME pc[p] = "start", NEW t \in Turns, pc[t] = "idle", SendStart(p)
        PROVE  TypeOK'
    BY <2>3 DEF SendStart
  <2> QED BY <1>1, <2>1, <2>2, <2>3 DEF Send, SendStart
<1>2. ASSUME NEW p \in Turns \cup Drivers, Run(p)
      PROVE  TypeOK'
  <2>1. CASE RunEnter(p)
    <3>1. text[p] \in Texts /\ Append(queue, text[p]) \in Seq(Texts)
      BY JoinQueue
    <3>2. CtxDone(p) \in BOOLEAN
      BY CtxDoneType
    <3>3. delivered \cup (text[p] \cap Inputs) \subseteq Inputs
      OBVIOUS
    <3>4. AfterRun(p) \in Places
      BY DEF AfterRun
    <3>5. CASE processing
      <4>1. queue' \in Seq(Texts) /\ processing' \in BOOLEAN /\ delivered' \subseteq Inputs
        BY <2>1, <3>1, <3>5 DEF RunEnter
      <4>2. failed' \in [Procs -> BOOLEAN] /\ pc' \in [Procs -> Places]
        BY <2>1, <3>4, <3>5 DEF RunEnter
      <4>3. text' \in [Procs -> Texts]
        BY <2>1 DEF RunEnter
      <4> QED BY <2>1, <4>1, <4>2, <4>3 DEF RunEnter
    <3>6. CASE ~processing
      BY <2>1, <3>2, <3>3, <3>6 DEF RunEnter, Deliver
    <3> QED BY <3>5, <3>6
  <2>2. CASE NextQueued(p)
    <3>1. queue # <<>> => Tail(queue) \in Seq(Texts) /\ Head(queue) \in Texts
      BY TailOfQueue
    <3>2. CtxDone(p) \in BOOLEAN
      BY CtxDoneType
    <3> QED BY <2>2, <3>1, <3>2 DEF NextQueued, Deliver
  <2>3. CASE TurnEnds(p) \/ TurnFails(p)
    BY <2>3 DEF TurnEnds, TurnFails
  <2>4. CASE FinalizeTurn(p)
    BY <2>4 DEF FinalizeTurn
  <2>5. CASE FinishProcessing(p)
    BY <2>5 DEF FinishProcessing
  <2> QED BY <1>2, <2>1, <2>2, <2>3, <2>4, <2>5 DEF Run
<1>3. ASSUME NEW p \in Turns \cup Drivers, AfterTurn(p)
      PROVE  TypeOK'
  <2>1. CASE FlushLeftover(p)
    BY <2>1 DEF FlushLeftover
  <2>2. CASE Cleanup(p)
    <3>1. text' \in [Procs -> Texts] /\ pending' \subseteq Inputs
      BY <2>2 DEF Cleanup
    <3>2. pc' \in [Procs -> Places]
      BY <2>2 DEF Cleanup
    <3>3. cancelled' \subseteq Turns
      <4>1. p \in Turns
        BY <2>2 DEF Cleanup, Shape
      <4> QED BY <2>2, <4>1 DEF Cleanup
    <3> QED BY <2>2, <3>1, <3>2, <3>3 DEF Cleanup
  <2>3. CASE PostTurnHook(p)
    BY <2>3 DEF PostTurnHook
  <2> QED BY <1>3, <2>1, <2>2, <2>3 DEF AfterTurn
<1>4. ASSUME NEW p \in Turns \cup Drivers, Drive(p)
      PROVE  TypeOK'
  <2>1. CASE DispatchPendingSteering(p)
    BY <2>1 DEF DispatchPendingSteering
  <2>7. CASE FlushLive(p)
    <3>1. text[p] \cup steering \subseteq Inputs
      BY <2>7 DEF FlushLive, Procs
    <3> QED BY <2>7, <3>1 DEF FlushLive
  <2>2. CASE RunnerGuard(p)
    BY <2>2 DEF RunnerGuard
  <2>3. CASE DriveEnter(p)
    BY <2>3 DEF DriveEnter
  <2>4. CASE DriveLoop(p) \/ DriveGivesUp(p)
    BY <2>4 DEF DriveLoop, DriveGivesUp
  <2>5. CASE StallBlocks(p) \/ DriveExit(p)
    BY <2>5 DEF StallBlocks, DriveExit
  <2>6. CASE DriveJudge(p)
    BY <2>6 DEF DriveJudge
  <2> QED BY <1>4, <2>1, <2>2, <2>3, <2>4, <2>5, <2>6, <2>7 DEF Drive
<1>5. ASSUME NEW p \in Turns \cup Drivers, DrainSteering(p) \/ GoalTool(p) \/ Panic(p)
      PROVE  TypeOK'
  BY <1>5 DEF DrainSteering, GoalTool, Panic
<1>6. ASSUME NEW i \in Inputs, Submit(i)
      PROVE  TypeOK'
  BY <1>6 DEF Submit
<1>7. ASSUME NEW d \in Drivers, StartGoal(d)
      PROVE  TypeOK'
  BY <1>7 DEF StartGoal
<1>8. CASE EndGoal \/ CancelTurn \/ Escape
  BY <1>8 DEF EndGoal, CancelTurn, Escape, RestoreSteering, StopDriver
<1>9. CASE UNCHANGED vars
  BY <1>9 DEF vars
<1> QED BY <1>1, <1>2, <1>3, <1>4, <1>5, <1>6, <1>7, <1>8, <1>9 DEF Next, Goroutine, Procs

\* A step keeps each kind of process at its places.
LEMMA ShapeStep == TypeOK /\ Shape /\ [Next]_vars => Shape'
<1> SUFFICES ASSUME TypeOK, Shape, [Next]_vars
             PROVE  Shape'
  OBVIOUS
<1> USE UiApart
    DEF Goto, Carry, manager, agent, drive, user, TypeOK, Shape, Procs, Roles
<1>1. ASSUME NEW p \in Procs, Send(p)
      PROVE  Shape'
  BY <1>1, ProcsOK DEF Send, SendRead, SendCheck, SendAppend, SendStart, Return
<1>2. ASSUME NEW p \in Turns \cup Drivers, Run(p)
      PROVE  Shape'
  <2>1. CASE RunEnter(p)
    BY <2>1 DEF RunEnter, Deliver, AfterRun
  <2>2. CASE TurnEnds(p) \/ FinalizeTurn(p)
    BY <2>2 DEF TurnEnds, FinalizeTurn
  <2>3. CASE TurnFails(p) \/ FinishProcessing(p)
    BY <2>3 DEF TurnFails, FinishProcessing, AfterRun
  <2>4. CASE NextQueued(p)
    BY <2>4 DEF NextQueued, Deliver
  <2> QED BY <1>2, <2>1, <2>2, <2>3, <2>4 DEF Run
<1>3. ASSUME NEW p \in Turns \cup Drivers, AfterTurn(p)
      PROVE  Shape'
  BY <1>3 DEF AfterTurn, FlushLeftover, Cleanup, PostTurnHook, Return
<1>4. ASSUME NEW p \in Turns \cup Drivers, Drive(p)
      PROVE  Shape'
  BY <1>4 DEF Drive, DriveEnter, DriveLoop, DriveGivesUp, StallBlocks, RunnerGuard,
              DispatchPendingSteering, FlushLive, DriveJudge, DriveExit
<1>5. ASSUME NEW p \in Turns \cup Drivers, DrainSteering(p) \/ GoalTool(p) \/ Panic(p)
      PROVE  Shape'
  BY <1>5 DEF DrainSteering, GoalTool, Panic
<1>6. ASSUME NEW i \in Inputs, Submit(i)
      PROVE  Shape'
  BY <1>6 DEF Submit
<1>7. ASSUME NEW d \in Drivers, StartGoal(d)
      PROVE  Shape'
  BY <1>7 DEF StartGoal
<1>8. CASE EndGoal \/ CancelTurn \/ Escape
  BY <1>8 DEF EndGoal, CancelTurn, Escape, RestoreSteering, StopDriver
<1>9. CASE UNCHANGED vars
  BY <1>9 DEF vars
<1> QED BY <1>1, <1>2, <1>3, <1>4, <1>5, <1>6, <1>7, <1>8, <1>9 DEF Next, Goroutine

\* Agent.Run is entered only while nobody is inside, and who leaves it was the
\* only one inside.
LEMMA TurnStep == TypeOK /\ Shape /\ OneTurnInTheAgent /\ [Next]_vars => OneTurnInTheAgent'
<1> SUFFICES ASSUME TypeOK, Shape, OneTurnInTheAgent, [Next]_vars
             PROVE  OneTurnInTheAgent'
  OBVIOUS
<1> USE UiApart
    DEF Goto, Carry, manager, agent, drive, user, TypeOK, Shape, OneTurnInTheAgent, Inside, Procs
<1>1. ASSUME NEW p \in Procs, Send(p)
      PROVE  OneTurnInTheAgent'
  BY <1>1, ProcsOK DEF Send, SendRead, SendCheck, SendAppend, SendStart, Return
<1>2. ASSUME NEW p \in Turns \cup Drivers, Run(p)
      PROVE  OneTurnInTheAgent'
  BY <1>2 DEF Run, RunEnter, Deliver, TurnEnds, FinalizeTurn, TurnFails, NextQueued,
              FinishProcessing, AfterRun
<1>3. ASSUME NEW p \in Turns \cup Drivers, AfterTurn(p)
      PROVE  OneTurnInTheAgent'
  BY <1>3 DEF AfterTurn, FlushLeftover, Cleanup, PostTurnHook, Return
<1>4. ASSUME NEW p \in Turns \cup Drivers, Drive(p)
      PROVE  OneTurnInTheAgent'
  BY <1>4 DEF Drive, DriveEnter, DriveLoop, DriveGivesUp, StallBlocks, RunnerGuard,
              DispatchPendingSteering, FlushLive, DriveJudge, DriveExit
<1>5. ASSUME NEW p \in Turns \cup Drivers, DrainSteering(p) \/ GoalTool(p) \/ Panic(p)
      PROVE  OneTurnInTheAgent'
  BY <1>5 DEF DrainSteering, GoalTool, Panic
<1>6. ASSUME NEW i \in Inputs, Submit(i)
      PROVE  OneTurnInTheAgent'
  BY <1>6 DEF Submit
<1>7. ASSUME NEW d \in Drivers, StartGoal(d)
      PROVE  OneTurnInTheAgent'
  BY <1>7 DEF StartGoal
<1>8. CASE EndGoal \/ CancelTurn \/ Escape
  BY <1>8 DEF EndGoal, CancelTurn, Escape, RestoreSteering, StopDriver
<1>9. CASE UNCHANGED vars
  BY <1>9 DEF vars
<1> QED BY <1>1, <1>2, <1>3, <1>4, <1>5, <1>6, <1>7, <1>8, <1>9 DEF Next, Goroutine

\* A turn takes the cancel function when it starts; after that only its own
\* cleanup or CancelTurn, which cancels it, takes it away.
LEMMA NewestStep == TypeOK /\ Shape /\ NewestIsCancellable /\ [Next]_vars => NewestIsCancellable'
<1> SUFFICES ASSUME TypeOK, Shape, NewestIsCancellable, [Next]_vars
             PROVE  NewestIsCancellable'
  OBVIOUS
<1> USE UiApart
    DEF Goto, Carry, manager, agent, drive, user, TypeOK, Shape, Procs,
        NewestIsCancellable, BeforeCleanup
<1>1. ASSUME NEW p \in Procs, Send(p)
      PROVE  NewestIsCancellable'
  BY <1>1, ProcsOK DEF Send, SendRead, SendCheck, SendAppend, SendStart, Return
<1>2. ASSUME NEW p \in Turns \cup Drivers, Run(p)
      PROVE  NewestIsCancellable'
  BY <1>2 DEF Run, RunEnter, Deliver, TurnEnds, FinalizeTurn, TurnFails, NextQueued,
              FinishProcessing, AfterRun
<1>3. ASSUME NEW p \in Turns \cup Drivers, AfterTurn(p)
      PROVE  NewestIsCancellable'
  BY <1>3 DEF AfterTurn, FlushLeftover, Cleanup, PostTurnHook, Return
<1>4. ASSUME NEW p \in Turns \cup Drivers, Drive(p)
      PROVE  NewestIsCancellable'
  BY <1>4 DEF Drive, DriveEnter, DriveLoop, DriveGivesUp, StallBlocks, RunnerGuard,
              DispatchPendingSteering, FlushLive, DriveJudge, DriveExit
<1>5. ASSUME NEW p \in Turns \cup Drivers, DrainSteering(p) \/ GoalTool(p) \/ Panic(p)
      PROVE  NewestIsCancellable'
  BY <1>5 DEF DrainSteering, GoalTool, Panic
<1>6. ASSUME NEW i \in Inputs, Submit(i)
      PROVE  NewestIsCancellable'
  BY <1>6 DEF Submit
<1>7. ASSUME NEW d \in Drivers, StartGoal(d)
      PROVE  NewestIsCancellable'
  BY <1>7 DEF StartGoal
<1>8. CASE EndGoal \/ CancelTurn \/ Escape
  BY <1>8 DEF EndGoal, CancelTurn, Escape, RestoreSteering, StopDriver
<1>9. CASE UNCHANGED vars
  BY <1>9 DEF vars
<1> QED BY <1>1, <1>2, <1>3, <1>4, <1>5, <1>6, <1>7, <1>8, <1>9 DEF Next, Goroutine

\* Whatever turn ends, its cleanup clears running; until then the turn that set
\* it has its cleanup ahead.
LEMMA BusyStep == TypeOK /\ Shape /\ BusyHasAnOwner /\ [Next]_vars => BusyHasAnOwner'
<1> SUFFICES ASSUME TypeOK, Shape, BusyHasAnOwner, [Next]_vars
             PROVE  BusyHasAnOwner'
  OBVIOUS
<1> USE UiApart
    DEF Goto, Carry, manager, agent, drive, user, TypeOK, Shape, BusyHasAnOwner, BeforeCleanup, Procs
<1>1. ASSUME NEW p \in Procs, Send(p)
      PROVE  BusyHasAnOwner'
  BY <1>1, ProcsOK DEF Send, SendRead, SendCheck, SendAppend, SendStart, Return
<1>2. ASSUME NEW p \in Turns \cup Drivers, Run(p)
      PROVE  BusyHasAnOwner'
  BY <1>2 DEF Run, RunEnter, Deliver, TurnEnds, FinalizeTurn, TurnFails, NextQueued,
              FinishProcessing, AfterRun
<1>3. ASSUME NEW p \in Turns \cup Drivers, AfterTurn(p)
      PROVE  BusyHasAnOwner'
  BY <1>3 DEF AfterTurn, FlushLeftover, Cleanup, PostTurnHook, Return
<1>4. ASSUME NEW p \in Turns \cup Drivers, Drive(p)
      PROVE  BusyHasAnOwner'
  BY <1>4 DEF Drive, DriveEnter, DriveLoop, DriveGivesUp, StallBlocks, RunnerGuard,
              DispatchPendingSteering, FlushLive, DriveJudge, DriveExit
<1>5. ASSUME NEW p \in Turns \cup Drivers, DrainSteering(p) \/ GoalTool(p) \/ Panic(p)
      PROVE  BusyHasAnOwner'
  BY <1>5 DEF DrainSteering, GoalTool, Panic
<1>6. ASSUME NEW i \in Inputs, Submit(i)
      PROVE  BusyHasAnOwner'
  BY <1>6 DEF Submit
<1>7. ASSUME NEW d \in Drivers, StartGoal(d)
      PROVE  BusyHasAnOwner'
  BY <1>7 DEF StartGoal
<1>8. CASE EndGoal \/ CancelTurn \/ Escape
  BY <1>8 DEF EndGoal, CancelTurn, Escape, RestoreSteering, StopDriver
<1>9. CASE UNCHANGED vars
  BY <1>9 DEF vars
<1> QED BY <1>1, <1>2, <1>3, <1>4, <1>5, <1>6, <1>7, <1>8, <1>9 DEF Next, Goroutine

\* A loop is entered only while there is none, and clears the flag as it leaves.
LEMMA DriveStep == TypeOK /\ Shape /\ OneDriveLoop /\ [Next]_vars => OneDriveLoop'
<1> SUFFICES ASSUME TypeOK, Shape, OneDriveLoop, [Next]_vars
             PROVE  OneDriveLoop'
  OBVIOUS
<1> USE UiApart
    DEF Goto, Carry, manager, agent, drive, user, TypeOK, Shape, OneDriveLoop, InDrive, Procs
<1>1. ASSUME NEW p \in Procs, Send(p)
      PROVE  OneDriveLoop'
  BY <1>1, ProcsOK DEF Send, SendRead, SendCheck, SendAppend, SendStart, Return
<1>2. ASSUME NEW p \in Turns \cup Drivers, Run(p)
      PROVE  OneDriveLoop'
  BY <1>2 DEF Run, RunEnter, Deliver, TurnEnds, FinalizeTurn, TurnFails, NextQueued,
              FinishProcessing, AfterRun
<1>3. ASSUME NEW p \in Turns \cup Drivers, AfterTurn(p)
      PROVE  OneDriveLoop'
  BY <1>3 DEF AfterTurn, FlushLeftover, Cleanup, PostTurnHook, Return
<1>4. ASSUME NEW p \in Turns \cup Drivers, Drive(p)
      PROVE  OneDriveLoop'
  BY <1>4 DEF Drive, DriveEnter, DriveLoop, DriveGivesUp, StallBlocks, RunnerGuard,
              DispatchPendingSteering, FlushLive, DriveJudge, DriveExit
<1>5. ASSUME NEW p \in Turns \cup Drivers, DrainSteering(p) \/ GoalTool(p) \/ Panic(p)
      PROVE  OneDriveLoop'
  BY <1>5 DEF DrainSteering, GoalTool, Panic
<1>6. ASSUME NEW i \in Inputs, Submit(i)
      PROVE  OneDriveLoop'
  BY <1>6 DEF Submit
<1>7. ASSUME NEW d \in Drivers, StartGoal(d)
      PROVE  OneDriveLoop'
  BY <1>7 DEF StartGoal
<1>8. CASE EndGoal \/ CancelTurn \/ Escape
  BY <1>8 DEF EndGoal, CancelTurn, Escape, RestoreSteering, StopDriver
<1>9. CASE UNCHANGED vars
  BY <1>9 DEF vars
<1> QED BY <1>1, <1>2, <1>3, <1>4, <1>5, <1>6, <1>7, <1>8, <1>9 DEF Next, Goroutine

\* Every transfer of messages empties the place they come from in the same
\* critical section, so that no message gets a second place.
LEMMA ApartStep == TypeOK /\ Shape /\ Apart /\ [Next]_vars => Apart'
<1> SUFFICES ASSUME TypeOK, Shape, Apart, [Next]_vars
             PROVE  Apart'
  OBVIOUS
<1> USE UiApart
    DEF Goto, Carry, manager, agent, drive, user, TypeOK, Shape, Apart, Kept, Texts, Procs
<1>1. ASSUME NEW p \in Procs, Send(p)
      PROVE  Apart'
  BY <1>1, ProcsOK DEF Send, SendRead, SendCheck, SendAppend, SendStart, Return
<1>2. ASSUME NEW p \in Turns \cup Drivers, Run(p)
      PROVE  Apart'
  <2>1. CASE RunEnter(p) /\ processing
    <3>1. text[p] \in Texts
      OBVIOUS
    <3>2. /\ queue' = Append(queue, text[p]) /\ text' = [text EXCEPT ![p] = {}]
          /\ Kept' = Kept /\ submitted' = submitted
      BY <2>1 DEF RunEnter
    <3>3. \A k \in DOMAIN queue' :
             \/ k \in DOMAIN queue /\ queue'[k] = queue[k]
             \/ k \notin DOMAIN queue /\ k = Len(queue) + 1 /\ queue'[k] = text[p]
      BY <3>1, <3>2, JoinQueue
    <3> HIDE DEF Kept
    <3> QED BY <3>2, <3>3
  <2>2. CASE RunEnter(p) /\ ~processing
    BY <2>2 DEF RunEnter, Deliver
  <2>3. CASE NextQueued(p)
    <3>1. CASE queue = <<>>
      BY <2>3, <3>1 DEF NextQueued
    <3>2. CASE queue # <<>>
      <4>1. /\ queue' = Tail(queue) /\ delivered' = delivered \cup (queue[1] \cap Inputs)
            /\ text' = text /\ submitted' = submitted
            /\ steering' = steering /\ pending' = pending /\ restored' = restored
        BY <2>3, <3>2, TailOfQueue DEF NextQueued, Deliver
      <4>2. /\ 1 \in DOMAIN queue
            /\ \A k \in DOMAIN queue' :
                  k + 1 \in DOMAIN queue /\ k + 1 # 1 /\ queue'[k] = queue[k + 1]
        BY <3>2, <4>1, TailOfQueue
      <4>3. \A j, k \in DOMAIN queue' : j # k => j + 1 # k + 1
        BY <4>1
      <4> QED BY <4>1, <4>2, <4>3
    <3> QED BY <3>1, <3>2
  <2>4. CASE TurnEnds(p) \/ FinalizeTurn(p) \/ TurnFails(p) \/ FinishProcessing(p)
    BY <2>4 DEF TurnEnds, FinalizeTurn, TurnFails, FinishProcessing
  <2> QED BY <1>2, <2>1, <2>2, <2>3, <2>4 DEF Run
<1>3. ASSUME NEW p \in Turns \cup Drivers, AfterTurn(p)
      PROVE  Apart'
  BY <1>3 DEF AfterTurn, FlushLeftover, Cleanup, PostTurnHook, Return
<1>4. ASSUME NEW p \in Turns \cup Drivers, Drive(p)
      PROVE  Apart'
  <2>1. CASE DispatchPendingSteering(p) \/ FlushLive(p)
    BY <2>1 DEF DispatchPendingSteering, FlushLive
  <2>2. CASE RunnerGuard(p)
    <3>1. /\ \A h \in 1..4 : Kept[h] \subseteq Inputs
          /\ {Continue} \cap Inputs = {}
      BY ProcsOK
    <3>2. /\ text' = text \/ text' = [text EXCEPT ![p] = {Continue}]
          /\ queue' = queue /\ submitted' = submitted
          /\ steering' = steering /\ pending' = pending
          /\ delivered' = delivered /\ restored' = restored
      BY <2>2 DEF RunnerGuard
    <3> QED BY <3>1, <3>2
  <2>3. CASE DriveEnter(p) \/ DriveLoop(p) \/ DriveGivesUp(p) \/ StallBlocks(p)
    BY <2>3 DEF DriveEnter, DriveLoop, DriveGivesUp, StallBlocks
  <2>4. CASE DriveJudge(p) \/ DriveExit(p)
    BY <2>4 DEF DriveJudge, DriveExit
  <2> QED BY <1>4, <2>1, <2>2, <2>3, <2>4 DEF Drive
<1>5. ASSUME NEW p \in Turns \cup Drivers, DrainSteering(p) \/ GoalTool(p) \/ Panic(p)
      PROVE  Apart'
  BY <1>5 DEF DrainSteering, GoalTool, Panic
<1>6. ASSUME NEW i \in Inputs, Submit(i)
      PROVE  Apart'
  BY <1>6 DEF Submit
<1>7. ASSUME NEW d \in Drivers, StartGoal(d)
      PROVE  Apart'
  BY <1>7 DEF StartGoal
<1>8. CASE EndGoal \/ CancelTurn \/ Escape
  BY <1>8 DEF EndGoal, CancelTurn, Escape, RestoreSteering, StopDriver
<1>9. CASE UNCHANGED vars
  BY <1>9 DEF vars
<1> QED BY <1>1, <1>2, <1>3, <1>4, <1>5, <1>6, <1>7, <1>8, <1>9 DEF Next, Goroutine

-----------------------------------------------------------------------------
(* The theorems *)

\* Apart is EachInputOnce, place by place.
LEMMA ApartMeansOnce == Apart => EachInputOnce
<1> SUFFICES ASSUME Apart, NEW i \in Inputs
             PROVE  /\ \A a, b \in Holders(i) : a = b
                    /\ Holders(i) # {} => i \in submitted
  BY DEF EachInputOnce
<1>1. \A a \in Holders(i) :
         \/ \E p \in Procs : a = <<"goroutine", p>> /\ i \in text[p]
         \/ \E k \in DOMAIN queue : a = <<"queue", k>> /\ i \in queue[k]
         \/ \E h \in 1..4 : a = <<"kept", h>> /\ i \in Kept[h]
  BY DEF Holders
<1>2. \A a \in Holders(i) : i \in submitted
  BY <1>1 DEF Apart
<1>3. ASSUME NEW p \in Procs, i \in text[p], NEW b \in Holders(i)
      PROVE  b = <<"goroutine", p>>
  BY <1>1, <1>3 DEF Apart
<1>4. ASSUME NEW k \in DOMAIN queue, i \in queue[k], NEW b \in Holders(i)
      PROVE  b = <<"queue", k>>
  BY <1>1, <1>4 DEF Apart
<1>5. ASSUME NEW h \in 1..4, i \in Kept[h], NEW b \in Holders(i)
      PROVE  b = <<"kept", h>>
  BY <1>1, <1>5 DEF Apart
<1>6. \A a, b \in Holders(i) : a = b
  BY <1>1, <1>3, <1>4, <1>5
<1> QED BY <1>2, <1>6

\* At the start nobody is anywhere and there is no message.
LEMMA InitHolds == Init => IInv
<1> SUFFICES ASSUME Init PROVE IInv
  OBVIOUS
<1>1. TypeOK
  <2>1. queue \in Seq(Texts)
    BY DEF Init
  <2>2. pc \in [Procs -> Places] /\ role \in [Procs -> Roles]
    BY DEF Init, Places, Roles
  <2>3. text \in [Procs -> Texts] /\ failed \in [Procs -> BOOLEAN]
    BY TextsAre DEF Init
  <2> QED BY <2>1, <2>2, <2>3 DEF Init, TypeOK
<1>2. Shape
  BY ProcsOK DEF Init, Shape, Procs
<1>3. Apart
  BY DEF Init, Apart, Kept
<1>4. OneTurnInTheAgent /\ NewestIsCancellable /\ BusyHasAnOwner /\ OneDriveLoop
  BY ProcsOK DEF Init, OneTurnInTheAgent, Inside, NewestIsCancellable, BeforeCleanup,
                 BusyHasAnOwner, OneDriveLoop, InDrive, Procs
<1> QED BY <1>1, <1>2, <1>3, <1>4 DEF IInv

\* The inductive invariant holds in every reachable state.
THEOREM InvHolds == Spec => []IInv
<1>1. IInv /\ [Next]_vars => IInv'
  BY TypeStep, ShapeStep, TurnStep, NewestStep, BusyStep, DriveStep, ApartStep DEF IInv
<1> QED BY <1>1, InitHolds, PTL DEF Spec

\* Every variable keeps its type, whatever the messages, goroutines and bounds.
THEOREM TypeCorrect == Spec => []TypeOK
<1>1. IInv => TypeOK
  BY DEF IInv
<1> QED BY <1>1, InvHolds, PTL

\* Turns of the manager and continuation turns of the driver never write the
\* history together, however many goroutines race for the agent.
THEOREM OneTurnInTheAgentHolds == Spec => []OneTurnInTheAgent
<1>1. IInv => OneTurnInTheAgent
  BY DEF IInv
<1> QED BY <1>1, InvHolds, PTL

\* No message is in two places, and so none is delivered twice.
THEOREM EachInputOnceHolds == Spec => []EachInputOnce
<1>1. IInv => EachInputOnce
  BY ApartMeansOnce DEF IInv
<1> QED BY <1>1, InvHolds, PTL

\* The newest turn stays cancellable until its cleanup, however older turns'
\* cleanups interleave with it.
THEOREM NewestIsCancellableHolds == Spec => []NewestIsCancellable
<1>1. IInv => NewestIsCancellable
  BY DEF IInv
<1> QED BY <1>1, InvHolds, PTL

\* The manager never stays busy with no turn left to clear the flag.
THEOREM BusyHasAnOwnerHolds == Spec => []BusyHasAnOwner
<1>1. IInv => BusyHasAnOwner
  BY DEF IInv
<1> QED BY <1>1, InvHolds, PTL

\* Two drive loops never run at once, and the flag says whether one does.
THEOREM OneDriveLoopHolds == Spec => []OneDriveLoop
<1>1. IInv => OneDriveLoop
  BY DEF IInv
<1> QED BY <1>1, InvHolds, PTL

=============================================================================
