------------------------------ MODULE GoalModeProofs ---------------------------
(***************************************************************************)
(* Theorems about GoalMode, for every value of its constants: the types,   *)
(* the done-gate's memory, what the publisher was handed, and the          *)
(* agreement of the event log with memory but for what failed appends left *)
(* out of it.  From that agreement: a crash loses nothing else that an     *)
(* operation finished, a completion that was announced and logged is       *)
(* final, and the log describes legal lives of goals as far as it is       *)
(* complete.                                                               *)
(***************************************************************************)
EXTENDS GoalMode, TLAPS

-----------------------------------------------------------------------------
(* Types *)

\* A new stage is a stage, and not the absence of one.
LEMMA NewStageType ==
  ASSUME NEW g \in Goals, NEW input \in CreateInput, NEW limit \in Limits
  PROVE  NewStage(g, input, limit) \in Stage
<1>1. NoTodos \in TodoLists
  <2>1. NoTodos \in [{} -> TodoStatuses]
    BY DEF NoTodos
  <2>2. {} \in SUBSET TodoIds
    OBVIOUS
  <2> QED BY <2>1, <2>2 DEF TodoLists
<1>2. "active" \in Statuses /\ NoLimit \in Limits
  BY DEF Statuses, Limits
<1> QED BY <1>1, <1>2 DEF NewStage, Stage

\* A stage can be told from nil.
LEMMA StageNotNil == \A st \in Stage : st # NoGoal
BY ConstantsOK

\* st is old but for one group of fields, and for what is never logged.
Alters(old, st, field) ==
  /\ st.id = old.id /\ st.input = old.input
  /\ field # "status" => st.status = old.status
  /\ field # "turns" => st.turns = old.turns
  /\ field # "tokens" => st.tokens = old.tokens
  /\ field # "pauseNext" => st.pauseNext = old.pauseNext
  /\ field # "todos" => st.todos = old.todos
  /\ field # "budget" => st.turnBudget = old.turnBudget /\ st.tokenBudget = old.tokenBudget

\* A status change keeps the type, the identity and everything that is logged.
LEMMA ApplyStatusType ==
  ASSUME NEW st \in Stage, NEW s \in Statuses
  PROVE  /\ ApplyStatus(st, s) \in Stage
         /\ ApplyStatus(st, s).status = s
         /\ Alters(st, ApplyStatus(st, s), "status")
BY DEF ApplyStatus, Stage, Alters

\* A snapshot is a view.
LEMMA ShownType ==
  ASSUME NEW st \in Stage \cup {NoGoal}
  PROVE  /\ Shown(st) \in Views \cup {NoGoal}
         /\ st \in Stage => Shown(st) \in Views /\ Shown(st).id = st.id
BY StageNotNil DEF Shown, Views, Stage

\* Published events and appended records are effects.
LEMMA EffectTypes ==
  /\ \A st \in Stage \cup {NoGoal} :
       \A change \in {"none", "lifecycle", "clear"}, a \in Actors \cup {"none"} :
         Publish(st, change, a) \in Events
  /\ \A st \in Stage : Publish(st, "completion", "none") \in Events
  /\ \A rec \in Records : Append1(rec) \in Effects
  /\ Events \subseteq Effects
  /\ ClearRecord \in Records
  /\ \A g \in Goals, input \in CreateInput : CreateRecord(g, input) \in Records
<1>1. ASSUME NEW st \in Stage \cup {NoGoal},
             NEW change \in {"none", "lifecycle", "clear"},
             NEW a \in Actors \cup {"none"}
      PROVE  Publish(st, change, a) \in Events
  BY ShownType DEF Publish, Events
<1>2. \A st \in Stage : Publish(st, "completion", "none") \in Events
  BY ShownType DEF Publish, Events
<1>3. \A rec \in Records : Append1(rec) \in Effects
  BY DEF Append1, Effects
<1>4. Events \subseteq Effects
  BY DEF Effects
<1>5. ClearRecord \in Records
  BY DEF ClearRecord, Records
<1>6. \A g \in Goals, input \in CreateInput : CreateRecord(g, input) \in Records
  BY DEF CreateRecord, Records
<1> QED BY <1>1, <1>3, <1>4, <1>5, <1>6, <1>2

\* Each update the code writes is a record.
LEMMA UpdateTypes ==
  /\ \A s \in Statuses : Patch("status", s) \in Updates
  /\ \A n \in Nat : Patch("turns", n) \in Updates /\ Patch("tokens", n) \in Updates
  /\ \A b \in BOOLEAN : Patch("pauseNext", b) \in Updates
  /\ \A t \in TodoLists : Patch("todos", t) \in Updates
  /\ \A st \in Stage : BudgetPatch(st) \in Updates
  /\ Updates \subseteq Records
<1>1. \A s \in Statuses : Patch("status", s) \in Updates
  BY DEF Patch, Updates
<1>2. \A n \in Nat : Patch("turns", n) \in Updates /\ Patch("tokens", n) \in Updates
  BY DEF Patch, Updates
<1>3. \A b \in BOOLEAN : Patch("pauseNext", b) \in Updates
  BY DEF Patch, Updates
<1>4. \A t \in TodoLists : Patch("todos", t) \in Updates
  BY DEF Patch, Updates
<1>5. \A st \in Stage : BudgetPatch(st) \in Updates
  BY DEF Patch, BudgetPatch, Updates, Stage
<1>6. Updates \subseteq Records
  BY DEF Records
<1> QED BY <1>1, <1>2, <1>3, <1>4, <1>5, <1>6

\* Replaying one record yields a stage or nil.
LEMMA RestoredType ==
  ASSUME NEW st \in Stage \cup {NoGoal}, NEW rec \in Records
  PROVE  Restored(st, rec) \in Stage \cup {NoGoal}
<1>1. CASE rec \in [type: {"create"}, id: Goals, input: CreateInput]
  <2>1. NoLimit \in Limits
    BY DEF Limits
  <2> QED BY <1>1, <2>1, NewStageType DEF Restored
<1>2. CASE rec \in [type: {"clear"}]
  BY <1>2 DEF Restored
<1>3. CASE rec \in Updates
  <2>1. rec.type = "update"
    BY <1>3 DEF Updates
  <2>2. CASE st = NoGoal
    BY <2>1, <2>2 DEF Restored
  <2>3. CASE st \in Stage
    <3>1. Restored(st, rec) = RestoreUpdate(st, rec)
      BY <2>1, <2>3, StageNotNil DEF Restored
    <3>2. RestoreUpdate(st, rec) \in Stage
      BY <1>3, <2>3 DEF RestoreUpdate, Updates, Stage
    <3> QED BY <3>1, <3>2
  <2> QED BY <2>2, <2>3
<1> QED BY <1>1, <1>2, <1>3 DEF Records

\* An operation that changes the stage and logs one record keeps the types.
LEMMA ChangeType ==
  ASSUME TypeOK, NEW st \in Stage, NEW kind \in {"none", "lifecycle"},
         NEW rec \in Records, Change(st, kind, rec)
  PROVE  TypeOK'
<1>1. Publish(st, kind, "none") \in Effects /\ Append1(rec) \in Effects
  BY EffectTypes
<1>2. script' \in Seq(Effects)
  BY <1>1 DEF Change
<1> QED BY <1>2 DEF Change, TypeOK, Ghosts

\* So does a status change.
LEMMA MoveType ==
  ASSUME TypeOK, goal \in Stage, NEW s \in Statuses, Move(s)
  PROVE  TypeOK'
<1>1. ApplyStatus(goal, s) \in Stage
  BY ApplyStatusType
<1>2. Patch("status", s) \in Records
  BY UpdateTypes
<1> QED BY <1>1, <1>2, ChangeType DEF Move

\* So does a clear.
LEMMA ClearType ==
  ASSUME TypeOK, NEW change \in {"none", "clear"}, NEW a \in Actors \cup {"none"},
         Clear(change, a)
  PROVE  TypeOK'
<1>1. Publish(NoGoal, change, a) \in Effects /\ Append1(ClearRecord) \in Effects
  BY EffectTypes
<1>2. script' \in Seq(Effects)
  BY <1>1 DEF Clear, ClearScript
<1> QED BY <1>2 DEF Clear, TypeOK, Ghosts

\* The script of a completion is a script.
LEMMA CloseType ==
  ASSUME goal \in Stage, Close
  PROVE  goal' = NoGoal /\ script' \in Seq(Effects)
<1>1. "complete" \in Statuses
  BY DEF Statuses
<1>2. ApplyStatus(goal, "complete") \in Stage
  BY <1>1, ApplyStatusType
<1>3. /\ Append1(Patch("status", "complete")) \in Effects
      /\ Publish(ApplyStatus(goal, "complete"), "completion", "none") \in Effects
      /\ Publish(NoGoal, "none", "none") \in Effects
      /\ Append1(ClearRecord) \in Effects
  BY <1>1, <1>2, EffectTypes, UpdateTypes
<1> QED BY <1>3 DEF Close

\* Todo lists stay todo lists.
LEMMA TodosType ==
  ASSUME NEW t \in TodoLists
  PROVE  /\ NextTodoId(t) \in TodoIds =>
              [k \in DOMAIN t \cup {NextTodoId(t)} |->
                 IF k \in DOMAIN t THEN t[k] ELSE "pending"] \in TodoLists
         /\ \A i \in DOMAIN t : \A s \in TodoStatuses : [t EXCEPT ![i] = s] \in TodoLists
         /\ \A i \in DOMAIN t : [k \in DOMAIN t \ {i} |-> t[k]] \in TodoLists
<1>1. PICK S \in SUBSET TodoIds : t \in [S -> TodoStatuses]
  BY DEF TodoLists
<1>2. DOMAIN t = S /\ \A k \in S : t[k] \in TodoStatuses
  BY <1>1
<1>3. ASSUME NextTodoId(t) \in TodoIds
      PROVE  [k \in DOMAIN t \cup {NextTodoId(t)} |->
                IF k \in DOMAIN t THEN t[k] ELSE "pending"] \in TodoLists
  <2>1. S \cup {NextTodoId(t)} \in SUBSET TodoIds
    BY <1>3
  <2>2. [k \in S \cup {NextTodoId(t)} |-> IF k \in S THEN t[k] ELSE "pending"]
          \in [S \cup {NextTodoId(t)} -> TodoStatuses]
    BY <1>2 DEF TodoStatuses
  <2> QED BY <1>2, <2>1, <2>2 DEF TodoLists
<1>4. ASSUME NEW i \in DOMAIN t, NEW s \in TodoStatuses
      PROVE  [t EXCEPT ![i] = s] \in TodoLists
  <2>1. [t EXCEPT ![i] = s] \in [S -> TodoStatuses]
    BY <1>1, <1>2
  <2> QED BY <2>1 DEF TodoLists
<1>5. ASSUME NEW i \in DOMAIN t
      PROVE  [k \in DOMAIN t \ {i} |-> t[k]] \in TodoLists
  <2>1. [k \in S \ {i} |-> t[k]] \in [S \ {i} -> TodoStatuses]
    BY <1>2
  <2>2. S \ {i} \in SUBSET TodoIds
    OBVIOUS
  <2> QED BY <1>2, <2>1, <2>2 DEF TodoLists
<1> QED BY <1>3, <1>4, <1>5

\* Making an effect keeps the types.
LEMMA RunEffectType == TypeOK /\ RunEffect => TypeOK'
<1> SUFFICES ASSUME TypeOK, RunEffect PROVE TypeOK'
  OBVIOUS
<1>1. script \in Seq(Effects) /\ script # <<>>
  BY DEF TypeOK, RunEffect
<1>2. Head(script) \in Effects /\ Tail(script) \in Seq(Effects)
  BY <1>1
<1>3. CASE Head(script).io = "append"
  <2> DEFINE rec == Head(script).rec
  <2>1. rec \in Records
    BY <1>2, <1>3 DEF Effects, Events
  <2>2. AppendRecord(rec) /\ feed' = feed
    BY <1>3 DEF RunEffect
  <2> HIDE DEF rec
  <2>3. Group(rec) \in Fields \cup {"goal"}
    BY <2>1 DEF Group, Records, Updates, Fields
  <2>4. AfterTake(rec) \subseteq Fields \cup {"goal"} /\ AfterMiss(rec) \subseteq Fields \cup {"goal"}
    BY <2>3 DEF AfterTake, AfterMiss, TypeOK
  <2>5. CASE Take(rec)
    <3>1. durable' \in Stage \cup {NoGoal}
      BY <2>1, <2>5, RestoredType DEF Take, TypeOK
    <3>2. durable # NoGoal => durable.id \in Goals
      BY DEF TypeOK, Stage
    <3>3. retired' \subseteq Goals /\ announced' \subseteq Goals
      BY <2>5, <3>2 DEF Take, TypeOK
    <3>4. torn' \in BOOLEAN /\ stale' \subseteq Fields \cup {"goal"}
      BY <2>2, <2>4, <2>5 DEF AppendRecord, Take, TypeOK
    <3> QED BY <1>2, <2>2, <3>1, <3>3, <3>4 DEF RunEffect, TypeOK
  <2>6. CASE Miss(rec)
    <3>1. durable' = durable /\ retired' = retired /\ announced' \subseteq Goals
      BY <2>6 DEF Miss, TypeOK
    <3>2. torn' \in BOOLEAN /\ stale' \subseteq Fields \cup {"goal"}
      BY <2>2, <2>4, <2>6 DEF AppendRecord, Miss, TypeOK
    <3> QED BY <1>2, <2>2, <3>1, <3>2 DEF RunEffect, TypeOK
  <2> QED BY <2>2, <2>5, <2>6 DEF AppendRecord
<1>4. CASE Head(script).io = "publish"
  <2>1. Head(script) \in Events
    BY <1>2, <1>4 DEF Effects
  <2>2. /\ feed' = <<Head(script).goal>> /\ durable' = durable /\ torn' = torn
        /\ stale' = stale /\ retired' = retired
        /\ announced' = IF Head(script).change = "completion" /\ "status" \notin stale
                        THEN announced \cup {Head(script).goal.id} ELSE announced
    BY <1>4 DEF RunEffect
  <2>3. Head(script).goal \in Views \cup {NoGoal}
    BY <2>1 DEF Events
  <2>4. feed' \in Seq(Views \cup {NoGoal})
    BY <2>2, <2>3
  <2>5. announced' \subseteq Goals
    BY <2>1, <2>2 DEF TypeOK, Events, Views
  <2> QED BY <1>2, <2>2, <2>4, <2>5 DEF RunEffect, TypeOK
<1> QED BY <1>3, <1>4 DEF RunEffect

\* Every value keeps its type along every step.
LEMMA TypeStep == TypeOK /\ [Next]_vars => TypeOK'
<1> SUFFICES ASSUME TypeOK, [Next]_vars PROVE TypeOK'
  OBVIOUS
<1>a. Current => goal \in Stage
  BY DEF Current, TypeOK
<1>1. CASE RunEffect
  BY <1>1, RunEffectType
<1>2. CASE Lifecycle
  <2>1. ASSUME NEW g \in Goals, NEW input \in Inputs, NEW actor \in {"user", "runtime"},
               NEW replace \in BOOLEAN, CreateGoal(g, input, actor, replace)
        PROVE  TypeOK'
    <3> DEFINE new == Sanitize(input, actor)
               st == NewStage(g, new, DefaultTurnBudget)
    <3>1. new \in CreateInput
      BY ConstantsOK DEF Sanitize, CreateInput, Kinds
    <3>2. st \in Stage
      BY <3>1, ConstantsOK, NewStageType
    <3>3. /\ Publish(st, "none", "none") \in Effects
          /\ Publish(NoGoal, "none", "none") \in Effects
          /\ Append1(ClearRecord) \in Effects
          /\ Append1(CreateRecord(g, new)) \in Effects
      BY <3>1, <3>2, EffectTypes
    <3>4. script' \in Seq(Effects)
      <4> HIDE DEF st, new
      <4>1. script' = IF goal = NoGoal
                      THEN <<Publish(st, "none", "none"), Append1(CreateRecord(g, new))>>
                      ELSE <<Publish(NoGoal, "none", "none"), Append1(ClearRecord),
                             Publish(st, "none", "none"), Append1(CreateRecord(g, new))>>
        BY <2>1 DEF CreateGoal, st, new
      <4> QED BY <3>3, <4>1
    <3>5. goal' = st
      BY <2>1 DEF CreateGoal
    <3> HIDE DEF st
    <3> QED BY <2>1, <3>2, <3>4, <3>5 DEF CreateGoal, TypeOK, Ghosts
  <2>2. CASE CreateGoalRejected
    BY <2>2, ClearType DEF CreateGoalRejected
  <2>3. CASE PauseGoal
    BY <1>a, <2>3, MoveType DEF PauseGoal, Active, Statuses
  <2>4. CASE ResumeGoal
    BY <1>a, <2>4, MoveType DEF ResumeGoal, Statuses
  <2>5. CASE MarkBlocked
    BY <1>a, <2>5, MoveType DEF MarkBlocked, Active, Statuses
  <2>6. CASE MarkComplete
    BY <1>a, <2>6, CloseType DEF MarkComplete, Active, TypeOK, Ghosts
  <2>7. ASSUME NEW actor \in {"user", "model", "runtime"}, CancelGoal(actor)
        PROVE  TypeOK'
    BY <2>7, ClearType DEF CancelGoal, Actors
  <2>8. ASSUME NEW g \in Goals, CancelGoalByID(g, "runtime")
        PROVE  TypeOK'
    BY <2>8, ClearType DEF CancelGoalByID, Actors
  <2>9. CASE CleanupExpired
    BY <2>9, ClearType DEF CleanupExpired
  <2>10. CASE NotifyGoalChanged
    <3>1. Publish(goal, "none", "none") \in Effects
      BY EffectTypes DEF TypeOK
    <3>2. script' \in Seq(Effects)
      BY <2>10, <3>1 DEF NotifyGoalChanged
    <3> QED BY <2>10, <3>2 DEF NotifyGoalChanged, TypeOK, Ghosts
  <2> QED BY <1>2, <2>1, <2>2, <2>3, <2>4, <2>5, <2>6, <2>7, <2>8, <2>9, <2>10 DEF Lifecycle
<1>3. CASE Progress
  <2>1. CASE IncrementTurn
    <3>1. [goal EXCEPT !.turns = @ + 1] \in Stage /\ goal.turns + 1 \in Nat
      BY <1>a, <2>1 DEF IncrementTurn, Active, Stage
    <3>2. Patch("turns", goal.turns + 1) \in Records
      BY <3>1, UpdateTypes
    <3> QED BY <2>1, <3>1, <3>2, ChangeType DEF IncrementTurn
  <2>2. CASE RecordTokenUsage
    <3>1. [goal EXCEPT !.tokens = @ + 1] \in Stage /\ goal.tokens + 1 \in Nat
      BY <1>a, <2>2 DEF RecordTokenUsage, Active, Stage
    <3>2. Append1(Patch("tokens", goal.tokens + 1)) \in Effects
      BY <3>1, UpdateTypes, EffectTypes
    <3>3. script' \in Seq(Effects)
      BY <2>2, <3>2 DEF RecordTokenUsage
    <3> QED BY <2>2, <3>1, <3>3 DEF RecordTokenUsage, TypeOK, Ghosts
  <2>3. ASSUME NEW armed \in BOOLEAN, SetPauseAfterComplete(armed)
        PROVE  TypeOK'
    <3>1. [goal EXCEPT !.pauseNext = armed] \in Stage
      BY <1>a, <2>3 DEF SetPauseAfterComplete, Stage
    <3>2. Patch("pauseNext", armed) \in Records
      BY UpdateTypes
    <3> QED BY <2>3, <3>1, <3>2, ChangeType DEF SetPauseAfterComplete
  <2>4. ASSUME NEW turn \in Budgets, NEW token \in Budgets, SetBudgetLimits(turn, token)
        PROVE  TypeOK'
    <3> DEFINE st == [goal EXCEPT !.turnBudget = IF turn = NoLimit THEN @ ELSE turn,
                                  !.tokenBudget = IF token = NoLimit THEN @ ELSE token]
    <3>1. st \in Stage
      BY <1>a, <2>4, ConstantsOK DEF SetBudgetLimits, Stage
    <3>2. BudgetPatch(st) \in Records
      BY <3>1, UpdateTypes
    <3>3. Change(st, "none", BudgetPatch(st))
      BY <2>4 DEF SetBudgetLimits
    <3> QED BY <3>1, <3>2, <3>3, ChangeType
  <2> QED BY <1>3, <2>1, <2>2, <2>3, <2>4 DEF Progress
<1>4. CASE Todos
  <2>1. ASSUME Current, NEW t \in TodoLists, SetTodos(t)
        PROVE  TypeOK'
    <3>1. [goal EXCEPT !.todos = t] \in Stage
      BY <1>a, <2>1 DEF Stage
    <3>2. Patch("todos", t) \in Records
      BY UpdateTypes
    <3> QED BY <2>1, <3>1, <3>2, ChangeType DEF SetTodos
  <2>2. Current => goal.todos \in TodoLists
    BY <1>a DEF Stage
  <2>3. CASE AddGoalTodo
    BY <2>1, <2>2, <2>3, TodosType DEF AddGoalTodo
  <2>4. ASSUME NEW i \in TodoIds, NEW s \in TodoStatuses, UpdateGoalTodo(i, s)
        PROVE  TypeOK'
    BY <2>1, <2>2, <2>4, TodosType DEF UpdateGoalTodo
  <2>5. ASSUME NEW i \in TodoIds, RenameGoalTodo(i)
        PROVE  TypeOK'
    BY <2>1, <2>2, <2>5 DEF RenameGoalTodo
  <2>6. ASSUME NEW i \in TodoIds, RemoveGoalTodo(i)
        PROVE  TypeOK'
    BY <2>1, <2>2, <2>6, TodosType DEF RemoveGoalTodo
  <2> QED BY <1>4, <2>3, <2>4, <2>5, <2>6 DEF Todos
<1>5. CASE Gate
  <2>1. CASE RequestCompleteUngated
    BY <1>a, <2>1, CloseType DEF RequestCompleteUngated, Active, TypeOK, Ghosts
  <2>2. CASE Challenge
    BY <1>a, <2>2 DEF Challenge, Active, TypeOK, Ghosts, Stage
  <2>3. ASSUME NEW r \in Requests, BeginCompletion(r)
        PROVE  TypeOK'
    <3>1. goal.id \in Goals /\ goal.input.verifyCmd \in BOOLEAN
      BY <1>a, <2>3 DEF BeginCompletion, Active, Stage, CreateInput
    <3>2. [at |-> "verifying", target |-> goal.id, cmd |-> goal.input.verifyCmd /\ Verifier]
            \in Calls
      BY <3>1, ConstantsOK DEF Calls
    <3> QED BY <2>3, <3>2 DEF BeginCompletion, TypeOK, Ghosts
  <2>4. ASSUME NEW r \in Requests, RunVerification(r)
        PROVE  TypeOK'
    <3>1. PICK verdict \in {"passed", "failed"} : req' = [req EXCEPT ![r].at = verdict]
      BY <2>4 DEF RunVerification
    <3>2. req[r] \in [at: {"verifying", "passed", "failed"}, target: Goals, cmd: BOOLEAN]
      BY <2>4 DEF RunVerification, TypeOK, Calls
    <3>3. req' \in [Requests -> Calls]
      BY <3>1, <3>2 DEF TypeOK, Calls
    <3> QED BY <2>4, <3>3 DEF RunVerification, TypeOK, Ghosts
  <2>5. ASSUME NEW r \in Requests
        PROVE  [req EXCEPT ![r] = Idle] \in [Requests -> Calls]
    BY DEF TypeOK, Idle, Calls
  <2>6. ASSUME NEW r \in Requests, FinishCompletion(r)
        PROVE  TypeOK'
    BY <1>a, <2>5, <2>6, CloseType DEF FinishCompletion, Active, TypeOK, Ghosts
  <2>7. ASSUME NEW r \in Requests, FailCompletion(r)
        PROVE  TypeOK'
    <3>1. Active => Strike(goal) \in Stage
      BY <1>a DEF Active, Strike, Stage
    <3>2. Active => ApplyStatus(Strike(goal), "blocked") \in Stage
      BY <3>1, ApplyStatusType DEF Statuses
    <3>3. Active => <<Publish(ApplyStatus(Strike(goal), "blocked"), "lifecycle", "none"),
                      Append1(Patch("status", "blocked"))>> \in Seq(Effects)
      BY <3>2, EffectTypes, UpdateTypes DEF Statuses
    <3>4. goal' \in Stage \cup {NoGoal} /\ script' \in Seq(Effects)
      BY <2>7, <3>1, <3>2, <3>3 DEF FailCompletion, TypeOK
    <3> QED BY <2>5, <2>7, <3>4 DEF FailCompletion, TypeOK, Ghosts
  <2> QED BY <1>5, <2>1, <2>2, <2>3, <2>4, <2>6, <2>7 DEF Gate
<1>6. CASE Crash
  <2>1. req' \in [Requests -> Calls]
    BY <1>6 DEF Crash, Idle, Calls
  <2>2. script' \in Seq(Effects) /\ feed' \in Seq(Views \cup {NoGoal})
    BY <1>6 DEF Crash
  <2> QED BY <1>6, <2>1, <2>2 DEF Crash, TypeOK, Ghosts
<1>7. CASE Replay
  <2>1. Append1(ClearRecord) \in Effects /\ Append1(Patch("status", "paused")) \in Effects
    BY EffectTypes, UpdateTypes DEF Statuses
  <2>2. durable # NoGoal => ApplyStatus(durable, "paused") \in Stage
    BY ApplyStatusType DEF TypeOK, Statuses
  <2>3. goal' \in Stage \cup {NoGoal}
    BY <1>7, <2>2 DEF Replay, TypeOK
  <2>4. /\ <<>> \in Seq(Effects)
        /\ <<Append1(ClearRecord)>> \in Seq(Effects)
        /\ <<Append1(Patch("status", "paused"))>> \in Seq(Effects)
    BY <2>1
  <2>5. script' \in Seq(Effects)
    BY <1>7, <2>4 DEF Replay
  <2> QED BY <1>7, <2>3, <2>5 DEF Replay, TypeOK, Ghosts
<1>8. CASE UNCHANGED vars
  BY <1>8 DEF vars, Ghosts, TypeOK
<1> QED BY <1>1, <1>2, <1>3, <1>4, <1>5, <1>6, <1>7, <1>8 DEF Next

\* The initial state is well typed.
LEMMA InitType == Init => TypeOK
<1> SUFFICES ASSUME Init PROVE TypeOK
  OBVIOUS
<1>1. req \in [Requests -> Calls]
  BY DEF Init, Idle, Calls
<1>2. script \in Seq(Effects) /\ feed \in Seq(Views \cup {NoGoal})
  BY DEF Init
<1>3. up \in BOOLEAN /\ torn \in BOOLEAN
  BY DEF Init
<1>4. goal \in Stage \cup {NoGoal} /\ durable \in Stage \cup {NoGoal}
  BY DEF Init
<1>5. /\ stale \subseteq Fields \cup {"goal"}
      /\ minted \subseteq Goals /\ announced \subseteq Goals /\ retired \subseteq Goals
  BY DEF Init
<1> QED BY <1>1, <1>2, <1>3, <1>4, <1>5 DEF TypeOK

\* Every reachable state is well typed, whatever the constants.
THEOREM TypeCorrect == Spec => []TypeOK
BY InitType, TypeStep, PTL DEF Spec

-----------------------------------------------------------------------------
(* The done-gate's memory *)

\* A challenge and a failure streak are never logged, so a replay cannot
\* bring them back.
LogForgetsGate == durable # NoGoal => ~durable.pending /\ durable.failures = 0

\* Replaying a record never revives a challenge or a streak.
LEMMA RestoredForgets ==
  ASSUME TypeOK, LogForgetsGate, NEW rec \in Records, Restored(durable, rec) # NoGoal
  PROVE  ~Restored(durable, rec).pending /\ Restored(durable, rec).failures = 0
<1>1. CASE rec.type = "create"
  BY <1>1 DEF Restored, NewStage
<1>2. CASE rec.type # "create"
  <2>1. Restored(durable, rec) = RestoreUpdate(durable, rec) /\ durable # NoGoal
    BY <1>2 DEF Restored
  <2>2. durable \in Stage
    BY <2>1 DEF TypeOK
  <2> QED BY <2>1, <2>2 DEF RestoreUpdate, LogForgetsGate, Stage
<1> QED BY <1>1, <1>2

\* The gate's memory stays tied to the active status along every step.
LEMMA GateStep ==
  TypeOK /\ LogForgetsGate /\ GateMemory /\ [Next]_vars => LogForgetsGate' /\ GateMemory'
<1> SUFFICES ASSUME TypeOK, LogForgetsGate, GateMemory, [Next]_vars
             PROVE  LogForgetsGate' /\ GateMemory'
  OBVIOUS
<1>a. goal # NoGoal => goal \in Stage
  BY DEF TypeOK
<1>b. MaxVerifyFailures \in Nat
  BY ConstantsOK
\* A stage whose streak and challenge are those of the goal, or reset.
<1>c. ASSUME NEW st, goal' = st, durable' = durable,
             \/ st = NoGoal
             \/ st # NoGoal /\ ~st.pending /\ st.failures = 0
             \/ /\ st # NoGoal /\ goal # NoGoal /\ st.status = goal.status
                /\ st.pending = goal.pending /\ st.failures = goal.failures
      PROVE  LogForgetsGate' /\ GateMemory'
  BY <1>b, <1>c DEF LogForgetsGate, GateMemory
<1>1. CASE RunEffect
  <2>1. script \in Seq(Effects) /\ script # <<>>
    BY <1>1 DEF TypeOK, RunEffect
  <2>2. Head(script) \in Effects
    BY <2>1
  <2>3. CASE Head(script).io = "append"
    <3>1. Head(script).rec \in Records
      BY <2>2, <2>3 DEF Effects, Events
    <3>2. durable' \in {durable, Restored(durable, Head(script).rec)}
      BY <1>1, <2>3 DEF RunEffect, AppendRecord, Take, Miss
    <3> QED BY <1>1, <3>1, <3>2, RestoredForgets DEF RunEffect, LogForgetsGate, GateMemory
  <2>4. CASE Head(script).io # "append"
    BY <1>1, <2>4 DEF RunEffect, LogForgetsGate, GateMemory
  <2> QED BY <2>3, <2>4
<1>2. ASSUME Current, NEW s \in Statuses \ {"active"}, Move(s)
      PROVE  LogForgetsGate' /\ GateMemory'
  <2>1. /\ ApplyStatus(goal, s) # NoGoal /\ ~ApplyStatus(goal, s).pending
        /\ ApplyStatus(goal, s).failures = 0
    BY <1>a, <1>2, ApplyStatusType, StageNotNil DEF Current, ApplyStatus, Stage
  <2> QED BY <1>c, <1>2, <2>1 DEF Move, Change
<1>3. CASE Lifecycle
  <2>1. ASSUME NEW g \in Goals, NEW input \in Inputs, NEW actor \in {"user", "runtime"},
               NEW replace \in BOOLEAN, CreateGoal(g, input, actor, replace)
        PROVE  LogForgetsGate' /\ GateMemory'
    BY <1>b, <2>1 DEF CreateGoal, NewStage, LogForgetsGate, GateMemory
  <2>2. CASE PauseGoal
    BY <1>2, <2>2 DEF PauseGoal, Active, Statuses
  <2>3. CASE MarkBlocked
    BY <1>2, <2>3 DEF MarkBlocked, Active, Statuses
  <2>4. CASE ResumeGoal
    <3>1. goal \in Stage /\ goal.status # "active"
      BY <1>a, <2>4 DEF ResumeGoal, Current
    <3>2. ~goal.pending /\ goal.failures = 0
      BY <2>4, <3>1 DEF GateMemory, ResumeGoal, Current
    <3>3. /\ ApplyStatus(goal, "active") # NoGoal /\ ~ApplyStatus(goal, "active").pending
          /\ ApplyStatus(goal, "active").failures = 0
      BY <3>1, <3>2, ApplyStatusType, StageNotNil DEF ApplyStatus, Stage, Statuses
    <3> QED BY <1>c, <2>4, <3>3 DEF ResumeGoal, Move, Change
  <2>5. CASE NotifyGoalChanged
    BY <2>5 DEF NotifyGoalChanged, LogForgetsGate, GateMemory
  <2>6. ASSUME CreateGoalRejected \/ MarkComplete \/ CleanupExpired
                 \/ (\E actor \in {"user", "model", "runtime"} : CancelGoal(actor))
                 \/ (\E g \in Goals : CancelGoalByID(g, "runtime"))
        PROVE  LogForgetsGate' /\ GateMemory'
    <3>1. goal' = NoGoal /\ durable' = durable
      BY <2>6 DEF CreateGoalRejected, MarkComplete, CleanupExpired, CancelGoal, CancelGoalByID,
                  Clear, Close
    <3> QED BY <1>c, <3>1
  <2> QED BY <1>3, <2>1, <2>2, <2>3, <2>4, <2>5, <2>6 DEF Lifecycle
<1>4. CASE Progress
  <2>1. goal \in Stage /\ goal # NoGoal
    BY <1>a, <1>4 DEF Progress, IncrementTurn, RecordTokenUsage, SetPauseAfterComplete,
                     SetBudgetLimits, Active, Current
  <2>2. /\ durable' = durable
        /\ goal'.status = goal.status /\ goal'.pending = goal.pending
        /\ goal'.failures = goal.failures
    BY <1>4, <2>1 DEF Progress, IncrementTurn, RecordTokenUsage, SetPauseAfterComplete,
                     SetBudgetLimits, Change, Stage
  <2> QED BY <1>b, <2>1, <2>2 DEF LogForgetsGate, GateMemory
<1>5. CASE Todos
  <2>1. goal \in Stage /\ goal # NoGoal
    BY <1>a, <1>5 DEF Todos, AddGoalTodo, UpdateGoalTodo, RenameGoalTodo, RemoveGoalTodo, Current
  <2>2. \E t : SetTodos(t)
    BY <1>5 DEF Todos, AddGoalTodo, UpdateGoalTodo, RenameGoalTodo, RemoveGoalTodo
  <2>3. /\ durable' = durable
        /\ goal'.status = goal.status /\ goal'.pending = goal.pending
        /\ goal'.failures = goal.failures
    BY <2>1, <2>2 DEF SetTodos, Change, Stage
  <2> QED BY <1>b, <2>1, <2>3 DEF LogForgetsGate, GateMemory
<1>6. CASE Gate
  <2>1. CASE RequestCompleteUngated
    BY <1>c, <2>1 DEF RequestCompleteUngated, Close
  <2>2. CASE Challenge
    <3>1. goal \in Stage /\ goal.status = "active"
      BY <1>a, <2>2 DEF Challenge, Active, Current
    <3>2. goal'.status = "active" /\ goal'.failures = goal.failures /\ durable' = durable
      BY <2>2, <3>1 DEF Challenge, Stage
    <3> QED BY <2>2, <3>1, <3>2, StageNotNil DEF LogForgetsGate, GateMemory
  <2>3. ASSUME NEW r \in Requests, BeginCompletion(r) \/ RunVerification(r)
        PROVE  LogForgetsGate' /\ GateMemory'
    BY <2>3 DEF BeginCompletion, RunVerification, LogForgetsGate, GateMemory
  <2>4. ASSUME NEW r \in Requests, FinishCompletion(r)
        PROVE  LogForgetsGate' /\ GateMemory'
    BY <2>4 DEF FinishCompletion, Close, LogForgetsGate, GateMemory
  <2>5. ASSUME NEW r \in Requests, FailCompletion(r)
        PROVE  LogForgetsGate' /\ GateMemory'
    <3>1. CASE ~Active
      BY <2>5, <3>1 DEF FailCompletion, LogForgetsGate, GateMemory
    <3>2. CASE Active
      <4>1. goal \in Stage /\ goal.status = "active" /\ goal.failures \in Nat
        BY <1>a, <3>2 DEF Active, Current, Stage
      <4>2. Strike(goal) \in Stage /\ Strike(goal).failures = goal.failures + 1
                                  /\ Strike(goal).status = "active"
        BY <4>1 DEF Strike, Stage
      <4>3. CASE MaxVerifyFailures > 0 /\ goal.failures + 1 >= MaxVerifyFailures
        <5>1. goal' = ApplyStatus(Strike(goal), "blocked") /\ durable' = durable
          BY <2>5, <3>2, <4>3 DEF FailCompletion
        <5>2. /\ goal' # NoGoal /\ ~goal'.pending /\ goal'.failures = 0
          <6>1. Strike(goal) \in Stage /\ "blocked" \in Statuses
            BY <4>2 DEF Statuses
          <6>2. goal' \in Stage
            BY <5>1, <6>1, ApplyStatusType
          <6>3. goal' = [Strike(goal) EXCEPT !.status = "blocked", !.pending = FALSE,
                                             !.failures = 0]
            BY <5>1 DEF ApplyStatus
          <6>4. ~goal'.pending /\ goal'.failures = 0
            BY <6>1, <6>3 DEF Stage
          <6> QED BY <6>2, <6>4, StageNotNil
        <5> QED BY <1>c, <5>1, <5>2
      <4>4. CASE ~(MaxVerifyFailures > 0 /\ goal.failures + 1 >= MaxVerifyFailures)
        <5>1. goal' = Strike(goal) /\ durable' = durable
          BY <2>5, <3>2, <4>4 DEF FailCompletion
        <5> QED BY <1>b, <4>1, <4>2, <4>4, <5>1 DEF LogForgetsGate, GateMemory
      <4> QED BY <4>3, <4>4
    <3> QED BY <3>1, <3>2
  <2> QED BY <1>6, <2>1, <2>2, <2>3, <2>4, <2>5 DEF Gate
<1>7. CASE Crash
  BY <1>c, <1>7 DEF Crash
<1>8. CASE Replay
  <2>1. CASE goal' = NoGoal
    BY <1>c, <1>8, <2>1 DEF Replay
  <2>2. CASE goal' = ApplyStatus(durable, "paused") /\ durable # NoGoal
    <3>1. /\ goal' # NoGoal /\ ~goal'.pending /\ goal'.failures = 0
      BY <2>2, ApplyStatusType, StageNotNil DEF ApplyStatus, Stage, Statuses, TypeOK
    <3> QED BY <1>c, <1>8, <3>1 DEF Replay
  <2>3. CASE goal' = durable /\ durable # NoGoal
    BY <1>c, <1>8, <2>3 DEF Replay, LogForgetsGate
  <2> QED BY <1>8, <2>1, <2>2, <2>3 DEF Replay
<1>9. CASE UNCHANGED vars
  BY <1>9 DEF vars, LogForgetsGate, GateMemory
<1> QED BY <1>1, <1>3, <1>4, <1>5, <1>6, <1>7, <1>8, <1>9 DEF Next

\* The failure streak never reaches the cap and dies, with the challenge, when
\* the goal leaves active or the process restarts.
THEOREM GateMemoryHolds == Spec => []GateMemory
<1>1. Init => LogForgetsGate /\ GateMemory
  BY DEF Init, LogForgetsGate, GateMemory
<1> QED BY <1>1, GateStep, TypeCorrect, PTL DEF Spec

-----------------------------------------------------------------------------
(* What the UI was told *)

\* The last snapshot that is published, or is about to be, is the goal as it is
\* in memory; a process that has published nothing has nothing to make good.
FeedTells ==
  /\ ~up => feed = <<>>
  /\ \A i \in 1..Len(script) :
       /\ script[i].io = "publish"
       /\ \A j \in i + 1..Len(script) : script[j].io # "publish"
       => script[i].goal = Shown(goal)
  /\ feed # <<>> /\ (\A i \in 1..Len(script) : script[i].io # "publish")
       => feed[1] = Shown(goal)

\* A script whose last event shows the goal as the operation leaves it.
LEMMA LastIsTold ==
  ASSUME up', NEW n \in 1..Len(script'),
         script'[n].io = "publish", script'[n].goal = Shown(goal'),
         \A j \in n + 1..Len(script') : script'[j].io # "publish",
         Len(script') \in Nat
  PROVE  FeedTells'
<1>1. \A i \in 1..Len(script') :
        /\ script'[i].io = "publish"
        /\ \A j \in i + 1..Len(script') : script'[j].io # "publish"
        => i = n
  OBVIOUS
<1> QED BY <1>1 DEF FeedTells

\* A script without an event, of an operation that changes nothing visible.
LEMMA NothingToTell ==
  ASSUME FeedTells, Free, up', feed' = feed, Shown(goal') = Shown(goal),
         \A i \in 1..Len(script') : script'[i].io # "publish"
  PROVE  FeedTells'
<1>1. \A i \in 1..Len(script) : script[i].io # "publish"
  BY DEF Free
<1> QED BY <1>1 DEF FeedTells

\* The next effect of a script.
LEMMA EffectTells == ASSUME TypeOK, FeedTells, RunEffect PROVE FeedTells'
<1>1. /\ script \in Seq(Effects) /\ script # <<>> /\ script' = Tail(script)
      /\ up' = up /\ up /\ goal' = goal
  BY DEF RunEffect, TypeOK
<1>2. /\ Len(script) \in Nat \ {0} /\ Len(script') = Len(script) - 1
      /\ \A i \in 1..Len(script') : script'[i] = script[i + 1]
      /\ Head(script) = script[1]
  BY <1>1
<1>3. \A i \in 1..Len(script') :
        /\ script'[i].io = "publish"
        /\ \A j \in i + 1..Len(script') : script'[j].io # "publish"
        => script'[i].goal = Shown(goal)
  <2> SUFFICES ASSUME NEW i \in 1..Len(script'), script'[i].io = "publish",
                      \A j \in i + 1..Len(script') : script'[j].io # "publish"
               PROVE  script'[i].goal = Shown(goal)
    OBVIOUS
  <2>1. i + 1 \in 1..Len(script) /\ script[i + 1].io = "publish"
    BY <1>2
  <2>2. ASSUME NEW j \in i + 2..Len(script) PROVE script[j].io # "publish"
    <3>1. j - 1 \in i + 1..Len(script') /\ j - 1 \in 1..Len(script') /\ (j - 1) + 1 = j
      BY <1>2, <2>2
    <3> QED BY <1>2, <3>1
  <2>3. (i + 1) + 1..Len(script) = i + 2..Len(script)
    BY <1>2
  <2> QED BY <1>2, <2>1, <2>2, <2>3 DEF FeedTells
<1>4. ASSUME feed' # <<>>, \A i \in 1..Len(script') : script'[i].io # "publish"
      PROVE  feed'[1] = Shown(goal)
  <2>1. \A j \in 2..Len(script) : script[j].io # "publish"
    <3> SUFFICES ASSUME NEW j \in 2..Len(script) PROVE script[j].io # "publish"
      OBVIOUS
    <3>1. j - 1 \in 1..Len(script') /\ (j - 1) + 1 = j
      BY <1>2
    <3> QED BY <1>2, <1>4, <3>1
  <2>2. CASE Head(script).io = "publish"
    <3>1. feed' = <<Head(script).goal>> /\ 1 \in 1..Len(script) /\ 1 + 1..Len(script) = 2..Len(script)
      BY <1>2, <2>2 DEF RunEffect
    <3>2. Head(script).goal = Shown(goal)
      BY <1>2, <2>1, <2>2, <3>1 DEF FeedTells
    <3> QED BY <3>1, <3>2
  <2>3. CASE Head(script).io # "publish"
    <3>1. feed' = feed
      BY <2>3 DEF RunEffect
    <3>2. \A j \in 1..Len(script) : script[j].io # "publish"
      BY <1>2, <2>1, <2>3
    <3> QED BY <1>4, <3>1, <3>2 DEF FeedTells
  <2> QED BY <2>2, <2>3
<1> QED BY <1>1, <1>3, <1>4 DEF FeedTells

\* The changes: an event that shows the new goal, then the record.
LEMMA ChangeTells ==
  ASSUME Free, NEW st, NEW kind, NEW rec, Change(st, kind, rec) PROVE FeedTells'
<1>1. /\ script' = <<Publish(st, kind, "none"), Append1(rec)>> /\ goal' = st /\ up'
  BY DEF Change, Free
<1>2. /\ Len(script') = 2 /\ script'[1].io = "publish" /\ script'[1].goal = Shown(goal')
      /\ script'[2].io # "publish"
  BY <1>1 DEF Publish, Append1
<1>3. \A j \in 1 + 1..Len(script') : script'[j].io # "publish"
  BY <1>2
<1> QED BY <1>1, <1>2, <1>3, LastIsTold

LEMMA ClearTells ==
  ASSUME Free, NEW change, NEW actor, Clear(change, actor) PROVE FeedTells'
<1>1. /\ script' = <<Publish(NoGoal, change, actor), Append1(ClearRecord)>>
      /\ goal' = NoGoal /\ up'
  BY DEF Clear, ClearScript, Free
<1>2. /\ Len(script') = 2 /\ script'[1].io = "publish" /\ script'[1].goal = Shown(goal')
      /\ script'[2].io # "publish"
  BY <1>1 DEF Publish, Append1, Shown
<1>3. \A j \in 1 + 1..Len(script') : script'[j].io # "publish"
  BY <1>2
<1> QED BY <1>1, <1>2, <1>3, LastIsTold

LEMMA CloseTells == ASSUME up', Close PROVE FeedTells'
<1> DEFINE done == ApplyStatus(goal, "complete")
<1>1. /\ goal' = NoGoal
      /\ script' = <<Append1(Patch("status", "complete")), Publish(done, "completion", "none"),
                     Publish(NoGoal, "none", "none"), Append1(ClearRecord)>>
  BY DEF Close
<1> HIDE DEF done
<1>2. /\ Len(script') = 4 /\ script'[3] = Publish(NoGoal, "none", "none")
      /\ script'[4] = Append1(ClearRecord)
  BY <1>1
<1>3. /\ script'[3].io = "publish" /\ script'[3].goal = Shown(goal')
      /\ script'[4].io # "publish"
  BY <1>1, <1>2 DEF Publish, Append1, Shown
<1>4. \A j \in 3 + 1..Len(script') : script'[j].io # "publish"
  BY <1>2, <1>3
<1> QED BY <1>2, <1>3, <1>4, LastIsTold

LEMMA CreateTells ==
  ASSUME NEW g, NEW input, NEW actor, NEW replace, CreateGoal(g, input, actor, replace)
  PROVE  FeedTells'
<1> DEFINE new == Sanitize(input, actor)
           st == NewStage(g, new, DefaultTurnBudget)
<1>1. /\ goal' = st /\ up'
      /\ script' = IF goal = NoGoal
                   THEN <<Publish(st, "none", "none"), Append1(CreateRecord(g, new))>>
                   ELSE <<Publish(NoGoal, "none", "none"), Append1(ClearRecord),
                          Publish(st, "none", "none"), Append1(CreateRecord(g, new))>>
  BY DEF CreateGoal, Free
<1> HIDE DEF new, st
<1>2. CASE goal = NoGoal
  <2>1. /\ Len(script') = 2 /\ script'[1] = Publish(st, "none", "none")
        /\ script'[2] = Append1(CreateRecord(g, new))
    BY <1>1, <1>2
  <2>2. /\ script'[1].io = "publish" /\ script'[1].goal = Shown(goal')
        /\ script'[2].io # "publish"
    BY <1>1, <2>1 DEF Publish, Append1
  <2>3. \A j \in 1 + 1..Len(script') : script'[j].io # "publish"
    BY <2>1, <2>2
  <2> QED BY <1>1, <2>1, <2>2, <2>3, LastIsTold
<1>3. CASE goal # NoGoal
  <2>1. /\ Len(script') = 4 /\ script'[3] = Publish(st, "none", "none")
        /\ script'[4] = Append1(CreateRecord(g, new))
    BY <1>1, <1>3
  <2>2. /\ script'[3].io = "publish" /\ script'[3].goal = Shown(goal')
        /\ script'[4].io # "publish"
    BY <1>1, <2>1 DEF Publish, Append1
  <2>3. \A j \in 3 + 1..Len(script') : script'[j].io # "publish"
    BY <2>1, <2>2
  <2> QED BY <1>1, <2>1, <2>2, <2>3, LastIsTold
<1> QED BY <1>2, <1>3

\* The one event of NotifyGoalChanged.
LEMMA NotifyTells == ASSUME NotifyGoalChanged PROVE FeedTells'
<1>1. script' = <<Publish(goal, "none", "none")>> /\ goal' = goal /\ up'
  BY DEF NotifyGoalChanged, Free
<1>2. Len(script') = 1 /\ script'[1].io = "publish" /\ script'[1].goal = Shown(goal')
  BY <1>1 DEF Publish
<1>3. \A j \in 1 + 1..Len(script') : script'[j].io # "publish"
  BY <1>2
<1> QED BY <1>1, <1>2, <1>3, LastIsTold

\* Every visible change is told, and what is not told is not visible.
LEMMA FeedStep == TypeOK /\ FeedTells /\ [Next]_vars => FeedTells'
<1> SUFFICES ASSUME TypeOK, FeedTells, [Next]_vars PROVE FeedTells'
  OBVIOUS
<1>a. goal # NoGoal => goal \in Stage
  BY DEF TypeOK
<1>1. CASE RunEffect
  BY <1>1, EffectTells
<1>2. CASE Lifecycle
  <2>1. CASE NotifyGoalChanged
    BY <2>1, NotifyTells
  <2>2. CASE PauseGoal \/ ResumeGoal \/ MarkBlocked
    BY <2>2, ChangeTells DEF PauseGoal, ResumeGoal, MarkBlocked, Move, Active, Current
  <2>3. CASE \/ CreateGoalRejected \/ CleanupExpired
             \/ (\E actor \in {"user", "model", "runtime"} : CancelGoal(actor))
             \/ (\E g \in Goals : CancelGoalByID(g, "runtime"))
    BY <2>3, ClearTells DEF CreateGoalRejected, CleanupExpired, CancelGoal, CancelGoalByID, Current
  <2>4. CASE MarkComplete
    BY <2>4, CloseTells DEF MarkComplete, Active, Current, Free
  <2>5. CASE \E g \in Goals, input \in Inputs, actor \in {"user", "runtime"},
                replace \in BOOLEAN : CreateGoal(g, input, actor, replace)
    BY <2>5, CreateTells
  <2> QED BY <1>2, <2>1, <2>2, <2>3, <2>4, <2>5 DEF Lifecycle
<1>3. CASE Progress
  <2>1. CASE RecordTokenUsage
    <3>1. /\ Free /\ up' /\ feed' = feed /\ goal # NoGoal
          /\ goal' = [goal EXCEPT !.tokens = @ + 1]
          /\ script' = <<Append1(Patch("tokens", goal.tokens + 1))>>
      BY <2>1 DEF RecordTokenUsage, Active, Current, Free
    <3>2. Shown(goal') = Shown(goal)
      <4>1. goal' \in Stage
        BY <1>a, <3>1 DEF Stage
      <4> QED BY <1>a, <3>1, <4>1, StageNotNil DEF Shown, Stage
    <3>3. \A i \in 1..Len(script') : script'[i].io # "publish"
      BY <3>1 DEF Append1
    <3> QED BY <3>1, <3>2, <3>3, NothingToTell
  <2>2. CASE IncrementTurn
    BY <2>2, ChangeTells DEF IncrementTurn, Active, Current
  <2>3. ASSUME NEW armed \in BOOLEAN, SetPauseAfterComplete(armed) PROVE FeedTells'
    BY <2>3, ChangeTells DEF SetPauseAfterComplete, Current
  <2>4. ASSUME NEW turn \in Budgets, NEW token \in Budgets, SetBudgetLimits(turn, token)
        PROVE  FeedTells'
    BY <2>4, ChangeTells DEF SetBudgetLimits, Current
  <2> QED BY <1>3, <2>1, <2>2, <2>3, <2>4 DEF Progress
<1>4. CASE Todos
  <2>1. Free /\ \E t : SetTodos(t)
    BY <1>4 DEF Todos, AddGoalTodo, UpdateGoalTodo, RenameGoalTodo, RemoveGoalTodo, Current
  <2> QED BY <2>1, ChangeTells DEF SetTodos
<1>5. CASE Gate
  <2>1. CASE RequestCompleteUngated
    BY <2>1, CloseTells DEF RequestCompleteUngated, Active, Current, Free
  <2>2. CASE Challenge
    <3>1. /\ Free /\ up' /\ feed' = feed /\ goal # NoGoal /\ script' = <<>>
          /\ goal' = [goal EXCEPT !.pending = TRUE]
      BY <2>2 DEF Challenge, Active, Current, Free
    <3>2. goal' \in Stage
      BY <1>a, <3>1 DEF Stage
    <3>3. Shown(goal') = Shown(goal)
      BY <1>a, <3>1, <3>2, StageNotNil DEF Shown, Stage
    <3> QED BY <3>1, <3>3, NothingToTell
  <2>3. ASSUME NEW r \in Requests, BeginCompletion(r) \/ RunVerification(r) PROVE FeedTells'
    BY <2>3 DEF BeginCompletion, RunVerification, FeedTells
  <2>4. ASSUME NEW r \in Requests, FinishCompletion(r) PROVE FeedTells'
    <3>1. CASE Active
      BY <2>4, <3>1, CloseTells DEF FinishCompletion, Free
    <3>2. CASE ~Active
      BY <2>4, <3>2 DEF FinishCompletion, FeedTells
    <3> QED BY <3>1, <3>2
  <2>5. ASSUME NEW r \in Requests, FailCompletion(r) PROVE FeedTells'
    <3>1. CASE ~Active
      BY <2>5, <3>1 DEF FailCompletion, FeedTells
    <3>2. CASE Active /\ MaxVerifyFailures > 0 /\ goal.failures + 1 >= MaxVerifyFailures
      <4> DEFINE st == ApplyStatus(Strike(goal), "blocked")
      <4>1. /\ goal' = st /\ up'
            /\ script' = <<Publish(st, "lifecycle", "none"), Append1(Patch("status", "blocked"))>>
        BY <2>5, <3>2 DEF FailCompletion, Free
      <4> HIDE DEF st
      <4>2. /\ Len(script') = 2 /\ script'[1].io = "publish" /\ script'[1].goal = Shown(goal')
            /\ script'[2].io # "publish"
        BY <4>1 DEF Publish, Append1
      <4>3. \A j \in 1 + 1..Len(script') : script'[j].io # "publish"
        BY <4>2
      <4> QED BY <4>1, <4>2, <4>3, LastIsTold
    <3>3. CASE Active /\ ~(MaxVerifyFailures > 0 /\ goal.failures + 1 >= MaxVerifyFailures)
      <4>1. /\ Free /\ up' /\ feed' = feed /\ goal # NoGoal /\ script' = <<>>
            /\ goal' = [goal EXCEPT !.failures = @ + 1]
        BY <2>5, <3>3 DEF FailCompletion, Strike, Active, Current, Free
      <4>2. goal' \in Stage
        BY <1>a, <4>1 DEF Stage
      <4>3. Shown(goal') = Shown(goal)
        BY <1>a, <4>1, <4>2, StageNotNil DEF Shown, Stage
      <4> QED BY <4>1, <4>3, NothingToTell
    <3> QED BY <3>1, <3>2, <3>3
  <2> QED BY <1>5, <2>1, <2>2, <2>3, <2>4, <2>5 DEF Gate
<1>6. CASE Crash
  BY <1>6 DEF Crash, FeedTells
<1>7. CASE Replay
  <2>1. feed' = <<>> /\ up'
    BY <1>7 DEF Replay, FeedTells
  <2>2. \A i \in 1..Len(script') : script'[i].io # "publish"
    BY <1>7 DEF Replay, Append1
  <2> QED BY <2>1, <2>2 DEF FeedTells
<1>8. CASE UNCHANGED vars
  BY <1>8 DEF vars, FeedTells
<1> QED BY <1>1, <1>2, <1>3, <1>4, <1>5, <1>6, <1>7, <1>8 DEF Next

\* Whenever the mutex is free, the snapshot last handed to the event publisher is
\* the goal as it is in memory, with no operation left out; whether the publisher
\* delivers it in that order is not said here.
THEOREM FeedFreshHolds == Spec => []FeedFresh
<1>1. Init => FeedTells
  BY DEF Init, FeedTells
<1>2. FeedTells => FeedFresh
  BY DEF FeedTells, FeedFresh, Free
<1> QED BY <1>1, <1>2, FeedStep, TypeCorrect, PTL DEF Spec

-----------------------------------------------------------------------------
(* What a record does to the agreement of log and memory *)

\* The record holds what st has in its group of fields.
Carries(rec, st) ==
  /\ rec.field = "status" => rec.value = st.status
  /\ rec.field = "turns" => rec.value = st.turns
  /\ rec.field = "tokens" => rec.value = st.tokens
  /\ rec.field = "pauseNext" => rec.value = st.pauseNext
  /\ rec.field = "todos" => rec.value = st.todos
  /\ rec.field = "budget" => rec.value.turn = st.turnBudget /\ rec.value.token = st.tokenBudget

\* Memory moves from old to st in one group of fields: the record of it brings
\* the log along, and without the record the log lacks that group and no other.
LEMMA UpdateRecovers ==
  ASSUME TypeOK, NEW old \in Stage, NEW st \in Stage, NEW rec \in Updates,
         Recovers(durable, old, stale), Alters(old, st, rec.field), Carries(rec, st)
  PROVE  /\ Recovers(Restored(durable, rec), st, AfterTake(rec))
         /\ Recovers(durable, st, AfterMiss(rec))
<1>1. /\ rec.type = "update" /\ rec.field \in Fields /\ "goal" \notin Fields
      /\ AfterTake(rec) = stale \ {rec.field} /\ AfterMiss(rec) = stale \cup {rec.field}
  BY DEF Updates, Fields, AfterTake, AfterMiss, Group
<1>2. CASE "goal" \in stale
  BY <1>1, <1>2 DEF Recovers
<1>3. CASE "goal" \notin stale
  <2>1. durable \in Stage /\ durable # NoGoal /\ SameGoal(durable, old, stale) /\ st # NoGoal
    BY <1>3, StageNotNil DEF Recovers, TypeOK
  <2>2. Restored(durable, rec) = RestoreUpdate(durable, rec)
    BY <1>1, <2>1 DEF Restored
  <2>3. RestoreUpdate(durable, rec) \in Stage
    BY <2>1 DEF RestoreUpdate, Updates, Stage
  <2>4. DOMAIN st.todos = {} => st.todos = NoTodos
    BY DEF NoTodos, TodoLists, Stage
  <2>5. SameGoal(durable, st, AfterMiss(rec))
    BY <1>1, <2>1 DEF SameGoal, Alters, Fields
  <2>6. SameGoal(RestoreUpdate(durable, rec), st, AfterTake(rec))
    <3> DEFINE new == RestoreUpdate(durable, rec)
    <3>1. CASE rec.field = "status"
      <4>1. new = [durable EXCEPT !.status = rec.value]
        BY <3>1 DEF RestoreUpdate
      <4> QED BY <1>1, <2>1, <3>1, <4>1 DEF SameGoal, Alters, Carries, Stage
    <3>2. CASE rec.field = "turns"
      <4>1. new = [durable EXCEPT !.turns = rec.value]
        BY <3>2 DEF RestoreUpdate
      <4> QED BY <1>1, <2>1, <3>2, <4>1 DEF SameGoal, Alters, Carries, Stage
    <3>3. CASE rec.field = "tokens"
      <4>1. new = [durable EXCEPT !.tokens = rec.value]
        BY <3>3 DEF RestoreUpdate
      <4> QED BY <1>1, <2>1, <3>3, <4>1 DEF SameGoal, Alters, Carries, Stage
    <3>4. CASE rec.field = "pauseNext"
      <4>1. new = [durable EXCEPT !.pauseNext = rec.value]
        BY <3>4 DEF RestoreUpdate
      <4> QED BY <1>1, <2>1, <3>4, <4>1 DEF SameGoal, Alters, Carries, Stage
    <3>5. CASE rec.field = "todos"
      <4>1. new = IF DOMAIN rec.value = {} THEN durable ELSE [durable EXCEPT !.todos = rec.value]
        BY <3>5 DEF RestoreUpdate
      <4> QED BY <1>1, <2>1, <2>4, <3>5, <4>1 DEF SameGoal, Alters, Carries, Stage
    <3>6. CASE rec.field = "budget"
      <4>1. new = [durable EXCEPT !.turnBudget = rec.value.turn, !.tokenBudget = rec.value.token]
        BY <3>6 DEF RestoreUpdate
      <4> QED BY <1>1, <2>1, <3>6, <4>1 DEF SameGoal, Alters, Carries, Stage
    <3> QED BY <1>1, <3>1, <3>2, <3>3, <3>4, <3>5, <3>6 DEF Fields
  <2> QED BY <2>1, <2>2, <2>3, <2>5, <2>6, StageNotNil DEF Recovers
<1> QED BY <1>2, <1>3

\* A create or a clear record says all there is to say.
LEMMA WholeRecord ==
  /\ \A log, st : Recovers(log, st, AfterMiss(ClearRecord))
  /\ Recovers(Restored(durable, ClearRecord), NoGoal, AfterTake(ClearRecord))
  /\ \A g \in Goals, input \in CreateInput :
       /\ Recovers(Restored(durable, CreateRecord(g, input)), NewStage(g, input, DefaultTurnBudget),
                   AfterTake(CreateRecord(g, input)))
       /\ \A log, st : Recovers(log, st, AfterMiss(CreateRecord(g, input)))
<1>1. /\ ClearRecord.type = "clear" /\ Group(ClearRecord) = "goal"
      /\ Restored(durable, ClearRecord) = NoGoal
  BY DEF ClearRecord, Group, Restored
<1>2. ASSUME NEW g \in Goals, NEW input \in CreateInput
      PROVE  /\ Recovers(Restored(durable, CreateRecord(g, input)),
                         NewStage(g, input, DefaultTurnBudget), AfterTake(CreateRecord(g, input)))
             /\ \A log, st : Recovers(log, st, AfterMiss(CreateRecord(g, input)))
  <2>1. CreateRecord(g, input).type = "create" /\ Group(CreateRecord(g, input)) = "goal"
    BY DEF CreateRecord, Group
  <2>2. Restored(durable, CreateRecord(g, input)) = NewStage(g, input, NoLimit)
    BY DEF Restored, CreateRecord
  <2>3. /\ NewStage(g, input, NoLimit) # NoGoal
        /\ NewStage(g, input, DefaultTurnBudget) # NoGoal
    BY NewStageType, StageNotNil, ConstantsOK DEF Limits
  <2>4. SameGoal(NewStage(g, input, NoLimit), NewStage(g, input, DefaultTurnBudget), {})
    BY DEF SameGoal, NewStage
  <2> QED BY <2>1, <2>2, <2>3, <2>4 DEF Recovers, AfterTake, AfterMiss
<1> QED BY <1>1, <1>2 DEF Recovers, AfterTake, AfterMiss

-----------------------------------------------------------------------------
(* One lemma per shape of script an operation can leave behind *)

\* What an operation leaves to its effects: the log, and what is known of it.
LogStays ==
  /\ durable' = durable /\ stale' = stale
  /\ minted' = minted /\ announced' = announced /\ retired' = retired

\* With nothing pending, no announced goal stands in the log.
LEMMA FreeIsSettled ==
  ASSUME IInv, script = <<>>, up
  PROVE  durable # NoGoal => durable.id \notin announced
<1>1. Len(script) = 0
  OBVIOUS
<1> QED BY <1>1 DEF IInv, CompleteLeaves

\* An update: published or silent, then appended.
LEMMA OneUpdate ==
  ASSUME IInv, TypeOK', up', LogStays,
         NEW st \in Stage, NEW rec \in Updates, NEW ev,
         ev.io = "publish", ev.change # "completion",
         goal' = st, script' \in {<<ev, Append1(rec)>>, <<Append1(rec)>>},
         st.id \in minted \ announced,
         durable # NoGoal => durable.id \notin announced,
         Recovers(Restored(durable, rec), st, AfterTake(rec)),
         Recovers(durable, st, AfterMiss(rec)),
         rec.field = "status" /\ ~Lossy =>
           durable # NoGoal /\ LegalMove(durable.status, rec.value)
  PROVE  IInv'
<1>1. rec.type = "update"
  BY DEF Updates
<1>2. st # NoGoal
  BY StageNotNil
<1>3. Identities' /\ AnnouncedIsFinal' /\ CompleteLeaves' /\ DownIsBlank'
  BY <1>2 DEF IInv, Identities, AnnouncedIsFinal, CompleteLeaves, DownIsBlank, LogStays
<1>4. CASE script' = <<ev, Append1(rec)>>
  <2>1. /\ Len(script') = 2 /\ script' # <<>>
        /\ script'[1] = ev /\ script'[2] = Append1(rec)
    BY <1>4
  <2>2. /\ script'[1].io = "publish" /\ script'[1].change # "completion"
        /\ script'[2].io = "append" /\ script'[2].rec = rec
    BY <2>1 DEF Append1
  <2>3. ScriptCatchesUp'
    BY <1>1, <2>1, <2>2 DEF ScriptCatchesUp, LastEffect, LogStays, AfterTake, AfterMiss
  <2>4. ScriptOrder' /\ ScriptMoves' /\ ScriptAnnounces'
    BY <1>1, <1>2, <2>1, <2>2
    DEF ScriptOrder, ScriptMoves, ScriptAnnounces, IsAppend, IsStatus, Lossy, LogStays
  <2> QED BY <1>3, <2>3, <2>4 DEF IInv
<1>5. CASE script' = <<Append1(rec)>>
  <2>1. /\ Len(script') = 1 /\ script' # <<>> /\ script'[1] = Append1(rec)
    BY <1>5
  <2>2. script'[1].io = "append" /\ script'[1].rec = rec
    BY <2>1 DEF Append1
  <2>3. ScriptCatchesUp'
    BY <1>1, <2>1, <2>2 DEF ScriptCatchesUp, LastEffect, LogStays, AfterTake, AfterMiss
  <2>4. ScriptOrder' /\ ScriptMoves' /\ ScriptAnnounces'
    BY <1>1, <1>2, <2>1, <2>2
    DEF ScriptOrder, ScriptMoves, ScriptAnnounces, IsAppend, IsStatus, Lossy, LogStays
  <2> QED BY <1>3, <2>3, <2>4 DEF IInv
<1> QED BY <1>4, <1>5

\* A clear, published or silent.
LEMMA OneClear ==
  ASSUME IInv, TypeOK', up', LogStays, NEW ev,
         ev.io = "publish", ev.change # "completion",
         goal' = NoGoal, script' \in {<<ev, Append1(ClearRecord)>>, <<Append1(ClearRecord)>>}
  PROVE  IInv'
<1>1. ClearRecord.type = "clear"
  BY DEF ClearRecord
<1>2. Identities' /\ AnnouncedIsFinal' /\ DownIsBlank'
  BY DEF IInv, Identities, AnnouncedIsFinal, DownIsBlank, LogStays
<1>3. CASE script' = <<ev, Append1(ClearRecord)>>
  <2>1. /\ Len(script') = 2 /\ script' # <<>>
        /\ script'[1] = ev /\ script'[2] = Append1(ClearRecord)
    BY <1>3
  <2>2. /\ script'[1].io = "publish" /\ script'[1].change # "completion"
        /\ script'[2].io = "append" /\ script'[2].rec = ClearRecord
    BY <2>1 DEF Append1
  <2>3. ScriptCatchesUp'
    BY <2>1, <2>2, WholeRecord DEF ScriptCatchesUp, LastEffect, LogStays, AfterTake, AfterMiss
  <2>4. ScriptOrder' /\ ScriptMoves' /\ ScriptAnnounces' /\ CompleteLeaves'
    BY <1>1, <2>1, <2>2
    DEF ScriptOrder, ScriptMoves, ScriptAnnounces, CompleteLeaves, IsAppend, IsStatus
  <2> QED BY <1>2, <2>3, <2>4 DEF IInv
<1>4. CASE script' = <<Append1(ClearRecord)>>
  <2>1. /\ Len(script') = 1 /\ script' # <<>> /\ script'[1] = Append1(ClearRecord)
    BY <1>4
  <2>2. script'[1].io = "append" /\ script'[1].rec = ClearRecord
    BY <2>1 DEF Append1
  <2>3. ScriptCatchesUp'
    BY <2>1, <2>2, WholeRecord DEF ScriptCatchesUp, LastEffect, LogStays, AfterTake, AfterMiss
  <2>4. ScriptOrder' /\ ScriptMoves' /\ ScriptAnnounces' /\ CompleteLeaves'
    BY <1>1, <2>1, <2>2
    DEF ScriptOrder, ScriptMoves, ScriptAnnounces, CompleteLeaves, IsAppend, IsStatus
  <2> QED BY <1>2, <2>3, <2>4 DEF IInv
<1> QED BY <1>3, <1>4

\* A completion: status record, announcement, clear event, clear record.
LEMMA CloseKeeps ==
  ASSUME IInv, TypeOK', Active, Close, up' = up, LogStays
  PROVE  IInv'
<1>1. /\ goal \in Stage /\ goal # NoGoal /\ script = <<>> /\ up /\ goal.status = "active"
      /\ goal.id \in minted
  BY DEF IInv, TypeOK, Identities, Active, Current, Free
<1>2. Recovers(durable, goal, stale) /\ (durable # NoGoal => durable.id \notin announced)
  BY <1>1, FreeIsSettled DEF IInv, ScriptCatchesUp
<1>3. ~Lossy => durable # NoGoal /\ durable.status = "active"
  BY <1>1, <1>2 DEF Recovers, SameGoal, Lossy
<1> DEFINE done == ApplyStatus(goal, "complete")
           status == Patch("status", "complete")
<1>4. done \in Stage /\ done.id = goal.id
  BY <1>1, ApplyStatusType DEF Statuses, Alters
<1>5. Shown(done).id = goal.id /\ Shown(done) \in Views
  BY <1>4, ShownType
<1>6. Shown(done) # NoGoal
  BY <1>5, ConstantsOK
<1>7. /\ status.type = "update" /\ status.field = "status" /\ status.value = "complete"
      /\ ClearRecord.type = "clear"
  BY DEF Patch, ClearRecord
<1>8. /\ Len(script') = 4 /\ script' # <<>> /\ goal' = NoGoal
      /\ script'[1] = Append1(status)
      /\ script'[2] = Publish(done, "completion", "none")
      /\ script'[3] = Publish(NoGoal, "none", "none")
      /\ script'[4] = Append1(ClearRecord)
  BY DEF Close
<1>9. /\ script'[1].io = "append" /\ script'[1].rec = status
      /\ script'[2].io = "publish" /\ script'[2].change = "completion"
      /\ script'[2].goal = Shown(done)
      /\ script'[3].io = "publish" /\ script'[3].change = "none"
      /\ script'[4].io = "append" /\ script'[4].rec = ClearRecord
  BY <1>8 DEF Append1, Publish
<1> HIDE DEF done, status
<1>10. ScriptCatchesUp'
  BY <1>1, <1>8, <1>9, WholeRecord DEF ScriptCatchesUp, LastEffect, LogStays, AfterTake, AfterMiss
<1>11. ScriptOrder'
  BY <1>7, <1>8, <1>9 DEF ScriptOrder, IsAppend
<1>12. ScriptMoves'
  BY <1>3, <1>7, <1>8, <1>9 DEF ScriptMoves, IsAppend, IsStatus, LegalMove, Lossy, LogStays
<1>13. ScriptAnnounces'
  <2>1. \A i \in 1..4 : script'[i].io = "publish" /\ script'[i].change = "completion" => i = 2
    BY <1>9
  <2> QED BY <1>1, <1>5, <1>6, <1>7, <1>8, <1>9, <2>1
          DEF ScriptAnnounces, IsAppend, IsStatus, LogStays
<1>14. Identities' /\ AnnouncedIsFinal' /\ CompleteLeaves' /\ DownIsBlank'
  BY <1>1, <1>2, <1>8
  DEF IInv, Identities, AnnouncedIsFinal, CompleteLeaves, DownIsBlank, LogStays
<1> QED BY <1>10, <1>11, <1>12, <1>13, <1>14 DEF IInv

\* A creation, with or without the removal of the goal it replaces.
LEMMA CreateKeeps ==
  ASSUME IInv, TypeOK', NEW g \in Goals, NEW input \in Inputs, NEW actor, NEW replace,
         CreateGoal(g, input, actor, replace)
  PROVE  IInv'
<1> DEFINE new == Sanitize(input, actor)
           st == NewStage(g, new, DefaultTurnBudget)
           rec == CreateRecord(g, new)
<1>1. new \in CreateInput
  BY ConstantsOK DEF Sanitize, CreateInput, Kinds
<1>2. st \in Stage /\ st.id = g
  BY <1>1, ConstantsOK, NewStageType DEF NewStage
<1>3. st # NoGoal
  BY <1>2, StageNotNil
<1>4. rec.type = "create" /\ rec.id = g /\ ClearRecord.type = "clear"
  BY DEF CreateRecord, ClearRecord
<1>5. /\ Recovers(Restored(durable, rec), st, AfterTake(rec))
      /\ Recovers(durable, st, AfterMiss(rec))
  BY <1>1, WholeRecord
<1>6. /\ goal' = st /\ up' = up /\ up /\ durable' = durable /\ stale' = stale
      /\ minted' = minted \cup {g}
      /\ announced' = announced /\ retired' = retired /\ g \notin minted /\ script = <<>>
      /\ script' = IF goal = NoGoal
                   THEN <<Publish(st, "none", "none"), Append1(rec)>>
                   ELSE <<Publish(NoGoal, "none", "none"), Append1(ClearRecord),
                          Publish(st, "none", "none"), Append1(rec)>>
  BY DEF CreateGoal, Free, Ghosts
<1>7. Recovers(durable, goal, stale) /\ (durable # NoGoal => durable.id \notin announced)
  BY <1>6, FreeIsSettled DEF IInv, ScriptCatchesUp
<1>8. g \notin retired /\ g \notin announced /\ (durable # NoGoal => durable.id # g)
  BY <1>6 DEF IInv, Identities
<1> HIDE DEF st, rec, new
<1>9. Identities' /\ AnnouncedIsFinal' /\ CompleteLeaves' /\ DownIsBlank'
  BY <1>2, <1>3, <1>6, <1>7, <1>8
  DEF IInv, Identities, AnnouncedIsFinal, CompleteLeaves, DownIsBlank
<1>10. CASE goal = NoGoal
  <2>1. durable = NoGoal \/ "goal" \in stale
    BY <1>7, <1>10 DEF Recovers
  <2>2. /\ Len(script') = 2 /\ script' # <<>>
        /\ script'[1] = Publish(st, "none", "none") /\ script'[2] = Append1(rec)
    BY <1>6, <1>10
  <2>3. /\ script'[1].io = "publish" /\ script'[1].change = "none"
        /\ script'[2].io = "append" /\ script'[2].rec = rec
    BY <2>2 DEF Append1, Publish
  <2>4. ScriptCatchesUp'
    BY <1>5, <1>6, <2>2, <2>3 DEF ScriptCatchesUp, LastEffect, AfterTake, AfterMiss
  <2>5. ScriptOrder' /\ ScriptMoves' /\ ScriptAnnounces'
    BY <1>2, <1>3, <1>4, <1>6, <1>8, <2>1, <2>2, <2>3
    DEF ScriptOrder, ScriptMoves, ScriptAnnounces, IsAppend, IsStatus
  <2> QED BY <1>9, <2>4, <2>5 DEF IInv
<1>11. CASE goal # NoGoal
  <2>1. /\ Len(script') = 4 /\ script' # <<>>
        /\ script'[1] = Publish(NoGoal, "none", "none") /\ script'[2] = Append1(ClearRecord)
        /\ script'[3] = Publish(st, "none", "none") /\ script'[4] = Append1(rec)
    BY <1>6, <1>11
  <2>2. /\ script'[1].io = "publish" /\ script'[1].change = "none"
        /\ script'[2].io = "append" /\ script'[2].rec = ClearRecord
        /\ script'[3].io = "publish" /\ script'[3].change = "none"
        /\ script'[4].io = "append" /\ script'[4].rec = rec
    BY <2>1 DEF Append1, Publish
  <2>3. ScriptCatchesUp'
    BY <1>5, <1>6, <2>1, <2>2 DEF ScriptCatchesUp, LastEffect, AfterTake, AfterMiss, Restored
  <2>4. ScriptOrder'
    BY <1>2, <1>3, <1>4, <1>6, <1>8, <2>1, <2>2 DEF ScriptOrder, IsAppend
  <2>5. ScriptMoves' /\ ScriptAnnounces'
    BY <1>4, <2>1, <2>2 DEF ScriptMoves, ScriptAnnounces, IsAppend, IsStatus
  <2> QED BY <1>9, <2>3, <2>4, <2>5 DEF IInv
<1> QED BY <1>10, <1>11

-----------------------------------------------------------------------------
(* Making an effect *)

\* The script shrinks from the front.
LEMMA TailOfScript ==
  ASSUME script \in Seq(Effects), script # <<>>, script' = Tail(script)
  PROVE  /\ Len(script) \in Nat \ {0} /\ Len(script') = Len(script) - 1
         /\ Head(script) = script[1]
         /\ \A i \in 1..Len(script') : script'[i] = script[i + 1]
         /\ script' # <<>> <=> Len(script) > 1
         /\ \A i \in 1..Len(script) : script[i] \in Effects
OBVIOUS

\* Publishing moves the feed and nothing the log depends on.
LEMMA PublishKeeps ==
  ASSUME IInv, TypeOK', RunEffect, Head(script).io = "publish"
  PROVE  IInv'
<1>1. script \in Seq(Effects) /\ script # <<>> /\ script' = Tail(script) /\ up
  BY DEF IInv, TypeOK, RunEffect
<1>2. /\ Len(script) \in Nat \ {0} /\ Len(script') = Len(script) - 1
      /\ Head(script) = script[1] /\ script[1].io = "publish"
      /\ \A i \in 1..Len(script') : script'[i] = script[i + 1]
      /\ script' # <<>> <=> Len(script) > 1
  BY <1>1, TailOfScript
<1>3. /\ durable' = durable /\ retired' = retired /\ stale' = stale
      /\ goal' = goal /\ minted' = minted /\ up' = up
      /\ announced' = IF script[1].change = "completion" /\ "status" \notin stale
                      THEN announced \cup {script[1].goal.id} ELSE announced
  BY <1>2 DEF RunEffect
<1>4. ScriptCatchesUp'
  <2>1. CASE Len(script) = 1
    BY <1>1, <1>2, <1>3, <2>1 DEF IInv, ScriptCatchesUp, LastEffect
  <2>2. CASE Len(script) > 1
    <3>1. script'[Len(script')] = script[Len(script)]
      BY <1>2, <2>2
    <3>2. /\ LastEffect.io = "append" =>
               /\ Recovers(Restored(durable, LastEffect.rec), goal, AfterTake(LastEffect.rec))
               /\ Recovers(durable, goal, AfterMiss(LastEffect.rec))
          /\ LastEffect.io # "publish"
      BY <1>1, <2>2 DEF IInv, ScriptCatchesUp
    <3> QED BY <1>1, <1>2, <1>3, <2>2, <3>1, <3>2
            DEF ScriptCatchesUp, LastEffect, AfterTake, AfterMiss
  <2> QED BY <1>2, <2>1, <2>2
<1>5. ScriptOrder'
  <2> SUFFICES ASSUME NEW i \in 1..Len(script')
               PROVE  /\ IsAppend(i, "create")' =>
                           /\ i = Len(script')
                           /\ goal' # NoGoal /\ goal'.id = script'[i].rec.id /\ goal'.id \notin retired'
                           /\ durable' # NoGoal => durable'.id # goal'.id
                           /\ \/ durable' = NoGoal \/ "goal" \in stale'
                              \/ \E j \in 1..i - 1 : IsAppend(j, "clear")'
                      /\ IsAppend(i, "update")' => \A j \in 1..i - 1 : script'[j].io = "publish"
    BY DEF ScriptOrder
  <2>1. i + 1 \in 1..Len(script) /\ script'[i] = script[i + 1]
    BY <1>2
  <2>2. ASSUME NEW j \in 1..i, IsAppend(j, "clear")
        PROVE  \E k \in 1..i - 1 : IsAppend(k, "clear")'
    <3>1. j # 1
      BY <1>2, <2>2 DEF IsAppend
    <3>2. j - 1 \in 1..i - 1 /\ script'[j - 1] = script[j]
      BY <1>2, <3>1
    <3> QED BY <2>2, <3>2 DEF IsAppend
  <2>3. ASSUME IsAppend(i + 1, "update"), NEW j \in 1..i - 1
        PROVE  script'[j].io = "publish"
    <3>1. j + 1 \in 1..(i + 1) - 1 /\ script'[j] = script[j + 1]
      BY <1>2
    <3> QED BY <2>1, <2>3, <3>1 DEF IInv, ScriptOrder
  <2> QED BY <1>2, <1>3, <2>1, <2>2, <2>3 DEF IInv, ScriptOrder, IsAppend
<1>6. ScriptMoves'
  BY <1>2, <1>3 DEF IInv, ScriptMoves, IsStatus, IsAppend, Lossy
<1>7. ScriptAnnounces'
  <2> SUFFICES ASSUME NEW i \in 1..Len(script'),
                      script'[i].io = "publish", script'[i].change = "completion"
               PROVE  FALSE
    BY DEF ScriptAnnounces
  <2>1. i + 1 \in 1..Len(script) /\ script'[i] = script[i + 1]
    BY <1>2
  <2>2. i + 1 = 2 /\ IsStatus(1)
    BY <2>1 DEF IInv, ScriptAnnounces
  <2> QED BY <1>2, <2>2 DEF IsStatus, IsAppend
\* What is known of a completion that is published now.
<1>8. ASSUME script[1].change = "completion", "status" \notin stale
      PROVE  /\ goal = NoGoal /\ script[1].goal.id \in minted
             /\ Len(script) = 3 /\ script[2].io = "publish" /\ IsAppend(3, "clear")
             /\ durable # NoGoal /\ durable.id = script[1].goal.id => durable.status = "complete"
  BY <1>2, <1>8 DEF IInv, ScriptAnnounces, IsStatus, IsAppend
<1>9. CompleteLeaves'
  <2> SUFFICES ASSUME durable # NoGoal, durable.id \in announced'
               PROVE  \E i \in 1..Len(script') :
                        IsAppend(i, "clear")' /\ \A j \in 1..i - 1 : script'[j].io = "publish"
    BY <1>3 DEF CompleteLeaves
  <2>1. CASE durable.id \in announced
    <3>1. PICK i \in 1..Len(script) :
            IsAppend(i, "clear") /\ \A j \in 1..i - 1 : script[j].io = "publish"
      BY <1>1, <2>1 DEF IInv, CompleteLeaves
    <3>2. i # 1
      BY <1>2, <3>1 DEF IsAppend
    <3>3. i - 1 \in 1..Len(script') /\ IsAppend(i - 1, "clear")'
      BY <1>2, <3>1, <3>2 DEF IsAppend
    <3>4. \A j \in 1..(i - 1) - 1 : script'[j].io = "publish"
      BY <1>2, <3>1, <3>2
    <3> QED BY <3>3, <3>4
  <2>2. CASE durable.id \notin announced
    <3>1. script[1].change = "completion" /\ "status" \notin stale
      BY <1>3, <2>2
    <3>2. 2 \in 1..Len(script') /\ script'[1] = script[2] /\ script'[2] = script[3]
      <4>0. Len(script) = 3
        BY <1>8, <3>1
      <4>1. Len(script') = 2 /\ 1 \in 1..2 /\ 2 \in 1..2 /\ 1 + 1 = 2 /\ 2 + 1 = 3
        BY <1>2, <4>0
      <4>2. \A i \in 1..2 : script'[i] = script[i + 1]
        BY <1>2, <4>1
      <4> QED BY <4>1, <4>2
    <3>3. IsAppend(2, "clear")' /\ \A j \in 1..2 - 1 : script'[j].io = "publish"
      BY <1>8, <3>1, <3>2 DEF IsAppend
    <3> QED BY <3>2, <3>3
  <2> QED BY <2>1, <2>2
<1>10. Identities' /\ AnnouncedIsFinal' /\ DownIsBlank'
  BY <1>1, <1>3, <1>8 DEF IInv, Identities, AnnouncedIsFinal, DownIsBlank
<1> QED BY <1>4, <1>5, <1>6, <1>7, <1>9, <1>10 DEF IInv

\* What the invariant says of a script that starts with a record.
LEMMA RecordAhead ==
  ASSUME IInv, script # <<>>, Head(script).io = "append", up
  PROVE  /\ script[1].rec \in Records
         /\ script[1].rec.type \in {"create", "clear", "update"}
         /\ \A i \in 2..Len(script) : ~IsAppend(i, "update")
         /\ Len(script) > 1 =>
              /\ script[1].rec.type # "create"
              /\ LastEffect.io = "append" /\ LastEffect.rec.type \in {"create", "clear"}
         /\ script[1].rec.type = "create" =>
              /\ script[1].rec.id = goal.id /\ goal # NoGoal /\ goal.id \notin retired
              /\ durable # NoGoal => durable.id # goal.id
              /\ durable = NoGoal \/ "goal" \in stale
         /\ durable # NoGoal /\ durable.id \in announced => script[1].rec.type = "clear"
<1>1. /\ Len(script) \in Nat \ {0} /\ Head(script) = script[1] /\ script[1].io = "append"
      /\ \A i \in 1..Len(script) : script[i] \in Effects
  BY DEF IInv, TypeOK
<1>2. \A i \in 1..Len(script) : script[i].io = "append" =>
        script[i].rec \in Records /\ script[i].rec.type \in {"create", "clear", "update"}
  BY <1>1 DEF Effects, Events, Records, Updates
<1>3. \A i \in 2..Len(script) : ~IsAppend(i, "update")
  BY <1>1 DEF IInv, ScriptOrder
<1>4. ASSUME script[1].rec.type = "create"
      PROVE  /\ Len(script) = 1
             /\ script[1].rec.id = goal.id /\ goal # NoGoal /\ goal.id \notin retired
             /\ durable # NoGoal => durable.id # goal.id
             /\ durable = NoGoal \/ "goal" \in stale
  <2>1. 1 \in 1..Len(script) /\ 1..1 - 1 = {} /\ IsAppend(1, "create")
    BY <1>1, <1>4 DEF IsAppend
  <2> QED BY <2>1 DEF IInv, ScriptOrder
<1>5. ASSUME Len(script) > 1
      PROVE  LastEffect.io = "append" /\ LastEffect.rec.type \in {"create", "clear"}
  <2>1. LastEffect.io # "publish"
    BY <1>1, <1>5 DEF IInv, ScriptCatchesUp
  <2>2. LastEffect \in Effects
    BY <1>1 DEF LastEffect
  <2>3. LastEffect.io = "append"
    BY <2>1, <2>2 DEF Effects, Events
  <2>4. LastEffect.rec.type \in {"create", "clear", "update"}
    BY <1>1, <1>2, <2>3 DEF LastEffect
  <2>5. ~IsAppend(Len(script), "update")
    BY <1>1, <1>3, <1>5
  <2> QED BY <2>3, <2>4, <2>5 DEF IsAppend, LastEffect
<1>6. ASSUME durable # NoGoal, durable.id \in announced
      PROVE  script[1].rec.type = "clear"
  <2>1. PICK i \in 1..Len(script) :
          IsAppend(i, "clear") /\ \A j \in 1..i - 1 : script[j].io = "publish"
    BY <1>6 DEF IInv, CompleteLeaves
  <2>2. i = 1
    BY <1>1, <2>1
  <2> QED BY <2>1, <2>2 DEF IsAppend
<1> QED BY <1>1, <1>2, <1>3, <1>4, <1>5, <1>6

\* What a record the file takes makes of the log.
LEMMA TakeMeans ==
  ASSUME IInv, script # <<>>, Head(script).io = "append", up, Take(script[1].rec)
  PROVE  /\ script[1].rec.type = "create" =>
              /\ durable' \in Stage /\ durable'.id = goal.id /\ durable'.status = "active"
         /\ script[1].rec.type = "clear" => durable' = NoGoal
         /\ script[1].rec.type = "update" =>
              /\ durable' = NoGoal <=> durable = NoGoal
              /\ durable # NoGoal =>
                   /\ durable'.id = durable.id
                   /\ durable'.status = IF script[1].rec.field = "status" THEN script[1].rec.value
                                        ELSE durable.status
<1> DEFINE rec == script[1].rec
<1>1. /\ rec \in Records /\ rec.type \in {"create", "clear", "update"}
      /\ rec.type = "create" => rec.id = goal.id
  BY RecordAhead
<1>2. durable' = Restored(durable, rec) /\ durable \in Stage \cup {NoGoal}
  BY DEF Take, IInv, TypeOK
<1> HIDE DEF rec
<1>3. ASSUME rec.type = "create"
      PROVE  durable' \in Stage /\ durable'.id = goal.id /\ durable'.status = "active"
  <2>1. durable' = NewStage(rec.id, rec.input, NoLimit)
    BY <1>2, <1>3 DEF Restored
  <2>2. rec.id \in Goals /\ rec.input \in CreateInput /\ NoLimit \in Limits
    BY <1>1, <1>3 DEF Records, Updates, Limits
  <2>3. durable' \in Stage
    BY <2>1, <2>2, NewStageType
  <2> QED BY <1>1, <1>3, <2>1, <2>3 DEF NewStage
<1>4. rec.type = "clear" => durable' = NoGoal
  BY <1>2 DEF Restored
<1>5. ASSUME rec.type = "update"
      PROVE  /\ durable' = NoGoal <=> durable = NoGoal
             /\ durable # NoGoal =>
                  /\ durable'.id = durable.id
                  /\ durable'.status = IF rec.field = "status" THEN rec.value ELSE durable.status
  <2>1. CASE durable = NoGoal
    BY <1>2, <1>5, <2>1 DEF Restored
  <2>2. CASE durable \in Stage
    <3>1. durable' = RestoreUpdate(durable, rec) /\ durable # NoGoal
      BY <1>2, <1>5, <2>2, StageNotNil DEF Restored
    <3>2. rec \in Updates
      BY <1>1, <1>5 DEF Records
    <3>3. durable' \in Stage
      BY <2>2, <3>1, <3>2 DEF RestoreUpdate, Updates, Stage
    <3>4. /\ durable'.id = durable.id
          /\ durable'.status = IF rec.field = "status" THEN rec.value ELSE durable.status
      BY <2>2, <3>1 DEF RestoreUpdate, Stage
    <3> QED BY <3>1, <3>3, <3>4, StageNotNil
  <2> QED BY <1>2, <2>1, <2>2
<1> QED BY <1>3, <1>4, <1>5 DEF rec

\* A record the file takes brings the log forward.
LEMMA TakeKeeps ==
  ASSUME IInv, TypeOK', RunEffect, Head(script).io = "append", Take(script[1].rec)
  PROVE  IInv'
<1> DEFINE rec == script[1].rec
<1>1. script \in Seq(Effects) /\ script # <<>> /\ script' = Tail(script) /\ up
  BY DEF IInv, TypeOK, RunEffect
<1>2. /\ Len(script) \in Nat \ {0} /\ Len(script') = Len(script) - 1
      /\ Head(script) = script[1] /\ script[1].io = "append"
      /\ \A i \in 1..Len(script') : script'[i] = script[i + 1]
      /\ script' # <<>> <=> Len(script) > 1
  BY <1>1, TailOfScript
<1>3. /\ durable' = Restored(durable, rec) /\ stale' = AfterTake(rec) /\ announced' = announced
      /\ retired' = IF /\ durable # NoGoal
                       /\ \/ durable' = NoGoal \/ durable'.id # durable.id
                          \/ durable'.status = "complete"
                    THEN retired \cup {durable.id} ELSE retired
      /\ goal' = goal /\ minted' = minted /\ up' = up
  BY DEF RunEffect, Take
<1>4. /\ rec \in Records /\ rec.type \in {"create", "clear", "update"}
      /\ \A i \in 2..Len(script) : ~IsAppend(i, "update")
      /\ Len(script) > 1 =>
           /\ rec.type # "create"
           /\ LastEffect.io = "append" /\ LastEffect.rec.type \in {"create", "clear"}
      /\ rec.type = "create" =>
           /\ goal # NoGoal /\ goal.id \notin retired
           /\ durable # NoGoal => durable.id # goal.id
      /\ durable # NoGoal /\ durable.id \in announced => rec.type = "clear"
  BY <1>1, RecordAhead
<1>5. /\ rec.type = "create" =>
           durable' \in Stage /\ durable'.id = goal.id /\ durable'.status = "active"
      /\ rec.type = "clear" => durable' = NoGoal
      /\ rec.type = "update" =>
           /\ durable' = NoGoal <=> durable = NoGoal
           /\ durable # NoGoal =>
                /\ durable'.id = durable.id
                /\ durable'.status = IF rec.field = "status" THEN rec.value ELSE durable.status
  BY <1>1, TakeMeans
<1>6. rec.type = "update" => (stale' = stale \ {rec.field} /\ rec.field # "goal")
  BY <1>3, <1>4 DEF AfterTake, Records, Updates
<1>7. script' # <<>> => script'[Len(script')] = script[Len(script)]
  BY <1>2
\* At the end the record was the last one; before that the last one is whole.
<1>8. ScriptCatchesUp'
  <2>1. CASE Len(script) = 1
    BY <1>1, <1>2, <1>3, <2>1 DEF IInv, ScriptCatchesUp, LastEffect
  <2>2. CASE Len(script) > 1
    <3> DEFINE last == LastEffect.rec
    <3>1. LastEffect' = LastEffect /\ LastEffect.io = "append" /\ last.type \in {"create", "clear"}
      BY <1>2, <1>4, <1>7, <2>2 DEF LastEffect
    <3> HIDE DEF last
    <3>2. /\ Restored(durable', last) = Restored(durable, last)
          /\ AfterTake(last) = {} /\ AfterTake(last)' = AfterTake(last') /\ last' = last
      BY <3>1 DEF Restored, AfterTake, last
    <3>3. Recovers(Restored(durable', last), goal, {})
      BY <1>1, <3>1, <3>2 DEF IInv, ScriptCatchesUp, last
    <3>4. (stale' \cup {Group(last)}) = stale' \cup {"goal"}
      BY <3>1 DEF Group
    <3>5. \A log, st, S : Recovers(log, st, S \cup {"goal"})
      BY DEF Recovers
    <3>6. /\ script' # <<>> /\ up' /\ LastEffect'.io # "publish" /\ LastEffect'.rec = last
          /\ AfterTake(LastEffect.rec)' = {} /\ AfterMiss(LastEffect.rec)' = stale' \cup {"goal"}
      BY <1>1, <1>2, <1>3, <2>2, <3>1, <3>4 DEF AfterTake, AfterMiss, last, Group
    <3>7. /\ Recovers(Restored(durable', last), goal', {})
          /\ Recovers(durable', goal', stale' \cup {"goal"})
      BY <1>3, <3>3, <3>5
    <3> QED BY <3>6, <3>7 DEF ScriptCatchesUp
  <2> QED BY <1>2, <2>1, <2>2
<1> HIDE DEF rec
<1>9. ScriptOrder'
  <2> SUFFICES ASSUME NEW i \in 1..Len(script')
               PROVE  /\ IsAppend(i, "create")' =>
                           /\ i = Len(script')
                           /\ goal' # NoGoal /\ goal'.id = script'[i].rec.id /\ goal'.id \notin retired'
                           /\ durable' # NoGoal => durable'.id # goal'.id
                           /\ \/ durable' = NoGoal \/ "goal" \in stale'
                              \/ \E j \in 1..i - 1 : IsAppend(j, "clear")'
                      /\ ~IsAppend(i, "update")'
    BY DEF ScriptOrder
  <2>1. i + 1 \in 2..Len(script) /\ script'[i] = script[i + 1]
    BY <1>2
  <2>2. ~IsAppend(i, "update")'
    BY <1>4, <2>1 DEF IsAppend
  <2>3. rec.type # "create"
    BY <1>2, <1>4, <2>1
  <2>4. ASSUME IsAppend(i + 1, "create")
        PROVE  /\ i + 1 = Len(script)
               /\ goal # NoGoal /\ goal.id = script[i + 1].rec.id /\ goal.id \notin retired
               /\ durable # NoGoal => durable.id # goal.id
               /\ \/ durable = NoGoal \/ "goal" \in stale
                  \/ \E j \in 1..i : IsAppend(j, "clear")
    BY <2>1, <2>4 DEF IInv, ScriptOrder
  <2>5. ASSUME NEW j \in 1..i, IsAppend(j, "clear"), rec.type # "clear"
        PROVE  \E k \in 1..i - 1 : IsAppend(k, "clear")'
    <3>1. j # 1
      BY <2>5 DEF IsAppend, rec
    <3>2. j - 1 \in 1..i - 1 /\ script'[j - 1] = script[j]
      BY <1>2, <3>1
    <3> QED BY <2>5, <3>2 DEF IsAppend
  <2>6. ASSUME IsAppend(i + 1, "create")
        PROVE  \/ durable' = NoGoal \/ "goal" \in stale'
               \/ \E j \in 1..i - 1 : IsAppend(j, "clear")'
    BY <1>4, <1>5, <1>6, <2>3, <2>4, <2>5, <2>6
  <2> QED BY <1>2, <1>3, <1>4, <1>5, <2>1, <2>2, <2>3, <2>4, <2>6 DEF IsAppend
<1>10. ScriptMoves'
  <2>1. \A i \in 1..Len(script') : i + 1 \in 2..Len(script) /\ script'[i] = script[i + 1]
    BY <1>2
  <2> QED BY <1>4, <2>1 DEF ScriptMoves, IsStatus, IsAppend
<1>11. ScriptAnnounces'
  <2> SUFFICES ASSUME NEW i \in 1..Len(script'),
                      script'[i].io = "publish", script'[i].change = "completion"
               PROVE  /\ goal' = NoGoal /\ script'[i].goal # NoGoal /\ script'[i].goal.id \in minted'
                      /\ Len(script') = i + 2 /\ script'[i + 1].io = "publish"
                      /\ IsAppend(i + 2, "clear")'
                      /\ i = 1
                      /\ durable' # NoGoal /\ durable'.id = script'[i].goal.id
                           /\ "status" \notin stale' => durable'.status = "complete"
    BY DEF ScriptAnnounces
  <2>1. i + 1 \in 2..Len(script) /\ script'[i] = script[i + 1]
    BY <1>2
  <2>2. /\ goal = NoGoal /\ script[i + 1].goal # NoGoal /\ script[i + 1].goal.id \in minted
        /\ Len(script) = i + 3 /\ script[i + 2].io = "publish" /\ IsAppend(i + 3, "clear")
        /\ i = 1 /\ IsStatus(1) /\ script[1].rec.value = "complete"
    BY <1>2, <2>1 DEF IInv, ScriptAnnounces
  <2>3. script'[2] = script[3] /\ script'[3] = script[4] /\ Len(script') = 3
    BY <1>2, <2>2
  <2>4. durable' # NoGoal => durable'.status = "complete"
    BY <1>5, <2>2 DEF IsStatus, IsAppend, rec
  <2> QED BY <1>3, <2>1, <2>2, <2>3, <2>4 DEF IsAppend
<1>12. durable' # NoGoal => durable'.id \notin announced
  BY <1>4, <1>5 DEF IInv, AnnouncedIsFinal
<1>13. CompleteLeaves' /\ AnnouncedIsFinal' /\ DownIsBlank'
  BY <1>1, <1>3, <1>12 DEF IInv, CompleteLeaves, AnnouncedIsFinal, DownIsBlank
<1>14. Identities'
  <2>1. CASE rec.type = "create"
    BY <1>3, <1>4, <1>5, <2>1 DEF IInv, Identities
  <2>2. CASE rec.type # "create"
    BY <1>3, <1>4, <1>5, <2>2 DEF IInv, Identities
  <2> QED BY <2>1, <2>2
<1> QED BY <1>8, <1>9, <1>10, <1>11, <1>13, <1>14 DEF IInv

\* A record that is lost leaves the log behind, and says so.
LEMMA MissKeeps ==
  ASSUME IInv, TypeOK', RunEffect, Head(script).io = "append", Miss(script[1].rec)
  PROVE  IInv'
<1> DEFINE rec == script[1].rec
<1>1. script \in Seq(Effects) /\ script # <<>> /\ script' = Tail(script) /\ up
  BY DEF IInv, TypeOK, RunEffect
<1>2. /\ Len(script) \in Nat \ {0} /\ Len(script') = Len(script) - 1
      /\ Head(script) = script[1] /\ script[1].io = "append"
      /\ \A i \in 1..Len(script') : script'[i] = script[i + 1]
      /\ script' # <<>> <=> Len(script) > 1
  BY <1>1, TailOfScript
<1>3. /\ durable' = durable /\ retired' = retired /\ stale' = AfterMiss(rec)
      /\ announced' = IF durable # NoGoal /\ rec.type = "clear" THEN announced \ {durable.id}
                      ELSE announced
      /\ goal' = goal /\ minted' = minted /\ up' = up
  BY DEF RunEffect, Miss
<1>4. /\ rec.type \in {"create", "clear", "update"}
      /\ \A i \in 2..Len(script) : ~IsAppend(i, "update")
      /\ Len(script) > 1 =>
           /\ rec.type # "create"
           /\ LastEffect.io = "append" /\ LastEffect.rec.type \in {"create", "clear"}
      /\ durable # NoGoal /\ durable.id \in announced => rec.type = "clear"
  BY <1>1, RecordAhead
<1>5. /\ rec.type = "clear" => "goal" \in stale'
      /\ rec.type = "update" => rec.field \in stale'
      /\ stale \subseteq stale'
  BY <1>3 DEF AfterMiss, Group
<1>6. script' # <<>> => script'[Len(script')] = script[Len(script)]
  BY <1>2
<1>7. ScriptCatchesUp'
  <2>1. CASE Len(script) = 1
    BY <1>1, <1>2, <1>3, <2>1 DEF IInv, ScriptCatchesUp, LastEffect
  <2>2. CASE Len(script) > 1
    <3> DEFINE last == LastEffect.rec
    <3>1. LastEffect' = LastEffect /\ LastEffect.io = "append" /\ last.type \in {"create", "clear"}
      BY <1>2, <1>4, <1>6, <2>2 DEF LastEffect
    <3> HIDE DEF last
    <3>2. AfterTake(last) = {}
      BY <3>1 DEF AfterTake
    <3>3. Recovers(Restored(durable, last), goal, {})
      BY <1>1, <3>1, <3>2 DEF IInv, ScriptCatchesUp, last
    <3>4. \A log, st, S : Recovers(log, st, S \cup {"goal"})
      BY DEF Recovers
    <3>5. /\ script' # <<>> /\ up' /\ LastEffect'.io # "publish" /\ LastEffect'.rec = last
          /\ AfterTake(LastEffect.rec)' = {} /\ AfterMiss(LastEffect.rec)' = stale' \cup {"goal"}
      BY <1>1, <1>2, <1>3, <2>2, <3>1 DEF AfterTake, AfterMiss, last, Group
    <3>6. /\ Recovers(Restored(durable', last), goal', {})
          /\ Recovers(durable', goal', stale' \cup {"goal"})
      <4>1. Restored(durable', last) = Restored(durable, last)
        BY <1>3
      <4> QED BY <1>3, <3>3, <3>4, <4>1
    <3> QED BY <3>5, <3>6 DEF ScriptCatchesUp
  <2> QED BY <1>2, <2>1, <2>2
<1> HIDE DEF rec
<1>8. ScriptOrder'
  <2> SUFFICES ASSUME NEW i \in 1..Len(script')
               PROVE  /\ IsAppend(i, "create")' =>
                           /\ i = Len(script')
                           /\ goal' # NoGoal /\ goal'.id = script'[i].rec.id /\ goal'.id \notin retired'
                           /\ durable' # NoGoal => durable'.id # goal'.id
                           /\ \/ durable' = NoGoal \/ "goal" \in stale'
                              \/ \E j \in 1..i - 1 : IsAppend(j, "clear")'
                      /\ ~IsAppend(i, "update")'
    BY DEF ScriptOrder
  <2>1. i + 1 \in 2..Len(script) /\ script'[i] = script[i + 1]
    BY <1>2
  <2>2. ~IsAppend(i, "update")'
    BY <1>4, <2>1 DEF IsAppend
  <2>3. ASSUME IsAppend(i + 1, "create")
        PROVE  /\ i + 1 = Len(script)
               /\ goal # NoGoal /\ goal.id = script[i + 1].rec.id /\ goal.id \notin retired
               /\ durable # NoGoal => durable.id # goal.id
               /\ \/ durable = NoGoal \/ "goal" \in stale
                  \/ \E j \in 1..i : IsAppend(j, "clear")
    BY <2>1, <2>3 DEF IInv, ScriptOrder
  <2>4. ASSUME NEW j \in 1..i, IsAppend(j, "clear"), rec.type # "clear"
        PROVE  \E k \in 1..i - 1 : IsAppend(k, "clear")'
    <3>1. j # 1
      BY <2>4 DEF IsAppend, rec
    <3>2. j - 1 \in 1..i - 1 /\ script'[j - 1] = script[j]
      BY <1>2, <3>1
    <3> QED BY <2>4, <3>2 DEF IsAppend
  <2> QED BY <1>2, <1>3, <1>5, <2>1, <2>2, <2>3, <2>4 DEF IsAppend
<1>9. ScriptMoves'
  <2>1. \A i \in 1..Len(script') : i + 1 \in 2..Len(script) /\ script'[i] = script[i + 1]
    BY <1>2
  <2> QED BY <1>4, <2>1 DEF ScriptMoves, IsStatus, IsAppend
<1>10. ScriptAnnounces'
  <2> SUFFICES ASSUME NEW i \in 1..Len(script'),
                      script'[i].io = "publish", script'[i].change = "completion"
               PROVE  /\ goal' = NoGoal /\ script'[i].goal # NoGoal /\ script'[i].goal.id \in minted'
                      /\ Len(script') = i + 2 /\ script'[i + 1].io = "publish"
                      /\ IsAppend(i + 2, "clear")'
                      /\ i = 1 /\ "status" \in stale'
    BY DEF ScriptAnnounces
  <2>1. i + 1 \in 2..Len(script) /\ script'[i] = script[i + 1]
    BY <1>2
  <2>2. /\ goal = NoGoal /\ script[i + 1].goal # NoGoal /\ script[i + 1].goal.id \in minted
        /\ Len(script) = i + 3 /\ script[i + 2].io = "publish" /\ IsAppend(i + 3, "clear")
        /\ i = 1 /\ IsStatus(1)
    BY <1>2, <2>1 DEF IInv, ScriptAnnounces
  <2>3. script'[2] = script[3] /\ script'[3] = script[4] /\ Len(script') = 3
    BY <1>2, <2>2
  <2>4. "status" \in stale'
    BY <1>5, <2>2 DEF IsStatus, IsAppend, rec
  <2> QED BY <1>3, <2>1, <2>2, <2>3, <2>4 DEF IsAppend
<1>11. durable # NoGoal => durable.id \notin announced'
  BY <1>3, <1>4
<1>12. CompleteLeaves' /\ AnnouncedIsFinal' /\ DownIsBlank' /\ Identities'
  BY <1>1, <1>3, <1>11 DEF IInv, CompleteLeaves, AnnouncedIsFinal, DownIsBlank, Identities
<1> QED BY <1>7, <1>8, <1>9, <1>10, <1>12 DEF IInv

\* So a record keeps the invariant, whether the file takes it or not.
LEMMA AppendKeeps ==
  ASSUME IInv, TypeOK', RunEffect, Head(script).io = "append"
  PROVE  IInv'
<1>1. Head(script) = script[1]
  BY DEF IInv, TypeOK, RunEffect
<1>2. Take(script[1].rec) \/ Miss(script[1].rec)
  BY <1>1 DEF RunEffect, AppendRecord
<1> QED BY <1>2, TakeKeeps, MissKeeps

-----------------------------------------------------------------------------
(* The inductive invariant *)

\* An operation on the goal in memory that logs one update of it.
LEMMA GoalUpdate ==
  ASSUME IInv, TypeOK', Current,
         NEW st \in Stage, NEW rec \in Updates, NEW ev,
         ev.io = "publish", ev.change # "completion",
         goal' = st, script' \in {<<ev, Append1(rec)>>, <<Append1(rec)>>},
         up' = up, LogStays,
         Alters(goal, st, rec.field), Carries(rec, st),
         rec.field = "status" => LegalMove(goal.status, rec.value)
  PROVE  IInv'
<1>1. up /\ script = <<>> /\ goal # NoGoal /\ goal \in Stage /\ TypeOK /\ Recovers(durable, goal, stale)
  BY DEF Current, Free, IInv, ScriptCatchesUp, TypeOK
<1>2. /\ Recovers(Restored(durable, rec), st, AfterTake(rec))
      /\ Recovers(durable, st, AfterMiss(rec))
  BY <1>1, UpdateRecovers
<1>3. st.id \in minted \ announced
  BY <1>1 DEF IInv, Identities, AnnouncedIsFinal, Alters
<1>4. durable # NoGoal => durable.id \notin announced
  BY <1>1, FreeIsSettled
<1>5. ~Lossy => durable # NoGoal /\ durable.status = goal.status
  BY <1>1 DEF Recovers, SameGoal, Lossy
<1> QED BY <1>1, <1>2, <1>3, <1>4, <1>5, OneUpdate

\* A status change is such an operation.
LEMMA MoveKeeps ==
  ASSUME IInv, TypeOK', Current, NEW s \in Statuses,
         LegalMove(goal.status, s), Move(s)
  PROVE  IInv'
<1> DEFINE st == ApplyStatus(goal, s)
           rec == Patch("status", s)
           ev == Publish(st, "lifecycle", "none")
<1>1. goal \in Stage
  BY DEF IInv, TypeOK, Current
<1>2. st \in Stage /\ st.status = s /\ Alters(goal, st, "status")
  BY <1>1, ApplyStatusType
<1>3. rec \in Updates /\ rec.field = "status" /\ rec.value = s
  BY UpdateTypes DEF Patch
<1>4. ev.io = "publish" /\ ev.change # "completion"
  BY DEF Publish
<1>5. goal' = st /\ script' = <<ev, Append1(rec)>> /\ up' = up /\ LogStays
  BY DEF Move, Change, Ghosts, LogStays
<1> HIDE DEF st, rec, ev
<1>6. Carries(rec, st)
  BY <1>2, <1>3 DEF Carries
<1> QED BY <1>2, <1>3, <1>4, <1>5, <1>6, GoalUpdate

\* A change of a counter, a budget, the one-shot or the todo list.
LEMMA FieldKeeps ==
  ASSUME IInv, TypeOK', Current,
         NEW st \in Stage, NEW rec \in Updates, rec.field # "status",
         Alters(goal, st, rec.field), Carries(rec, st), Change(st, "none", rec)
  PROVE  IInv'
<1> DEFINE ev == Publish(st, "none", "none")
<1>1. ev.io = "publish" /\ ev.change # "completion"
  BY DEF Publish
<1>2. goal' = st /\ script' = <<ev, Append1(rec)>> /\ up' = up /\ LogStays
  BY DEF Change, Ghosts, LogStays
<1> HIDE DEF ev
<1> QED BY <1>1, <1>2, GoalUpdate

\* A step that touches neither the goal nor the log nor the script.
LEMMA StillKeeps ==
  ASSUME IInv, TypeOK', up' = up, script' = script, LogStays, goal' = goal
  PROVE  IInv'
<1>1. ScriptCatchesUp' /\ DownIsBlank'
  BY DEF IInv, ScriptCatchesUp, DownIsBlank, LastEffect, LogStays, AfterTake, AfterMiss
<1>2. ScriptOrder' /\ ScriptMoves' /\ ScriptAnnounces' /\ CompleteLeaves'
  BY DEF IInv, ScriptOrder, ScriptMoves, ScriptAnnounces, CompleteLeaves, IsAppend,
         IsStatus, Lossy, LogStays
<1>3. Identities' /\ AnnouncedIsFinal'
  BY DEF IInv, Identities, AnnouncedIsFinal, LogStays
<1> QED BY <1>1, <1>2, <1>3 DEF IInv

\* A change in memory of what is never logged.
LEMMA MemoryKeeps ==
  ASSUME IInv, TypeOK', up' = up, script' = script, LogStays,
         Current, goal' \in Stage, Alters(goal, goal', "none")
  PROVE  IInv'
<1>1. script = <<>> /\ up /\ goal # NoGoal /\ goal' # NoGoal /\ Len(script') = 0
  BY StageNotNil DEF Current, Free
<1>2. ScriptOrder' /\ ScriptMoves' /\ ScriptAnnounces'
  BY <1>1 DEF ScriptOrder, ScriptMoves, ScriptAnnounces
<1>3. Recovers(durable, goal, stale) /\ (durable # NoGoal => durable.id \notin announced)
  BY <1>1, FreeIsSettled DEF IInv, ScriptCatchesUp
<1>4. ScriptCatchesUp' /\ DownIsBlank'
  BY <1>1, <1>3 DEF ScriptCatchesUp, DownIsBlank, Recovers, SameGoal, Alters, LogStays
<1>5. CompleteLeaves' /\ Identities' /\ AnnouncedIsFinal'
  BY <1>1, <1>3 DEF IInv, CompleteLeaves, Identities, AnnouncedIsFinal, Alters, LogStays
<1> QED BY <1>2, <1>4, <1>5 DEF IInv

\* Each operation on the goal, the gate, a crash and a replay keep the
\* invariant.
LEMMA LifecycleKeeps == IInv /\ TypeOK' /\ Lifecycle => IInv'
<1> SUFFICES ASSUME IInv, TypeOK', Lifecycle PROVE IInv'
  OBVIOUS
<1>a. ASSUME Current, NEW change \in {"none", "clear"}, NEW actor, Clear(change, actor)
      PROVE  IInv'
  <2> DEFINE ev == Publish(NoGoal, change, actor)
  <2>1. ev.io = "publish" /\ ev.change # "completion"
    BY DEF Publish
  <2>2. /\ goal' = NoGoal /\ script' = <<ev, Append1(ClearRecord)>> /\ up' /\ LogStays
    BY <1>a DEF Clear, ClearScript, Current, Free, Ghosts, LogStays
  <2> HIDE DEF ev
  <2> QED BY <2>1, <2>2, OneClear
<1>1. ASSUME NEW g \in Goals, NEW input \in Inputs, NEW actor \in {"user", "runtime"},
             NEW replace \in BOOLEAN, CreateGoal(g, input, actor, replace)
      PROVE  IInv'
  BY <1>1, CreateKeeps
<1>2. CASE CreateGoalRejected
  BY <1>a, <1>2 DEF CreateGoalRejected
<1>3. CASE PauseGoal
  BY <1>3, MoveKeeps DEF PauseGoal, Active, Statuses, LegalMove
<1>4. CASE ResumeGoal
  BY <1>4, MoveKeeps DEF ResumeGoal, Statuses, LegalMove
<1>5. CASE MarkBlocked
  BY <1>5, MoveKeeps DEF MarkBlocked, Active, Statuses, LegalMove
<1>6. CASE MarkComplete
  BY <1>6, CloseKeeps DEF MarkComplete, Ghosts, LogStays
<1>7. ASSUME NEW actor \in {"user", "model", "runtime"}, CancelGoal(actor)
      PROVE  IInv'
  BY <1>a, <1>7 DEF CancelGoal
<1>8. ASSUME NEW g \in Goals, CancelGoalByID(g, "runtime")
      PROVE  IInv'
  BY <1>a, <1>8 DEF CancelGoalByID
<1>9. CASE CleanupExpired
  BY <1>a, <1>9 DEF CleanupExpired
<1>10. CASE NotifyGoalChanged
  <2> DEFINE ev == Publish(goal, "none", "none")
  <2>1. ev.io = "publish" /\ ev.change # "completion"
    BY DEF Publish
  <2>2. /\ goal' = goal /\ script' = <<ev>> /\ script = <<>> /\ up /\ up'
        /\ LogStays
    BY <1>10 DEF NotifyGoalChanged, Free, Ghosts, LogStays
  <2> HIDE DEF ev
  <2>3. Len(script') = 1 /\ script'[1] = ev /\ script' # <<>>
    BY <2>2
  <2>4. ScriptCatchesUp'
    BY <2>1, <2>2, <2>3 DEF IInv, ScriptCatchesUp, LastEffect, LogStays
  <2>5. ScriptOrder' /\ ScriptMoves' /\ ScriptAnnounces'
    BY <2>1, <2>2, <2>3 DEF ScriptOrder, ScriptMoves, ScriptAnnounces, IsAppend, IsStatus
  <2>6. durable # NoGoal => durable.id \notin announced
    BY <2>2, FreeIsSettled
  <2>7. Identities' /\ AnnouncedIsFinal' /\ CompleteLeaves' /\ DownIsBlank'
    BY <2>2, <2>6 DEF IInv, Identities, AnnouncedIsFinal, CompleteLeaves, DownIsBlank, LogStays
  <2> QED BY <2>4, <2>5, <2>7 DEF IInv
<1> QED BY <1>1, <1>2, <1>3, <1>4, <1>5, <1>6, <1>7, <1>8, <1>9, <1>10 DEF Lifecycle

\* So do the counters, the budgets, the one-shot and the todo list.
LEMMA ProgressKeeps == IInv /\ TypeOK' /\ (Progress \/ Todos) => IInv'
<1> SUFFICES ASSUME IInv, TypeOK', Progress \/ Todos PROVE IInv'
  OBVIOUS
<1>a. Current
  BY DEF Progress, Todos, IncrementTurn, RecordTokenUsage, SetPauseAfterComplete, SetBudgetLimits,
         AddGoalTodo, UpdateGoalTodo, RenameGoalTodo, RemoveGoalTodo, Active
<1>b. goal \in Stage
  BY <1>a DEF IInv, TypeOK, Current
<1>1. CASE IncrementTurn
  <2> DEFINE st == [goal EXCEPT !.turns = @ + 1]
             rec == Patch("turns", goal.turns + 1)
  <2>1. st \in Stage /\ rec \in Updates /\ rec.field = "turns"
    <3>1. st \in Stage /\ goal.turns + 1 \in Nat
      BY <1>b DEF Stage
    <3> QED BY <3>1, UpdateTypes DEF Patch
  <2>2. Alters(goal, st, "turns") /\ Carries(rec, st)
    BY <1>b DEF Alters, Carries, Stage, Patch
  <2>3. Change(st, "none", rec)
    BY <1>1 DEF IncrementTurn
  <2> HIDE DEF st, rec
  <2> QED BY <1>a, <2>1, <2>2, <2>3, FieldKeeps
<1>2. CASE RecordTokenUsage
  <2> DEFINE st == [goal EXCEPT !.tokens = @ + 1]
             rec == Patch("tokens", goal.tokens + 1)
             ev == Publish(NoGoal, "none", "none")
  <2>1. st \in Stage /\ rec \in Updates /\ rec.field = "tokens"
    <3>1. st \in Stage /\ goal.tokens + 1 \in Nat
      BY <1>b DEF Stage
    <3> QED BY <3>1, UpdateTypes DEF Patch
  <2>2. Alters(goal, st, "tokens") /\ Carries(rec, st)
    BY <1>b DEF Alters, Carries, Stage, Patch
  <2>3. ev.io = "publish" /\ ev.change # "completion"
    BY DEF Publish
  <2>4. goal' = st /\ script' = <<Append1(rec)>> /\ up' = up /\ LogStays
    BY <1>2 DEF RecordTokenUsage, Ghosts, LogStays
  <2> HIDE DEF st, rec, ev
  <2> QED BY <1>a, <2>1, <2>2, <2>3, <2>4, GoalUpdate
<1>3. ASSUME NEW armed \in BOOLEAN, SetPauseAfterComplete(armed)
      PROVE  IInv'
  <2> DEFINE st == [goal EXCEPT !.pauseNext = armed]
             rec == Patch("pauseNext", armed)
  <2>1. st \in Stage /\ rec \in Updates /\ rec.field = "pauseNext"
    BY <1>b, UpdateTypes DEF Stage, Patch
  <2>2. Alters(goal, st, "pauseNext") /\ Carries(rec, st)
    BY <1>b DEF Alters, Carries, Stage, Patch
  <2>3. Change(st, "none", rec)
    BY <1>3 DEF SetPauseAfterComplete
  <2> HIDE DEF st, rec
  <2> QED BY <1>a, <2>1, <2>2, <2>3, FieldKeeps
<1>4. ASSUME NEW turn \in Budgets, NEW token \in Budgets, SetBudgetLimits(turn, token)
      PROVE  IInv'
  <2> DEFINE st == [goal EXCEPT !.turnBudget = IF turn = NoLimit THEN @ ELSE turn,
                                !.tokenBudget = IF token = NoLimit THEN @ ELSE token]
             rec == BudgetPatch(st)
  <2>1. st \in Stage
    BY <1>b, ConstantsOK DEF Stage
  <2>2. Alters(goal, st, "budget")
    BY <1>b DEF Alters, Stage
  <2>3. Change(st, "none", rec)
    BY <1>4 DEF SetBudgetLimits
  <2> HIDE DEF st
  <2>4. rec \in Updates /\ rec.field = "budget" /\ Carries(rec, st)
    BY <2>1, UpdateTypes DEF BudgetPatch, Patch, Carries
  <2> HIDE DEF rec
  <2> QED BY <1>a, <2>1, <2>2, <2>3, <2>4, FieldKeeps
<1>5. ASSUME NEW t \in TodoLists, SetTodos(t)
      PROVE  IInv'
  <2> DEFINE st == [goal EXCEPT !.todos = t]
             rec == Patch("todos", t)
  <2>1. st \in Stage /\ rec \in Updates /\ rec.field = "todos"
    BY <1>b, UpdateTypes DEF Stage, Patch
  <2>2. Alters(goal, st, "todos") /\ Carries(rec, st)
    BY <1>b DEF Alters, Carries, Stage, Patch
  <2>3. Change(st, "none", rec)
    BY <1>5 DEF SetTodos
  <2> HIDE DEF st, rec
  <2> QED BY <1>a, <2>1, <2>2, <2>3, FieldKeeps
<1>6. CASE Todos
  <2>1. goal.todos \in TodoLists
    BY <1>b DEF Stage
  <2>2. \E t \in TodoLists : SetTodos(t)
    BY <1>6, <2>1, TodosType DEF Todos, AddGoalTodo, UpdateGoalTodo, RenameGoalTodo, RemoveGoalTodo
  <2> QED BY <1>5, <2>2
<1> QED BY <1>1, <1>2, <1>3, <1>4, <1>6 DEF Progress

\* So does the done-gate.
LEMMA GateKeeps == IInv /\ TypeOK' /\ Gate => IInv'
<1> SUFFICES ASSUME IInv, TypeOK', Gate PROVE IInv'
  OBVIOUS
<1>a. Current => goal \in Stage
  BY DEF IInv, TypeOK, Current
<1>1. CASE RequestCompleteUngated
  BY <1>1, CloseKeeps DEF RequestCompleteUngated, Ghosts, LogStays
<1>2. CASE Challenge
  <2>1. Current
    BY <1>2 DEF Challenge, Active
  <2>2. goal' \in Stage /\ Alters(goal, goal', "none")
    BY <1>2, <1>a, <2>1 DEF Challenge, Alters, Stage
  <2> QED BY <1>2, <2>1, <2>2, MemoryKeeps DEF Challenge, Ghosts, LogStays
<1>3. ASSUME NEW r \in Requests, BeginCompletion(r) \/ RunVerification(r)
      PROVE  IInv'
  BY <1>3, StillKeeps DEF BeginCompletion, RunVerification, Ghosts, LogStays
<1>4. ASSUME NEW r \in Requests, FinishCompletion(r)
      PROVE  IInv'
  <2>1. CASE Active
    BY <1>4, <2>1, CloseKeeps DEF FinishCompletion, Ghosts, LogStays
  <2>2. CASE ~Active
    BY <1>4, <2>2, StillKeeps DEF FinishCompletion, Ghosts, LogStays
  <2> QED BY <2>1, <2>2
<1>5. ASSUME NEW r \in Requests, FailCompletion(r)
      PROVE  IInv'
  <2>1. CASE ~Active
    BY <1>5, <2>1, StillKeeps DEF FailCompletion, Ghosts, LogStays
  <2>2. CASE Active /\ MaxVerifyFailures > 0 /\ goal.failures + 1 >= MaxVerifyFailures
    <3> DEFINE st == ApplyStatus(Strike(goal), "blocked")
               rec == Patch("status", "blocked")
               ev == Publish(st, "lifecycle", "none")
    <3>1. Current /\ goal \in Stage /\ goal.status = "active"
      BY <1>a, <2>2 DEF Active
    <3>2. Strike(goal) \in Stage
      BY <3>1 DEF Strike, Stage
    <3>3. st \in Stage /\ st.status = "blocked" /\ Alters(Strike(goal), st, "status")
      BY <3>2, ApplyStatusType DEF Statuses
    <3>4. Alters(goal, st, "status")
      <4> HIDE DEF st
      <4> QED BY <3>1, <3>3 DEF Alters, Strike, Stage
    <3>5. rec \in Updates /\ rec.field = "status" /\ rec.value = "blocked"
      BY UpdateTypes DEF Patch, Statuses
    <3>6. ev.io = "publish" /\ ev.change # "completion"
      BY DEF Publish
    <3>7. goal' = st /\ script' = <<ev, Append1(rec)>> /\ up' = up /\ LogStays
      BY <1>5, <2>2 DEF FailCompletion, Ghosts, LogStays
    <3> HIDE DEF st, rec, ev
    <3>8. Carries(rec, st) /\ LegalMove(goal.status, rec.value)
      BY <3>1, <3>3, <3>5 DEF Carries, LegalMove
    <3> QED BY <3>1, <3>3, <3>4, <3>5, <3>6, <3>7, <3>8, GoalUpdate
  <2>3. CASE Active /\ ~(MaxVerifyFailures > 0 /\ goal.failures + 1 >= MaxVerifyFailures)
    <3>1. Current /\ goal \in Stage
      BY <1>a, <2>3 DEF Active
    <3>2. goal' = Strike(goal) /\ script' = script
      BY <1>5, <2>3 DEF FailCompletion
    <3>3. goal' \in Stage /\ Alters(goal, goal', "none")
      BY <3>1, <3>2 DEF Strike, Alters, Stage
    <3> QED BY <1>5, <3>1, <3>2, <3>3, MemoryKeeps DEF FailCompletion, Ghosts, LogStays
  <2> QED BY <2>1, <2>2, <2>3
<1> QED BY <1>1, <1>2, <1>3, <1>4, <1>5 DEF Gate

\* So does a crash: nothing of the log is lost, and nothing else is left.
LEMMA CrashKeeps == IInv /\ TypeOK' /\ Crash => IInv'
<1> SUFFICES ASSUME IInv, TypeOK', Crash PROVE IInv'
  OBVIOUS
<1>1. /\ up' = FALSE /\ goal' = NoGoal /\ script' = <<>> /\ durable' = durable
      /\ minted' = minted /\ announced' = announced /\ retired' = retired
  BY DEF Crash
<1>2. Len(script') = 0
  BY <1>1
<1>3. ScriptCatchesUp' /\ ScriptOrder' /\ ScriptMoves' /\ ScriptAnnounces' /\ CompleteLeaves'
  BY <1>1, <1>2
  DEF ScriptCatchesUp, ScriptOrder, ScriptMoves, ScriptAnnounces, CompleteLeaves
<1>4. Identities' /\ AnnouncedIsFinal' /\ DownIsBlank'
  BY <1>1 DEF IInv, Identities, AnnouncedIsFinal, DownIsBlank
<1> QED BY <1>3, <1>4 DEF IInv

\* And so does a replay.  The log that is replayed is the memory it leaves, and
\* a goal that is not yet out of the log at that point is complete.
LEMMA ReplayKeeps == IInv /\ TypeOK' /\ Replay => IInv'
<1> SUFFICES ASSUME IInv, TypeOK', Replay PROVE IInv'
  OBVIOUS
<1>a. up' /\ LogStays /\ durable \in Stage \cup {NoGoal} /\ TypeOK
  BY DEF Replay, Ghosts, IInv, TypeOK, LogStays
<1>b. /\ durable # NoGoal /\ durable.status # "complete" => durable.id \notin announced
      /\ durable # NoGoal => durable.id \in minted
  BY DEF IInv, AnnouncedIsFinal, Identities
<1>c. durable # NoGoal => Recovers(durable, durable, stale)
  BY DEF Recovers, SameGoal
<1>d. ASSUME script' = <<>>, goal' = durable, durable # NoGoal => durable.status # "complete"
      PROVE  IInv'
  <2>1. Len(script') = 0
    BY <1>d
  <2>2. ScriptCatchesUp' /\ ScriptOrder' /\ ScriptMoves' /\ ScriptAnnounces'
    BY <1>a, <1>d, <2>1
    DEF ScriptCatchesUp, ScriptOrder, ScriptMoves, ScriptAnnounces, Recovers, SameGoal, LogStays
  <2>3. CompleteLeaves' /\ Identities' /\ AnnouncedIsFinal' /\ DownIsBlank'
    BY <1>a, <1>b, <1>d
    DEF IInv, CompleteLeaves, Identities, AnnouncedIsFinal, DownIsBlank, LogStays
  <2> QED BY <2>2, <2>3 DEF IInv
<1>1. CASE durable = NoGoal /\ goal' = NoGoal /\ script' = <<>>
  BY <1>1, <1>d
<1>2. CASE /\ durable # NoGoal /\ durable.status = "complete"
           /\ goal' = NoGoal /\ script' = <<Append1(ClearRecord)>>
  <2> DEFINE ev == Publish(NoGoal, "none", "none")
  <2>1. ev.io = "publish" /\ ev.change # "completion"
    BY DEF Publish
  <2> HIDE DEF ev
  <2> QED BY <1>2, <1>a, <2>1, OneClear
<1>3. CASE /\ durable # NoGoal /\ durable.status = "active"
           /\ goal' = ApplyStatus(durable, "paused")
           /\ script' = <<Append1(Patch("status", "paused"))>>
  <2> DEFINE st == ApplyStatus(durable, "paused")
             rec == Patch("status", "paused")
             ev == Publish(NoGoal, "none", "none")
  <2>1. st \in Stage /\ st.status = "paused" /\ Alters(durable, st, "status")
    BY <1>3, <1>a, ApplyStatusType DEF Statuses
  <2>2. rec \in Updates /\ rec.field = "status" /\ rec.value = "paused"
    BY UpdateTypes DEF Patch, Statuses
  <2>3. ev.io = "publish" /\ ev.change # "completion"
    BY DEF Publish
  <2>4. goal' = st /\ script' = <<Append1(rec)>>
    BY <1>3
  <2> HIDE DEF st, rec, ev
  <2>5. Carries(rec, st) /\ LegalMove(durable.status, rec.value)
    BY <1>3, <2>1, <2>2 DEF Carries, LegalMove
  <2>6. /\ Recovers(Restored(durable, rec), st, AfterTake(rec))
        /\ Recovers(durable, st, AfterMiss(rec))
    BY <1>3, <1>a, <1>c, <2>1, <2>2, <2>5, UpdateRecovers
  <2>7. st.id \in minted \ announced
    BY <1>3, <1>b, <2>1 DEF Alters
  <2> QED BY <1>3, <1>a, <1>b, <2>1, <2>2, <2>3, <2>4, <2>5, <2>6, <2>7, OneUpdate
<1>4. CASE /\ durable # NoGoal /\ durable.status \in {"paused", "blocked"}
           /\ goal' = durable /\ script' = <<>>
  BY <1>4, <1>d
<1> QED BY <1>1, <1>2, <1>3, <1>4 DEF Replay

\* The invariant is inductive.
LEMMA InvStep == IInv /\ [Next]_vars => IInv'
<1> SUFFICES ASSUME IInv, [Next]_vars PROVE IInv'
  OBVIOUS
<1>1. TypeOK'
  BY TypeStep DEF IInv
<1>2. CASE RunEffect
  BY <1>1, <1>2, AppendKeeps, PublishKeeps DEF RunEffect
<1>3. CASE UNCHANGED vars
  BY <1>1, <1>3, StillKeeps DEF vars, Ghosts, LogStays
<1> QED BY <1>1, <1>2, <1>3, LifecycleKeeps, ProgressKeeps, GateKeeps, CrashKeeps, ReplayKeeps
        DEF Next

\* It holds at the start.
LEMMA InvInit == Init => IInv
<1> SUFFICES ASSUME Init PROVE IInv
  OBVIOUS
<1>1. TypeOK
  BY InitType
<1>2. Len(script) = 0
  BY DEF Init
<1> QED BY <1>1, <1>2 DEF Init, IInv, DownIsBlank, ScriptCatchesUp, Recovers, ScriptOrder,
        ScriptMoves, ScriptAnnounces, CompleteLeaves, Identities, AnnouncedIsFinal

\* The invariant holds throughout, for any constants: whatever the script of an
\* operation has still to do, and whichever of its records the file takes, the
\* log will agree with memory but for the groups of fields in stale.
THEOREM InvHolds == Spec => []IInv
BY InvInit, InvStep, PTL DEF Spec

-----------------------------------------------------------------------------
(* What follows from it *)

\* CrashSafe: what an operation that gave the mutex back did can be recovered
\* from the event log, but for the groups of fields whose last record failed to
\* reach the file; a torn line costs one more record (mode.go, store.go).
THEOREM CrashSafeHolds == Spec => []CrashSafe
<1>1. IInv => CrashSafe
  BY DEF IInv, ScriptCatchesUp, CrashSafe, Free
<1> QED BY <1>1, InvHolds, PTL

\* AnnouncedIsFinal: no crash, replay or later operation revives a goal whose
\* completion was announced, so long as neither the record of the completion nor
\* the clear record after it was lost (mode.go markCompleteLocked).
THEOREM AnnouncedFinal == Spec => []AnnouncedIsFinal
<1>1. IInv => AnnouncedIsFinal
  BY DEF IInv
<1> QED BY <1>1, InvHolds, PTL

\* A record the file takes is a legal move of GoalSlot or no move.
LEMMA TakeIsLegal ==
  ASSUME IInv, RunEffect, Head(script).io = "append", Take(script[1].rec)
  PROVE  [Slot!Next]_(Slot!vars)
<1> DEFINE rec == script[1].rec
           slot == IF durable = NoGoal THEN NoGoal
                   ELSE [id |-> durable.id, status |-> durable.status]
<1>1. script # <<>> /\ up /\ Head(script) = script[1] /\ script[1].io = "append"
      /\ Len(script) \in Nat \ {0}
  BY DEF IInv, TypeOK, RunEffect
<1>2. /\ stale' = AfterTake(rec)
      /\ retired' = IF /\ durable # NoGoal
                       /\ \/ durable' = NoGoal \/ durable'.id # durable.id
                          \/ durable'.status = "complete"
                    THEN retired \cup {durable.id} ELSE retired
  BY DEF Take
<1>3. /\ rec \in Records /\ rec.type \in {"create", "clear", "update"}
      /\ rec.type = "create" =>
           /\ goal # NoGoal /\ goal.id \notin retired
           /\ durable # NoGoal => durable.id # goal.id
           /\ durable = NoGoal \/ "goal" \in stale
  BY <1>1, RecordAhead
<1>4. /\ rec.type = "create" =>
           durable' \in Stage /\ durable'.id = goal.id /\ durable'.status = "active"
      /\ rec.type = "clear" => durable' = NoGoal
      /\ rec.type = "update" =>
           /\ durable' = NoGoal <=> durable = NoGoal
           /\ durable # NoGoal =>
                /\ durable'.id = durable.id
                /\ durable'.status = IF rec.field = "status" THEN rec.value ELSE durable.status
  BY <1>1, TakeMeans
<1>5. /\ durable \in Stage \cup {NoGoal} /\ goal \in Stage \cup {NoGoal}
      /\ Lossy \in BOOLEAN /\ Lossy' \in BOOLEAN
  BY DEF IInv, TypeOK, Lossy
\* A goal in the slot is never taken for an empty slot.
<1>6. durable # NoGoal => [id |-> durable.id, status |-> durable.status] # NoGoal
  BY <1>5, ConstantsOK DEF Stage
<1>7. rec.type # "update" => Lossy' = FALSE
  BY <1>2 DEF AfterTake, Lossy
<1>8. rec.type = "update" => rec.field \in Fields /\ stale' = stale \ {rec.field}
  BY <1>2, <1>3 DEF AfterTake, Records, Updates, Fields
<1>9. /\ "goal" \in stale => Lossy
      /\ rec.type = "update" /\ rec.field = "status" /\ ~Lossy => Lossy' = FALSE
      /\ rec.type = "update" /\ rec.field # "status" => Lossy' = Lossy
      /\ Lossy' = Lossy \/ Lossy' = FALSE \/ rec.type = "create"
  BY <1>5, <1>7, <1>8 DEF Lossy, Fields
<1> HIDE DEF rec
<1>10. CASE rec.type = "create"
  <2>1. durable' # NoGoal /\ goal.id \in Goals
    BY <1>3, <1>4, <1>5, <1>10, StageNotNil DEF Stage
  <2>2. slot' = [id |-> goal.id, status |-> "active"]
    BY <1>4, <1>10, <2>1
  <2>3. CASE durable = NoGoal
    <3>1. retired' = retired /\ slot = NoGoal
      BY <1>2, <2>3
    <3>2. Slot!Create(goal.id)
      BY <1>3, <1>7, <1>10, <2>1, <2>2, <3>1 DEF Slot!Create
    <3> QED BY <2>1, <3>2 DEF Slot!Next
  <2>4. CASE durable # NoGoal
    <3>1. /\ slot # NoGoal /\ slot.id = durable.id /\ durable.id # goal.id /\ Lossy
          /\ retired' = retired \cup {durable.id}
      BY <1>2, <1>3, <1>4, <1>6, <1>9, <1>10, <2>4
    <3>2. goal.id \in Goals \ (retired \cup {slot.id})
      BY <1>3, <1>10, <2>1, <3>1
    <3>3. Slot!Supersede(goal.id)
      BY <1>7, <1>10, <2>2, <3>1, <3>2 DEF Slot!Supersede, Slot!Full
    <3> QED BY <2>1, <3>3 DEF Slot!Next
  <2> QED BY <2>3, <2>4
<1>11. CASE rec.type = "clear"
  <2>1. slot' = NoGoal /\ durable' = NoGoal
    BY <1>4, <1>11
  <2>2. CASE durable = NoGoal
    <3>1. Slot!Settle
      BY <1>2, <1>7, <1>11, <2>1, <2>2 DEF Slot!Settle
    <3> QED BY <3>1 DEF Slot!Next
  <2>3. CASE durable # NoGoal
    <3>1. Slot!Leave
      BY <1>2, <1>6, <1>7, <1>11, <2>1, <2>3 DEF Slot!Leave, Slot!Full
    <3> QED BY <3>1 DEF Slot!Next
  <2> QED BY <2>2, <2>3
<1>12. CASE rec.type = "update" /\ (durable = NoGoal \/ rec.field # "status")
  <2>1. slot' = slot
    BY <1>4, <1>12
  <2>2. retired' = retired
    <3>1. CASE durable = NoGoal
      BY <1>2, <3>1
    <3>2. CASE durable # NoGoal
      BY <1>2, <1>4, <1>12, <3>2 DEF IInv, Identities
    <3> QED BY <3>1, <3>2
  <2>3. CASE Lossy' = Lossy
    BY <2>1, <2>2, <2>3 DEF Slot!vars
  <2>4. CASE Lossy' = FALSE
    <3>1. Slot!Settle
      BY <2>1, <2>2, <2>4 DEF Slot!Settle
    <3> QED BY <3>1 DEF Slot!Next
  <2> QED BY <1>9, <1>12, <2>3, <2>4
<1>13. CASE rec.type = "update" /\ durable # NoGoal /\ rec.field = "status"
  <2> DEFINE to == [id |-> durable.id, status |-> rec.value]
  <2>1. /\ slot # NoGoal /\ slot.id = durable.id /\ slot.status = durable.status
        /\ to = [slot EXCEPT !.status = rec.value]
    BY <1>6, <1>13
  <2>2. slot' = to
    BY <1>4, <1>13
  <2>3. retired' = IF rec.value = "complete" THEN retired \cup {slot.id} ELSE retired
    BY <1>2, <1>4, <1>13, <2>1
  <2>4. rec.value \in Statuses
    BY <1>3, <1>13 DEF Records, Updates
  <2> HIDE DEF to
  <2>5. CASE Lossy
    <3>1. Slot!Stray(rec.value)
      BY <1>5, <2>1, <2>2, <2>3, <2>5 DEF Slot!Stray, Slot!Full
    <3> QED BY <2>4, <3>1 DEF Slot!Next, Statuses
  <2>6. CASE ~Lossy
    <3>1. IsStatus(1) /\ 1 \in 1..Len(script)
      BY <1>1, <1>13 DEF IsStatus, IsAppend, rec
    <3>2. LegalMove(slot.status, rec.value)
      BY <2>1, <2>6, <3>1 DEF IInv, ScriptMoves, rec
    <3>3. Lossy' = FALSE
      BY <1>9, <1>13, <2>6
    <3>4. Slot!Pause \/ Slot!Block \/ Slot!Resume \/ Slot!Complete
      BY <2>1, <2>2, <2>3, <2>6, <3>2, <3>3
      DEF LegalMove, Slot!Pause, Slot!Block, Slot!Complete, Slot!Resume, Slot!Go, Slot!Full
    <3> QED BY <3>4 DEF Slot!Next
  <2> QED BY <2>5, <2>6
<1> QED BY <1>3, <1>10, <1>11, <1>12, <1>13

\* LogIsLegal: the code, with its crashes and replays, implements the abstract
\* life of GoalSlot; only an append or a crash moves the log or what is known to
\* be missing in it.  With no record of the life lost, that is the lifecycle of
\* docs/GOALS.md and no more.
THEOREM LogLegal == Spec => LogIsLegal
<1>1. Init => Slot!Init
  BY DEF Init, Slot!Init, Lossy
<1>2. IInv /\ [Next]_vars => [Slot!Next]_(Slot!vars)
  <2> SUFFICES ASSUME IInv, [Next]_vars PROVE [Slot!Next]_(Slot!vars)
    OBVIOUS
  <2>1. ASSUME durable' = durable, retired' = retired, stale' = stale
        PROVE  [Slot!Next]_(Slot!vars)
    BY <2>1 DEF Slot!vars, Lossy
  <2>2. CASE RunEffect
    <3>1. Head(script) = script[1]
      BY <2>2 DEF IInv, TypeOK, RunEffect
    <3>2. CASE Head(script).io = "append" /\ Take(script[1].rec)
      BY <2>2, <3>2, TakeIsLegal
    <3>3. CASE Head(script).io = "append" /\ Miss(script[1].rec)
      <4>1. durable' = durable /\ retired' = retired /\ stale \subseteq stale'
        BY <3>3 DEF Miss, AfterMiss
      <4>2. CASE Lossy' = Lossy
        BY <4>1, <4>2 DEF Slot!vars
      <4>3. CASE Lossy' # Lossy
        <5>1. Lossy' = TRUE
          BY <4>1, <4>3 DEF Lossy
        <5>2. Slot!Lose
          BY <4>1, <5>1 DEF Slot!Lose
        <5> QED BY <5>2 DEF Slot!Next
      <4> QED BY <4>2, <4>3
    <3>4. CASE Head(script).io = "publish"
      BY <2>1, <2>2, <3>4 DEF RunEffect
    <3> QED BY <2>2, <3>1, <3>2, <3>3, <3>4 DEF RunEffect, AppendRecord
  <2>3. CASE Lifecycle
    BY <2>1, <2>3 DEF Lifecycle, CreateGoal, CreateGoalRejected, PauseGoal, ResumeGoal,
       MarkBlocked, MarkComplete, CancelGoal, CancelGoalByID, CleanupExpired, NotifyGoalChanged,
       Move, Change, Clear, Ghosts
  <2>4. CASE Progress \/ Todos
    BY <2>1, <2>4 DEF Progress, Todos, IncrementTurn, RecordTokenUsage, SetPauseAfterComplete,
       SetBudgetLimits, AddGoalTodo, UpdateGoalTodo, RenameGoalTodo, RemoveGoalTodo, SetTodos,
       Change, Ghosts
  <2>5. CASE Gate
    BY <2>1, <2>5 DEF Gate, RequestCompleteUngated, Challenge, BeginCompletion, RunVerification,
       FinishCompletion, FailCompletion, Ghosts
  <2>6. CASE Crash
    <3>1. Slot!Settle
      BY <2>6 DEF Crash, Slot!Settle, Lossy
    <3> QED BY <3>1 DEF Slot!Next
  <2>7. CASE Replay \/ UNCHANGED vars
    BY <2>1, <2>7 DEF Replay, vars, Ghosts
  <2> QED BY <2>2, <2>3, <2>4, <2>5, <2>6, <2>7 DEF Next
<1> QED BY <1>1, <1>2, InvHolds, PTL DEF Spec, LogIsLegal, Slot!Spec
=============================================================================
