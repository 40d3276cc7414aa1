------------------------------ MODULE GoalMode ------------------------------
(***************************************************************************)
(* The durable owner of the current goal: core/goal/mode.go, gate.go,      *)
(* todo.go, budget.go, store.go.                                           *)
(*                                                                         *)
(* A GoalMode method holds m.mu for its whole body.  Inside it changes     *)
(* m.state, publishes snapshots to the UI and appends records to the event *)
(* log, in an order that matters only to somebody who does not take the    *)
(* mutex: a crash.  An operation is therefore one step that changes the    *)
(* state in memory and leaves in script the effects it has still to make,  *)
(* in program order; RunEffect makes the next one.  The mutex is free when *)
(* script is empty, and a crash may fall between any two effects.          *)
(*                                                                         *)
(* The log is represented by the stage it replays to: Replay is a left     *)
(* fold of Restore* over the records, so appending a record is one more    *)
(* application of Restored.  An append may fail, at any record, and the    *)
(* error is dropped: the operation goes on, and so does the program, with  *)
(* a record missing in the log.  History variables say which.              *)
(***************************************************************************)
EXTENDS Naturals, Sequences, FiniteSets

CONSTANTS
  Goals,             \* identities generateGoalID can return
  NoGoal,            \* m.state = nil; no snapshot in an event
  NoLimit,           \* a nil budget limit
  Inputs,            \* the CreateGoalInputs that are enumerated
  Requests,          \* concurrent RequestComplete calls
  DoneGate,          \* goals.done_gate
  Verifier,          \* a command verifier is wired and enabled
  Judge,             \* a completion judge is wired
  MaxVerifyFailures, \* goals.max_verify_failures, 0 for no cap
  DefaultTurnBudget, \* SetDefaultTurnBudget, NoLimit for none
  Budgets,           \* the limits SetBudgetLimits is called with
  MaxTodos,          \* bound on the todo list
  MaxEdits,          \* bound on what a goal gathers: turns, tokens, todos, a
                     \* budget, the armed one-shot
  MaxStale           \* bound on what failed appends leave out of the log at once

Kinds == {"standard", "unblock"}
Actors == {"user", "model", "runtime", "system"}
Statuses == {"active", "paused", "blocked", "complete"}
TodoStatuses == {"pending", "in_progress", "done"}
TodoIds == 1..MaxTodos
Limits == Nat \cup {NoLimit}

\* What a creator chooses; everything in it is immutable afterwards.
CreateInput == [kind: Kinds, managed: BOOLEAN, criterion: BOOLEAN, verifyCmd: BOOLEAN]

TodoLists == UNION {[S -> TodoStatuses] : S \in SUBSET TodoIds}

Stage == [id: Goals, input: CreateInput, status: Statuses, turns: Nat, tokens: Nat,
          turnBudget: Limits, tokenBudget: Limits, pauseNext: BOOLEAN,
          todos: TodoLists, pending: BOOLEAN, failures: Nat]

\* The part of a snapshot the UI renders.
Views == [id: Goals, status: Statuses, turns: Nat, todos: TodoLists,
          turnBudget: Limits, tokenBudget: Limits, pauseNext: BOOLEAN]

ASSUME ConstantsOK ==
  /\ NoGoal \notin Stage
  /\ NoGoal \notin Views
  /\ NoGoal \notin [id: Goals, status: Statuses]
  /\ NoGoal \notin Goals
  /\ NoLimit \notin Nat
  /\ Inputs \subseteq CreateInput
  /\ DoneGate \in {"off", "evidence", "verify"}
  /\ Verifier \in BOOLEAN /\ Judge \in BOOLEAN
  /\ MaxVerifyFailures \in Nat
  /\ DefaultTurnBudget \in Limits
  /\ Budgets \subseteq Limits
  /\ MaxTodos \in Nat /\ MaxEdits \in Nat /\ MaxStale \in Nat

VARIABLES
  up,        \* the process runs
  goal,      \* m.state
  script,    \* effects the operation that holds m.mu has still to make
  durable,   \* the stage the event log replays to
  torn,      \* the file ends in half a line, left by a write that failed
  feed,      \* the snapshot last given to Publish in this process, <<>> before any
  req,       \* the RequestComplete calls in flight
  minted,    \* identities handed out so far
  stale,     \* history: what the log lacks since its last record was lost
  announced, \* history: goals whose completion was published, and neither the
             \* record of it nor the clear record after it was lost
  retired    \* history: goals whose life ended in the log

Ghosts == <<stale, announced, retired>>

vars == <<up, goal, script, durable, torn, feed, req, minted, Ghosts>>

-----------------------------------------------------------------------------
(* Stages, records and effects *)

NoTodos == [i \in {} |-> "pending"]

NewStage(g, input, turnBudget) ==
  [id |-> g, input |-> input, status |-> "active", turns |-> 0, tokens |-> 0,
   turnBudget |-> turnBudget, tokenBudget |-> NoLimit, pauseNext |-> FALSE,
   todos |-> NoTodos, pending |-> FALSE, failures |-> 0]

\* A variant: the gate's memory survives a status change.
ApplyStatusKeepingGate(st, s) == [st EXCEPT !.status = s]

\* applyStatus: leaving active abandons the challenge and the failure streak.
ApplyStatus(st, s) ==
  IF s = "active" THEN [st EXCEPT !.status = s]
  ELSE [st EXCEPT !.status = s, !.pending = FALSE, !.failures = 0]

CreateRecord(g, input) == [type |-> "create", id |-> g, input |-> input]
ClearRecord == [type |-> "clear"]
Patch(field, value) == [type |-> "update", field |-> field, value |-> value]

BudgetPatch(st) == Patch("budget", [turn |-> st.turnBudget, token |-> st.tokenBudget])

\* RestoreUpdate, for the one group of fields each update record carries.  The
\* todos field is omitempty: an empty list is not written at all.
RestoreUpdate(st, rec) ==
  CASE rec.field = "status" -> [st EXCEPT !.status = rec.value]
    [] rec.field = "turns"  -> [st EXCEPT !.turns = rec.value]
    [] rec.field = "tokens" -> [st EXCEPT !.tokens = rec.value]
    [] rec.field = "todos"  -> IF DOMAIN rec.value = {} THEN st
                               ELSE [st EXCEPT !.todos = rec.value]
    [] rec.field = "pauseNext" -> [st EXCEPT !.pauseNext = rec.value]
    [] rec.field = "budget" -> [st EXCEPT !.turnBudget = rec.value.turn,
                                          !.tokenBudget = rec.value.token]
    [] OTHER -> st

\* One more record in the log.
Restored(st, rec) ==
  CASE rec.type = "create" -> NewStage(rec.id, rec.input, NoLimit)
    [] rec.type = "clear"  -> NoGoal
    [] OTHER -> IF st = NoGoal THEN NoGoal ELSE RestoreUpdate(st, rec)

\* What the UI shows of a goal; token use is accrued silently.
Shown(st) ==
  IF st = NoGoal THEN NoGoal
  ELSE [id |-> st.id, status |-> st.status, turns |-> st.turns, todos |-> st.todos,
        turnBudget |-> st.turnBudget, tokenBudget |-> st.tokenBudget,
        pauseNext |-> st.pauseNext]

Publish(st, change, actor) ==
  [io |-> "publish", goal |-> Shown(st), change |-> change, actor |-> actor]
Append1(rec) == [io |-> "append", rec |-> rec]

\* clearInternal: publish nil, then append the clear record.
ClearScript(change, actor) ==
  <<Publish(NoGoal, change, actor), Append1(ClearRecord)>>

-----------------------------------------------------------------------------
(* The mutex *)

Free == up /\ script = <<>>
Current == Free /\ goal # NoGoal
Active == Current /\ goal.status = "active"

\* A variant: a change is logged and not published.
ChangeUnpublished(st, kind, rec) ==
  /\ goal' = st
  /\ script' = <<Append1(rec)>>
  /\ UNCHANGED <<up, durable, torn, feed, req, minted, Ghosts>>

\* An operation that replaces the stage by st, publishes it and logs rec.
Change(st, kind, rec) ==
  /\ goal' = st
  /\ script' = <<Publish(st, kind, "none"), Append1(rec)>>
  /\ UNCHANGED <<up, durable, torn, feed, req, minted, Ghosts>>

\* A variant: a status change is published and not logged.
MoveUnlogged(s) ==
  LET st == ApplyStatus(goal, s)
  IN  /\ goal' = st
      /\ script' = <<Publish(st, "lifecycle", "none")>>
      /\ UNCHANGED <<up, durable, torn, feed, req, minted, Ghosts>>

\* A status change, logged by appendStatusUpdate.
Move(s) == Change(ApplyStatus(goal, s), "lifecycle", Patch("status", s))

\* clearInternal with nothing after it.
Clear(change, actor) ==
  /\ goal' = NoGoal
  /\ script' = ClearScript(change, actor)
  /\ UNCHANGED <<up, durable, torn, feed, req, minted, Ghosts>>

\* A variant: the completion is announced before it is logged.
CloseAnnouncingFirst ==
  LET done == ApplyStatus(goal, "complete")
  IN  /\ goal' = NoGoal
      /\ script' = <<Publish(done, "completion", "none"),
                     Append1(Patch("status", "complete")),
                     Publish(NoGoal, "none", "none"), Append1(ClearRecord)>>

\* A variant: the snapshot announced is taken after the clear.
CloseAnnouncingNothing ==
  /\ goal' = NoGoal
  /\ script' = <<Append1(Patch("status", "complete")),
                 Publish(NoGoal, "completion", "none"),
                 Publish(NoGoal, "none", "none"), Append1(ClearRecord)>>

\* markCompleteLocked: log the status, announce it, then clear.
Close ==
  LET done == ApplyStatus(goal, "complete")
  IN  /\ goal' = NoGoal
      /\ script' = <<Append1(Patch("status", "complete")),
                     Publish(done, "completion", "none"),
                     Publish(NoGoal, "none", "none"), Append1(ClearRecord)>>

\* What a record is about.
Group(rec) == IF rec.type = "update" THEN rec.field ELSE "goal"

\* What the log will lack when it has, and has not, taken the record.
AfterTake(rec) == IF rec.type = "update" THEN stale \ {rec.field} ELSE {}
AfterMiss(rec) == stale \cup {Group(rec)}

\* The record is a line of its own at the end of the file.
Take(rec) ==
  /\ durable' = Restored(durable, rec)
  /\ stale' = AfterTake(rec)
  /\ retired' = IF /\ durable # NoGoal
                   /\ \/ durable' = NoGoal \/ durable'.id # durable.id
                      \/ durable'.status = "complete"
                THEN retired \cup {durable.id} ELSE retired
  /\ UNCHANGED announced

\* No replay will see the record.
Miss(rec) ==
  /\ stale' = AfterMiss(rec)
  /\ announced' = IF durable # NoGoal /\ rec.type = "clear" THEN announced \ {durable.id}
                  ELSE announced
  /\ UNCHANGED <<durable, retired>>

\* FileEventStore.Append.  A record written behind half a line makes one corrupt
\* line with it, which Replay skips.  Opening or writing the file may fail, with
\* or without half a line left behind; appendGoalUpdateRecord drops the error.
AppendRecord(rec) ==
  \/ ~torn /\ Take(rec) /\ UNCHANGED torn
  \/ torn /\ Miss(rec) /\ torn' = FALSE
  \/ /\ Cardinality(AfterMiss(rec)) <= MaxStale
     /\ Miss(rec) /\ torn' \in {torn, TRUE}

RunEffect ==
  /\ up /\ script # <<>>
  /\ script' = Tail(script)
  /\ LET e == Head(script)
     IN  \/ /\ e.io = "append"
            /\ AppendRecord(e.rec)
            /\ UNCHANGED feed
         \/ /\ e.io = "publish"
            /\ feed' = <<e.goal>>
            /\ announced' = IF e.change = "completion" /\ "status" \notin stale
                            THEN announced \cup {e.goal.id} ELSE announced
            /\ UNCHANGED <<durable, torn, stale, retired>>
  /\ UNCHANGED <<up, goal, req, minted>>

-----------------------------------------------------------------------------
(* Creation *)

\* Only the runtime may classify a goal.
Sanitize(input, actor) ==
  IF actor = "runtime" THEN input ELSE [input EXCEPT !.kind = "standard"]

CreateGoal(g, input, actor, replace) ==
  /\ Free
  /\ goal # NoGoal => replace
  /\ g \in Goals \ minted
  /\ LET new == Sanitize(input, actor)
         st == NewStage(g, new, DefaultTurnBudget)
     IN  /\ goal' = st
         /\ script' = IF goal = NoGoal
                      THEN <<Publish(st, "none", "none"), Append1(CreateRecord(g, new))>>
                      ELSE <<Publish(NoGoal, "none", "none"), Append1(ClearRecord),
                             Publish(st, "none", "none"), Append1(CreateRecord(g, new))>>
  /\ minted' = minted \cup {g}
  /\ UNCHANGED <<up, durable, torn, feed, req, Ghosts>>

\* An overlong handover is rejected after the old goal is gone.
CreateGoalRejected ==
  /\ Current
  /\ Clear("none", "none")

-----------------------------------------------------------------------------
(* Lifecycle *)

PauseGoal == Active /\ Move("paused")

ResumeGoal == Current /\ goal.status \in {"paused", "blocked"} /\ Move("active")

\* A variant: a goal can be blocked whatever its status.
MarkBlockedAnytime == Current /\ Move("blocked")

MarkBlocked == Active /\ Move("blocked")

CancelGoal(actor) == Current /\ Clear("clear", actor)

CancelGoalByID(g, actor) == Current /\ goal.id = g /\ Clear("clear", actor)

\* An ungated completion: the user's, the runtime's, an orchestrator's.
MarkComplete ==
  /\ Active
  /\ Close
  /\ UNCHANGED <<up, durable, torn, feed, req, minted, Ghosts>>

CleanupExpired == Current /\ goal.status # "active" /\ Clear("none", "none")

NotifyGoalChanged ==
  /\ Free
  /\ script' = <<Publish(goal, "none", "none")>>
  /\ UNCHANGED <<up, goal, durable, torn, feed, req, minted, Ghosts>>

-----------------------------------------------------------------------------
(* Counters, budgets, the one-shot and the todo list *)

Edits(st) ==
  st.turns + st.tokens + Cardinality(DOMAIN st.todos)
    + (IF st.pauseNext THEN 1 ELSE 0) + (IF st.tokenBudget # NoLimit THEN 1 ELSE 0)

HasRoom == Edits(goal) < MaxEdits

IncrementTurn ==
  /\ Active /\ HasRoom
  /\ Change([goal EXCEPT !.turns = @ + 1], "none", Patch("turns", goal.turns + 1))

\* persistState is Silent here: nothing is published.
RecordTokenUsage ==
  /\ Active /\ HasRoom
  /\ goal' = [goal EXCEPT !.tokens = @ + 1]
  /\ script' = <<Append1(Patch("tokens", goal.tokens + 1))>>
  /\ UNCHANGED <<up, durable, torn, feed, req, minted, Ghosts>>

SetPauseAfterComplete(armed) ==
  /\ Current /\ (armed => HasRoom)
  /\ Change([goal EXCEPT !.pauseNext = armed], "none", Patch("pauseNext", armed))

\* The limits given are merged into the ones that stand.
SetBudgetLimits(turn, token) ==
  /\ Current /\ HasRoom
  /\ LET st == [goal EXCEPT !.turnBudget = IF turn = NoLimit THEN @ ELSE turn,
                            !.tokenBudget = IF token = NoLimit THEN @ ELSE token]
     IN  Change(st, "none", BudgetPatch(st))

SetTodos(todos) == Change([goal EXCEPT !.todos = todos], "none", Patch("todos", todos))

\* nextTodoID: the lowest number no item has now.
NextTodoId(todos) ==
  CHOOSE i \in 1..MaxTodos + 1 :
    i \notin DOMAIN todos /\ \A j \in 1..i - 1 : j \in DOMAIN todos

AddGoalTodo ==
  /\ Current /\ HasRoom
  /\ NextTodoId(goal.todos) \in TodoIds
  /\ SetTodos([k \in DOMAIN goal.todos \cup {NextTodoId(goal.todos)} |->
                IF k \in DOMAIN goal.todos THEN goal.todos[k] ELSE "pending"])

UpdateGoalTodo(i, s) ==
  /\ Current /\ i \in DOMAIN goal.todos
  /\ SetTodos([goal.todos EXCEPT ![i] = s])

RenameGoalTodo(i) ==
  /\ Current /\ i \in DOMAIN goal.todos
  /\ SetTodos(goal.todos)

RemoveGoalTodo(i) ==
  /\ Current /\ i \in DOMAIN goal.todos
  /\ SetTodos([k \in DOMAIN goal.todos \ {i} |-> goal.todos[k]])

-----------------------------------------------------------------------------
(* The done-gate: RequestComplete by the model *)

GateApplies(st) == DoneGate # "off" /\ ~st.input.managed /\ st.input.criterion

AllTodosDone(st) == \A i \in DOMAIN st.todos : st.todos[i] = "done"

Idle == [at |-> "idle"]

\* The gate does not apply: the request closes the goal at once.
RequestCompleteUngated ==
  /\ Active /\ ~GateApplies(goal)
  /\ Close
  /\ UNCHANGED <<up, durable, torn, feed, req, minted, Ghosts>>

\* verify mode: the first request is only challenged.
Challenge ==
  /\ Active /\ GateApplies(goal) /\ AllTodosDone(goal)
  /\ DoneGate = "verify" /\ ~goal.pending
  /\ goal' = [goal EXCEPT !.pending = TRUE]
  /\ UNCHANGED <<up, script, durable, torn, feed, req, minted, Ghosts>>

\* A confirmed request with evidence goes on to machine verification, which
\* runs with the mutex released.  The decision carries the goal's command and
\* not the goal; target is kept for the properties only.
BeginCompletion(r) ==
  /\ Active /\ GateApplies(goal) /\ AllTodosDone(goal)
  /\ DoneGate = "verify" => goal.pending
  /\ req[r].at = "idle"
  /\ req' = [req EXCEPT ![r] = [at |-> "verifying", target |-> goal.id,
                                 cmd |-> goal.input.verifyCmd /\ Verifier]]
  /\ UNCHANGED <<up, goal, script, durable, torn, feed, minted, Ghosts>>

\* The command fails, or the judge says FAIL.  A judge error passes.
RunVerification(r) ==
  /\ up /\ req[r].at = "verifying"
  /\ \E verdict \in {"passed", "failed"} :
        /\ verdict = "failed" => req[r].cmd \/ Judge
        /\ req' = [req EXCEPT ![r].at = verdict]
  /\ UNCHANGED <<up, goal, script, durable, torn, feed, minted, Ghosts>>

\* Back under the mutex: the only check is that some goal is active.
FinishCompletion(r) ==
  /\ Free /\ req[r].at = "passed"
  /\ req' = [req EXCEPT ![r] = Idle]
  /\ IF Active THEN Close ELSE UNCHANGED <<goal, script>>
  /\ UNCHANGED <<up, durable, torn, feed, minted, Ghosts>>

Strike(st) == [st EXCEPT !.failures = @ + 1]

FailCompletion(r) ==
  /\ Free /\ req[r].at = "failed"
  /\ req' = [req EXCEPT ![r] = Idle]
  /\ IF Active
     THEN IF MaxVerifyFailures > 0 /\ goal.failures + 1 >= MaxVerifyFailures
          THEN LET st == ApplyStatus(Strike(goal), "blocked")
               IN  /\ goal' = st
                   /\ script' = <<Publish(st, "lifecycle", "none"),
                                  Append1(Patch("status", "blocked"))>>
          ELSE goal' = Strike(goal) /\ UNCHANGED script
     ELSE UNCHANGED <<goal, script>>
  /\ UNCHANGED <<up, durable, torn, feed, minted, Ghosts>>

-----------------------------------------------------------------------------
(* Crash and replay *)

\* The process dies: everything but the log is lost, and with nothing in memory
\* the log lacks nothing.
Crash ==
  /\ up
  /\ up' = FALSE /\ goal' = NoGoal /\ script' = <<>> /\ feed' = <<>>
  /\ req' = [r \in Requests |-> Idle]
  /\ stale' = {}
  /\ UNCHANGED <<durable, torn, minted, announced, retired>>

\* NormalizeAfterReplay: a stray complete goal is cleared, an active one is
\* parked; both repairs are logged and neither is published.
Replay ==
  /\ ~up /\ up' = TRUE
  /\ \/ durable = NoGoal /\ goal' = NoGoal /\ script' = <<>>
     \/ /\ durable # NoGoal /\ durable.status = "complete"
        /\ goal' = NoGoal /\ script' = <<Append1(ClearRecord)>>
     \/ /\ durable # NoGoal /\ durable.status = "active"
        /\ goal' = ApplyStatus(durable, "paused")
        /\ script' = <<Append1(Patch("status", "paused"))>>
     \/ /\ durable # NoGoal /\ durable.status \in {"paused", "blocked"}
        /\ goal' = durable /\ script' = <<>>
  /\ UNCHANGED <<durable, torn, feed, req, minted, Ghosts>>

-----------------------------------------------------------------------------
Init ==
  /\ up = TRUE /\ goal = NoGoal /\ script = <<>>
  /\ durable = NoGoal /\ torn = FALSE
  /\ feed = <<>> /\ req = [r \in Requests |-> Idle]
  /\ minted = {} /\ stale = {} /\ announced = {} /\ retired = {}

Lifecycle ==
  \/ \E g \in Goals, input \in Inputs, actor \in {"user", "runtime"}, replace \in BOOLEAN :
        CreateGoal(g, input, actor, replace)
  \/ CreateGoalRejected
  \/ PauseGoal \/ ResumeGoal \/ MarkBlocked \/ MarkComplete
  \/ \E actor \in {"user", "model", "runtime"} : CancelGoal(actor)
  \/ \E g \in Goals : CancelGoalByID(g, "runtime")
  \/ CleanupExpired \/ NotifyGoalChanged

Progress ==
  \/ IncrementTurn \/ RecordTokenUsage
  \/ \E armed \in BOOLEAN : SetPauseAfterComplete(armed)
  \/ \E turn, token \in Budgets : SetBudgetLimits(turn, token)

Todos ==
  \/ AddGoalTodo
  \/ \E i \in TodoIds : \/ \E s \in TodoStatuses : UpdateGoalTodo(i, s)
                        \/ RenameGoalTodo(i) \/ RemoveGoalTodo(i)

Gate ==
  \/ RequestCompleteUngated \/ Challenge
  \/ \E r \in Requests : \/ BeginCompletion(r) \/ RunVerification(r)
                         \/ FinishCompletion(r) \/ FailCompletion(r)

Next == RunEffect \/ Lifecycle \/ Progress \/ Todos \/ Gate \/ Crash \/ Replay

Spec == Init /\ [][Next]_vars

-----------------------------------------------------------------------------
(* Properties *)

Updates ==
  [type: {"update"}, field: {"status"}, value: Statuses]
    \cup [type: {"update"}, field: {"turns", "tokens"}, value: Nat]
    \cup [type: {"update"}, field: {"pauseNext"}, value: BOOLEAN]
    \cup [type: {"update"}, field: {"todos"}, value: TodoLists]
    \cup [type: {"update"}, field: {"budget"}, value: [turn: Limits, token: Limits]]

Records == Updates \cup [type: {"clear"}]
                   \cup [type: {"create"}, id: Goals, input: CreateInput]

Events ==
  [io: {"publish"}, goal: Views, change: {"completion"}, actor: {"none"}]
    \cup [io: {"publish"}, goal: Views \cup {NoGoal},
          change: {"none", "lifecycle", "clear"}, actor: Actors \cup {"none"}]

Effects == Events \cup [io: {"append"}, rec: Records]

Fields == {"status", "turns", "tokens", "pauseNext", "todos", "budget"}

Calls == [at: {"idle"}] \cup [at: {"verifying", "passed", "failed"}, target: Goals, cmd: BOOLEAN]

\* Every variable holds a value of its type, and at most one event is kept.
TypeOK ==
  /\ up \in BOOLEAN
  /\ goal \in Stage \cup {NoGoal}
  /\ durable \in Stage \cup {NoGoal}
  /\ script \in Seq(Effects)
  /\ feed \in Seq(Views \cup {NoGoal})
  /\ req \in [Requests -> Calls]
  /\ torn \in BOOLEAN /\ stale \subseteq Fields \cup {"goal"}
  /\ minted \subseteq Goals /\ announced \subseteq Goals /\ retired \subseteq Goals

\* st is what memory holds, log what the event log replays to, but what is
\* known to be missing.  Two fields may differ even so: a todo list emptied by
\* RemoveGoalTodo is not written, and the implicit turn budget of a new goal is
\* not part of its create record.
SameGoal(log, st, but) ==
  /\ log.id = st.id /\ log.input = st.input
  /\ "status" \notin but => log.status = st.status
  /\ "turns" \notin but => log.turns = st.turns
  /\ "tokens" \notin but => log.tokens = st.tokens
  /\ "pauseNext" \notin but => log.pauseNext = st.pauseNext
  /\ "todos" \notin but => st.todos \in {log.todos, NoTodos}
  /\ "budget" \notin but =>
       /\ log.tokenBudget = st.tokenBudget
       /\ \/ log.turnBudget = st.turnBudget
          \/ log.turnBudget = NoLimit /\ st.turnBudget = DefaultTurnBudget

Recovers(log, st, but) ==
  "goal" \notin but =>
    IF st = NoGoal THEN log = NoGoal ELSE log # NoGoal /\ SameGoal(log, st, but)

\* Whenever no operation holds the mutex, a crash followed by a replay brings
\* back the goal that is in memory, but for what failed appends left out of the
\* log: mode.go applies every change to m.state and to the log before it
\* unlocks.  A gap closes with the next record of its kind, or with the next
\* create or clear record, that the file takes.
CrashSafe == Free => Recovers(durable, goal, stale)

\* A completion that was announced is final: the goal is already complete in the
\* log when markCompleteLocked publishes, so that no crash at any later point
\* brings the goal back - unless the file did not take the record of the
\* completion, or of the clear after it.
AnnouncedIsFinal ==
  \A g \in announced :
    /\ goal # NoGoal => goal.id # g
    /\ durable # NoGoal /\ durable.id = g => durable.status = "complete"

\* The done-gate's memory is tied to the active status: a challenge or a
\* failure streak never outlives a pause, a block or a restart, and the
\* streak never stands at the cap (gate.go failCompletion, mode.go
\* applyStatus).
GateMemory ==
  goal # NoGoal =>
    /\ goal.status # "active" => ~goal.pending /\ goal.failures = 0
    /\ MaxVerifyFailures > 0 => goal.failures < MaxVerifyFailures

\* The last snapshot that was handed to the event publisher is the goal as it is
\* in memory, token use apart, whenever the mutex is free: no operation changes
\* what is shown without a call of Publish after the change (mode.go,
\* mode_helpers.go).  What the publisher does with it is GoalScheduling's part.
FeedFresh == Free /\ feed # <<>> => feed[1] = Shown(goal)

\* A create, clear or status record is missing in the log.
Lossy == stale \cap {"goal", "status"} # {}

\* The event log describes a legal life of a goal as long as it lacks no record
\* of it, and what GoalSlot still promises while it does.
Slot == INSTANCE GoalSlot WITH
  Empty <- NoGoal,
  slot <- IF durable = NoGoal THEN NoGoal ELSE [id |-> durable.id, status |-> durable.status],
  gone <- retired,
  lossy <- Lossy

LogIsLegal == Slot!Spec

-----------------------------------------------------------------------------
(* The inductive invariant behind CrashSafe, AnnouncedIsFinal and LogIsLegal *)

IsAppend(i, type) == script[i].io = "append" /\ script[i].rec.type = type
IsStatus(i) == IsAppend(i, "update") /\ script[i].rec.field = "status"
LastEffect == script[Len(script)]

\* Whatever the script has still to write, its last effect brings the log in
\* line with memory, or leaves out what it was about.
ScriptCatchesUp ==
  /\ script = <<>> /\ up => Recovers(durable, goal, stale)
  /\ script # <<>> =>
       /\ up
       /\ LastEffect.io = "append" =>
            /\ Recovers(Restored(durable, LastEffect.rec), goal, AfterTake(LastEffect.rec))
            /\ Recovers(durable, goal, AfterMiss(LastEffect.rec))
       /\ LastEffect.io = "publish" => Len(script) = 1 /\ Recovers(durable, goal, stale)

\* A create record comes last and is that of the goal in memory, on an empty log
\* or after a clear record unless the clear was lost; an update comes before
\* every other record.
ScriptOrder ==
  \A i \in 1..Len(script) :
    /\ IsAppend(i, "create") =>
         /\ i = Len(script)
         /\ goal # NoGoal /\ goal.id = script[i].rec.id /\ goal.id \notin retired
         /\ durable # NoGoal => durable.id # goal.id
         /\ \/ durable = NoGoal \/ "goal" \in stale
            \/ \E j \in 1..i - 1 : IsAppend(j, "clear")
    /\ IsAppend(i, "update") => \A j \in 1..i - 1 : script[j].io = "publish"

LegalMove(from, to) ==
  \/ from = "active" /\ to \in {"paused", "blocked", "complete"}
  \/ from \in {"paused", "blocked"} /\ to = "active"

\* A status record moves the logged goal along the lifecycle, if the log is up
\* to date.
ScriptMoves ==
  \A i \in 1..Len(script) :
    IsStatus(i) /\ ~Lossy =>
      durable # NoGoal /\ LegalMove(durable.status, script[i].rec.value)

\* A completion is published right after its status record was written, or lost,
\* and the clear record follows.
ScriptAnnounces ==
  \A i \in 1..Len(script) :
    script[i].io = "publish" /\ script[i].change = "completion" =>
      /\ goal = NoGoal /\ script[i].goal # NoGoal /\ script[i].goal.id \in minted
      /\ Len(script) = i + 2 /\ script[i + 1].io = "publish" /\ IsAppend(i + 2, "clear")
      /\ \/ /\ i = 1
            /\ durable # NoGoal /\ durable.id = script[i].goal.id /\ "status" \notin stale =>
                 durable.status = "complete"
         \/ i = 2 /\ IsStatus(1) /\ script[1].rec.value = "complete"

\* An announced goal stands in the log, complete, only until its clear record is
\* written, which is the next one.
CompleteLeaves ==
  durable # NoGoal /\ durable.id \in announced /\ up =>
    \E i \in 1..Len(script) :
      IsAppend(i, "clear") /\ \A j \in 1..i - 1 : script[j].io = "publish"

\* Identities: all were minted, and a completed goal in the log is retired.
Identities ==
  /\ goal # NoGoal => goal.id \in minted
  /\ durable # NoGoal => durable.id \in minted
  /\ durable # NoGoal /\ durable.status = "complete" => durable.id \in retired
  /\ retired \subseteq minted /\ announced \subseteq minted

\* With the process down there is nothing in memory.
DownIsBlank == ~up => goal = NoGoal /\ script = <<>>

IInv == /\ TypeOK /\ DownIsBlank
        /\ ScriptCatchesUp /\ ScriptOrder /\ ScriptMoves /\ ScriptAnnounces
        /\ CompleteLeaves /\ Identities /\ AnnouncedIsFinal

-----------------------------------------------------------------------------
(* What the documentation says and the code does not do *)

\* gate.go:176-178 on RequestComplete: "the goal is only closed afterwards, and
\* only if its state did not change meanwhile" - so the goal a verification
\* closes is the goal it verified.
ClosesWhatItVerified ==
  [][\A r \in Requests :
       req[r].at = "passed" /\ up' /\ req'[r].at = "idle" /\ goal # NoGoal /\ goal' = NoGoal
         => goal.id = req[r].target]_vars
=============================================================================
