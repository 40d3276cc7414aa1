# TLA+ verification of goa

goa is a terminal coding agent: one process that drives language models, lets
them call tools, pursues long-lived goals and runs several agents at once. This
directory holds TLA+ models of the parts of it whose correctness depends on the
order in which things happen, configurations that check them with TLC, and
theorems about them checked with TLAPS. Paths below are relative to `src/`.

Contents: 1 the system, 2 the modules, 3 the runs, 4 bounds, 5 fairness,
6 proofs, 7 where code and documents differ, 8 what is not modelled, 9 the plan.

## 1. The system and its parts

| Part | State it keeps | Operations | What is hard, and what makes it correct |
|---|---|---|---|
| Goal mode (`core/goal`) | one goal slot in memory, the event log `goal.jsonl`, the gate's memory | create, pause, resume, block, complete, cancel, expire, budgets, turn and token counters, todos, replay | each change is made in memory, published and logged in some order, and a crash may fall between; an append may fail, and the error is dropped; the completion gate runs a verifier with the mutex free. The log must replay to what was in memory, but for what it failed to take; a completion that was announced and logged is final; the gate's memory ends with the active status |
| Agent manager and steering (`core/agentmanager*.go`, `core/steering.go`) | `running`, the cancel function and its generation, `pendingSteering`, the steering queue | typed input, turn start, finalize, cleanup, ESC | several goroutines flush the same queue and set the same flags under different acquisitions. One turn in the agent, no message twice or lost, ESC reaches the newest turn |
| Goal driver (`core/goal_driver.go`, `internal/app/subsystems_goal.go`) | `driving`, the loop's context | Start, Drive, Stop, the post-turn hook | wake-ups race the loop's exit. One loop at a time; a stopped loop comes down; an active goal is driven |
| Agent SDK, a turn (`internal/agentic/agent_stream*.go`, `agent_turn_lifecycle.go`) | history, `processing`, the input queue, the stream's buffers, retry and strike counters | round, stream events, retry, recovery, cancel, undo | one set of buffers serves first streams, retries and recovery, a watchdog reads them, and a failure undoes a part of the history that others append to. Requests stay well formed, streams do not mix, nothing but calls prolongs a turn |
| Agent SDK, a batch of tool calls (`internal/agentic/tool_scheduler.go`) | pending and active calls, one result per call | add, start, finish, cancel, collect | calls without a goroutine of their own are started by those that finish; tools hang. Nobody is forgotten, nobody waits for ever without a reason |
| Orchestrator pool (`core/orchestrator/pool.go`) | counters per cap, live handles, a queue of channels | Acquire, Release | callers sleep and are woken by a non-blocking send; builds fail; contexts end. Counters exact, caps kept, nobody sleeps on a free pool |
| Orchestrator hub run (`runtime_loop.go`, `runtime_record.go`, `runtime_steer.go`) | the loop's flags, two channels, pending delegations, buffered answers | turn, delegate, rework, ask_user, answer, wait, cancel | two channels are created, closed and cleared by different goroutines. No wait is on a channel nobody closes; synthesis follows every specialist; answers arrive; cancel ends the run |
| Goal queue and promotion (`core/goal_queue.go`, `tools/goal`, `internal/app/events_goal.go`) | a queue file, deferred promotions | insert, move, remove, promote, postpone | multi-step edits of slot and queue from the tool, the commands and the event forwarder. No goal is lost, none runs twice, a cancel starts nothing, a cleared slot is filled |
| Plan store (`core/plan`) | an event-sourced list with item statuses | add, start, finish, review | replay, one item in progress |
| Background processes (`internal/background`) | the registry in memory and in a file, one exit goroutine per process | start, stop, stop all, exit, restart | the mutex is not held while waiting, processes outlive the program, PIDs are reused. What is recorded as ended is dead; what runs is found again; Stop returns |
| Web hub, supervisor, attach (`internal/webui`, `internal/attach`) | drivers, viewers, children | join, leave, start, stop | one driver, one child per directory |
| Event bus, durable sink | bounded channels | post, drain | what is dropped when a channel is full |
| Everything else | see `PROJECT.json` | | tools, providers, TUI, configuration, parsers: input and output or sequential code |

How they interact: the user's line goes to the agent manager, which starts a
turn of the agent or appends to the steering queue; the end of a turn calls the
post-turn hook, which starts the goal driver; the driver takes turns of the same
agent through a runner that checks `IsRunning`, and reads and writes the goal
through goal mode; goal mode publishes snapshots to the event bus for the UI and
appends records to the log. A hub run of the orchestrator has an agent pool of
its own; its tools, called inside the orchestrator's turn, take agents from the
same pool that the orchestrator's agent came from.
A turn of the agent is a loop of streams; the calls a stream brought form a
batch that a tool scheduler runs. One of the tools is the goal tool, which edits
the goal slot and the queue of goals while the user's commands do the same and
the event forwarder promotes the head of the queue; another starts and stops
background processes.

## 2. The modules

### GoalMode, with GoalSlot as its abstract specification

Source: `core/goal/mode.go`, `mode_helpers.go`, `gate.go`, `todo.go`, `store.go`,
`model.go`.

A method of `GoalMode` holds the mutex for its whole body, and inside it changes
memory, publishes and appends in some order. Only a crash can see that order. So
an operation is one step that changes `goal` and leaves in `script` the effects
it still has to make, in program order; `RunEffect` makes the next; the mutex is
free when `script` is empty; `Crash` may come between any two. `durable` is the
stage the log replays to: since `Replay` is a left fold of `RestoreCreate`,
`RestoreUpdate` and the clear record, appending a record applies `Restored` once
more, and no log needs to be kept. `feed` is the snapshot last handed to the
event publisher, by the call of `Publish`; when and in which order the UI gets it
is modelled in `GoalScheduling`. `req` says where each concurrent
`RequestComplete` is: the gate releases the mutex while the verify command or the
judge runs, so anything may happen to the goal before `FinishCompletion` or
`FailCompletion`. `minted`, `announced` and `retired` are history variables over
goal identities.

`FileEventStore.Append` may fail, and `appendGoalUpdateRecord`, through which every
record goes, drops the error. So `AppendRecord` has three outcomes: the file takes the record
(`Take`); or it does not, because opening or writing it failed, and half a line
may be left behind (`Miss`, with `torn`); or the record is written behind such a
half line, makes one corrupt line with it, and is skipped by the next replay. The
operation goes on in each case. `stale` is the history of what went missing: the
groups of fields ("status", "turns", ..., "goal" for a create or clear) whose last
record was lost. A record of the same group that is taken closes the gap, a
create or clear record that is taken closes all. `announced` holds the goals
whose completion was published while the record of it was in the log, and loses
one whose clear record is lost.

`GoalSlot` says what the log promises without process, mutex, crash or replay:
one slot, legal moves between statuses, a goal that left or was completed is
never created again. While a create, clear or status record is missing (`lossy`)
it promises less: any status may follow (`Stray`), and a new goal may take the
place of one whose end was lost (`Supersede`). `LogIsLegal` is `GoalSlot!Spec`
under the mapping of `durable`, `retired` and `Lossy`.

### AgentTurns

Source: `core/agentmanager*.go`, `core/steering.go`, `core/goal_driver.go`,
`internal/agentic/agent_run.go`, `internal/app/subsystems_goal.go`.

A process is a goroutine: the interface, a turn (`runAgentTurn`), or a drive
loop. A step is what runs between two acquisitions of a mutex, so `SendRead`,
`SendCheck`, `SendAppend` and `SendStart` are separate, as are the steps at the
end of a turn (`TurnEnds`, `FinalizeTurn`, `NextQueued`, `FinishProcessing`,
`FlushLeftover`, `Cleanup`, `PostTurnHook`) and the two halves of the drive loop's
dispatch, which empties `pendingSteering` and then the live queue
(`DispatchPendingSteering`, `FlushLive`). A text is the set of messages joined
in it, which is enough to say where each message is.

### AgentPool, with SlotPool as its abstract specification

Source: `core/orchestrator/pool.go`.

`at` says where each caller is inside `Acquire`. The step between `tryReserve`,
which appends the caller's channel under the mutex, and the select that receives
from it (`Park`) is a step of its own, because the channel is unbuffered and the
signal is sent only to a receiver that is there. `ReleaseLocked` is used by both
`Release` and the rollback of a failed build. `SlotPool` knows only a set of
holders and the caps; `KeepsTheCaps` is `SlotPool!Spec` with `held` mapped to the
callers that are reserved or live.

### HubRun, composed with AgentPool

Source: `core/orchestrator/runtime_loop.go`, `runtime_record.go`,
`runtime_steer.go`, `handle.go`, `runtime.go`.

`Pool == INSTANCE AgentPool WITH Callers <- {Orch} \cup Delegations`: the loop
and the delegations are callers of one pool, and every acquisition in the loop
or in a delegation is made of the pool's own actions. `loop` is where
`runOrchestratorLoop` is; `stage` is where each delegation is, from the tool
call to the release of its handle. `resumeCh` and `pendingDone` hold channel
numbers, `held` the channel the loop is waiting on, `signalled` whether that one
is closed; a closed channel nobody waits on is garbage. The user's answer takes
three steps, as `SteerOrchestrator` takes three locks. `heard` is what some
prompt contained, `said` and `owed` what the user said, in all and while the
loop was paused.

### GoalScheduling

Source: `core/goal_queue.go`, `tools/goal/goal.go`, `tools/goal/unblock.go`,
`internal/app/events_goal.go`, `events_handlers.go`, `subsystems_goal.go`,
`core/commands/goal_command_*.go`, and the calls of `core/goal/mode.go` they make.

`GoalMode` and `GoalQueueStore` have a mutex each, and nothing holds both. A step
is one call on one of the two; `pc` says where the tool, the user's command and
the event forwarder are between two calls, `hand` which goal they have in hand
and `seen` which goal the tool saw in the slot when it decided. So `promote` is
`Promote` (out of the queue), `LookToDemote`, `Demote`, `ReplaceByPromoted`, and
the forwarder's promotion is `HearCleared`, `Take`, `Install`, `Park`,
`Restore`. The publisher's bounded path is `bus` (event.Bus.Agent), `backlog`
and `sending`: `DrainTakes` takes an event off the backlog and `DrainSends`
delivers it later, so that the next `Publish` may overtake it; the two events of
one operation may come apart (`Split`), even around the one the drain is sending.
`CONSTANT
Commands` selects what the user and the model do. `known`, `closed`, `unseen`,
`parked` are history variables.

### ToolScheduler

Source: `internal/agentic/tool_scheduler.go`, `internal/toolaccess/toolaccess.go`,
`agent_tools.go`.

`at` says where each call of a batch is. A call is chosen under the mutex
(`admitted` by Add, `picked` by a finisher) and becomes active under another
acquisition (`Start`), as in the code. `result` is what the call's `sync.Once`
holds: its own result or a cancellation, whichever came first. The watcher of a
queued call answers it when the turn is stopped (`CancelQueued`). A tool in
`Hanging` may never return. The scheduler has deadlines, but the agent arms none
(`NewToolScheduler` leaves `taskTimeout` at zero and `scheduleAndRunToolCalls` sets
none), so the model has none.

### Background

Source: `internal/background/manager.go`, `process_unix.go`.

`os` is each process group as the system sees it (its shell may leave before the
rest of the group, a gentle signal may be ignored, the PID of a dead group may
name a foreign one), `mem` and `disk` the registry and its file, `handle` the
exit goroutine (`cmd.Wait`, which waits for the pipes), `caller` each Stop or
StopAll: the mutex is released while it waits. `Crash` forgets memory and every
goroutine and leaves the processes; `Restart` loads the file, probes the PIDs of
running tasks and numbers on from the highest name.

### AgentStream

Source: `internal/agentic/agent_streaming.go`, `agent_stream_retry.go`,
`agent_turn_lifecycle.go`, `agent_streamloop_detect.go`, `agent_stream_stall.go`,
`agent_stream_events.go`, `agent_misc.go`, `agent_config.go`,
`agent_compress_recovery.go`, `agent_compress_elision.go`, `agent_migrate.go`.

One agent's turns. `pc` is where the turn's goroutine is (between rounds, in a
stream, recording results, waiting for a backoff); `turn` holds the fields that
`prepareTurn` resets and the locals of the loops, `buf` those that
`resetStreamRoundState` clears, `strikes` what survives both. An event of the
provider is one action (`Text`, `Thinking`, `Call`, `Done`, `Ended`, `Eof`,
`StreamFails`, `Strike`), the watchdog's cut is `Stall`, and each ends in
`Complete`, `Premature` or `Fail` as the code's handlers do. `Opens` serves the
three callers that open a stream (`Round`, `RetryAttempt`, `RecoveryRound`), and
only the first two reset the buffers. `history` is the conversation as a
sequence of kinds, with the calls of a batch and the call of a result; the
text's content is abstracted to "none", "open" or "whole" (ends like a finished
sentence), its origin is kept in `ghost`. `Strip` and `Sent` keep the messages at
some places (`Those`); `Paired` and `Formed` say what a sound history is, and
`PastsOK` that turns before the modelled ones left one.

A stream that the provider refuses because the context is too long compresses the
history before the round is undone and retried (`Compressed`: `Elided`, then
`Selective`, the default hybrid strategy). The other triggers of compression go by
the estimated share of the model's window, and do nothing when the window is
unknown (`effectiveMaxTokens` is zero), which is the configuration modelled. The
system prompt, always the first message there, is not in `history`. `Sent` is the
request that `migrateMessages` makes of a history.

### Model-checking modules

Each `MC` module gives the constants that a configuration file cannot write and
the symmetry sets. The modules of the specifications contain, before some
operators, a variant of that operator with a plausible mistake; no specification
uses them, and each names the mistake that a property of the runs tells apart
from the code.

## 3. The runs

Runs that must pass (states are distinct states):

| Run | Instance | What it shows |
|---|---|---|
| `gate` | 2 goals, a completion request through the verify gate with verifier and judge, todos, budgets and counters, appends that fail with or without half a line left, crashes; 7.7 million (with symmetry) | `CrashSafe`: with the mutex free, a crash and a replay bring the goal back, but for the groups of fields whose last record the file did not take. `AnnouncedIsFinal`: an announced completion never returns, unless the record of it, or the clear record after it, was lost. `GateMemory`: challenge and failure streak do not outlive the active status and the streak is never at its cap. `FeedFresh`: no operation changes what is shown and does not hand it to the publisher. `LogIsLegal`: the log implements `GoalSlot` |
| `turns` | 2 messages, 2 turn goroutines, 1 drive loop, ESC, panics; 1.2 million (with symmetry) | `OneTurnInTheAgent`, `EachInputOnce`, `NewestIsCancellable`, `BusyHasAnOwner`, `OneDriveLoop` |
| `stop` | 1 message, no panics, fair scheduling; 41 thousand | `StopEndsTheLoop`: a drive loop that ESC stopped comes down |
| `pool` | 4 callers, 2 models, total cap 2, one model capped at 1; 2.7 thousand | `CountsExact`: the guarded decrements never hide an error. `KeepsTheCaps`: the pool implements `SlotPool`. `QueueSound`: no channel twice, none of a caller that moved on |
| `hub` | the loop, 3 delegations, 3 slots, one answer, 2 turns with tools, cancel at any moment; 342 thousand, fair scheduling | `AgentsAreReturned`: every agent is released once, on every path. `LoopFindsASlot`: the loop's own Acquire never waits. `PausedIsResumable`, `AwaitedWillSignal`: a wait is on a channel that is closed or will be. `SynthesisSeesAll`: the wait for specialists ends after the last. `PausedAnswerArrives`: an answer given to a paused loop reaches a prompt. `CancelEndsTheRun`, `AwaitEnds`: liveness |
| `sched` | 3 goals and an investigation; the model creates, postpones, blocks, promotes, completes, the user queues, pauses, resumes, reorders, deletes; 1.4 million (with symmetry) | `NothingLost`: an accepted goal is in the slot, in the queue or in hand until it is completed or somebody ends it, except where the tool clears a slot it has not looked at (section 7). `RunsOnce`: no goal is in two places outside the tool's own move, and none that was completed is in any |
| `succeed` | the same goals, which are completed (with and without the pause armed), cancelled, replaced, cancelled with the whole queue; 208 thousand, fair scheduling | `ParkedWaits`: a cancel never starts the successor. `SuccessorRuns`: a cleared slot with goals waiting is filled, although events may overtake each other |
| `tools` | the 256 batches of 4 calls of four kinds, a cap of 2, a first and a third call that may hang, a stop at any moment; 200 thousand, fair scheduling | `NobodyForgotten`: while a call is queued, one that will look at the queue is on its way. `CollectReturns`: Collect returns, or a tool hangs and every other call is answered but those that wait behind such a tool. `FailsFast`: a stop answers every queued call whatever the running tools do |
| `background` | 2 processes, one with a child that may escape, 2 tasks, 3 lives, failing writes, reused PIDs; 330 thousand, fair scheduling | `SettledIsGone`: what is recorded as ended, in memory or in the file, does not go on. `FoundAgain`: what Start reported is found after a restart. `StopReturns`, unless an escaped child holds the pipes. `TypeOK` |
| `stream` | a turn after a turn of text, 2 calls, 1 notice, 1 steering text, a cancel at any moment, no cap on rounds; 2.3 million, fair scheduling | `EveryCallAnswered`: no request shows half a round, wherever an undoing or a compression has cut the history. `EarlierTurnsKept`: until the context is found too long, a failure takes nothing from earlier turns. `NothingLeaks`: no message or call is made of two streams, outside recovery. `SilenceEndsWholeAnswers`: a stall ends a turn only with a finished answer, with the two exceptions of section 7. `OverflowEnds`: a turn whose context is too long is sent twice at most. `OnlyCallsProlong`: retries, continuations, strikes and recovery are bounded together, so that only a model that goes on calling tools prolongs a turn |

Runs that must find a violation, each of one sentence of the documentation or of
a comment (see section 7): `wakeup`, `undone`.

## 4. Bounds, and why they are enough

- `GoalMode`: `Goals` bounds how many goals are ever created. Two let a goal be
  replaced, or created anew after a crash or on a log that was never cleared,
  while the other is being verified; which of more goals is in the slot makes
  no difference to a request. One request races every other operation; a second
  one would be one more of those. `MaxEdits` (1) bounds what one goal gathers
  at a time, counters, todos, a budget and the armed one-shot together, and
  `MaxTodos` (1) its todos: each kind of record is written in some behaviour
  and lost in another, and the code relates no two of these fields. `MaxStale`
  (1) bounds how many groups of fields the log lacks at a time; one group can
  still lose any number of records, and the record behind a torn line is lost
  whatever the bound. The proofs need none of these bounds.
- `AgentTurns`: two turns and a drive loop are the three kinds of goroutine that
  may meet in the agent, with one more turn to be "older" or "newer" than
  another. `MaxQueue` bounds the agent's own queue; the code has no bound.
- `AgentPool`: four callers over two slots leave two sleepers, so that a signal
  to one and a cancellation of the other can cross; one model capped below the
  total makes the head waiter one that may have to queue again.
- `HubRun`: each delegation is used once. Three let two run together while a
  third waits for a slot, and the capped model lets one wait although the pool
  has room. Two turns with tools, and the turns after them, let channels be made
  again after they were closed. With fewer slots two delegations never overlap
  and `SynthesisSeesAll` would be empty.
- `GoalScheduling`: three goals are one in the slot, one in the queue and one
  in somebody's hand; the investigation is the goal that only the tool creates.
  `MaxQueue` (3 and 2) stops insertions, `MaxFeed` (2) stops operations that
  clear the slot while so many events are under way: two are what one
  overtaking the other needs. `MaxSpawns` is the cap on investigations in a
  row, which is two in the code and one here: the one investigation of the
  instance is below the cap, and the next blocked goal meets it. The proofs are
  for any cap.
- `ToolScheduler`: with a cap of two and four calls, two wait while two run, so
  that a finisher may find one, both or none startable. A call reads or writes one
  file, runs in the shell, or touches nothing, so that two calls conflict or do
  not in each way the code knows. With the first and the third hanging, a batch
  can have the cap full of tools that hang, one of them hanging, or none.
- `Background`: two processes share the counter, the file and the PIDs; three
  lives give a restart of a restart. One caller is enough for `StopReturns`,
  which races the exit goroutine and the crash, not another caller; the proofs
  cover any number of them.
- `AgentStream`: two calls, one answered by a guardrail, make batches of none,
  one or two. Each limit (retries, silent rounds, strikes, recovery) is two, so
  that the last try and the one before differ; one automatic continuation.
  `Preserve` is three: the earlier question and this one are fewer, a steering
  text makes them three, a notice four, so that a compression drops all,
  nothing, or the older part. In `stream` rounds have no cap, as they have none
  unless configured, and recovery is reached through silent rounds; the
  configured cap is in `undone` (two rounds) and in the proofs. The calls of
  the instance run out, so that there a turn ends; the program sets no such
  limit, and `OnlyCallsProlong` promises none. One turn is modelled after what
  an earlier one left, because a second turn of its own meets nothing but the
  history, the strikes and the stale mark, which the initial states give.

## 5. Fairness

Only `stop`, `hub`, `succeed`, `tools`, `background` and `stream` need it. It is
weak fairness of what a goroutine does by itself: the Go scheduler runs every
goroutine that can run. Nothing is assumed of the user or of the model: no
answer, no ESC, no cancel, no tool call ever has to come.

- `AgentTurns`, `HubRun`: a turn of the agent ends, and so does a build of an
  agent. The code alone does not make a turn end: streams end (there is an idle
  timeout, `internal/agentic/agent_stream_stall.go`) and failures are retried a
  bounded number of times (`OnlyCallsProlong` of `AgentStream`), but rounds
  have no cap unless one is configured, and tools have no deadline. So the
  assumption is that the model does not call tools for ever and that no tool
  hangs for ever in a turn nobody cancels. In `HubRun` the loop's goroutine is
  fair as a whole, and each delegation's is.
- `GoalScheduling`: the user's and the tool's operation, once begun, the
  publisher and the forwarder go on.
- `ToolScheduler`: calls, watchers and Collect go on, and a tool outside `Hanging`
  returns. No deadline helps: the agent arms none.
- `Background`: callers and exit goroutines go on; a process that was killed
  dies. One that was asked gently need not.
- `AgentStream`: the turn's goroutine goes on between streams, a backoff passes and
  tools return; and a stream ends: silence is cut off by the watchdog, and what a
  provider sends is bounded by its own limit on output.

## 6. Proofs

Every theorem holds for all values of the constants under the stated ASSUMEs
(`ConstantsOK`, `ProcsOK`, `PoolOK`, `HubOK`, `GoalsOK`, `BatchOK`,
`BackgroundOK`, `LimitsOK`, `PastsOK`), which TLC evaluates in the runs.

- `GoalModeProofs`: `TypeCorrect`; `GateMemoryHolds`, which is inductive with the
  type invariant; `FeedFreshHolds`, whose invariant (`FeedTells`) says that the
  last publication in `script`, or the feed when there is none, shows memory: it
  is about the calls of `Publish`, not about their delivery. Then `InvHolds`, and from it `CrashSafeHolds`, `AnnouncedFinal` and
  `LogLegal`. None of these is inductive: between two effects the log lags behind
  memory. The strengthening `IInv` describes the effects still in `script`. The
  last one brings the log in line with memory if the file takes it, and leaves
  out no more than what it is about if not (`ScriptCatchesUp`); creates come last
  and updates first (`ScriptOrder`); a status record is a legal move from the
  logged status unless a record of the life is missing (`ScriptMoves`); a
  completion is published right after its record, written or lost
  (`ScriptAnnounces`); an announced goal still in the log is about to be cleared
  (`CompleteLeaves`); and identities are retired once (`Identities`). A crash
  drops the rest of `script`, which is why each prefix has to be legal. An append
  has one lemma for a record the file takes (`TakeKeeps`) and one for a record it
  does not (`MissKeeps`). `LogLegal` maps each `RunEffect` to a step of `GoalSlot`
  or a stutter, a crash to the gap being settled, and everything else to a
  stutter.
- `AgentTurnsProofs`: `InvHolds` and its parts, for any number of turns, drive
  loops and messages. `IInv` adds to the four exclusion properties the `Shape` of
  each goroutine (which places each kind can be in) and `Apart` (texts, queue
  entries and the four stores share no message, two by two), from which
  `EachInputOnce` follows.
- `AgentPoolProofs`: `CountsExactHolds` and `KeepsTheCapsHolds`, for any callers,
  models and caps. A step takes one slot, gives one back or changes none; the
  cardinalities do the rest. The queue is not needed, so a lost signal can delay
  a caller but never corrupt a counter. `QueueSoundHolds` is about the queue: a
  push, a pop and the removal of a cancelled waiter from the middle keep each
  waiter in one place. The last lemmas (`RoomFor`) are for whoever waits for the
  pool: which steps of the others leave room for one more.
- `HubRunProofs`: the loop and the delegations take and return their agents by
  steps of the pool only (`RunsOnThePool`), so what `AgentPoolProofs` shows of
  the pool's steps is used through an INSTANCE, and `RunKeepsTheCaps` follows. The
  invariant adds: there is room for the loop's own agent whatever the delegations
  hold, since a tool runs in a turn only and the turn's agent is the loop's
  (`PoolPart`, `InTurn`); who holds a slot at which place (`Slots`); the pending
  set is that of the running specialists (`Tracked`); the three references to
  channels never mix up the pause's and the specialists' (`Channels`); what ends a
  wait is what it waits for (`Wakes`); how far an answer has come (`Arrives`); and
  the turn after the last ends the run (`LastTurn`). From it:
  `AgentsAreReturnedHolds`, `LoopFindsASlotHolds`, `PausedIsResumableHolds`,
  `AwaitedWillSignalHolds`, `PausedAnswerArrivesHolds` and the action property
  `SynthesisSeesAllHolds`.
- `GoalSchedulingProofs`: `NothingLostHolds` and `ParkedWaitsHolds`, for any number
  of goals and every set of commands. `NothingLost` is not inductive: the goal an
  actor has in hand is in neither place. The invariant (`Custody`) says at which
  places an actor keeps the goal in its hand, that the copy the tool made of the
  slot's goal is queued before the slot is cleared (`Copied`), and what the tool
  saw is still there or closed (`Looked`); `ParksInv` follows a parked goal
  through the pause and back. The queue is seen through `InQueue` and `Distinct`
  only, with a lemma for each of insertion, removal and exchange.
  `RunsOnceHolds` says that no goal is in two places, for the commands other than
  cancel, replace, cancelAll and arm; the `sched` run checks it under the same
  restriction. With those commands it fails, and the code is the reason: a user
  who ends the goal between the tool's look and its copy leaves a copy of a
  closed goal in the queue (section 7), and a promoted goal that the tool blocks
  before the forwarder has paused it is put back into the queue although the tool
  has queued it.
- `ToolSchedulerProofs`: `NobodyForgottenHolds`, for any batch, cap and set of
  tools that hang. The invariant needs only the types and that no call beyond
  `next` has left its place: who holds the queue (`Holds`) is a call that was
  chosen or is active, a finisher that leaves picks another or leaves somebody
  active, and with nobody active the head of the queue conflicts with nobody and
  the cap has room (`SomebodyIsPicked`).
- `BackgroundProofs`: `TypeCorrect`, `SettledIsGoneHolds`, `FoundAgainHolds`, for
  any processes, callers and lives. Neither is inductive: what a goroutine or a
  caller will record depends on what it has seen. The invariant says who owns
  each process (`Owned`), that recorded ends are real in both registries
  (`Ended`), that what runs is registered (`Found`), what each exit goroutine
  and each caller have seen (`Exits`, `Calls`), that names are below the counter
  (`Counted`), that a process is not started twice (`Spawned`), and that a
  stopped program has no goroutines (`Halted`).
- `AgentStreamProofs`: `NothingLeaksHolds`, `SilenceHolds`, `OverflowEndsHolds`,
  for any limits, calls and history. The first invariant: the fields' types (`Shapes`);
  the mode fits the place and the counters (`Modes`); the buffers are empty where
  a stream will open, outside recovery (`Fresh`); the mark of the end in the
  buffers is this stream's, but for the two exceptions (`Marked`); and the count
  of overflows is tied to the flag `overflowTried` (`Counted`). It needs no
  history, so the steps of other goroutines that append to it change nothing.
  The second, `HistInv`, is about the history: every call is answered but for the
  batch being recorded, with results and notices only in between (`Paired`); a
  call has one result (`Formed`), and none before it is recorded (`Untold`,
  `Batched`); and a turn begins behind messages that are no notes, until a context
  is too long (`Started`). What lengthens a history has a lemma (`Said`, `Asked`,
  `Told`); what cuts it (`Undone`, `Stripped`, `CompressedIs`, and the request
  itself) leaves a part of it in its order that has the results of the calls it
  has, and one lemma (`Embedded`) says that such a part is sound. With these,
  `EveryCallAnsweredHolds`: wherever a compression cuts, `migrateMessages` makes
  a sound request. And the action property `EarlierTurnsKeptHolds`. Both
  assume of the past (`PastsOK`) what a turn establishes at its end, that calls
  are answered and no notes left, and that ids of calls are not used again.

Inductions over numbers, which the library offers with an operator as a parameter
only, are replaced by the least counterexample: `Least` is the well-foundedness of
< on the naturals, first-order. That is how the recursive function of `Those` is
shown to select messages in their order, and how a first occurrence in the queue
of goals is found.

Only model-checked: liveness under fairness, which TLAPS cannot prove (`FailsFast`,
`StopReturns`, `CollectReturns`, `OnlyCallsProlong`, `CancelEndsTheRun`, `AwaitEnds`,
`SuccessorRuns`, `StopEndsTheLoop`). Every safety property of the passing runs is
a theorem, `RunsOnce` under the commands of its run.

## 7. Where the code differs from what it says

Shown by a run:

- `wakeup`: `docs/ORCHESTRATOR.md:146` says a blocked Acquire "proceeds as agents
  release"; a release before the caller reached its select drops the signal.
- `undone`: `internal/agentic/agent.go:174` says a retry undoes "only the
  partial/corrupted message from the failing round". The failing round has
  appended nothing yet, so what `undoLastAssistantMessage` finds is the previous,
  completed round: its calls, which ran, and their results leave the history.

Stated by an operator that no run checks; TLC refutes each with the constants
given here:

- `ClosesWhatItVerified` (`gate.cfg`, without the symmetry):
  `gate.go:176` says a goal is closed "only if its state did not change
  meanwhile"; a verification that passes closes whatever goal is active.
- `NoInputIsLost` (`AgentTurns`; 3 inputs, 2 turns): `steering.go:10` says
  messages sent during a turn are delivered in a follow-up; one stashed by
  `finalizeTurn` is overwritten by `runAgentTurn`.
- `ActiveGoalIsDriven` (2 inputs, 2 turns): `goal_driver.go:75` says the post-turn
  hook re-starts the drive; it returns at once if the loop that gave up has not
  cleared `driving` yet.
- `IsRunningIsTruthful` (3 inputs, 3 turns): `agentmanager.go:469` says
  `IsRunning` reports whether a turn is in progress; the cleanup of one of two
  racing turns clears it under the other.
- `AnswersSurvive` (`hub.cfg`): `runtime_steer.go:41` says an answer "survives
  across loop iterations"; one that comes before the pause is emptied from the
  buffer.
- `NothingUnseen` (`sched.cfg`): `tools/goal/goal.go` says promote demotes the
  current goal and replaces it "atomically"; a goal the forwarder put into the
  slot meanwhile is thrown out and kept nowhere.
- `Serialized` (`tools.cfg`): conflicting calls "are serialized"; between the
  choice of a call and its start, Add and another finisher do not see it.
- `StallsAreRetried` (`undone.cfg`): "silence with no finished answer stays a
  stall error" (`agent_stream_stall.go`). `roundSawProtocolTerminator` is not
  reset for the first stream of a turn, nor in recovery rounds, so a stall in
  the middle of an answer is taken for its end.
- `QuestionIsSent` (`undone.cfg`): `compressSelective` keeps the "system + recent
  turns" (`agent_compress_elision.go:226`), and the reset that shares its cut
  promises that "the last user message always survives"
  (`agent_compress_fresh_window.go:41`). With fewer users' messages than
  `PreserveRecentTurns` (2 unless configured)
  `findCompressionBoundary` finds no turn to stop at and the cut is the end of the
  history: nothing but a trailing chain of calls is left, and the retry asks the
  model without the question.

Met while modelling; the model does what the code does:

- Goal mode. An append that fails is dropped (`mode.go:952`), and the program goes
  on as if it had been made: a completion that the log does not have is announced,
  and a restart brings the goal back active if the clear record is lost too or a
  crash comes before it; a goal whose clear record is lost comes back; and a
  write cut short spoils the next record as well. The
  model has all of it; the properties of `gate` say how far a lost record reaches.
  `RemoveGoalTodo` of the last item writes a record without a list, so
  that a replay brings the item back (`mode.go:661`; `Recovers` allows for it).
  The default turn ceiling of a new goal is applied in memory only, so after a
  restart the goal has none (`mode.go:333`; `Recovers` allows for it).
- Turns. The post-turn hook runs after a cancelled turn too, so ESC on a user
  turn with an active goal starts the drive loop (`agentmanager_turns.go:138`,
  against "ESC is a HARD STOP", `internal/app/tui.go:269`).
- Hub. `ReworkAsync` overwrites the recorded action, so a question asked in the
  same turn is not waited for; and a turn that delegates and asks goes on without
  its specialists (`runtime_loop.go:48,165`, against `runtime_record.go:126`).
  With one slot in all (or for the model both use) a delegation waits, inside the
  orchestrator's turn, for the slot that turn holds, until the run is cancelled.
- Scheduling. `postpone` and `block` queue a copy before they clear the slot, so a
  user's cancel in between ends the goal and leaves the copy. A cancel between
  the forwarder's CreateGoal and PauseGoal makes it put the cancelled goal back
  into the queue. A delete between the forwarder's read of the head and its
  removal ends the promotion, although others wait. An overtaken event makes the
  armed pause miss its completion (against `events_handlers.go:146`).
  "Delivery is lossless and ordered" (`subsystems_goal.go:139`): lossless it is, but
  the drain takes an update out of the queue before it sends it, and the next
  `Publish` may find the queue empty and the bus with room.
- Tools. "Collect() cannot hang on a misbehaving tool"
  (`tool_scheduler.go:69`) is said of a deadline that the agent never sets, so one
  tool that hangs holds `Collect` until the turn is cancelled, and then still, for
  a running tool that ignores its context. A call that was answered as cancelled
  may still execute; a later call may overtake an earlier one it conflicts with; and more calls than the cap may
  run, all in the window between choice and start.
- Background. Stop by PID overwrites the outcome of a task that had ended, after a
  restart; where the PID was reused it signals a foreign group. What a restart
  finds dead is not written back. Start reports an error although the process
  runs when the write fails, and a crash between the two leaves an orphan. An
  exited process may be recorded as killed. Two programs that share a registry
  overwrite each other's.
- Streams. Recovery rounds never reset the buffers, so an answer may hold the
  text of several streams. A repetition that strikes with calls already buffered
  commits the repeated text, against "NOT committed to history". A recovery round
  whose retry succeeds with calls still fails the turn, and exhausted recovery
  ends without an end event. Retried rounds do not count as silent ones. Notices
  may come between calls and results (`agent_budget.go:437` promises pairs; the
  pairs hold, adjacency does not). An undone round takes the steering text after
  it. A cancelled wait for a backoff may still open one attempt. A refusal that comes
  from the opening of a stream, instead of from its events, is logged as
  "compressing context and retrying once" but compresses nothing. A compression
  may cut a chain of calls in two where notices stand inside it, against
  "ensuring tool call chains are never split" (`agent_compress_elision.go:257`);
  `migrateMessages` drops the results left behind.
- The plan store (not modelled): an insertion with `after` replays as an append, a
  blocked plan replays as failed, the ids of removed items are used again, and
  two handles on one plan end in a sequence gap.

## 8. What is not modelled

- Input and output behind one call: providers, tools, language servers, MCP,
  rendering, configuration, parsing, prompts. They keep no state that several
  actors race for, or are pure functions.
- In the modelled parts: wording of prompts and events, images, titles, model
  and mode switching, statistics, the token account of a goal-bound run (its
  exhaustion is one of the errors a turn may end with), and the opt-in loop
  auto-resume. In `GoalMode`: a replay that cannot read the file, and a write
  cut exactly between a record and its line's end (the record would count, the
  next one not; the model has half lines that do not count). In
  `ToolScheduler`: deadlines, which nothing sets. In `AgentStream`: the search
  for another wire format before a retry (`tryProbeWireFormat`), the
  configuration that switches the compression after a refusal off
  (`OnContextError`, on by default), compression by estimated occupancy,
  summaries, the ceiling, `/compress`, the plugins' hooks, calls found in text,
  the absolute tool budget, the reasoning watchdog and the unbounded retry
  mode. In `GoalScheduling`: editing a queued objective, the cleanup of expired
  entries, the kick of the driver, failing files and restarts (the goal's own
  log is checked through crashes in `gate`). In `Background`: reading output.
- The plan store, web hub, supervisor, agent message bus and the durable
  sink: see the plan.

## 9. The plan

Done, in this order: `GoalMode` and `GoalSlot` (the durable core every other part
reads), `AgentTurns` (who may act on the one agent), `SlotPool` and `AgentPool`,
`HubRun` composed with it, `GoalScheduling`, `ToolScheduler`, `Background`,
`AgentStream`, and the theorems of section 6.

Next, most important first:

1. Restarts in `GoalScheduling`: the queue file beside the goal log.
2. `PlanStore`: replay and the item status machine, with an abstract list.
3. `DurableSink` with run resumption; `WebHub` and `Supervisor`.
4. A known window in `AgentStream`: the ceiling before each round, the summary
   that replaces the history while notices and `/compress` come from other
   goroutines (`Compact` releases the mutex during the model's call).

A run that shows a difference in section 7 may give way to a run of a new module
once the difference has been resolved in the code; its description stays here.
