----------------------------- MODULE Background -----------------------------
(***************************************************************************)
(* The manager of background processes (internal/background/manager.go):   *)
(* a registry of tasks in memory and in a file, one goroutine per process  *)
(* that waits for its exit, callers that stop tasks, and crashes of the    *)
(* program after which the processes live on and are known by PID only.    *)
(*                                                                         *)
(* A process is the group that Start creates.  Its shell may leave before  *)
(* the rest of the group, a signal may be ignored unless it is SIGKILL,    *)
(* and the PID of a group that is gone may come to name a foreign one.     *)
(***************************************************************************)
EXTENDS Naturals, FiniteSets

CONSTANTS
    Procs,      \* the processes that may be started
    Callers,    \* goroutines that call Stop or StopAll
    Escapees,   \* processes whose children may leave the group with the pipe
    MaxTasks,   \* bounds the counter
    MaxLives,   \* bounds the starts of the program
    MayReuse,   \* PIDs may be reused
    MayFail     \* the registry file may fail to be written

Ids == 1 .. MaxTasks

ASSUME BackgroundOK == MaxTasks \in Nat /\ MaxLives \in Nat \ {0} /\ Escapees \subseteq Procs /\ Callers # {}

VARIABLES
    os,         \* each process, as the system sees it
    started,    \* each process, as its Start sees it
    mem,        \* the registry: tasks
    disk,       \* the registry file
    counter,
    handle,     \* procs: the exit goroutine of each task of this life
    killed,     \* tasks whose killed flag is set
    caller,     \* each call of Stop or StopAll
    lives       \* how often the program has started

vars == <<os, started, mem, disk, counter, handle, killed, caller, lives>>

Settled == {"completed", "error", "killed"}
Status == {"running"} \cup Settled

NoTask == [status |-> "none"]
Tasks == [proc : Procs, status : Status]

\* "down" between a crash and the next start.
Idle == [at |-> "idle", todo |-> {}, on |-> 0]
Down == [at |-> "down", todo |-> {}, on |-> 0]

Running == \A s \in Callers : caller[s] # Down

TypeOK ==
  /\ os \in [Procs -> {"none", "up", "left", "dying", "gone", "foreign"}]
  /\ started \in [Procs -> {"no", "spawned", "ok", "unsaved", "lost"}]
  /\ mem \in [Ids -> Tasks \cup {NoTask}] /\ disk \in [Ids -> Tasks \cup {NoTask}]
  /\ counter \in 0 .. MaxTasks
  /\ handle \in [Ids -> {"none", "live", "reaped", "done"}]
  /\ killed \subseteq Ids
  /\ caller \in [Callers -> [at : {"idle", "down", "next", "waiting", "killing", "grace", "marking"},
                             todo : SUBSET Ids, on : 0 .. MaxTasks]]
  /\ lives \in 1 .. MaxLives

Known(reg) == {i \in Ids : reg[i] # NoTask}

\* pidAlive: the group exists.
Alive(p) == os[p] \in {"up", "left", "dying", "foreign"}

\* SIGKILL to the group.
Kill(p) == os' = [os EXCEPT ![p] = IF @ \in {"up", "left"} THEN "dying" ELSE @]

Outcome(task, status) == [proc |-> task.proc, status |-> status]

WithOutcome(reg, id, status) == [reg EXCEPT ![id] = Outcome(reg[id], status)]

\* persistLocked, at the end of a critical section that leaves reg.
Persist(reg) ==
  /\ mem' = reg
  /\ disk' \in IF MayFail THEN {reg, disk} ELSE {reg}

-----------------------------------------------------------------------------

\* Start, up to cmd.Start.
Spawn(p) ==
  /\ Running /\ os[p] = "none"
  /\ os' = [os EXCEPT ![p] = "up"] /\ started' = [started EXCEPT ![p] = "spawned"]
  /\ UNCHANGED <<mem, disk, counter, handle, killed, caller, lives>>

\* Start, its critical section; an error of the write is the caller's.
Register(p) ==
  LET id == counter + 1
  IN /\ started[p] = "spawned" /\ id \in Ids
     /\ counter' = id
     /\ handle' = [handle EXCEPT ![id] = "live"]
     /\ Persist([mem EXCEPT ![id] = [proc |-> p, status |-> "running"]])
     /\ started' = [started EXCEPT ![p] = IF disk' = mem' THEN "ok" ELSE "unsaved"]
     /\ UNCHANGED <<os, killed, caller, lives>>

\* waitForExit, up to Wait: the shell has exited and every holder of the pipes
\* has closed them; others of its group may live on.
Reap(id) ==
  /\ handle[id] = "live" /\ os[mem[id].proc] \in {"left", "gone"}
  /\ handle' = [handle EXCEPT ![id] = "reaped"]
  /\ UNCHANGED <<os, started, mem, disk, counter, killed, caller, lives>>

\* waitForExit, its critical section, and close(done).
Settle(id) ==
  /\ handle[id] = "reaped"
  /\ \E status \in IF id \in killed THEN {"killed"} ELSE {"completed", "error"} :
       Persist(WithOutcome(mem, id, status))
  /\ handle' = [handle EXCEPT ![id] = "done"]
  /\ UNCHANGED <<os, started, counter, killed, caller, lives>>

-----------------------------------------------------------------------------

Goto(s, at, todo, on) == caller' = [caller EXCEPT ![s] = [at |-> at, todo |-> todo, on |-> on]]

\* The next task of the snapshot, or the call returns.
Onward(s, todo) == Goto(s, IF todo = {} THEN "idle" ELSE "next", todo, 0)

\* Stop, and StopAll with its snapshot.
Stop(s, id) ==
  /\ caller[s] = Idle /\ id \in Known(mem)
  /\ Onward(s, {id})
  /\ UNCHANGED <<os, started, mem, disk, counter, handle, killed, lives>>

StopAll(s) ==
  /\ caller[s] = Idle
  /\ Onward(s, {i \in Known(mem) : handle[i] # "none" \/ mem[i].status = "running"})
  /\ UNCHANGED <<os, started, mem, disk, counter, handle, killed, lives>>

\* terminate, up to its first wait.
Terminate(s, id) ==
  LET rest == caller[s].todo \ {id}
  IN /\ caller[s].at = "next" /\ id \in caller[s].todo /\ handle[id] # "none"
     /\ IF handle[id] = "done"
          THEN Onward(s, rest) /\ UNCHANGED killed
          ELSE Goto(s, "waiting", rest, id) /\ killed' = killed \cup {id}
     /\ UNCHANGED <<os, started, mem, disk, counter, handle, lives>>

\* A variant that repeats the graceful signal.
EscalateGently(s) ==
  /\ caller[s].at = "waiting"
  /\ Goto(s, "killing", caller[s].todo, caller[s].on)
  /\ UNCHANGED <<os, started, mem, disk, counter, handle, killed, lives>>

\* terminate: the grace period is over.
Escalate(s) ==
  /\ caller[s].at = "waiting"
  /\ Kill(mem[caller[s].on].proc)
  /\ Goto(s, "killing", caller[s].todo, caller[s].on)
  /\ UNCHANGED <<started, mem, disk, counter, handle, killed, lives>>

\* terminate: done is closed.
Terminated(s) ==
  /\ caller[s].at \in {"waiting", "killing"} /\ handle[caller[s].on] = "done"
  /\ Onward(s, caller[s].todo)
  /\ UNCHANGED <<os, started, mem, disk, counter, handle, killed, lives>>

\* stopReattached, up to its first signal: whatever the task's status is.
StopReattached(s, id) ==
  LET rest == caller[s].todo \ {id}
  IN /\ caller[s].at = "next" /\ id \in caller[s].todo /\ handle[id] = "none"
     /\ IF Alive(mem[id].proc)
          THEN Goto(s, "grace", rest, id) /\ UNCHANGED <<mem, disk>>
          ELSE Onward(s, rest) /\ Persist(WithOutcome(mem, id, "completed"))
     /\ UNCHANGED <<os, started, counter, handle, killed, lives>>

\* stopReattached: the group is gone or the deadline has passed.
GraceOver(s) ==
  /\ caller[s].at = "grace"
  /\ Kill(mem[caller[s].on].proc)
  /\ Goto(s, "marking", caller[s].todo, caller[s].on)
  /\ UNCHANGED <<started, mem, disk, counter, handle, killed, lives>>

\* markReattached.
Mark(s) ==
  /\ caller[s].at = "marking"
  /\ Persist(WithOutcome(mem, caller[s].on, "killed"))
  /\ Onward(s, caller[s].todo)
  /\ UNCHANGED <<os, started, counter, handle, killed, lives>>

-----------------------------------------------------------------------------

\* The last of the group dies, of itself or of a signal.
Die(p) ==
  /\ os[p] \in {"up", "left", "dying"}
  /\ os' = [os EXCEPT ![p] = "gone"]
  /\ UNCHANGED <<started, mem, disk, counter, handle, killed, caller, lives>>

\* The shell exits before its background jobs.
Leave(p) ==
  /\ os[p] = "up"
  /\ os' = [os EXCEPT ![p] = "left"]
  /\ UNCHANGED <<started, mem, disk, counter, handle, killed, caller, lives>>

\* The PID of a process that somebody has waited for names another group.
Reuse(p) ==
  /\ MayReuse /\ os[p] = "gone" /\ started[p] # "spawned"
  /\ \A i \in Known(mem) : mem[i].proc = p => handle[i] # "live"
  /\ os' = [os EXCEPT ![p] = "foreign"]
  /\ UNCHANGED <<started, mem, disk, counter, handle, killed, caller, lives>>

-----------------------------------------------------------------------------

\* The program dies; its exit after StopAll is the same.
Crash ==
  /\ Running /\ lives < MaxLives
  /\ started' = [p \in Procs |-> IF started[p] = "spawned" THEN "lost" ELSE started[p]]
  /\ mem' = [i \in Ids |-> NoTask] /\ counter' = 0
  /\ handle' = [i \in Ids |-> "none"] /\ killed' = {}
  /\ caller' = [s \in Callers |-> Down]
  /\ UNCHANGED <<os, disk, lives>>

\* A variant that takes every process for dead with the program.
ReconciledAll(reg) ==
  [i \in Ids |-> IF i \in Known(reg) /\ reg[i].status = "running"
                   THEN Outcome(reg[i], "error") ELSE reg[i]]

\* A variant that takes the dead out of the registry and leaves a hole.
ReconciledAway(reg) ==
  [i \in Ids |-> IF i \in Known(reg) /\ reg[i].status = "running" /\ ~Alive(reg[i].proc)
                   THEN Outcome(reg[i], "none") ELSE reg[i]]

\* reconcileLoaded, in memory only.
Reconciled(reg) ==
  [i \in Ids |-> IF i \in Known(reg) /\ reg[i].status = "running" /\ ~Alive(reg[i].proc)
                   THEN Outcome(reg[i], "error") ELSE reg[i]]

\* A variant that numbers the tasks of each life from one.
RestartAtOne ==
  /\ ~Running
  /\ mem' = Reconciled(disk) /\ counter' = 0
  /\ caller' = [s \in Callers |-> Idle]
  /\ lives' = lives + 1
  /\ UNCHANGED <<os, started, disk, handle, killed>>

\* NewManager: the counter is the highest number among the tasks' names.
Restart ==
  /\ ~Running
  /\ mem' = Reconciled(disk)
  /\ counter' \in Known(disk) \cup {0} /\ \A i \in Known(disk) : i <= counter'
  /\ caller' = [s \in Callers |-> Idle]
  /\ lives' = lives + 1
  /\ UNCHANGED <<os, started, disk, handle, killed>>

-----------------------------------------------------------------------------

Init ==
  /\ os = [p \in Procs |-> "none"] /\ started = [p \in Procs |-> "no"]
  /\ mem = [i \in Ids |-> NoTask] /\ disk = mem /\ counter = 0
  /\ handle = [i \in Ids |-> "none"] /\ killed = {}
  /\ caller = [s \in Callers |-> Idle] /\ lives = 1

Serve(s) ==
  \/ \E id \in Ids : Terminate(s, id) \/ StopReattached(s, id)
  \/ Escalate(s) \/ Terminated(s) \/ GraceOver(s) \/ Mark(s)

Next ==
  \/ \E p \in Procs : Spawn(p) \/ Register(p) \/ Die(p) \/ Leave(p) \/ Reuse(p)
  \/ \E id \in Ids : Reap(id) \/ Settle(id) \/ \E s \in Callers : Stop(s, id)
  \/ \E s \in Callers : StopAll(s) \/ Serve(s)
  \/ Crash \/ Restart

\* Goroutines run on, timers fire, and SIGKILL kills.  The pipes close when
\* the group is gone, unless an escaped child holds them.
ReapsTheGone(id) ==
  /\ id \in Known(mem) /\ os[mem[id].proc] = "gone" /\ mem[id].proc \notin Escapees
  /\ Reap(id)

Fairness ==
  /\ \A s \in Callers : WF_vars(Serve(s))
  /\ \A id \in Ids : WF_vars(ReapsTheGone(id)) /\ WF_vars(Settle(id))
  /\ \A p \in Procs : WF_vars(os[p] = "dying" /\ Die(p))

Spec == Init /\ [][Next]_vars /\ Fairness

-----------------------------------------------------------------------------

\* No task is recorded as ended, in memory or in the file, while the process
\* it started may go on: waitForExit records an exit it has seen, a stop by PID
\* one it has forced, and a restart only what it finds dead.
SettledIsGone ==
  \A reg \in {mem, disk} : \A i \in Known(reg) :
    reg[i].status \in Settled => os[reg[i].proc] # "up"

\* What Start reported as started is found again after a crash, for as long as
\* it lives: no later task takes its place in the file.
FoundAgain ==
  \A p \in Procs : started[p] = "ok" /\ os[p] = "up" =>
    \E i \in Ids : disk[i] = [proc |-> p, status |-> "running"]

\* Stop returns, unless an escaped child holds the pipes of the process that
\* it waits for.
StopReturns ==
  \A s \in Callers :
    \/ []<>(caller[s].at \in {"idle", "down"})
    \/ \E i \in Ids : <>[](caller[s].at = "killing" /\ caller[s].on = i /\ mem[i].proc \in Escapees)
=============================================================================
