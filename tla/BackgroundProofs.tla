--------------------------- MODULE BackgroundProofs ---------------------------
(***************************************************************************)
(* What the registry of background processes says is true of the           *)
(* processes, whatever their number, that of the callers and that of the   *)
(* crashes, and whichever writes fail and PIDs are reused.                 *)
(***************************************************************************)
EXTENDS Background, TLAPS

(* The inductive invariant. *)

\* A registry names processes that exist, or existed.
Owned(reg) == \A i \in Known(reg) : os[reg[i].proc] # "none"

\* What it records as ended is past its shell.
Ended(reg) == \A i \in Known(reg) : reg[i].status \in Settled => os[reg[i].proc] # "up"

\* What Start reported, and is up, is in it as running.
Found(reg) ==
  \A p \in Procs : started[p] = "ok" /\ os[p] = "up" =>
    \E i \in Ids : reg[i] = [proc |-> p, status |-> "running"]

\* An exit goroutine belongs to a task, and past Wait its shell has exited.
Exits ==
  \A i \in Ids : handle[i] # "none" =>
    /\ i \in Known(mem)
    /\ handle[i] \in {"reaped", "done"} => os[mem[i].proc] # "up"

\* A call is about tasks of this life; the one it will mark has been killed.
Calls ==
  \A s \in Callers :
    /\ caller[s].todo \subseteq Known(mem)
    /\ caller[s].at \in {"waiting", "killing", "grace", "marking"} => caller[s].on \in Known(mem)
    /\ caller[s].at = "marking" => os[mem[caller[s].on].proc] # "up"

\* No task has a number that Register may give out again.
Counted == \A i \in Known(mem) : i <= counter

Spawned == \A p \in Procs : started[p] # "no" => os[p] # "none"

\* Between two lives nothing is left of the first but its processes.
Halted ==
  (\E s \in Callers : caller[s] = Down) =>
    /\ \A s \in Callers : caller[s] = Down
    /\ \A i \in Ids : handle[i] = "none" /\ mem[i] = NoTask
    /\ \A p \in Procs : started[p] # "spawned"
    /\ lives < MaxLives

IInv ==
  /\ TypeOK
  /\ Owned(mem) /\ Owned(disk)
  /\ Ended(mem) /\ Ended(disk)
  /\ Found(disk) /\ (Running => Found(mem))
  /\ Exits /\ Calls /\ Counted /\ Spawned /\ Halted

-----------------------------------------------------------------------------
(* Registries. *)

Registry(reg) == reg \in [Ids -> Tasks \cup {NoTask}]

\* A known task has a process and a status.
LEMMA KnownTask ==
  ASSUME NEW reg, Registry(reg), NEW i \in Known(reg)
  PROVE  i \in Ids /\ reg[i] \in Tasks /\ reg[i].proc \in Procs /\ reg[i].status \in Status
BY DEF Registry, Known, Tasks

\* Recording an outcome touches nothing else.
LEMMA SetStatus ==
  ASSUME NEW reg, Registry(reg), NEW i \in Known(reg), NEW st \in Status, NEW new,
         new = WithOutcome(reg, i, st)
  PROVE  /\ Registry(new) /\ Known(new) = Known(reg)
         /\ new[i] = [proc |-> reg[i].proc, status |-> st]
         /\ \A j \in Known(reg) : new[j].proc = reg[j].proc /\ (j # i => new[j] = reg[j])
<1>1. i \in Ids /\ reg[i] \in Tasks /\ reg[i].proc \in Procs
  BY KnownTask
<1>2. new[i] = [proc |-> reg[i].proc, status |-> st] /\ new[i] \in Tasks
  BY <1>1 DEF Registry, Tasks, WithOutcome, Outcome
<1>3. \A j \in Ids \ {i} : new[j] = reg[j]
  BY <1>1 DEF Registry, WithOutcome
<1>4. new \in [Ids -> Tasks \cup {NoTask}]
  BY <1>1, <1>2, <1>3 DEF Registry, WithOutcome
<1>5. new[i] # NoTask
  <2>1. new[i].status \in Status /\ NoTask.status = "none"
    BY <1>2 DEF Tasks, NoTask
  <2> QED BY <2>1 DEF Status, Settled
<1>6. Known(new) = Known(reg)
  BY <1>1, <1>3, <1>5 DEF Known
<1> QED BY <1>1, <1>2, <1>3, <1>4, <1>6, KnownTask DEF Registry

\* Recording the end of a process whose shell has exited keeps a registry true.
LEMMA SettlingKeeps ==
  ASSUME IInv, Running, NEW i \in Known(mem), NEW st \in Settled,
         os[mem[i].proc] # "up", UNCHANGED <<os, started>>,
         Persist(WithOutcome(mem, i, st))
  PROVE  /\ Registry(mem') /\ Registry(disk')
         /\ Known(mem)' = Known(mem)
         /\ \A j \in Known(mem) : mem'[j].proc = mem[j].proc
         /\ Owned(mem)' /\ Owned(disk)' /\ Ended(mem)' /\ Ended(disk)'
         /\ Found(mem)' /\ Found(disk)'
<1> DEFINE new == WithOutcome(mem, i, st)
<1>1. Registry(mem) /\ Registry(disk) /\ st \in Status
  BY DEF IInv, TypeOK, Registry, Status
<1>2. /\ Registry(new) /\ Known(new) = Known(mem)
      /\ new[i] = [proc |-> mem[i].proc, status |-> st]
      /\ \A j \in Known(mem) : new[j].proc = mem[j].proc /\ (j # i => new[j] = mem[j])
  BY <1>1, SetStatus
<1>3. mem' = new /\ disk' \in {new, disk}
  BY DEF Persist
<1> HIDE DEF new
<1>4. Owned(new) /\ Ended(new)
  BY <1>2 DEF IInv, Owned, Ended
<1>5. Found(new)
  <2> SUFFICES ASSUME NEW p \in Procs, started[p] = "ok", os[p] = "up"
               PROVE  \E j \in Ids : new[j] = [proc |-> p, status |-> "running"]
    BY DEF Found
  <2>1. PICK j \in Ids : mem[j] = [proc |-> p, status |-> "running"]
    BY DEF IInv, Found
  <2>2. j # i
    BY <2>1
  <2>3. j \in Known(mem)
    BY <2>1 DEF Known, NoTask
  <2> QED BY <1>2, <2>1, <2>2, <2>3
<1>6. Owned(disk) /\ Ended(disk) /\ Found(disk)
  BY DEF IInv
<1>7. os' = os /\ started' = started
  OBVIOUS
<1>8. Owned(mem)' /\ Ended(mem)' /\ Found(mem)'
  BY <1>3, <1>4, <1>5, <1>7 DEF Owned, Ended, Found, Known
<1>9. Owned(disk)' /\ Ended(disk)' /\ Found(disk)'
  BY <1>3, <1>4, <1>5, <1>6, <1>7 DEF Owned, Ended, Found, Known
<1> QED BY <1>1, <1>2, <1>3, <1>8, <1>9 DEF Known


-----------------------------------------------------------------------------
(* Steps. *)

\* A process past its shell does not come back.
Forward ==
  \A p \in Procs : os[p] # "none" => os'[p] # "none" /\ (os'[p] = "up" => os[p] = "up")

\* While the program runs and the registries stay, what they say stays true.
LEMMA RegistriesStay ==
  ASSUME IInv, Forward, UNCHANGED <<mem, disk>>,
         \A p \in Procs : started'[p] = "ok" => started[p] = "ok"
  PROVE  /\ Owned(mem)' /\ Owned(disk)' /\ Ended(mem)' /\ Ended(disk)'
         /\ Found(disk)' /\ (Running => Found(mem)')
         /\ Known(mem)' = Known(mem) /\ Registry(mem)
<1>1. Registry(mem) /\ Registry(disk)
  BY DEF IInv, TypeOK, Registry
<1>2. /\ \A i \in Known(mem) : mem[i].proc \in Procs
      /\ \A i \in Known(disk) : disk[i].proc \in Procs
  BY <1>1, KnownTask
<1>3. Known(mem)' = Known(mem) /\ Known(disk)' = Known(disk)
  BY DEF Known
<1>4. Owned(mem)' /\ Owned(disk)' /\ Ended(mem)' /\ Ended(disk)'
  BY <1>2, <1>3 DEF IInv, Owned, Ended, Forward
<1>5. Found(disk)' /\ (Running => Found(mem)')
  BY DEF IInv, Found, Forward, Spawned
<1> QED BY <1>1, <1>3, <1>4, <1>5

\* The group of a process changes, and nothing else.
LEMMA ProcessMoves ==
  ASSUME IInv, Forward, os' \in [Procs -> {"none", "up", "left", "dying", "gone", "foreign"}],
         UNCHANGED <<started, mem, disk, counter, handle, killed, caller, lives>>
  PROVE  IInv'
<1>1. /\ Owned(mem)' /\ Owned(disk)' /\ Ended(mem)' /\ Ended(disk)'
      /\ Found(disk)' /\ (Running => Found(mem)')
      /\ Known(mem)' = Known(mem) /\ Registry(mem)
  BY RegistriesStay
<1>2. \A i \in Known(mem) : os[mem[i].proc] # "up" => os'[mem'[i].proc] # "up"
  BY <1>1, KnownTask DEF IInv, Owned, Forward
<1>3. TypeOK'
  BY DEF IInv, TypeOK
<1>4. Exits' /\ Calls'
  BY <1>1, <1>2 DEF IInv, Exits, Calls
<1>5. Counted' /\ Spawned' /\ Halted' /\ (Running' => Running)
  BY <1>1 DEF IInv, Counted, Spawned, Halted, Running, Forward
<1> QED BY <1>1, <1>3, <1>4, <1>5 DEF IInv

LEMMA SystemKeeps ==
  ASSUME IInv, NEW p \in Procs, Die(p) \/ Leave(p) \/ Reuse(p)
  PROVE  IInv'
<1>1. UNCHANGED <<started, mem, disk, counter, handle, killed, caller, lives>>
  BY DEF Die, Leave, Reuse
<1>2. \E to \in {"left", "gone", "foreign"} : os' = [os EXCEPT ![p] = to]
  BY DEF Die, Leave, Reuse
<1>3. os \in [Procs -> {"none", "up", "left", "dying", "gone", "foreign"}]
  BY DEF IInv, TypeOK
<1>4. Forward
  BY <1>2, <1>3 DEF Forward
<1>5. os' \in [Procs -> {"none", "up", "left", "dying", "gone", "foreign"}]
  BY <1>2, <1>3
<1> QED BY <1>1, <1>4, <1>5, ProcessMoves

LEMMA SpawnKeeps ==
  ASSUME IInv, NEW p \in Procs, Spawn(p)
  PROVE  IInv'
<1>1. UNCHANGED <<mem, disk, counter, handle, killed, caller, lives>> /\ Running
  BY DEF Spawn
<1>2. TypeOK /\ TypeOK'
  BY DEF IInv, TypeOK, Spawn
<1>3. Forward
  BY <1>2 DEF Spawn, Forward, TypeOK
<1>4. \A q \in Procs : started'[q] = "ok" => started[q] = "ok"
  BY <1>2 DEF Spawn, TypeOK
<1>5. /\ Owned(mem)' /\ Owned(disk)' /\ Ended(mem)' /\ Ended(disk)'
      /\ Found(disk)' /\ (Running => Found(mem)')
      /\ Known(mem)' = Known(mem) /\ Registry(mem)
  BY <1>1, <1>3, <1>4, RegistriesStay
<1>6. \A i \in Known(mem) : os[mem[i].proc] # "up" => os'[mem'[i].proc] # "up"
  BY <1>1, <1>3, <1>5, KnownTask DEF IInv, Owned, Forward
<1>7. Exits' /\ Calls'
  BY <1>1, <1>5, <1>6 DEF IInv, Exits, Calls
<1>8. Counted' /\ Spawned'
  BY <1>1, <1>2, <1>5 DEF IInv, Counted, Spawned, Spawn, TypeOK
<1>9. Running' /\ Halted'
  BY <1>1 DEF Running, Halted
<1> QED BY <1>1, <1>2, <1>5, <1>7, <1>8, <1>9 DEF IInv


\* Where a call may go: about known tasks.
Legal(at, todo, on) ==
  /\ at \in {"idle", "next", "waiting", "killing", "grace", "marking"}
  /\ todo \subseteq Known(mem) /\ on \in 0 .. MaxTasks
  /\ at \in {"waiting", "killing", "grace", "marking"} => on \in Known(mem)

\* A step of a call moves that call alone.
LEMMA CallMoves ==
  ASSUME IInv, NEW s \in Callers, caller[s] # Down,
         NEW at, NEW todo, NEW on, Legal(at, todo, on), Goto(s, at, todo, on)
  PROVE  /\ Running /\ Running'
         /\ caller' \in [Callers -> [at : {"idle", "down", "next", "waiting", "killing", "grace", "marking"},
                                     todo : SUBSET Ids, on : 0 .. MaxTasks]]
         /\ caller'[s].at = at /\ caller'[s].todo = todo /\ caller'[s].on = on
         /\ \A r \in Callers \ {s} : caller'[r] = caller[r]
<1> DEFINE new == [at |-> at, todo |-> todo, on |-> on]
<1>1. caller \in [Callers -> [at : {"idle", "down", "next", "waiting", "killing", "grace", "marking"},
                              todo : SUBSET Ids, on : 0 .. MaxTasks]]
  BY DEF IInv, TypeOK
<1>2. caller' = [caller EXCEPT ![s] = new]
  BY DEF Goto
<1>3. new \in [at : {"idle", "down", "next", "waiting", "killing", "grace", "marking"},
               todo : SUBSET Ids, on : 0 .. MaxTasks]
  BY DEF Known, Legal
<1>4. new # Down
  <2>1. new.at = at /\ Down.at = "down"
    BY DEF Down
  <2> QED BY <2>1 DEF Legal
<1>5. Running
  BY DEF IInv, Halted, Running
<1>6. new.at = at /\ new.todo = todo /\ new.on = on
  OBVIOUS
<1> HIDE DEF new
<1>7. caller'[s] = new /\ \A r \in Callers \ {s} : caller'[r] = caller[r]
  BY <1>1, <1>2
<1>8. Running'
  BY <1>4, <1>5, <1>7 DEF Running
<1>9. caller' \in [Callers -> [at : {"idle", "down", "next", "waiting", "killing", "grace", "marking"},
                               todo : SUBSET Ids, on : 0 .. MaxTasks]]
  BY <1>1, <1>2, <1>3
<1> QED BY <1>5, <1>6, <1>7, <1>8, <1>9

\* Nor does it matter to the rest of the invariant.
LEMMA CallKeeps ==
  ASSUME IInv, NEW s \in Callers, caller[s] # Down,
         NEW at, NEW todo, NEW on, Legal(at, todo, on), Goto(s, at, todo, on),
         at # "marking", killed' \subseteq Ids,
         UNCHANGED <<os, started, mem, disk, counter, handle, lives>>
  PROVE  IInv'
<1>1. /\ Running /\ Running'
      /\ caller' \in [Callers -> [at : {"idle", "down", "next", "waiting", "killing", "grace", "marking"},
                                  todo : SUBSET Ids, on : 0 .. MaxTasks]]
      /\ caller'[s].at = at /\ caller'[s].todo = todo /\ caller'[s].on = on
      /\ \A r \in Callers \ {s} : caller'[r] = caller[r]
  BY CallMoves
<1>2. Forward
  BY DEF Forward
<1>3. /\ Owned(mem)' /\ Owned(disk)' /\ Ended(mem)' /\ Ended(disk)'
      /\ Found(disk)' /\ (Running => Found(mem)')
      /\ Known(mem)' = Known(mem) /\ Registry(mem)
  BY <1>2, RegistriesStay
<1>4. TypeOK'
  BY <1>1 DEF IInv, TypeOK
<1>5. Calls'
  BY <1>1, <1>3 DEF IInv, Calls, Legal
<1>6. Exits' /\ Counted' /\ Spawned' /\ Halted'
  BY <1>1, <1>3 DEF IInv, Exits, Counted, Spawned, Halted, Running
<1> QED BY <1>1, <1>3, <1>4, <1>5, <1>6 DEF IInv

LEMMA StopKeeps ==
  ASSUME IInv, NEW s \in Callers, (\E id \in Ids : Stop(s, id)) \/ StopAll(s) \/ Terminated(s)
                                  \/ \E id \in Ids : Terminate(s, id)
  PROVE  IInv'
<1>1. /\ killed \subseteq Ids /\ MaxTasks \in Nat
      /\ caller[s] \in [at : {"idle", "down", "next", "waiting", "killing", "grace", "marking"},
                        todo : SUBSET Ids, on : 0 .. MaxTasks]
  BY BackgroundOK DEF IInv, TypeOK
<1>2. caller[s].todo \subseteq Known(mem)
  BY DEF IInv, Calls
<1>3. Idle.at = "idle" /\ Down.at = "down"
  BY DEF Idle, Down
<1>4. CASE \E id \in Ids : Stop(s, id)
  BY <1>1, <1>3, <1>4, CallKeeps DEF Stop, Onward, Legal
<1>5. CASE StopAll(s)
  BY <1>1, <1>3, <1>5, CallKeeps DEF StopAll, Onward, Legal, Known
<1>6. CASE Terminated(s)
  BY <1>1, <1>2, <1>3, <1>6, CallKeeps DEF Terminated, Onward, Legal
<1>7. ASSUME NEW id \in Ids, Terminate(s, id)
      PROVE  IInv'
  <2>1. id \in Known(mem) /\ caller[s].todo \ {id} \subseteq Known(mem) /\ id \in 0 .. MaxTasks
    BY <1>1, <1>2, <1>7 DEF Terminate, Ids
  <2>2. CASE handle[id] = "done"
    <3> DEFINE rest == caller[s].todo \ {id}
               at == IF rest = {} THEN "idle" ELSE "next"
    <3>1. caller[s].at = "next" /\ Goto(s, at, rest, 0) /\ killed' \subseteq Ids
          /\ UNCHANGED <<os, started, mem, disk, counter, handle, lives>>
      BY <1>1, <1>7, <2>2 DEF Terminate, Onward
    <3>2. Legal(at, rest, 0) /\ at # "marking"
      BY <1>1, <2>1 DEF Legal
    <3>3. caller[s] # Down
      BY <1>3, <3>1
    <3> HIDE DEF rest, at
    <3> QED BY <3>1, <3>2, <3>3, CallKeeps
  <2>3. CASE handle[id] # "done"
    BY <1>1, <1>3, <1>7, <2>1, <2>3, CallKeeps DEF Terminate, Legal
  <2> QED BY <2>2, <2>3
<1> QED BY <1>4, <1>5, <1>6, <1>7

\* SIGKILL leaves no shell.
LEMMA KillIsForward ==
  ASSUME IInv, NEW p \in Procs, Kill(p)
  PROVE  /\ Forward /\ os'[p] # "up"
         /\ os' \in [Procs -> {"none", "up", "left", "dying", "gone", "foreign"}]
BY DEF IInv, TypeOK, Kill, Forward

LEMMA KillingKeeps ==
  ASSUME IInv, NEW s \in Callers, Escalate(s) \/ GraceOver(s)
  PROVE  IInv'
<1> DEFINE id == caller[s].on
<1>1. PICK at \in {"killing", "marking"} :
        /\ caller[s].at \in {"waiting", "grace"}
        /\ Kill(mem[id].proc) /\ Goto(s, at, caller[s].todo, id)
        /\ UNCHANGED <<started, mem, disk, counter, handle, killed, lives>>
  BY DEF Escalate, GraceOver
<1>2. /\ caller[s] \in [at : {"idle", "down", "next", "waiting", "killing", "grace", "marking"},
                        todo : SUBSET Ids, on : 0 .. MaxTasks]
      /\ Registry(mem)
  BY DEF IInv, TypeOK, Registry
<1>3. id \in Known(mem) /\ caller[s].todo \subseteq Known(mem) /\ id \in 0 .. MaxTasks
  BY <1>1, <1>2 DEF IInv, Calls
<1>4. mem[id].proc \in Procs
  BY <1>2, <1>3, KnownTask
<1>5. /\ Forward /\ os'[mem[id].proc] # "up"
      /\ os' \in [Procs -> {"none", "up", "left", "dying", "gone", "foreign"}]
  BY <1>1, <1>4, KillIsForward
<1>6. caller[s] # Down
  <2>1. Down.at = "down"
    BY DEF Down
  <2> QED BY <1>1, <2>1
<1> HIDE DEF id
<1>8. /\ Running /\ Running'
      /\ caller' \in [Callers -> [at : {"idle", "down", "next", "waiting", "killing", "grace", "marking"},
                                  todo : SUBSET Ids, on : 0 .. MaxTasks]]
      /\ caller'[s].at = at /\ caller'[s].todo = caller[s].todo /\ caller'[s].on = id
      /\ \A r \in Callers \ {s} : caller'[r] = caller[r]
  BY <1>1, <1>3, <1>6, CallMoves DEF Legal
<1>9. /\ Owned(mem)' /\ Owned(disk)' /\ Ended(mem)' /\ Ended(disk)'
      /\ Found(disk)' /\ (Running => Found(mem)')
      /\ Known(mem)' = Known(mem) /\ Registry(mem)
  BY <1>1, <1>5, RegistriesStay
<1>10. \A i \in Known(mem) : os[mem[i].proc] # "up" => os'[mem'[i].proc] # "up"
  BY <1>1, <1>5, <1>9, KnownTask DEF IInv, Owned, Forward
<1>11. TypeOK'
  BY <1>1, <1>5, <1>8 DEF IInv, TypeOK
<1>12. Calls'
  BY <1>1, <1>3, <1>5, <1>8, <1>9, <1>10 DEF IInv, Calls
<1>13. Exits'
  BY <1>1, <1>9, <1>10 DEF IInv, Exits
<1>14. Counted' /\ Spawned' /\ Halted'
  BY <1>1, <1>5, <1>8, <1>9 DEF IInv, Counted, Spawned, Halted, Running, Forward
<1> QED BY <1>8, <1>9, <1>11, <1>12, <1>13, <1>14 DEF IInv


LEMMA RegisterKeeps ==
  ASSUME IInv, NEW p \in Procs, Register(p)
  PROVE  IInv'
<1> DEFINE id == counter + 1
           new == [mem EXCEPT ![id] = [proc |-> p, status |-> "running"]]
<1>1. /\ started[p] = "spawned" /\ id \in Ids /\ counter' = id
      /\ handle' = [handle EXCEPT ![id] = "live"]
      /\ mem' = new /\ disk' \in {new, disk}
      /\ started' = [started EXCEPT ![p] = IF disk' = mem' THEN "ok" ELSE "unsaved"]
      /\ UNCHANGED <<os, killed, caller, lives>>
  BY DEF Register, Persist
<1>2. TypeOK /\ MaxTasks \in Nat
  BY BackgroundOK DEF IInv
<1>3. id \notin Known(mem) /\ handle[id] = "none"
  BY <1>1, <1>2 DEF IInv, Counted, TypeOK, Exits
<1>4. new \in [Ids -> Tasks \cup {NoTask}]
  BY <1>1, <1>2 DEF TypeOK, Tasks, Status
<1>5. new[id] = [proc |-> p, status |-> "running"] /\ \A i \in Ids \ {id} : new[i] = mem[i]
  BY <1>1, <1>2 DEF TypeOK
<1>6. new[id] # NoTask
  BY <1>5 DEF NoTask
<1>7. Known(new) = Known(mem) \cup {id}
  BY <1>1, <1>5, <1>6 DEF Known
<1>8. new[id].proc = p /\ new[id].status = "running"
  BY <1>5
<1>9. \A i \in Known(mem) : i \in Ids \ {id}
  BY <1>3 DEF Known
<1> HIDE DEF id, new
<1>10. TypeOK'
  BY <1>1, <1>2, <1>4 DEF TypeOK, Ids
<1>11. os[p] # "none"
  BY <1>1 DEF IInv, Spawned
<1>12. Owned(new) /\ Ended(new)
  BY <1>5, <1>7, <1>8, <1>9, <1>11 DEF IInv, Owned, Ended, Settled
<1>13. Owned(mem)' /\ Owned(disk)' /\ Ended(mem)' /\ Ended(disk)'
  BY <1>1, <1>12 DEF IInv, Owned, Ended, Known
<1>14. \A q \in Procs : started'[q] = "ok" => q = p \/ started[q] = "ok"
  BY <1>1, <1>2 DEF TypeOK
<1>15. Running /\ Running'
  BY <1>1 DEF IInv, Halted, Running
<1>16. Found(mem)'
  <2> SUFFICES ASSUME NEW q \in Procs, started'[q] = "ok", os'[q] = "up"
               PROVE  \E i \in Ids : mem'[i] = [proc |-> q, status |-> "running"]
    BY DEF Found
  <2>1. CASE q = p
    BY <1>1, <1>5, <2>1
  <2>2. CASE q # p
    <3>1. PICK i \in Ids : mem[i] = [proc |-> q, status |-> "running"]
      BY <1>1, <1>14, <1>15, <2>2 DEF IInv, Found
    <3>2. i \in Known(mem)
      BY <3>1 DEF Known, NoTask
    <3> QED BY <1>1, <1>5, <1>9, <3>1, <3>2
  <2> QED BY <2>1, <2>2
<1>17. Found(disk)'
  <2>1. CASE disk' = mem'
    BY <1>16, <2>1 DEF Found
  <2>2. CASE disk' # mem'
    <3>1. disk' = disk /\ started'[p] # "ok"
      BY <1>1, <1>2, <2>2 DEF TypeOK
    <3> QED BY <1>1, <1>14, <3>1 DEF IInv, Found
  <2> QED BY <2>1, <2>2
<1>18. Exits'
  <2>1. Known(mem)' = Known(mem) \cup {id}
    BY <1>1, <1>7 DEF Known
  <2>2. \A i \in Ids \ {id} : handle'[i] = handle[i]
    BY <1>1, <1>2 DEF TypeOK
  <2>3. handle'[id] = "live"
    BY <1>1, <1>2 DEF TypeOK
  <2> QED BY <1>1, <1>5, <2>1, <2>2, <2>3 DEF IInv, Exits
<1>19. Calls'
  <2>1. Known(mem)' = Known(mem) \cup {id}
    BY <1>1, <1>7 DEF Known
  <2> QED BY <1>1, <1>5, <1>9, <2>1 DEF IInv, Calls
<1>20. Counted'
  <2>1. Counted /\ counter \in Nat
    BY <1>2 DEF IInv, TypeOK
  <2>2. Known(mem)' = Known(mem) \cup {id}
    BY <1>1, <1>7 DEF Known
  <2>3. \A i \in Known(mem) : i \in Nat /\ i <= counter
    BY <2>1, <1>2 DEF Counted, Known, Ids
  <2>4. counter' = counter + 1 /\ id = counter + 1
    BY <1>1 DEF id
  <2> QED BY <2>1, <2>2, <2>3, <2>4 DEF Counted
<1>21. Spawned' /\ Halted'
  BY <1>1, <1>2, <1>11, <1>15 DEF IInv, Spawned, Halted, Running, TypeOK
<1> QED BY <1>10, <1>13, <1>15, <1>16, <1>17, <1>18, <1>19, <1>20, <1>21 DEF IInv

LEMMA ReapKeeps ==
  ASSUME IInv, NEW id \in Ids, Reap(id)
  PROVE  IInv'
<1>1. /\ handle[id] = "live" /\ os[mem[id].proc] \in {"left", "gone"}
      /\ handle' = [handle EXCEPT ![id] = "reaped"]
      /\ UNCHANGED <<os, started, mem, disk, counter, killed, caller, lives>>
  BY DEF Reap
<1>2. Forward
  BY <1>1 DEF Forward
<1>3. /\ Owned(mem)' /\ Owned(disk)' /\ Ended(mem)' /\ Ended(disk)'
      /\ Found(disk)' /\ (Running => Found(mem)')
      /\ Known(mem)' = Known(mem) /\ Registry(mem)
  BY <1>1, <1>2, RegistriesStay
<1>4. TypeOK'
  BY <1>1 DEF IInv, TypeOK
<1>5. Exits'
  BY <1>1, <1>3 DEF IInv, Exits, TypeOK
<1>6. Calls' /\ Counted' /\ Spawned'
  BY <1>1, <1>3 DEF IInv, Calls, Counted, Spawned
<1>7. Halted' /\ (Running' => Running)
  BY <1>1 DEF IInv, Halted, Running
<1> QED BY <1>3, <1>4, <1>5, <1>6, <1>7 DEF IInv

LEMMA SettleKeeps ==
  ASSUME IInv, NEW id \in Ids, Settle(id)
  PROVE  IInv'
<1>1. PICK st \in Settled :
        /\ handle[id] = "reaped" /\ handle' = [handle EXCEPT ![id] = "done"]
        /\ Persist(WithOutcome(mem, id, st))
        /\ UNCHANGED <<os, started, counter, killed, caller, lives>>
  BY DEF Settle, Settled
<1>2. id \in Known(mem) /\ os[mem[id].proc] # "up"
  BY <1>1 DEF IInv, Exits
<1>3. Running /\ Running'
  BY <1>1 DEF IInv, Halted, Running
<1>4. /\ Registry(mem') /\ Registry(disk')
      /\ Known(mem)' = Known(mem)
      /\ \A j \in Known(mem) : mem'[j].proc = mem[j].proc
      /\ Owned(mem)' /\ Owned(disk)' /\ Ended(mem)' /\ Ended(disk)'
      /\ Found(mem)' /\ Found(disk)'
  BY <1>1, <1>2, <1>3, SettlingKeeps
<1>5. TypeOK'
  BY <1>1, <1>4 DEF IInv, TypeOK, Registry
<1>6. Exits'
  BY <1>1, <1>2, <1>4 DEF IInv, Exits, TypeOK
<1>7. Calls' /\ Counted' /\ Spawned' /\ Halted'
  BY <1>1, <1>3, <1>4 DEF IInv, Calls, Counted, Spawned, Halted, Running
<1> QED BY <1>4, <1>5, <1>6, <1>7 DEF IInv

\* The two ways in which a stop by PID records an outcome.
LEMMA MarkingKeeps ==
  ASSUME IInv, NEW s \in Callers, caller[s] # Down, NEW id \in Known(mem), NEW st \in Settled,
         os[mem[id].proc] # "up", NEW todo \in SUBSET Known(mem),
         Onward(s, todo), Persist(WithOutcome(mem, id, st)),
         UNCHANGED <<os, started, counter, handle, killed, lives>>
  PROVE  IInv'
<1> DEFINE at == IF todo = {} THEN "idle" ELSE "next"
<1>1. Goto(s, at, todo, 0) /\ at \in {"idle", "next"}
  BY DEF Onward
<1>2. Legal(at, todo, 0)
  BY BackgroundOK DEF Legal
<1> HIDE DEF at
<1>3. /\ Running /\ Running'
      /\ caller' \in [Callers -> [at : {"idle", "down", "next", "waiting", "killing", "grace", "marking"},
                                  todo : SUBSET Ids, on : 0 .. MaxTasks]]
      /\ caller'[s].at = at /\ caller'[s].todo = todo /\ caller'[s].on = 0
      /\ \A r \in Callers \ {s} : caller'[r] = caller[r]
  BY <1>1, <1>2, CallMoves
<1>4. /\ Registry(mem') /\ Registry(disk')
      /\ Known(mem)' = Known(mem)
      /\ \A j \in Known(mem) : mem'[j].proc = mem[j].proc
      /\ Owned(mem)' /\ Owned(disk)' /\ Ended(mem)' /\ Ended(disk)'
      /\ Found(mem)' /\ Found(disk)'
  BY <1>3, SettlingKeeps
<1>5. TypeOK'
  BY <1>3, <1>4 DEF IInv, TypeOK, Registry
<1>6. Calls'
  BY <1>1, <1>3, <1>4 DEF IInv, Calls
<1>7. Exits' /\ Counted' /\ Spawned' /\ Halted'
  BY <1>3, <1>4 DEF IInv, Exits, Counted, Spawned, Halted, Running
<1> QED BY <1>3, <1>4, <1>5, <1>6, <1>7 DEF IInv

LEMMA ReattachedKeeps ==
  ASSUME IInv, NEW s \in Callers, Mark(s) \/ \E id \in Ids : StopReattached(s, id)
  PROVE  IInv'
<1>1. /\ MaxTasks \in Nat /\ killed \subseteq Ids
      /\ caller[s] \in [at : {"idle", "down", "next", "waiting", "killing", "grace", "marking"},
                        todo : SUBSET Ids, on : 0 .. MaxTasks]
      /\ caller[s].todo \subseteq Known(mem)
      /\ Down.at = "down"
  BY BackgroundOK DEF IInv, TypeOK, Calls, Down
<1>2. CASE Mark(s)
  <2>1. /\ caller[s].at = "marking" /\ caller[s].on \in Known(mem)
        /\ os[mem[caller[s].on].proc] # "up" /\ caller[s] # Down
    BY <1>1, <1>2 DEF IInv, Calls, Mark
  <2>2. "killed" \in Settled
    BY DEF Settled
  <2> QED BY <1>1, <1>2, <2>1, <2>2, MarkingKeeps DEF Mark
<1>3. ASSUME NEW id \in Ids, StopReattached(s, id)
      PROVE  IInv'
  <2> DEFINE rest == caller[s].todo \ {id}
  <2>1. /\ id \in Known(mem) /\ rest \subseteq Known(mem) /\ caller[s] # Down
        /\ caller[s].at = "next" /\ UNCHANGED <<os, started, counter, handle, killed, lives>>
    BY <1>1, <1>3 DEF StopReattached
  <2>2. CASE Alive(mem[id].proc)
    <3>1. Goto(s, "grace", rest, id) /\ UNCHANGED <<mem, disk>>
      BY <1>3, <2>2 DEF StopReattached
    <3>2. Legal("grace", rest, id)
      BY <1>1, <2>1 DEF Legal, Ids
    <3> QED BY <1>1, <2>1, <3>1, <3>2, CallKeeps
  <2>3. CASE ~Alive(mem[id].proc)
    <3>1. Onward(s, rest) /\ Persist(WithOutcome(mem, id, "completed"))
      BY <1>3, <2>3 DEF StopReattached
    <3>2. os[mem[id].proc] # "up" /\ "completed" \in Settled
      BY <2>3 DEF Alive, Settled
    <3> HIDE DEF rest
    <3> QED BY <2>1, <3>1, <3>2, MarkingKeeps
  <2> QED BY <2>2, <2>3
<1> QED BY <1>2, <1>3


LEMMA CrashKeeps ==
  ASSUME IInv, Crash
  PROVE  IInv'
<1>1. /\ Running
      /\ started' = [p \in Procs |-> IF started[p] = "spawned" THEN "lost" ELSE started[p]]
      /\ mem' = [i \in Ids |-> NoTask] /\ counter' = 0
      /\ handle' = [i \in Ids |-> "none"] /\ killed' = {}
      /\ caller' = [s \in Callers |-> Down]
      /\ UNCHANGED <<os, disk, lives>>
  BY DEF Crash
<1>2. TypeOK /\ MaxTasks \in Nat
  BY BackgroundOK DEF IInv
<1>3. Down \in [at : {"idle", "down", "next", "waiting", "killing", "grace", "marking"},
                todo : SUBSET Ids, on : 0 .. MaxTasks]
  BY <1>2 DEF Down
<1>4. TypeOK'
  BY <1>1, <1>2, <1>3 DEF TypeOK
<1>5. Known(mem)' = {}
  BY <1>1 DEF Known
<1>6. \A p \in Procs : (started'[p] = "ok" => started[p] = "ok") /\ started'[p] # "spawned"
                       /\ (started'[p] # "no" => started[p] # "no")
  BY <1>1, <1>2 DEF TypeOK
<1>7. Owned(mem)' /\ Ended(mem)' /\ Counted'
  BY <1>5 DEF Owned, Ended, Counted
<1>8. Owned(disk)' /\ Ended(disk)'
  BY <1>1 DEF IInv, Owned, Ended, Known
<1>9. Found(disk)' /\ Spawned'
  BY <1>1, <1>6 DEF IInv, Found, Spawned
<1>10. Exits'
  BY <1>1 DEF Exits
<1>11. Calls'
  <2>1. Down.at = "down" /\ Down.todo = {}
    BY DEF Down
  <2> QED BY <1>1, <2>1 DEF Calls
<1>12. ~Running'
  BY <1>1, BackgroundOK DEF Running
<1>13. Halted'
  <2>1. lives' < MaxLives
    BY DEF Crash
  <2> QED BY <1>1, <1>6, <2>1 DEF Halted
<1> QED BY <1>4, <1>7, <1>8, <1>9, <1>10, <1>11, <1>12, <1>13 DEF IInv

\* A restart settles what is dead and finds the rest.
LEMMA RestartKeeps ==
  ASSUME IInv, Restart
  PROVE  IInv'
<1> DEFINE new == Reconciled(disk)
<1>1. /\ ~Running /\ mem' = new
      /\ counter' \in Known(disk) \cup {0} /\ \A i \in Known(disk) : i <= counter'
      /\ caller' = [s \in Callers |-> Idle]
      /\ UNCHANGED <<os, started, disk, handle, killed>>
  BY DEF Restart
<1>2. TypeOK /\ MaxTasks \in Nat /\ Registry(disk)
  BY BackgroundOK DEF IInv, TypeOK, Registry
<1>3. \A s \in Callers : caller[s] = Down
  BY <1>1 DEF IInv, Halted, Running
<1>4. \A i \in Ids : handle[i] = "none"
  BY <1>1 DEF IInv, Halted, Running
<1>5. ASSUME NEW i \in Ids
      PROVE  /\ new[i] \in Tasks \cup {NoTask}
             /\ new[i] # NoTask <=> disk[i] # NoTask
             /\ i \in Known(disk) => new[i].proc = disk[i].proc
             /\ i \in Known(disk) /\ Alive(disk[i].proc) => new[i] = disk[i]
             /\ i \in Known(disk) /\ new[i] # disk[i] => ~Alive(disk[i].proc)
  <2>1. CASE i \in Known(disk) /\ disk[i].status = "running" /\ ~Alive(disk[i].proc)
    <3>1. new[i] = [proc |-> disk[i].proc, status |-> "error"]
      BY <2>1 DEF Reconciled, Outcome
    <3>2. disk[i] # NoTask /\ disk[i].proc \in Procs
      BY <1>2, <2>1, KnownTask DEF Known
    <3>3. new[i].status = "error" /\ NoTask.status = "none"
      BY <3>1 DEF NoTask
    <3> QED BY <2>1, <3>1, <3>2, <3>3 DEF Tasks, Status, Settled
  <2>2. CASE ~(i \in Known(disk) /\ disk[i].status = "running" /\ ~Alive(disk[i].proc))
    <3>1. new[i] = disk[i]
      BY <2>2 DEF Reconciled
    <3> QED BY <1>2, <3>1 DEF Registry
  <2> QED BY <2>1, <2>2
<1>6. new = [i \in Ids |-> new[i]]
  BY DEF Reconciled
<1> HIDE DEF new
<1>7. new \in [Ids -> Tasks \cup {NoTask}]
  BY <1>5, <1>6
<1>8. Known(new) = Known(disk)
  BY <1>5 DEF Known
<1>9. Owned(new) /\ Owned(disk) /\ Ended(disk) /\ Found(disk)
  BY <1>5, <1>8 DEF IInv, Owned, Known
<1>10. Ended(new)
  <2> SUFFICES ASSUME NEW i \in Known(new), new[i].status \in Settled
               PROVE  os[new[i].proc] # "up"
    BY DEF Ended
  <2>1. i \in Known(disk) /\ i \in Ids
    BY <1>8 DEF Known
  <2>2. CASE new[i] = disk[i]
    BY <1>9, <2>1, <2>2 DEF Ended
  <2>3. CASE new[i] # disk[i]
    BY <1>5, <2>1, <2>3 DEF Alive
  <2> QED BY <2>2, <2>3
<1>11. Found(new)
  <2> SUFFICES ASSUME NEW p \in Procs, started[p] = "ok", os[p] = "up"
               PROVE  \E i \in Ids : new[i] = [proc |-> p, status |-> "running"]
    BY DEF Found
  <2>1. PICK i \in Ids : disk[i] = [proc |-> p, status |-> "running"]
    BY <1>9 DEF Found
  <2>2. i \in Known(disk) /\ Alive(disk[i].proc)
    BY <2>1 DEF Known, NoTask, Alive
  <2> QED BY <1>5, <2>1, <2>2
<1>12. /\ Owned(mem)' /\ Owned(disk)' /\ Ended(mem)' /\ Ended(disk)'
       /\ Found(mem)' /\ Found(disk)'
  BY <1>1, <1>9, <1>10, <1>11 DEF Owned, Ended, Found, Known
<1>13. Idle \in [at : {"idle", "down", "next", "waiting", "killing", "grace", "marking"},
                 todo : SUBSET Ids, on : 0 .. MaxTasks]
       /\ Idle.at = "idle" /\ Idle.todo = {} /\ Idle # Down
  <2>1. Idle.at = "idle" /\ Down.at = "down"
    BY DEF Idle, Down
  <2> QED BY <1>2, <2>1 DEF Idle
<1>14. TypeOK'
  <2>1. lives' \in 1 .. MaxLives
    <3>1. lives < MaxLives /\ lives' = lives + 1
      BY <1>1 DEF IInv, Halted, Running, Restart
    <3> QED BY <1>2, <3>1, BackgroundOK DEF TypeOK
  <2> QED BY <1>1, <1>2, <1>7, <1>13, <2>1 DEF TypeOK, Known, Ids
<1>15. Calls' /\ Exits'
  BY <1>1, <1>4, <1>13 DEF Calls, Exits
<1>16. Counted' /\ Spawned'
  BY <1>1, <1>8 DEF IInv, Counted, Spawned, Known
<1>17. Halted'
  BY <1>1, <1>13 DEF Halted
<1> QED BY <1>12, <1>14, <1>15, <1>16, <1>17 DEF IInv

-----------------------------------------------------------------------------
(* The theorems. *)

LEMMA Initially == Init => IInv
<1> SUFFICES ASSUME Init PROVE IInv
  OBVIOUS
<1>1. Known(mem) = {} /\ Known(disk) = {}
  BY DEF Init, Known
<1>2. MaxTasks \in Nat /\ MaxLives \in Nat \ {0}
  BY BackgroundOK
<1>3. Idle \in [at : {"idle", "down", "next", "waiting", "killing", "grace", "marking"},
                todo : SUBSET Ids, on : 0 .. MaxTasks]
      /\ Idle.at = "idle" /\ Idle.todo = {} /\ Idle # Down
  <2>1. Idle.at = "idle" /\ Down.at = "down"
    BY DEF Idle, Down
  <2> QED BY <1>2, <2>1 DEF Idle
<1>4. TypeOK
  BY <1>2, <1>3 DEF Init, TypeOK
<1>5. Owned(mem) /\ Owned(disk) /\ Ended(mem) /\ Ended(disk) /\ Counted
  BY <1>1 DEF Owned, Ended, Counted
<1>6. Found(mem) /\ Found(disk) /\ Spawned /\ Exits
  BY DEF Init, Found, Spawned, Exits
<1>7. Calls /\ Halted
  BY <1>3 DEF Init, Calls, Halted
<1> QED BY <1>4, <1>5, <1>6, <1>7 DEF IInv

LEMMA Inductive == IInv /\ [Next]_vars => IInv'
<1> SUFFICES ASSUME IInv, [Next]_vars PROVE IInv'
  OBVIOUS
<1>1. ASSUME NEW p \in Procs, Spawn(p) \/ Register(p) \/ Die(p) \/ Leave(p) \/ Reuse(p)
      PROVE  IInv'
  BY <1>1, SpawnKeeps, RegisterKeeps, SystemKeeps
<1>2. ASSUME NEW id \in Ids, Reap(id) \/ Settle(id) \/ \E s \in Callers : Stop(s, id)
      PROVE  IInv'
  BY <1>2, ReapKeeps, SettleKeeps, StopKeeps
<1>3. ASSUME NEW s \in Callers, StopAll(s) \/ Serve(s)
      PROVE  IInv'
  BY <1>3, StopKeeps, KillingKeeps, ReattachedKeeps DEF Serve
<1>4. CASE Crash
  BY <1>4, CrashKeeps
<1>5. CASE Restart
  BY <1>5, RestartKeeps
<1>6. CASE UNCHANGED vars
  BY <1>6 DEF vars, IInv, TypeOK, Owned, Ended, Found, Exits, Calls, Counted, Spawned, Halted,
              Running, Known
<1> QED BY <1>1, <1>2, <1>3, <1>4, <1>5, <1>6 DEF Next

\* The inductive invariant holds of every behaviour.
THEOREM InvHolds == Spec => []IInv
BY Initially, Inductive, PTL DEF Spec

\* Every variable keeps its type.
THEOREM TypeCorrect == Spec => []TypeOK
<1>1. IInv => TypeOK
  BY DEF IInv
<1> QED BY <1>1, InvHolds, PTL

\* Whatever is stopped, killed, crashed, reused or not written, no task is
\* recorded as ended while the shell that Start launched may go on.
THEOREM SettledIsGoneHolds == Spec => []SettledIsGone
<1>1. IInv => SettledIsGone
  BY DEF IInv, Ended, SettledIsGone
<1> QED BY <1>1, InvHolds, PTL

\* A process that Start reported is found in the file for as long as it is up,
\* over any number of crashes.
THEOREM FoundAgainHolds == Spec => []FoundAgain
<1>1. IInv => FoundAgain
  BY DEF IInv, Found, FoundAgain
<1> QED BY <1>1, InvHolds, PTL

=============================================================================
