------------------------ MODULE GoalSchedulingProofs ------------------------
(***************************************************************************)
(* Theorems about GoalScheduling, for any number of goals, any commands    *)
(* and any bounds: no accepted goal is lost between the slot, the queue    *)
(* and the hands of an operation, and a goal promoted after a cancel waits *)
(* to be resumed.  For the commands that do not end the goal in the slot:  *)
(* no goal is in two places.                                               *)
(*                                                                         *)
(* The proofs see the queue through InQueue and Distinct only: the lemmas  *)
(* of the first part say what an insertion, a removal and a reordering do  *)
(* to them, and which goals an actor holds before and after its step is    *)
(* said by HandMoves and HeldMoves.                                        *)
(***************************************************************************)
EXTENDS GoalScheduling, FiniteSetTheorems, SequenceTheorems, WellFoundedInduction, TLAPS

-----------------------------------------------------------------------------
(* The queue *)

\* Every nonempty set of naturals has a least element.
LEMMA Least == ASSUME NEW S \in SUBSET Nat, S # {} PROVE \E n \in S : \A m \in S : n <= m
<1> DEFINE R == OpToRel(<, Nat)
<1>1. IsWellFoundedOn(R, Nat)
  BY NatLessThanWellFounded
<1>2. \A n, m \in Nat : n < m => <<n, m>> \in R
  BY DEF OpToRel
<1> HIDE DEF R
<1>3. PICK x \in S : \A y \in S : ~ (<<y, x>> \in R)
  BY <1>1, WFMin
<1>4. ASSUME NEW y \in S PROVE x <= y
  <2>1. ~(y < x)
    BY <1>2, <1>3
  <2> QED BY <2>1
<1> QED BY <1>4

\* A goal that is put at either end of the queue.
LEMMA Added ==
  ASSUME queue \in Seq(Goals), NEW g \in Goals, Front(g) \/ Back(g)
  PROVE  queue' \in Seq(Goals) /\ \A x : InQueue(x)' <=> InQueue(x) \/ x = g
<1>1. CASE Front(g)
  <2>1. /\ queue' \in Seq(Goals) /\ Len(queue') = Len(queue) + 1 /\ queue'[1] = g
        /\ \A i \in DOMAIN queue : queue'[i + 1] = queue[i]
    BY <1>1 DEF Front
  <2>2. ASSUME NEW x, InQueue(x) PROVE InQueue(x)'
    <3>1. PICK i \in DOMAIN queue : queue[i] = x
      BY <2>2 DEF InQueue
    <3>2. i + 1 \in DOMAIN queue' /\ queue'[i + 1] = x
      BY <2>1, <3>1
    <3> QED BY <3>2 DEF InQueue
  <2>3. InQueue(g)'
    BY <2>1 DEF InQueue
  <2>4. ASSUME NEW x, InQueue(x)', x # g PROVE InQueue(x)
    <3>1. PICK i \in DOMAIN queue' : queue'[i] = x
      BY <2>4 DEF InQueue
    <3>2. i - 1 \in DOMAIN queue /\ (i - 1) + 1 = i
      BY <2>1, <2>4, <3>1
    <3>3. queue[i - 1] = x
      BY <2>1, <3>1, <3>2
    <3> QED BY <3>2, <3>3 DEF InQueue
  <2> QED BY <2>1, <2>2, <2>3, <2>4
<1>2. CASE Back(g)
  <2>1. /\ queue' \in Seq(Goals) /\ Len(queue') = Len(queue) + 1
        /\ queue'[Len(queue) + 1] = g
        /\ \A i \in DOMAIN queue : queue'[i] = queue[i]
        /\ DOMAIN queue' = DOMAIN queue \cup {Len(queue) + 1}
    BY <1>2 DEF Back
  <2> QED BY <2>1 DEF InQueue
<1> QED BY <1>1, <1>2

\* A queue without its entry at i.
Cut(q, i) == SubSeq(q, 1, i - 1) \o SubSeq(q, i + 1, Len(q))

\* The entries before i stay and those after it move up.
LEMMA CutEntries ==
  ASSUME NEW q \in Seq(Goals), NEW i \in DOMAIN q
  PROVE  /\ Cut(q, i) \in Seq(Goals) /\ DOMAIN Cut(q, i) = 1 .. Len(q) - 1
         /\ \A k \in 1 .. i - 1 : Cut(q, i)[k] = q[k]
         /\ \A k \in i .. Len(q) - 1 : Cut(q, i)[k] = q[k + 1]
<1> DEFINE head == SubSeq(q, 1, i - 1)
           tail == SubSeq(q, i + 1, Len(q))
<1>1. /\ Len(q) \in Nat /\ i \in 1 .. Len(q)
      /\ \A k \in 1 .. Len(q) : q[k] \in Goals
  BY LenProperties, ElementOfSeq
<1>2. /\ head \in Seq(Goals) /\ Len(head) = i - 1
      /\ \A k \in 1 .. i - 1 : head[k] = q[k]
  <2>1. /\ head \in Seq(Goals)
        /\ Len(head) = IF 1 <= i - 1 THEN i - 1 - 1 + 1 ELSE 0
        /\ \A k \in 1 .. i - 1 - 1 + 1 : head[k] = q[1 + k - 1]
    BY <1>1, SubSeqProperties
  <2> QED BY <1>1, <2>1
<1>3. /\ tail \in Seq(Goals) /\ Len(tail) = Len(q) - i
      /\ \A k \in 1 .. Len(q) - i : tail[k] = q[i + k]
  <2>1. /\ tail \in Seq(Goals)
        /\ Len(tail) = IF i + 1 <= Len(q) THEN Len(q) - (i + 1) + 1 ELSE 0
        /\ \A k \in 1 .. Len(q) - (i + 1) + 1 : tail[k] = q[(i + 1) + k - 1]
    BY <1>1, SubSeqProperties
  <2> QED BY <1>1, <2>1
<1> HIDE DEF head, tail
<1> DEFINE r == head \o tail
<1>4. /\ r \in Seq(Goals) /\ Len(r) = Len(head) + Len(tail)
      /\ \A k \in 1 .. Len(head) + Len(tail) :
            r[k] = IF k <= Len(head) THEN head[k] ELSE tail[k - Len(head)]
  BY <1>2, <1>3, ConcatProperties
<1>5. Cut(q, i) = r
  BY DEF Cut, head, tail
<1> HIDE DEF r
<1>6. DOMAIN r = 1 .. Len(q) - 1
  <2>1. Len(r) = Len(q) - 1
    BY <1>1, <1>2, <1>3, <1>4
  <2> QED BY <1>4, <2>1, LenProperties
<1>7. ASSUME NEW k \in 1 .. i - 1 PROVE r[k] = q[k]
  <2>1. k \in 1 .. Len(head) /\ k \in 1 .. Len(head) + Len(tail) /\ k <= Len(head)
    BY <1>1, <1>2, <1>3
  <2>2. r[k] = head[k]
    BY <1>4, <2>1
  <2> QED BY <1>1, <1>2, <2>1, <2>2
<1>8. ASSUME NEW k \in i .. Len(q) - 1 PROVE r[k] = q[k + 1]
  <2>1. k - Len(head) \in 1 .. Len(q) - i /\ i + (k - Len(head)) = k + 1
    BY <1>1, <1>2
  <2>2. k \in 1 .. Len(head) + Len(tail) /\ ~(k <= Len(head))
    BY <1>1, <1>2, <1>3
  <2>3. r[k] = tail[k - Len(head)]
    BY <1>4, <2>2
  <2> QED BY <1>3, <2>1, <2>3
<1> QED BY <1>4, <1>6, <1>7, <1>8, <1>5

\* The first copy of a goal is taken out: the others close ranks.
LEMMA RemovedAt ==
  ASSUME queue \in Seq(Goals), NEW g, InQueue(g), queue' = Without(queue, g)
  PROVE  /\ queue' \in Seq(Goals)
         /\ DOMAIN queue = 1 .. Len(queue) /\ DOMAIN queue' = 1 .. Len(queue) - 1
         /\ \E f \in DOMAIN queue :
              /\ queue[f] = g
              /\ \A i \in 1 .. f - 1 : queue'[i] = queue[i]
              /\ \A i \in f .. Len(queue) - 1 : queue'[i] = queue[i + 1]
<1> DEFINE first == CHOOSE i \in DOMAIN queue :
                      queue[i] = g /\ \A j \in 1 .. i - 1 : queue[j] # g
<1>1. first \in DOMAIN queue /\ queue[first] = g
  <2> DEFINE S == {i \in DOMAIN queue : queue[i] = g}
  <2>1. S \in SUBSET Nat /\ S # {}
    BY DEF InQueue
  <2>2. PICK n \in S : \A m \in S : n <= m
    BY <2>1, Least
  <2>3. n \in DOMAIN queue /\ queue[n] = g /\ \A j \in 1 .. n - 1 : queue[j] # g
    BY <2>2
  <2> QED BY <2>3
<1>2. queue' = SubSeq(queue, 1, first - 1) \o SubSeq(queue, first + 1, Len(queue))
  BY DEF Without
<1> HIDE DEF first
<1>3. DOMAIN queue = 1 .. Len(queue)
  BY LenProperties
<1>4. /\ queue' \in Seq(Goals) /\ DOMAIN queue' = 1 .. Len(queue) - 1
      /\ \A i \in 1 .. first - 1 : queue'[i] = queue[i]
      /\ \A i \in first .. Len(queue) - 1 : queue'[i] = queue[i + 1]
  BY <1>1, <1>2, CutEntries DEF Cut
<1> QED BY <1>1, <1>3, <1>4

\* Who is in the queue after a removal; other copies of the goal may be.
LEMMA Removed ==
  ASSUME queue \in Seq(Goals), NEW g, InQueue(g), queue' = Without(queue, g)
  PROVE  /\ queue' \in Seq(Goals)
         /\ \A x : InQueue(x)' => InQueue(x)
         /\ \A x : InQueue(x) /\ x # g => InQueue(x)'
<1>1. /\ queue' \in Seq(Goals) /\ Len(queue) \in Nat
      /\ DOMAIN queue = 1 .. Len(queue) /\ DOMAIN queue' = 1 .. Len(queue) - 1
  BY RemovedAt, LenProperties
<1>2. PICK f \in DOMAIN queue :
        /\ queue[f] = g
        /\ \A i \in 1 .. f - 1 : queue'[i] = queue[i]
        /\ \A i \in f .. Len(queue) - 1 : queue'[i] = queue[i + 1]
  BY RemovedAt
<1>3. ASSUME NEW x, InQueue(x)' PROVE InQueue(x)
  <2>1. PICK i \in DOMAIN queue' : queue'[i] = x
    BY <1>3 DEF InQueue
  <2>2. CASE i < f
    <3>1. i \in DOMAIN queue /\ i \in 1 .. f - 1
      BY <1>1, <2>1, <2>2
    <3> QED BY <1>2, <2>1, <3>1 DEF InQueue
  <2>3. CASE i >= f
    <3>1. i + 1 \in DOMAIN queue /\ i \in f .. Len(queue) - 1
      BY <1>1, <2>1, <2>3
    <3> QED BY <1>2, <2>1, <3>1 DEF InQueue
  <2> QED BY <1>1, <2>1, <2>2, <2>3
<1>4. ASSUME NEW x, InQueue(x), x # g PROVE InQueue(x)'
  <2>1. PICK i \in DOMAIN queue : queue[i] = x
    BY <1>4 DEF InQueue
  <2>2. CASE i < f
    <3>1. i \in DOMAIN queue' /\ i \in 1 .. f - 1
      BY <1>1, <2>1, <2>2
    <3> QED BY <1>2, <2>1, <3>1 DEF InQueue
  <2>3. CASE i > f
    <3>1. i - 1 \in f .. Len(queue) - 1 /\ (i - 1) + 1 = i /\ i - 1 \in DOMAIN queue'
      BY <1>1, <2>1, <2>3
    <3> QED BY <1>2, <2>1, <3>1 DEF InQueue
  <2> QED BY <1>1, <1>2, <1>4, <2>1, <2>2, <2>3
<1> QED BY <1>1, <1>3, <1>4

\* Two entries change places.
LEMMA Swapped ==
  ASSUME queue \in Seq(Goals), NEW i \in DOMAIN queue, NEW j \in DOMAIN queue,
         queue' = [queue EXCEPT ![i] = queue[j], ![j] = queue[i]]
  PROVE  queue' \in Seq(Goals) /\ \A x : InQueue(x)' <=> InQueue(x)
<1>1. queue' \in Seq(Goals) /\ DOMAIN queue' = DOMAIN queue
  OBVIOUS
<1>2. /\ queue'[j] = queue[i] /\ (i # j => queue'[i] = queue[j]) /\ (i = j => queue'[i] = queue[i])
      /\ \A k \in DOMAIN queue \ {i, j} : queue'[k] = queue[k]
  OBVIOUS
<1>3. ASSUME NEW x, InQueue(x)' PROVE InQueue(x)
  BY <1>1, <1>2, <1>3 DEF InQueue
<1>4. ASSUME NEW x, InQueue(x) PROVE InQueue(x)'
  BY <1>1, <1>2, <1>4 DEF InQueue
<1> QED BY <1>1, <1>3, <1>4

-----------------------------------------------------------------------------
(* Types *)

FeedOK ==
  /\ bus \in Seq(Events) /\ backlog \in Seq(Events)
  /\ sending \in Events \cup {None} /\ draining \in BOOLEAN

ControlOK ==
  /\ pc \in [Actors -> Steps] /\ hand \in [Actors -> Goals \cup {None}]
  /\ seen \in Goals \cup {None}
  /\ armed \in BOOLEAN /\ parks \in BOOLEAN /\ cancelled \in BOOLEAN
  /\ spawns \in 0 .. MaxSpawns

StoreOK ==
  /\ slot \in Slots \cup {None} /\ queue \in Seq(Goals)
  /\ known \subseteq Goals /\ closed \subseteq known /\ parked \subseteq known
  /\ unseen \subseteq known

\* The type invariant, by what the proofs of its parts need.
LEMMA TypeParts == TypeOK <=> FeedOK /\ ControlOK /\ StoreOK
BY DEF TypeOK, FeedOK, ControlOK, StoreOK

\* Every goal that anybody keeps was accepted.
KnownInv ==
  /\ slot # None => slot.goal \in known
  /\ \A g : InQueue(g) => g \in known
  /\ \A a \in Actors : hand[a] # None => hand[a] \in known
  /\ seen # None => seen \in known

\* Which steps an actor takes, and what it holds at them.
Hands ==
  /\ pc["tool"] \in {"idle", "adding", "wiping", "postponing", "clearing", "requeueing",
                     "unseating", "spawning", "swapping", "demoting", "replacing"}
  /\ pc["user"] \in {"idle", "wiping", "taking", "holding", "restoring"}
  /\ pc["forwarder"] \in {"idle", "taking", "holding", "restoring", "parking"}
  /\ \A a \in Actors : pc[a] \in Keeping \cup {"taking", "parking"} <=> hand[a] # None
  /\ pc["tool"] \in {"postponing", "clearing", "requeueing", "unseating", "demoting"}
       => seen # None
  /\ pc["tool"] \in {"idle", "adding", "wiping", "spawning", "swapping"} => seen = None
  /\ pc["tool"] \in {"requeueing", "unseating", "spawning"} => spawns < MaxSpawns

\* The publisher moves events about.
LEMMA PublishType ==
  ASSUME NEW E, bus \in Seq(E), backlog \in Seq(E), sending \in E \cup {None},
         draining \in BOOLEAN, NEW es \in Seq(E), Publish(es)
  PROVE  /\ bus' \in Seq(E) /\ backlog' \in Seq(E)
         /\ sending' \in E \cup {None} /\ draining' \in BOOLEAN
<1>1. CASE backlog = <<>> /\ bus' = bus \o es /\ UNCHANGED <<backlog, sending, draining>>
  BY <1>1
<1>2. CASE backlog' = backlog \o es /\ draining' = TRUE /\ UNCHANGED <<bus, sending>>
  BY <1>2
<1>3. CASE Len(es) = 2 /\ Split(es[1], es[2])
  <2>1. 1 \in 1 .. Len(es) /\ 2 \in 1 .. Len(es)
    BY <1>3
  <2>2. es[1] \in E /\ es[2] \in E
    BY <2>1, ElementOfSeq
  <2>3. CASE /\ bus' = Append(bus, es[1]) /\ backlog' = <<es[2]>> /\ draining' = TRUE
             /\ UNCHANGED sending
    BY <2>2, <2>3
  <2>4. CASE /\ sending # None /\ bus' = bus \o <<es[1], sending, es[2]>> /\ sending' = None
             /\ UNCHANGED <<backlog, draining>>
    <3>1. <<es[1], sending, es[2]>> \in Seq(E)
      BY <2>2, <2>4
    <3> QED BY <2>4, <3>1
  <2>5. CASE /\ sending' = es[1] /\ draining' = TRUE /\ bus' = Append(bus, es[2])
             /\ UNCHANGED backlog
    BY <2>2, <2>5
  <2> QED BY <1>3, <2>3, <2>4, <2>5 DEF Split
<1> QED BY <1>1, <1>2, <1>3 DEF Publish

\* The events of a clear and of a completion.
LEMMA EventTypes ==
  /\ \A cancel \in BOOLEAN : <<Cleared(cancel)>> \in Seq(Events)
  /\ \A s \in Slots : <<Completed(s), Cleared(FALSE)>> \in Seq(Events)
<1>1. \A cancel \in BOOLEAN : Cleared(cancel) \in Events
  BY DEF Cleared, Events
<1>2. \A s \in Slots : Completed(s) \in Events
  BY DEF Completed, Events, Slots
<1>3. /\ \A e \in Events : <<e>> \in Seq(Events)
      /\ \A e, f \in Events : <<e, f>> \in Seq(Events)
  OBVIOUS
<1>4. ASSUME NEW s \in Slots PROVE <<Completed(s), Cleared(FALSE)>> \in Seq(Events)
  <2>1. Completed(s) \in Events /\ Cleared(FALSE) \in Events
    BY <1>1, <1>2
  <2> QED BY <1>3, <2>1
<1> QED BY <1>1, <1>3, <1>4

\* Every step keeps the feed a feed of goal events.
LEMMA FeedType ==
  ASSUME TypeOK, [Next]_vars
  PROVE  FeedOK'
<1> USE TypeParts
<1>1. CASE UNCHANGED feed
  BY <1>1 DEF feed, FeedOK
<1>2. ASSUME NEW g, Replace(g)
      PROVE  FeedOK'
  BY <1>2, PublishType, EventTypes DEF Replace, FeedOK, feed
<1>3. ASSUME NEW c \in BOOLEAN, Clear(c)
      PROVE  FeedOK'
  BY <1>3, PublishType, EventTypes DEF Clear, FeedOK
<1>4. CASE Complete
  <2>1. slot \in Slots
    BY <1>4 DEF StoreOK, Complete, Holds
  <2> QED BY <1>4, <2>1, PublishType, EventTypes DEF Complete, FeedOK
<1>5. CASE DrainTakes \/ DrainSends
  <2>1. CASE DrainTakes
    <3>1. CASE backlog = <<>>
      BY <2>1, <3>1 DEF DrainTakes, FeedOK
    <3>2. CASE backlog # <<>>
      <4>1. Head(backlog) \in Events /\ Tail(backlog) \in Seq(Events)
        BY <3>2, HeadTailProperties DEF FeedOK
      <4> QED BY <2>1, <3>2, <4>1 DEF DrainTakes, FeedOK
    <3> QED BY <3>1, <3>2
  <2>2. CASE DrainSends
    BY <2>2 DEF DrainSends, FeedOK
  <2> QED BY <1>5, <2>1, <2>2
<1>6. CASE HearCompleted \/ HearCleared
  BY <1>6 DEF HearCompleted, HearCleared, FeedOK
<1>7. ASSUME NEW a \in {"user", "tool"}, Asks(a)
      PROVE  FeedOK'
  BY <1>1, <1>2, <1>3, <1>7
    
      DEF Asks, Start, ReplaceCurrent, Pause, Resume, Cancel, WipeQueue, Reorder,
          Delete, Goals
<1>8. ASSUME NEW a \in {"user", "tool"}, CancelRest(a)
      PROVE  FeedOK'
  BY <1>1, <1>3, <1>8 DEF CancelRest
<1>9. ASSUME NEW a \in Actors, Take(a) \/ Install(a) \/ Restore(a)
      PROVE  FeedOK'
  BY <1>1, <1>9 DEF Take, Install, Restore
<1>10. CASE UserAsks
  BY <1>1, <1>7, <1>10 DEF UserAsks, Arm, ResumeQueued, QueueUp
<1>11. CASE ToolAsks
  BY <1>1, <1>4, <1>7, <1>11 DEF ToolAsks, Postpone, Block, FindsAGoal, Promote
<1>12. CASE UserGoesOn
  BY <1>8, <1>9, <1>12 DEF UserGoesOn, Actors
<1>13. CASE ToolGoesOn
  <2>1. CASE Enqueue \/ Requeue \/ LookToDemote \/ Demote \/ \E p \in Probes : Spawn(p)
    BY <1>1, <2>1 DEF Enqueue, Requeue, LookToDemote, Demote, Spawn
  <2>2. CASE Unseat
    BY <1>1, <1>3, <2>2 DEF Unseat
  <2>3. CASE ReplaceByPromoted
    BY <1>2, <2>3 DEF ReplaceByPromoted, FeedOK
  <2> QED BY <1>8, <1>13, <2>1, <2>2, <2>3 DEF ToolGoesOn
<1>14. CASE Forwards
  BY <1>1, <1>6, <1>9, <1>14 DEF Forwards, Park, Actors
<1>15. CASE UNCHANGED vars
  BY <1>1, <1>15 DEF vars
<1> QED BY <1>5, <1>10, <1>11, <1>12, <1>13, <1>14, <1>15 DEF Next, Publishes

\* Every step keeps the actors on their ways, with the goals these ways need.
LEMMA ControlType ==
  ASSUME TypeOK, Hands, [Next]_vars
  PROVE  ControlOK' /\ Hands'
<1> USE TypeParts
<1>1. ASSUME NEW a \in {"user", "tool"}, Asks(a)
      PROVE  ControlOK' /\ Hands'
  <2>1. CASE WipeQueue(a)
    BY <2>1 DEF WipeQueue, Begins, At, Goto, ControlOK, Hands, Actors, Steps, Keeping
  <2>2. CASE Resume(a)
    <3>1. 0 \in 0 .. MaxSpawns
      BY GoalsOK
    <3>2. UNCHANGED <<pc, hand, seen, armed, parks, cancelled>> /\ spawns' \in {0, spawns}
      BY <2>2 DEF Resume
    <3>3. a = "tool" => pc["tool"] = "idle"
      BY <2>2 DEF Resume, Begins, At
    <3>4. a # "tool" => spawns' = spawns
      BY <2>2 DEF Resume
    <3> QED BY <3>1, <3>2, <3>3, <3>4 DEF ControlOK, Hands
  <2>3. CASE \/ Pause(a) \/ Cancel(a) \/ Reorder(a) \/ \E g \in Goals : Delete(a, g)
             \/ \E g \in Work : Start(a, g) \/ ReplaceCurrent(a, g)
    <3>1. UNCHANGED <<pc, hand, seen, armed, parks, spawns, cancelled>>
      BY <2>3 DEF Pause, Cancel, Reorder, Delete, Start, ReplaceCurrent, history
    <3> QED BY <3>1 DEF ControlOK, Hands
  <2> QED BY <1>1, <2>1, <2>2, <2>3 DEF Asks
<1>2. ASSUME NEW a \in {"user", "tool"}, CancelRest(a)
      PROVE  ControlOK' /\ Hands'
  BY <1>2 DEF CancelRest, At, Done, Goto, ControlOK, Hands, Actors, Steps, Keeping
<1>3. ASSUME NEW a \in {"user", "forwarder"}, Take(a)
      PROVE  ControlOK' /\ Hands'
  BY <1>3 DEF Take, At, Done, Goto, ControlOK, Hands, Actors, Steps, Keeping, history
<1>4. ASSUME NEW a \in {"user", "forwarder"}, Install(a)
      PROVE  ControlOK' /\ Hands'
  BY <1>4
     DEF Install, Pausing, At, Done, Goto, ControlOK, Hands, Actors, Steps, Keeping
<1>5. ASSUME NEW a \in {"user", "forwarder"}, Restore(a)
      PROVE  ControlOK' /\ Hands'
  BY <1>5
     DEF Restore, At, Done, Goto, ControlOK, Hands, Actors, Steps, Keeping, history
<1>6. CASE UserAsks
  <2>1. CASE ResumeQueued
    <3>1. Head(queue) \in Goals /\ Head(queue) # None
      BY <2>1, HeadTailProperties, GoalsOK DEF ResumeQueued, StoreOK
    <3> QED BY <2>1, <3>1
               DEF ResumeQueued, Begins, At, Goto, ControlOK, Hands, Actors, Steps,
                   Keeping, history
  <2>2. CASE Arm \/ \E g \in Work : QueueUp(g)
    <3>1. UNCHANGED <<pc, hand, seen, armed, parks, spawns, cancelled>>
      BY <2>2 DEF Arm, QueueUp, history
    <3> QED BY <3>1 DEF ControlOK, Hands
  <2> QED BY <1>1, <1>6, <2>1, <2>2 DEF UserAsks
<1>7. CASE ToolAsks
  <2>1. CASE Complete
    BY <2>1, GoalsOK
       DEF Complete, Begins, At, ControlOK, Hands, Actors, Steps, Keeping
  <2>2. CASE Postpone
    BY <2>2, GoalsOK
       DEF Postpone, Looks, Begins, At, ControlOK, StoreOK, Slots, Hands, Actors,
           Steps, Keeping, history
  <2>3. CASE Block
    BY <2>3, GoalsOK
       DEF Block, Holds, Looks, Begins, At, ControlOK, StoreOK, Slots, Hands,
           Actors, Steps, Keeping, history
  <2>4. CASE \E g \in Work : FindsAGoal(g)
    BY <2>4, GoalsOK
       DEF FindsAGoal, Goals, Goto, Begins, At, ControlOK, Hands, Actors, Steps,
           Keeping
  <2>5. CASE \E g \in Goals : Promote(g)
    BY <2>5, GoalsOK
       DEF Promote, Goto, Begins, At, ControlOK, Hands, Actors, Steps, Keeping,
           history
  <2> QED BY <1>1, <1>7, <2>1, <2>2, <2>3, <2>4, <2>5 DEF ToolAsks
<1>8. CASE UserGoesOn
  BY <1>2, <1>3, <1>4, <1>5, <1>8 DEF UserGoesOn
<1>9. CASE ToolGoesOn
  <2>1. CASE Enqueue
    BY <2>1
       DEF Enqueue, Done, Goto, At, ControlOK, Hands, Actors, Steps, Keeping, history
  <2>2. CASE Requeue
    BY <2>2 DEF Requeue, Goto, At, ControlOK, Hands, Actors, Steps, Keeping, history
  <2>3. CASE Unseat
    <3>1. CASE slot # None /\ pc["tool"] = "unseating"
      <4>1. /\ pc' = [pc EXCEPT !["tool"] = "spawning"] /\ hand' = [hand EXCEPT !["tool"] = None]
            /\ seen' = None /\ UNCHANGED <<armed, parks, spawns, cancelled>>
        BY <2>3, <3>1 DEF Unseat, Goto, At
      <4> QED BY <3>1, <4>1 DEF ControlOK, Hands, Actors, Steps, Keeping
    <3>2. CASE slot = None \/ pc["tool"] = "clearing"
      <4>1. /\ pc' = [pc EXCEPT !["tool"] = "idle"] /\ hand' = [hand EXCEPT !["tool"] = None]
            /\ seen' = None /\ UNCHANGED <<armed, parks, spawns, cancelled>>
        BY <2>3, <3>2 DEF Unseat, Done, Goto, At
      <4>2. pc["tool"] \in {"clearing", "unseating"}
        BY <2>3 DEF Unseat
      <4> QED BY <4>1, <4>2 DEF ControlOK, Hands, Actors, Steps, Keeping
    <3> QED BY <2>3, <3>1, <3>2 DEF Unseat
  <2>4. CASE LookToDemote
    BY <2>4, GoalsOK
       DEF LookToDemote, Looks, At, ControlOK, StoreOK, Slots, Hands, Actors, Steps,
           Keeping, history
  <2>5. CASE Demote
    BY <2>5 DEF Demote, At, ControlOK, Hands, Actors, Steps, Keeping, history
  <2>6. CASE ReplaceByPromoted
    BY <2>6
       DEF ReplaceByPromoted, Done, Goto, At, ControlOK, Hands, Actors, Steps, Keeping
  <2>7. CASE \E p \in Probes : Spawn(p)
    BY <2>7, GoalsOK
       DEF Spawn, Done, Goto, At, ControlOK, Hands, Actors, Steps, Keeping
  <2> QED BY <1>2, <1>9, <2>1, <2>2, <2>3, <2>4, <2>5, <2>6, <2>7 DEF ToolGoesOn
<1>10. CASE Forwards
  <2>1. CASE HearCompleted
    <3>1. Head(bus) \in Events /\ Head(bus).kind = "completed"
      BY <2>1, HeadTailProperties DEF HearCompleted, FeedOK
    <3>2. Head(bus).armed \in BOOLEAN
      BY <3>1 DEF Events
    <3> QED BY <2>1, <3>2 DEF HearCompleted, ControlOK, Hands, history
  <2>2. CASE HearCleared
    <3>1. Head(bus) \in Events /\ Head(bus).kind = "cleared"
      BY <2>2, HeadTailProperties DEF HearCleared, FeedOK
    <3>2. Head(bus).cancel \in BOOLEAN
      BY <3>1 DEF Events
    <3>3. queue # <<>> => Head(queue) \in Goals /\ Head(queue) # None
      BY HeadTailProperties, GoalsOK DEF StoreOK
    <3>4. CASE queue = <<>>
      BY <2>2, <3>2, <3>4 DEF HearCleared, ControlOK, Hands
    <3>5. CASE queue # <<>>
      <4>1. /\ pc' = [pc EXCEPT !["forwarder"] = "taking"]
            /\ hand' = [hand EXCEPT !["forwarder"] = Head(queue)]
            /\ UNCHANGED <<seen, spawns>> /\ armed' = FALSE
            /\ parks' = (Head(bus).cancel \/ armed) /\ cancelled' = Head(bus).cancel
        BY <2>2, <3>5 DEF HearCleared, Goto
      <4>2. parks' \in BOOLEAN /\ cancelled' \in BOOLEAN
        BY <3>2, <4>1 DEF ControlOK
      <4> HIDE <2>2
      <4> QED BY <3>3, <3>5, <4>1, <4>2 DEF ControlOK, Hands, Actors, Steps, Keeping
    <3> QED BY <3>4, <3>5
  <2>3. CASE Park
    BY <2>3
       DEF Park, Done, Goto, At, ControlOK, Hands, Actors, Steps, Keeping, history
  <2> QED BY <1>3, <1>4, <1>5, <1>10, <2>1, <2>2, <2>3 DEF Forwards
<1>11. CASE DrainTakes \/ DrainSends \/ UNCHANGED vars
  <2>1. UNCHANGED <<pc, hand, seen, armed, parks, spawns, cancelled>>
    BY <1>11 DEF DrainTakes, DrainSends, vars, history
  <2> QED BY <2>1 DEF ControlOK, Hands
<1> QED BY <1>6, <1>7, <1>8, <1>9, <1>10, <1>11 DEF Next, Publishes

-----------------------------------------------------------------------------
(* What is in the slot and in the queue *)

\* Nobody enters or leaves a queue that is not written.
LEMMA QueueStays == ASSUME UNCHANGED queue PROVE \A x : InQueue(x)' <=> InQueue(x)
BY DEF InQueue

\* The head that a promotion reads.
LEMMA HeadInQueue ==
  ASSUME queue \in Seq(Goals), queue # <<>>
  PROVE  Head(queue) \in Goals /\ Head(queue) # None /\ InQueue(Head(queue))
BY HeadTailProperties, GoalsOK DEF InQueue

\* A created goal.
LEMMA ActiveType ==
  \A g \in Goals : /\ Active(g) \in Slots /\ Active(g) # None
                   /\ Active(g).goal = g /\ Active(g).status = "active"
<1> SUFFICES ASSUME NEW g \in Goals
             PROVE  /\ Active(g) \in Slots /\ Active(g) # None
                    /\ Active(g).goal = g /\ Active(g).status = "active"
  OBVIOUS
<1>1. Active(g) \in Slots
  BY DEF Active, Slots, Statuses
<1> QED BY <1>1, GoalsOK DEF Active

\* A status change leaves the goal in the slot.
LEMMA StatusType ==
  ASSUME StoreOK, slot # None, NEW s \in Statuses, SetStatus(s)
  PROVE  slot' \in Slots /\ slot' # None /\ slot'.goal = slot.goal /\ slot'.status = s
<1>1. slot \in Slots
  BY DEF StoreOK
<1>2. slot' \in Slots /\ slot'.goal = slot.goal /\ slot'.status = s
  BY <1>1 DEF SetStatus, Slots
<1> QED BY <1>2, GoalsOK

\* Every step moves accepted goals only.
LEMMA StoreType ==
  ASSUME TypeOK, KnownInv, Hands, [Next]_vars
  PROVE  StoreOK' /\ KnownInv'
<1> USE TypeParts
<1> SUFFICES StoreOK' /\ KnownInv'
  OBVIOUS
<1>0. /\ "active" \in Statuses /\ "paused" \in Statuses /\ "blocked" \in Statuses
      /\ Work \subseteq Goals /\ Probes \subseteq Goals
      /\ slot # None => slot \in Slots /\ slot.goal \in Goals
      /\ None \notin Goals
  BY GoalsOK DEF Statuses, Goals, StoreOK, Slots
<1>1. ASSUME NEW a \in {"user", "tool"}, Asks(a)
      PROVE  StoreOK' /\ KnownInv'
  <2>1. ASSUME NEW g \in Work, Start(a, g) \/ ReplaceCurrent(a, g)
        PROVE  StoreOK' /\ KnownInv'
    BY <1>0, <2>1, ActiveType, QueueStays
       DEF Start, ReplaceCurrent, Replace, Ends, StoreOK, KnownInv
  <2>2. CASE Pause(a) \/ Resume(a)
    <3>1. slot # None /\ (SetStatus("paused") \/ SetStatus("active"))
      BY <2>2 DEF Pause, Resume, Holds
    <3>2. slot' \in Slots /\ slot' # None /\ slot'.goal = slot.goal
      BY <1>0, <3>1, StatusType
    <3> QED BY <1>0, <2>2, <3>1, <3>2, QueueStays
               DEF Pause, Resume, StoreOK, KnownInv, history
  <2>3. CASE Cancel(a)
    BY <1>0, <2>3, QueueStays DEF Cancel, Clear, Ends, StoreOK, KnownInv
  <2>4. CASE WipeQueue(a)
    <3>1. /\ queue' = <<>> /\ closed' = closed \cup {queue[i] : i \in DOMAIN queue}
          /\ hand' = [hand EXCEPT ![a] = None]
          /\ UNCHANGED <<slot, seen, known, parked, unseen>>
      BY <2>4 DEF WipeQueue, Goto
    <3>2. (\A x : ~InQueue(x)') /\ queue' \in Seq(Goals)
      BY <3>1 DEF InQueue
    <3>3. closed' \subseteq known
      BY <3>1 DEF StoreOK, KnownInv, InQueue
    <3> QED BY <3>1, <3>2, <3>3 DEF StoreOK, KnownInv, ControlOK, Actors
  <2>5. CASE Reorder(a)
    <3>1. queue' \in Seq(Goals) /\ \A x : InQueue(x)' <=> InQueue(x)
      BY <2>5, Swapped DEF Reorder, StoreOK
    <3> QED BY <2>5, <3>1 DEF Reorder, StoreOK, KnownInv, history
  <2>6. ASSUME NEW g \in Goals, Delete(a, g)
        PROVE  StoreOK' /\ KnownInv'
    <3>1. queue' \in Seq(Goals) /\ \A x : InQueue(x)' => InQueue(x)
      BY <2>6, Removed DEF Delete, StoreOK
    <3> QED BY <2>6, <3>1 DEF Delete, Ends, StoreOK, KnownInv
  <2> QED BY <1>1, <2>1, <2>2, <2>3, <2>4, <2>5, <2>6 DEF Asks
<1>2. ASSUME NEW a \in {"user", "tool"}, CancelRest(a)
      PROVE  StoreOK' /\ KnownInv'
  BY <1>0, <1>2, QueueStays
     DEF CancelRest, Clear, Ends, Done, Goto, StoreOK, KnownInv, ControlOK, Actors
<1>3. ASSUME NEW a \in {"user", "forwarder"}, Take(a)
      PROVE  StoreOK' /\ KnownInv'
  <2>1. queue' \in Seq(Goals) /\ \A x : InQueue(x)' => InQueue(x)
    BY <1>3, Removed, QueueStays DEF Take, StoreOK
  <2>2. /\ \A b \in Actors : hand'[b] \in {None, hand[b]}
        /\ UNCHANGED <<slot, seen, known, closed, parked, unseen>>
    BY <1>3 DEF Take, At, Done, Goto, ControlOK, Actors, history
  <2> QED BY <2>1, <2>2 DEF StoreOK, KnownInv
<1>4. ASSUME NEW a \in {"user", "forwarder"}, Install(a)
      PROVE  StoreOK' /\ KnownInv'
  <2>1. hand[a] \in Goals /\ hand[a] \in known
    BY <1>4 DEF Install, At, Hands, Keeping, KnownInv, ControlOK, Actors
  <2>2. \A b \in Actors : hand'[b] \in {None, hand[b]}
    BY <1>4 DEF Install, Done, Goto, ControlOK, Actors
  <2>3. /\ slot' \in {slot, Active(hand[a])}
        /\ parked' \subseteq parked \cup {hand[a]}
        /\ UNCHANGED <<queue, seen, known, closed, unseen>>
    BY <1>4 DEF Install
  <2> QED BY <1>0, <2>1, <2>2, <2>3, ActiveType, QueueStays DEF StoreOK, KnownInv
<1>5. ASSUME NEW a \in {"user", "forwarder"}, Restore(a)
      PROVE  StoreOK' /\ KnownInv'
  <2>1. hand[a] \in Goals /\ hand[a] \in known
    BY <1>5 DEF Restore, At, Hands, Keeping, KnownInv, ControlOK, Actors
  <2>2. queue' \in Seq(Goals) /\ \A x : InQueue(x)' <=> InQueue(x) \/ x = hand[a]
    BY <1>5, <2>1, Added DEF Restore, StoreOK
  <2> QED BY <1>5, <2>1, <2>2
             DEF Restore, Done, Goto, StoreOK, KnownInv, ControlOK, Actors, history
<1>6. CASE UserAsks
  <2>1. CASE Arm
    <3>1. slot' \in Slots /\ slot'.goal = slot.goal
      BY <1>0, <2>1 DEF Arm, Slots
    <3> QED BY <1>0, <2>1, <3>1, QueueStays DEF Arm, StoreOK, KnownInv, history
  <2>2. CASE ResumeQueued
    BY <2>2, HeadInQueue, QueueStays
       DEF ResumeQueued, Goto, StoreOK, KnownInv, ControlOK, Actors, history
  <2>3. ASSUME NEW g \in Work, QueueUp(g)
        PROVE  StoreOK' /\ KnownInv'
    <3>1. queue' \in Seq(Goals) /\ \A x : InQueue(x)' <=> InQueue(x) \/ x = g
      BY <1>0, <2>3, Added DEF QueueUp, StoreOK
    <3> QED BY <1>0, <2>3, <3>1 DEF QueueUp, StoreOK, KnownInv
  <2> QED BY <1>1, <1>6, <2>1, <2>2, <2>3 DEF UserAsks
<1>7. CASE ToolAsks
  <2>1. CASE Complete
    BY <1>0, <2>1, QueueStays DEF Complete, Ends, Holds, StoreOK, KnownInv
  <2>2. CASE Postpone
    BY <1>0, <2>2, QueueStays DEF Postpone, Looks, StoreOK, KnownInv, history
  <2>3. CASE Block
    <3>1. slot' \in Slots /\ slot' # None /\ slot'.goal = slot.goal
      BY <1>0, <2>3, StatusType DEF Block, Holds
    <3>2. hand' = hand /\ seen' \in {seen, slot.goal}
          /\ UNCHANGED <<queue, known, closed, parked, unseen>>
      BY <2>3 DEF Block, Looks, history
    <3>3. slot # None
      BY <2>3 DEF Block, Holds
    <3> QED BY <1>0, <3>1, <3>2, <3>3, QueueStays DEF StoreOK, KnownInv
  <2>4. CASE \E g \in Work : FindsAGoal(g)
    BY <1>0, <2>4, QueueStays
       DEF FindsAGoal, Goto, StoreOK, KnownInv, ControlOK, Actors
  <2>5. ASSUME NEW g \in Goals, Promote(g)
        PROVE  StoreOK' /\ KnownInv'
    <3>1. queue' \in Seq(Goals) /\ \A x : InQueue(x)' => InQueue(x)
      BY <2>5, Removed DEF Promote, StoreOK
    <3> QED BY <2>5, <3>1
               DEF Promote, Goto, StoreOK, KnownInv, ControlOK, Actors, history
  <2> QED BY <1>1, <1>7, <2>1, <2>2, <2>3, <2>4, <2>5 DEF ToolAsks
<1>8. CASE UserGoesOn
  BY <1>2, <1>3, <1>4, <1>5, <1>8 DEF UserGoesOn
<1>9. CASE ToolGoesOn
  <2>1. CASE Enqueue
    <3>1. hand["tool"] \in Goals /\ hand["tool"] \in known
      BY <2>1 DEF Enqueue, At, Hands, Keeping, KnownInv, ControlOK, Actors
    <3>2. queue' \in Seq(Goals) /\ \A x : InQueue(x)' <=> InQueue(x) \/ x = hand["tool"]
      BY <2>1, <3>1, Added DEF Enqueue, StoreOK
    <3> QED BY <2>1, <3>1, <3>2
               DEF Enqueue, Done, Goto, StoreOK, KnownInv, ControlOK, Actors, history
  <2>2. CASE Requeue
    <3>1. seen \in Goals /\ seen \in known
      BY <2>2 DEF Requeue, At, Hands, KnownInv, ControlOK
    <3>2. queue' \in Seq(Goals) /\ \A x : InQueue(x)' <=> InQueue(x) \/ x = seen
      BY <2>2, <3>1, Added DEF Requeue, StoreOK
    <3> QED BY <2>2, <3>1, <3>2
               DEF Requeue, Goto, StoreOK, KnownInv, ControlOK, Actors, history
  <2>3. CASE Unseat
    <3>1. /\ slot' \in {slot, None} /\ seen' = None
          /\ \A b \in Actors : hand'[b] \in {None, hand[b]}
      BY <2>3 DEF Unseat, Clear, Done, Goto, ControlOK, Actors
    <3>2. /\ unseen' \in {unseen, unseen \cup {slot.goal}}
          /\ slot = None => unseen' = unseen
          /\ UNCHANGED <<queue, known, closed, parked>>
      BY <2>3 DEF Unseat, Unseen
    <3> QED BY <1>0, <3>1, <3>2, QueueStays DEF StoreOK, KnownInv
  <2>4. CASE LookToDemote
    BY <1>0, <2>4, QueueStays DEF LookToDemote, Looks, StoreOK, KnownInv, history
  <2>5. CASE Demote
    <3>1. seen \in Goals /\ seen \in known
      BY <2>5 DEF Demote, At, Hands, KnownInv, ControlOK
    <3>2. queue' \in Seq(Goals) /\ \A x : InQueue(x)' <=> InQueue(x) \/ x = seen
      BY <2>5, <3>1, Added DEF Demote, StoreOK
    <3> QED BY <2>5, <3>1, <3>2 DEF Demote, StoreOK, KnownInv, history
  <2>6. CASE ReplaceByPromoted
    <3>1. hand["tool"] \in Goals /\ hand["tool"] \in known
      BY <2>6 DEF ReplaceByPromoted, At, Hands, Keeping, KnownInv, ControlOK, Actors
    <3>2. /\ slot' = Active(hand["tool"]) /\ seen' = None
          /\ \A b \in Actors : hand'[b] \in {None, hand[b]}
          /\ parked' \subseteq parked /\ UNCHANGED <<queue, known, closed>>
      BY <2>6 DEF ReplaceByPromoted, Replace, Done, Goto, ControlOK, Actors
    <3>3. unseen' \in {unseen, unseen \cup {slot.goal}} /\ (slot = None => unseen' = unseen)
      BY <2>6 DEF ReplaceByPromoted, Unseen
    <3> QED BY <1>0, <3>1, <3>2, <3>3, ActiveType, QueueStays DEF StoreOK, KnownInv
  <2>7. ASSUME NEW p \in Probes, Spawn(p)
        PROVE  StoreOK' /\ KnownInv'
    <3>1. \A b \in Actors : hand'[b] \in {None, hand[b]}
      BY <2>7 DEF Spawn, Done, Goto, ControlOK, Actors
    <3>2. /\ \/ slot' = Active(p) /\ known' = known \cup {p}
             \/ UNCHANGED <<slot, known>>
          /\ UNCHANGED <<queue, seen, closed, parked, unseen>>
      BY <2>7 DEF Spawn
    <3> QED BY <1>0, <3>1, <3>2, ActiveType, QueueStays DEF StoreOK, KnownInv
  <2> QED BY <1>2, <1>9, <2>1, <2>2, <2>3, <2>4, <2>5, <2>6, <2>7 DEF ToolGoesOn
<1>10. CASE Forwards
  <2>1. CASE HearCompleted
    BY <2>1, QueueStays DEF HearCompleted, StoreOK, KnownInv, history
  <2>2. CASE HearCleared
    <3>1. \/ hand' = hand
          \/ queue # <<>> /\ hand' = [hand EXCEPT !["forwarder"] = Head(queue)]
      BY <2>2 DEF HearCleared, Goto
    <3>2. UNCHANGED <<slot, queue, seen, known, closed, parked, unseen>>
      BY <2>2 DEF HearCleared
    <3> QED BY <3>1, <3>2, HeadInQueue, QueueStays
               DEF StoreOK, KnownInv, ControlOK, Actors
  <2>3. CASE Park
    <3>1. /\ \A b \in Actors : hand'[b] \in {None, hand[b]}
          /\ UNCHANGED <<queue, seen, known, closed, parked, unseen>>
      BY <2>3 DEF Park, Done, Goto, ControlOK, Actors, history
    <3>2. \/ slot' = slot
          \/ slot # None /\ SetStatus("paused")
      BY <2>3 DEF Park, Holds
    <3>3. \/ slot' = slot
          \/ slot' \in Slots /\ slot' # None /\ slot # None /\ slot'.goal = slot.goal
      BY <1>0, <3>2, StatusType
    <3> QED BY <1>0, <3>1, <3>3, QueueStays DEF StoreOK, KnownInv
  <2> QED BY <1>3, <1>4, <1>5, <1>10, <2>1, <2>2, <2>3 DEF Forwards
<1>11. CASE DrainTakes \/ DrainSends \/ UNCHANGED vars
  BY <1>11, QueueStays DEF DrainTakes, DrainSends, vars, history, StoreOK, KnownInv
<1> QED BY <1>6, <1>7, <1>8, <1>9, <1>10, <1>11 DEF Next, Publishes

-----------------------------------------------------------------------------
(* Custody *)

Held(g) == \E a \in Actors : pc[a] \in Keeping /\ hand[a] = g

Waits(g) == InQueue(g) \/ Held(g)

\* The goal that the tool saw in the slot is there until somebody ends it:
\* nobody else takes a goal out of the slot alive.
Looked == seen # None => seen \in closed \/ InSlot(seen)

\* Once the tool has queued its copy, the copy waits until somebody ends it.
Copied ==
  seen # None /\ pc["tool"] \in {"clearing", "unseating", "replacing"}
    => seen \in closed \/ Waits(seen)

\* An actor goes on to its next step: what the others hold they hold.
LEMMA HandMoves ==
  ASSUME ControlOK, NEW a \in Actors, NEW step \in Steps, NEW g, Goto(a, step, g)
  PROVE  /\ \A x : Held(x) /\ x # hand[a] => Held(x)'
         /\ pc[a] \notin Keeping => \A x : Held(x) => Held(x)'
         /\ step \in Keeping => Held(g)'
<1>1. /\ pc'[a] = step /\ hand'[a] = g
      /\ \A b \in Actors \ {a} : pc'[b] = pc[b] /\ hand'[b] = hand[b]
  BY DEF Goto, ControlOK
<1> QED BY <1>1 DEF Held

\* The tool goes on with the same goal in its hand.
LEMMA ToolMoves ==
  ASSUME ControlOK, NEW step \in Keeping \cup {"postponing", "requeueing"},
         pc' = [pc EXCEPT !["tool"] = step], UNCHANGED hand,
         pc["tool"] \in Keeping => step \in Keeping
  PROVE  \A x : Held(x) => Held(x)'
<1>1. pc'["tool"] = step /\ \A b \in Actors \ {"tool"} : pc'[b] = pc[b]
  BY DEF ControlOK, Actors
<1> QED BY <1>1 DEF Held, Actors

\* Nobody takes a step: nobody holds another goal.
LEMMA HandsStay == ASSUME UNCHANGED <<pc, hand>> PROVE \A x : Held(x)' <=> Held(x)
BY DEF Held

Custody == Looked /\ Copied /\ NothingLost

\* NothingLost, by the places that keep a goal.
LEMMA LostParts ==
  /\ NothingLost <=> \A g \in known : g \in closed \cup unseen \/ InSlot(g) \/ Waits(g)
  /\ NothingLost' <=> \A g \in known' : g \in closed' \cup unseen' \/ InSlot(g)' \/ Waits(g)'
BY DEF NothingLost, Kept, Waits, Held

\* Nothing of the store changes for the worse.
LEMMA CustodyStays ==
  ASSUME Custody, \A x : InSlot(x) => InSlot(x)', \A x : Waits(x) => Waits(x)',
         known' = known, closed \subseteq closed', unseen \subseteq unseen',
         seen' = seen, pc'["tool"] = pc["tool"]
  PROVE  Custody'
BY LostParts DEF Custody, Looked, Copied

\* No step of anybody loses a goal.
LEMMA CustodyStep ==
  ASSUME TypeOK, Hands, Custody, [Next]_vars
  PROVE  Custody'
<1> USE TypeParts
<1>0. /\ Work \subseteq Goals /\ Probes \subseteq Goals
      /\ "active" \in Statuses /\ "paused" \in Statuses /\ "blocked" \in Statuses
  BY DEF Goals, Statuses
<1>1. ASSUME UNCHANGED <<slot, queue, pc, hand, seen, known, closed, unseen>>
      PROVE  Custody'
  BY <1>1, QueueStays, HandsStay, CustodyStays DEF InSlot, Waits
<1>2. ASSUME slot # None, NEW s \in Statuses, SetStatus(s)
      PROVE  \A x : InSlot(x) => InSlot(x)'
  BY <1>2, StatusType DEF InSlot
<1>3. ASSUME NEW a \in {"user", "tool"}, Asks(a)
      PROVE  Custody'
  <2>1. ASSUME NEW g \in Work, Start(a, g)
        PROVE  Custody'
    <3>1. /\ slot = None /\ slot' = Active(g) /\ known' = known \cup {g}
          /\ UNCHANGED <<queue, pc, hand, seen, closed, unseen>>
      BY <2>1 DEF Start
    <3>2. InSlot(g)' /\ \A x : ~InSlot(x)
      BY <1>0, <3>1, ActiveType DEF InSlot
    <3>3. \A x : Waits(x)' <=> Waits(x)
      BY <3>1, QueueStays, HandsStay DEF Waits
    <3> QED BY <3>1, <3>2, <3>3, LostParts DEF Custody, Looked, Copied
  <2>2. ASSUME NEW g \in Work, ReplaceCurrent(a, g)
        PROVE  Custody'
    <3>1. /\ slot # None /\ slot' = Active(g) /\ known' = known \cup {g}
          /\ closed' = closed \cup {slot.goal}
          /\ UNCHANGED <<queue, pc, hand, seen, unseen>>
      BY <2>2 DEF ReplaceCurrent, Replace, Ends
    <3>2. InSlot(g)' /\ \A x : InSlot(x) => x \in closed'
      BY <1>0, <3>1, ActiveType DEF InSlot
    <3>3. \A x : Waits(x)' <=> Waits(x)
      BY <3>1, QueueStays, HandsStay DEF Waits
    <3> QED BY <3>1, <3>2, <3>3, LostParts DEF Custody, Looked, Copied
  <2>3. CASE Pause(a) \/ Resume(a)
    <3>1. slot # None /\ (SetStatus("paused") \/ SetStatus("active"))
      BY <2>3 DEF Pause, Resume, Holds
    <3>2. UNCHANGED <<queue, pc, hand, seen, known, closed, unseen>>
      BY <2>3 DEF Pause, Resume, history
    <3> QED BY <1>0, <1>2, <3>1, <3>2, QueueStays, HandsStay, CustodyStays DEF Waits
  <2>4. CASE Cancel(a)
    <3>1. /\ slot # None /\ closed' = closed \cup {slot.goal}
          /\ UNCHANGED <<queue, pc, hand, seen, known, unseen>>
      BY <2>4 DEF Cancel, Ends
    <3>2. \A x : InSlot(x) => x \in closed'
      BY <3>1 DEF InSlot
    <3>3. \A x : Waits(x)' <=> Waits(x)
      BY <3>1, QueueStays, HandsStay DEF Waits
    <3> QED BY <3>1, <3>2, <3>3, LostParts DEF Custody, Looked, Copied
  <2>5. CASE WipeQueue(a)
    <3>1. /\ pc[a] = "idle" /\ Goto(a, "wiping", None)
          /\ closed' = closed \cup {queue[i] : i \in DOMAIN queue}
          /\ UNCHANGED <<slot, seen, known, unseen>>
      BY <2>5 DEF WipeQueue, Begins, At
    <3>2. \A x : InQueue(x) => x \in closed'
      BY <3>1 DEF InQueue
    <3>3. \A x : Held(x) => Held(x)'
      <4>1. a \in Actors /\ "wiping" \in Steps /\ pc[a] \notin Keeping
        BY <3>1 DEF Actors, Steps, Keeping
      <4> QED BY <3>1, <4>1, HandMoves
    <3>4. (\A x : InSlot(x)' <=> InSlot(x)) /\ pc'["tool"] \in {pc["tool"], "wiping"}
      BY <3>1 DEF InSlot, Goto, ControlOK, Actors
    <3> QED BY <3>1, <3>2, <3>3, <3>4, LostParts DEF Custody, Looked, Copied, Waits
  <2>6. CASE Reorder(a)
    <3>1. \A x : InQueue(x)' <=> InQueue(x)
      BY <2>6, Swapped DEF Reorder, StoreOK
    <3> QED BY <2>6, <3>1, HandsStay, CustodyStays DEF Reorder, history, InSlot, Waits
  <2>7. ASSUME NEW g \in Goals, Delete(a, g)
        PROVE  Custody'
    <3>1. \A x : InQueue(x) /\ x # g => InQueue(x)'
      BY <2>7, Removed DEF Delete, StoreOK
    <3>2. /\ closed' = closed \cup {g}
          /\ UNCHANGED <<slot, pc, hand, seen, known, unseen>>
      BY <2>7 DEF Delete, Ends
    <3>3. (\A x : InSlot(x)' <=> InSlot(x)) /\ (\A x : Held(x)' <=> Held(x))
      BY <3>2, HandsStay DEF InSlot
    <3> QED BY <3>1, <3>2, <3>3, LostParts DEF Custody, Looked, Copied, Waits
  <2> QED BY <1>3, <2>1, <2>2, <2>3, <2>4, <2>5, <2>6, <2>7 DEF Asks
<1>4. ASSUME NEW a \in {"user", "tool"}, CancelRest(a)
      PROVE  Custody'
  <2>1. /\ Goto(a, "idle", None) /\ pc[a] = "wiping"
        /\ \/ UNCHANGED <<slot, closed>>
           \/ slot # None /\ closed' = closed \cup {slot.goal}
        /\ UNCHANGED <<queue, seen, known, unseen>>
    BY <1>4 DEF CancelRest, At, Done, Ends
  <2>2. \A x : Held(x) => Held(x)'
    <3>1. a \in Actors /\ "idle" \in Steps /\ pc[a] \notin Keeping
      BY <2>1 DEF Actors, Steps, Keeping
    <3> QED BY <2>1, <3>1, HandMoves
  <2>3. /\ \A x : InSlot(x) => InSlot(x)' \/ x \in closed'
        /\ closed \subseteq closed'
        /\ pc'["tool"] \in {pc["tool"], "idle"}
    BY <2>1 DEF InSlot, Goto, ControlOK, Actors
  <2> QED BY <2>1, <2>2, <2>3, QueueStays, LostParts
             DEF Custody, Looked, Copied, Waits
<1>5. ASSUME NEW a \in {"user", "forwarder"}, Take(a)
      PROVE  Custody'
  <2>1. a \in Actors /\ "idle" \in Steps /\ "holding" \in Steps /\ "holding" \in Keeping
        /\ pc[a] \notin Keeping
    BY <1>5 DEF Take, At, Actors, Steps, Keeping
  <2>2. UNCHANGED <<slot, seen, known, closed, unseen>> /\ pc'["tool"] = pc["tool"]
    BY <1>5 DEF Take, Done, Goto, ControlOK, Actors, history
  <2>3. CASE InQueue(hand[a])
    <3>1. Goto(a, "holding", hand[a]) /\ queue' = Without(queue, hand[a])
      BY <1>5, <2>3 DEF Take
    <3>2. (\A x : x = hand[a] => Held(x)') /\ \A x : Held(x) => Held(x)'
      BY <2>1, <3>1, HandMoves
    <3>3. \A x : InQueue(x) /\ x # hand[a] => InQueue(x)'
      BY <2>3, <3>1, Removed DEF StoreOK
    <3> QED BY <2>2, <3>2, <3>3, CustodyStays DEF InSlot, Waits
  <2>4. CASE ~InQueue(hand[a])
    <3>1. Goto(a, "idle", None) /\ UNCHANGED queue
      BY <1>5, <2>4 DEF Take, Done
    <3> QED BY <2>1, <2>2, <3>1, HandMoves, QueueStays, CustodyStays DEF InSlot, Waits
  <2> QED BY <2>3, <2>4
<1>6. ASSUME NEW a \in {"user", "forwarder"}, Install(a)
      PROVE  Custody'
  <2>1. /\ a \in Actors /\ {"idle", "parking", "restoring"} \subseteq Steps
        /\ "restoring" \in Keeping /\ hand[a] \in Goals
    BY <1>6 DEF Install, At, Hands, ControlOK, Actors, Steps, Keeping
  <2>2. UNCHANGED <<queue, seen, known, closed, unseen>> /\ pc'["tool"] = pc["tool"]
    BY <1>6 DEF Install, Done, Goto, ControlOK, Actors
  <2>3. CASE slot = None
    <3>1. slot' = Active(hand[a]) /\ (Goto(a, "parking", hand[a]) \/ Goto(a, "idle", None))
      BY <1>6, <2>3 DEF Install, Done
    <3>2. \A x : Held(x) /\ x # hand[a] => Held(x)'
      BY <2>1, <3>1, HandMoves
    <3>3. (\A x : x = hand[a] => InSlot(x)') /\ \A x : ~InSlot(x)
      BY <2>1, <2>3, <3>1, ActiveType DEF InSlot
    <3>4. seen # None => seen \in closed
      BY <3>3 DEF Custody, Looked
    <3>5. \A x : Waits(x) /\ x # hand[a] => Waits(x)'
      BY <2>2, <3>2, QueueStays DEF Waits
    <3> QED BY <2>2, <3>3, <3>4, <3>5, LostParts DEF Custody, Looked, Copied
  <2>4. CASE slot # None
    <3>1. Goto(a, "restoring", hand[a]) /\ slot' = slot
      BY <1>6, <2>4 DEF Install
    <3>2. \A x : Held(x) => Held(x)'
      BY <2>1, <3>1, HandMoves
    <3> QED BY <2>2, <3>1, <3>2, QueueStays, CustodyStays DEF InSlot, Waits
  <2> QED BY <2>3, <2>4
<1>7. ASSUME NEW a \in {"user", "forwarder"}, Restore(a)
      PROVE  Custody'
  <2>1. hand[a] \in Goals /\ a \in Actors /\ "idle" \in Steps
    BY <1>7 DEF Restore, At, Hands, Keeping, ControlOK, Actors, Steps
  <2>2. \A x : InQueue(x)' <=> InQueue(x) \/ x = hand[a]
    BY <1>7, <2>1, Added DEF Restore, StoreOK
  <2>3. \A x : Held(x) /\ x # hand[a] => Held(x)'
    BY <1>7, <2>1, HandMoves DEF Restore, Done
  <2>4. UNCHANGED <<slot, seen, known, closed, unseen>> /\ pc'["tool"] = pc["tool"]
    BY <1>7 DEF Restore, Done, Goto, ControlOK, Actors, history
  <2> QED BY <2>2, <2>3, <2>4, CustodyStays DEF InSlot, Waits
<1>8. CASE UserAsks
  <2>1. CASE Arm
    <3>1. slot \in Slots
      BY <2>1 DEF Arm, StoreOK
    <3>2. slot' \in Slots /\ slot'.goal = slot.goal
      BY <2>1, <3>1 DEF Arm, Slots
    <3>3. \A x : InSlot(x) => InSlot(x)'
      BY <3>2, GoalsOK DEF InSlot
    <3> QED BY <2>1, <3>3, QueueStays, HandsStay, CustodyStays DEF Arm, history, Waits
  <2>2. CASE ResumeQueued
    <3>1. Goto("user", "taking", Head(queue)) /\ pc["user"] = "idle"
      BY <2>2 DEF ResumeQueued, Begins, At
    <3>2. \A x : Held(x) => Held(x)'
      <4>1. "user" \in Actors /\ "taking" \in Steps /\ pc["user"] \notin Keeping
        BY <3>1 DEF Actors, Steps, Keeping
      <4> QED BY <3>1, <4>1, HandMoves
    <3>3. UNCHANGED <<slot, queue, seen, known, closed, unseen>> /\ pc'["tool"] = pc["tool"]
      BY <2>2 DEF ResumeQueued, Goto, ControlOK, Actors, history
    <3> QED BY <3>2, <3>3, QueueStays, CustodyStays DEF InSlot, Waits
  <2>3. ASSUME NEW g \in Work, QueueUp(g)
        PROVE  Custody'
    <3>1. \A x : InQueue(x)' <=> InQueue(x) \/ x = g
      BY <1>0, <2>3, Added DEF QueueUp, StoreOK
    <3>2. UNCHANGED <<slot, pc, hand, seen, closed, unseen>> /\ known' = known \cup {g}
      BY <2>3 DEF QueueUp
    <3>3. (\A x : InSlot(x)' <=> InSlot(x)) /\ (\A x : Held(x)' <=> Held(x))
      BY <3>2, HandsStay DEF InSlot
    <3> QED BY <3>1, <3>2, <3>3, LostParts DEF Custody, Looked, Copied, Waits
  <2> QED BY <1>3, <1>8, <2>1, <2>2, <2>3 DEF UserAsks
<1>9. CASE ToolAsks
  <2>1. CASE Complete
    <3>1. /\ slot # None /\ closed' = closed \cup {slot.goal}
          /\ UNCHANGED <<queue, pc, hand, seen, known, unseen>>
      BY <2>1 DEF Complete, Holds, Ends
    <3>2. \A x : InSlot(x) => x \in closed'
      BY <3>1 DEF InSlot
    <3>3. \A x : Waits(x)' <=> Waits(x)
      BY <3>1, QueueStays, HandsStay DEF Waits
    <3> QED BY <3>1, <3>2, <3>3, LostParts DEF Custody, Looked, Copied
  <2>2. CASE Postpone
    <3>1. /\ pc["tool"] = "idle" /\ slot # None /\ seen' = slot.goal
          /\ pc' = [pc EXCEPT !["tool"] = "postponing"]
          /\ UNCHANGED <<slot, queue, hand, known, closed, unseen>>
      BY <2>2 DEF Postpone, Begins, At, Looks, history
    <3>2. \A x : Held(x) => Held(x)'
      BY <3>1, ToolMoves DEF Keeping
    <3>3. (\A x : InSlot(x)' <=> InSlot(x)) /\ InSlot(slot.goal) /\ pc'["tool"] = "postponing"
      BY <3>1 DEF InSlot, ControlOK, Actors
    <3> QED BY <3>1, <3>2, <3>3, QueueStays, LostParts
               DEF Custody, Looked, Copied, Waits
  <2>3. CASE Block
    <3>1. /\ slot # None /\ SetStatus("blocked") /\ pc["tool"] = "idle"
          /\ UNCHANGED <<queue, hand, known, closed, unseen>>
          /\ \/ UNCHANGED <<pc, seen>>
             \/ seen' = slot.goal /\ pc' = [pc EXCEPT !["tool"] = "requeueing"]
      BY <2>3 DEF Block, Begins, At, Holds, Looks, history
    <3>2. (\A x : InSlot(x) => InSlot(x)') /\ InSlot(slot.goal)
      BY <1>0, <1>2, <3>1 DEF InSlot
    <3>3. CASE UNCHANGED <<pc, seen>>
      BY <3>1, <3>2, <3>3, QueueStays, HandsStay, CustodyStays DEF Waits
    <3>4. CASE seen' = slot.goal /\ pc' = [pc EXCEPT !["tool"] = "requeueing"]
      <4>1. \A x : Held(x) => Held(x)'
        BY <3>1, <3>4, ToolMoves DEF Keeping
      <4>2. pc'["tool"] = "requeueing"
        BY <3>4 DEF ControlOK, Actors
      <4> QED BY <3>1, <3>2, <3>4, <4>1, <4>2, QueueStays, LostParts
              DEF Custody, Looked, Copied, Waits
    <3> QED BY <3>1, <3>3, <3>4
  <2>4. ASSUME NEW g \in Work, FindsAGoal(g)
        PROVE  Custody'
    <3>1. /\ pc["tool"] = "idle" /\ Goto("tool", "adding", g) /\ known' = known \cup {g}
          /\ UNCHANGED <<slot, queue, seen, closed, unseen>>
      BY <2>4 DEF FindsAGoal, Begins, At
    <3>2. Held(g)' /\ \A x : Held(x) => Held(x)'
      <4>1. /\ "tool" \in Actors /\ "adding" \in Steps /\ pc["tool"] \notin Keeping
            /\ "adding" \in Keeping
        BY <3>1 DEF Actors, Steps, Keeping
      <4> QED BY <3>1, <4>1, HandMoves
    <3>3. (\A x : InSlot(x)' <=> InSlot(x)) /\ pc'["tool"] = "adding"
      BY <3>1 DEF InSlot, Goto, ControlOK, Actors
    <3> QED BY <3>1, <3>2, <3>3, QueueStays, LostParts
               DEF Custody, Looked, Copied, Waits
  <2>5. ASSUME NEW g \in Goals, Promote(g)
        PROVE  Custody'
    <3>1. /\ pc["tool"] = "idle" /\ Goto("tool", "swapping", g) /\ InQueue(g)
          /\ queue' = Without(queue, g)
          /\ UNCHANGED <<slot, seen, known, closed, unseen>>
      BY <2>5 DEF Promote, Begins, At, history
    <3>2. Held(g)' /\ \A x : Held(x) => Held(x)'
      <4>1. /\ "tool" \in Actors /\ "swapping" \in Steps /\ pc["tool"] \notin Keeping
            /\ "swapping" \in Keeping
        BY <3>1 DEF Actors, Steps, Keeping
      <4> QED BY <3>1, <4>1, HandMoves
    <3>3. \A x : InQueue(x) /\ x # g => InQueue(x)'
      BY <3>1, Removed DEF StoreOK
    <3>4. (\A x : InSlot(x)' <=> InSlot(x)) /\ pc'["tool"] = "swapping"
      BY <3>1 DEF InSlot, Goto, ControlOK, Actors
    <3> QED BY <3>1, <3>2, <3>3, <3>4, LostParts DEF Custody, Looked, Copied, Waits
  <2> QED BY <1>3, <1>9, <2>1, <2>2, <2>3, <2>4, <2>5 DEF ToolAsks
<1>10. CASE UserGoesOn
  BY <1>4, <1>5, <1>6, <1>7, <1>10 DEF UserGoesOn
<1>11. CASE ToolGoesOn
  <2>0. "tool" \in Actors /\ {"idle", "clearing", "unseating", "spawning"} \subseteq Steps
    BY DEF Actors, Steps
  <2>1. CASE Enqueue
    <3>1. hand["tool"] \in Goals
      BY <2>1 DEF Enqueue, At, Hands, Keeping, ControlOK, Actors
    <3>2. \A x : InQueue(x)' <=> InQueue(x) \/ x = hand["tool"]
      BY <2>1, <3>1, Added DEF Enqueue, StoreOK
    <3>3. \A x : Held(x) /\ x # hand["tool"] => Held(x)'
      BY <2>0, <2>1, HandMoves DEF Enqueue, Done
    <3>4. UNCHANGED <<slot, seen, known, closed, unseen>> /\ pc'["tool"] = "idle"
      BY <2>1 DEF Enqueue, Done, Goto, ControlOK, Actors, history
    <3> QED BY <3>2, <3>3, <3>4, LostParts DEF Custody, Looked, Copied, InSlot, Waits
  <2>2. CASE Requeue
    <3>1. seen \in Goals /\ pc["tool"] \notin Keeping
      BY <2>2 DEF Requeue, At, Hands, ControlOK, Keeping
    <3>2. \A x : InQueue(x)' <=> InQueue(x) \/ x = seen
      BY <2>2, <3>1, Added DEF Requeue, StoreOK
    <3>3. \A x : Held(x) => Held(x)'
      BY <2>0, <2>2, <3>1, HandMoves DEF Requeue
    <3>4. UNCHANGED <<slot, seen, known, closed, unseen>>
      BY <2>2 DEF Requeue, history
    <3> QED BY <3>2, <3>3, <3>4, LostParts DEF Custody, Looked, Copied, InSlot, Waits
  <2>3. CASE Unseat
    <3>1. /\ pc["tool"] \in {"clearing", "unseating"} /\ seen' = None
          /\ Goto("tool", "idle", None) \/ Goto("tool", "spawning", None)
          /\ UNCHANGED <<queue, known, closed>>
      BY <2>3 DEF Unseat, Done
    <3>2. \A x : Held(x) => Held(x)'
      BY <2>0, <3>1, HandMoves DEF Keeping
    <3>3. \A x : InSlot(x) => x = seen \/ x \in unseen'
      BY <2>3 DEF Unseat, Unseen, InSlot
    <3>4. unseen \subseteq unseen'
      BY <2>3 DEF Unseat, Unseen
    <3>5. seen # None
      BY <3>1 DEF Hands
    <3>6. seen \in closed \/ Waits(seen)
      BY <3>1, <3>5 DEF Custody, Copied
    <3> QED BY <3>1, <3>2, <3>3, <3>4, <3>6, QueueStays, LostParts
            DEF Custody, Looked, Copied, Waits
  <2>4. CASE LookToDemote
    <3>1. /\ pc["tool"] = "swapping" /\ hand' = hand
          /\ \/ slot = None /\ pc' = [pc EXCEPT !["tool"] = "replacing"] /\ seen' = seen
             \/ slot # None /\ pc' = [pc EXCEPT !["tool"] = "demoting"] /\ seen' = slot.goal
          /\ UNCHANGED <<slot, queue, known, closed, unseen>>
      BY <2>4 DEF LookToDemote, At, Looks, history
    <3>2. \A x : Held(x) => Held(x)'
      BY <3>1, ToolMoves DEF Keeping
    <3>3. (\A x : InSlot(x)' <=> InSlot(x)) /\ (slot # None => InSlot(slot.goal))
      BY <3>1 DEF InSlot
    <3>4. slot # None => pc'["tool"] = "demoting"
      BY <3>1 DEF ControlOK, Actors
    <3>5. seen = None
      BY <3>1 DEF Hands
    <3> QED BY <3>1, <3>2, <3>3, <3>4, <3>5, QueueStays, LostParts
            DEF Custody, Looked, Copied, Waits
  <2>5. CASE Demote
    <3>1. seen \in Goals /\ pc["tool"] = "demoting"
      BY <2>5 DEF Demote, At, Hands, ControlOK
    <3>2. \A x : InQueue(x)' <=> InQueue(x) \/ x = seen
      BY <2>5, <3>1, Added DEF Demote, StoreOK
    <3>3. \A x : Held(x) => Held(x)'
      BY <2>5, ToolMoves DEF Demote, Keeping
    <3>4. UNCHANGED <<slot, seen, known, closed, unseen>>
      BY <2>5 DEF Demote, history
    <3> QED BY <3>2, <3>3, <3>4, LostParts DEF Custody, Looked, Copied, InSlot, Waits
  <2>6. CASE ReplaceByPromoted
    <3>1. hand["tool"] \in Goals /\ pc["tool"] = "replacing"
      BY <2>6 DEF ReplaceByPromoted, At, Hands, Keeping, ControlOK, Actors
    <3>2. /\ slot' = Active(hand["tool"]) /\ seen' = None
          /\ Goto("tool", "idle", None) /\ UNCHANGED <<queue, known, closed>>
      BY <2>6 DEF ReplaceByPromoted, Replace, Done
    <3>3. \A x : Held(x) /\ x # hand["tool"] => Held(x)'
      BY <2>0, <3>2, HandMoves
    <3>4. \A x : x = hand["tool"] => InSlot(x)'
      BY <3>1, <3>2, ActiveType DEF InSlot
    <3>5. \A x : InSlot(x) => x = seen \/ x \in unseen'
      BY <2>6 DEF ReplaceByPromoted, Unseen, InSlot
    <3>6. unseen \subseteq unseen'
      BY <2>6 DEF ReplaceByPromoted, Unseen
    <3>7. seen # None => seen \in closed \/ Waits(seen)
      BY <3>1 DEF Custody, Copied
    <3>8. \A x \in known : InSlot(x) /\ x = seen => x # None
      BY GoalsOK DEF StoreOK
    <3>9. \A x : Waits(x) => Waits(x)' \/ InSlot(x)'
      BY <3>2, <3>3, <3>4, QueueStays DEF Waits
    <3> QED BY <3>2, <3>5, <3>6, <3>7, <3>8, <3>9, LostParts
               DEF Custody, Looked, Copied
  <2>7. ASSUME NEW p \in Probes, Spawn(p)
        PROVE  Custody'
    <3>1. /\ pc["tool"] = "spawning" /\ Goto("tool", "idle", None)
          /\ UNCHANGED <<queue, seen, closed, unseen>>
          /\ \/ slot = None /\ slot' = Active(p) /\ known' = known \cup {p}
             \/ UNCHANGED <<slot, known>>
      BY <2>7 DEF Spawn, At, Done
    <3>2. \A x : Held(x) => Held(x)'
      BY <2>0, <3>1, HandMoves DEF Keeping
    <3>3. seen = None
      BY <3>1 DEF Hands
    <3>4. \/ known' = known \cup {p} /\ InSlot(p)' /\ \A x : ~InSlot(x)
          \/ known' = known /\ \A x : InSlot(x) => InSlot(x)'
      BY <1>0, <3>1, ActiveType DEF InSlot
    <3> QED BY <3>1, <3>2, <3>3, <3>4, QueueStays, LostParts
            DEF Custody, Looked, Copied, Waits
  <2> QED BY <1>4, <1>11, <2>1, <2>2, <2>3, <2>4, <2>5, <2>6, <2>7 DEF ToolGoesOn
<1>12. CASE Forwards
  <2>1. CASE HearCompleted
    BY <1>1, <2>1 DEF HearCompleted, history
  <2>2. CASE HearCleared
    <3>1. /\ pc["forwarder"] = "idle"
          /\ \/ UNCHANGED <<pc, hand>>
             \/ Goto("forwarder", "taking", Head(queue))
          /\ UNCHANGED <<slot, queue, seen, known, closed, unseen>>
      BY <2>2 DEF HearCleared, At
    <3>2. \A x : Held(x) => Held(x)'
      <4>1. "forwarder" \in Actors /\ "taking" \in Steps /\ pc["forwarder"] \notin Keeping
        BY <3>1 DEF Actors, Steps, Keeping
      <4> QED BY <3>1, <4>1, HandMoves, HandsStay
    <3>3. pc'["tool"] = pc["tool"]
      BY <3>1 DEF Goto, ControlOK, Actors
    <3> QED BY <3>1, <3>2, <3>3, QueueStays, CustodyStays DEF InSlot, Waits
  <2>3. CASE Park
    <3>1. /\ pc["forwarder"] = "parking"
          /\ \/ Goto("forwarder", "idle", None)
             \/ Goto("forwarder", "restoring", hand["forwarder"])
          /\ \/ slot' = slot
             \/ slot # None /\ SetStatus("paused")
          /\ UNCHANGED <<queue, seen, known, closed, unseen>>
      BY <2>3 DEF Park, Holds, At, Done, history
    <3>2. \A x : Held(x) => Held(x)'
      <4>1. /\ "forwarder" \in Actors /\ {"idle", "restoring"} \subseteq Steps
            /\ pc["forwarder"] \notin Keeping
        BY <3>1 DEF Actors, Steps, Keeping
      <4> QED BY <3>1, <4>1, HandMoves
    <3>3. \A x : InSlot(x) => InSlot(x)'
      <4>1. CASE slot' = slot
        BY <4>1 DEF InSlot
      <4> QED BY <1>0, <1>2, <3>1, <4>1
    <3>4. pc'["tool"] = pc["tool"]
      BY <3>1 DEF Goto, ControlOK, Actors
    <3> QED BY <3>1, <3>2, <3>3, <3>4, QueueStays, CustodyStays DEF Waits
  <2> QED BY <1>5, <1>6, <1>7, <1>12, <2>1, <2>2, <2>3 DEF Forwards
<1>13. CASE DrainTakes \/ DrainSends \/ UNCHANGED vars
  BY <1>1, <1>13 DEF DrainTakes, DrainSends, vars, history
<1> QED BY <1>8, <1>9, <1>10, <1>11, <1>12, <1>13 DEF Next, Publishes

-----------------------------------------------------------------------------
(* Parking *)

\* A goal promoted after a cancel is active only until the forwarder's next
\* step, which pauses it: the forwarder remembers the cancel as a pause cause.
ParksInv ==
  /\ cancelled => parks
  /\ Holds({"active"}) /\ slot.goal \in parked => pc["forwarder"] = "parking"

\* A step that leaves the slot and the pause cause alone.
LEMMA ParksStay ==
  ASSUME ParksInv, UNCHANGED <<slot, parks, cancelled>>, parked' \subseteq parked,
         pc'["forwarder"] = pc["forwarder"]
  PROVE  ParksInv'
BY DEF ParksInv, Holds

\* No step of anybody lets a parked goal run.
LEMMA ParksStep ==
  ASSUME TypeOK, Hands, ParksInv, [Next]_vars
  PROVE  ParksInv'
<1> USE TypeParts
<1>0. /\ Work \subseteq Goals /\ Probes \subseteq Goals
      /\ "paused" \in Statuses /\ parked \subseteq known
  BY DEF Goals, Statuses, StoreOK
<1>1. ASSUME NEW a \in {"user", "tool"}, Asks(a)
      PROVE  ParksInv'
  <2>1. ASSUME NEW g \in Work, Start(a, g) \/ ReplaceCurrent(a, g)
        PROVE  ParksInv'
    <3>1. slot' = Active(g) /\ g \notin known /\ UNCHANGED <<parks, cancelled, parked>>
      BY <2>1 DEF Start, ReplaceCurrent, Replace
    <3>2. slot'.goal \notin parked'
      BY <1>0, <3>1, ActiveType
    <3> QED BY <3>1, <3>2 DEF ParksInv, Holds
  <2>2. CASE Pause(a)
    <3>1. slot # None /\ SetStatus("paused") /\ UNCHANGED <<parks, cancelled>>
      BY <2>2 DEF Pause, Holds, history
    <3>2. slot'.status = "paused"
      BY <1>0, <3>1, StatusType
    <3> QED BY <3>1, <3>2 DEF ParksInv, Holds
  <2>3. CASE Resume(a)
    <3>1. slot # None /\ SetStatus("active") /\ parked' = parked \ {slot.goal}
          /\ UNCHANGED <<parks, cancelled>>
      BY <2>3 DEF Resume, Holds
    <3>2. slot'.goal = slot.goal
      BY <3>1, StatusType DEF Statuses
    <3> QED BY <3>1, <3>2 DEF ParksInv, Holds
  <2>4. CASE Cancel(a)
    BY <2>4 DEF Cancel, Clear, ParksInv, Holds
  <2>5. CASE WipeQueue(a) \/ Reorder(a) \/ \E g \in Goals : Delete(a, g)
    <3>1. UNCHANGED <<slot, parks, cancelled, parked>> /\ pc'["forwarder"] = pc["forwarder"]
      BY <2>5 DEF WipeQueue, Goto, Reorder, Delete, history, ControlOK, Actors
    <3> QED BY <3>1, ParksStay
  <2> QED BY <1>1, <2>1, <2>2, <2>3, <2>4, <2>5 DEF Asks
<1>2. ASSUME NEW a \in {"user", "tool"}, CancelRest(a)
      PROVE  ParksInv'
  <2>1. /\ slot' \in {slot, None} /\ UNCHANGED <<parks, cancelled, parked>>
        /\ pc'["forwarder"] = pc["forwarder"]
    BY <1>2 DEF CancelRest, Clear, Done, Goto, ControlOK, Actors
  <2> QED BY <2>1, ParksStay DEF ParksInv, Holds
<1>3. ASSUME NEW a \in {"user", "forwarder"}, Take(a) \/ Restore(a)
      PROVE  ParksInv'
  <2>1. UNCHANGED <<slot, parks, cancelled, parked>>
    BY <1>3 DEF Take, Restore, history
  <2>2. pc["forwarder"] = "parking" => pc'["forwarder"] = "parking"
    BY <1>3 DEF Take, Restore, At, Done, Goto, ControlOK, Actors
  <2> QED BY <2>1, <2>2 DEF ParksInv, Holds
<1>4. ASSUME NEW a \in {"user", "forwarder"}, Install(a)
      PROVE  ParksInv'
  <2>1. UNCHANGED <<parks, cancelled>> /\ hand[a] \in Goals
    BY <1>4 DEF Install, At, Hands, Keeping, ControlOK, Actors
  <2>2. pc["forwarder"] = "parking" => pc'["forwarder"] = "parking"
    BY <1>4 DEF Install, At, Done, Goto, ControlOK, Actors
  <2>3. CASE slot # None
    BY <1>4, <2>1, <2>2, <2>3 DEF Install, ParksInv, Holds
  <2>4. CASE slot = None /\ a = "forwarder" /\ cancelled
    <3>1. pc'["forwarder"] = "parking"
      BY <1>4, <2>4 DEF Install, Pausing, Goto, ParksInv, ControlOK, Actors
    <3> QED BY <2>1, <3>1 DEF ParksInv
  <2>5. CASE slot = None /\ ~(a = "forwarder" /\ cancelled)
    <3>1. slot' = Active(hand[a]) /\ parked' = parked \ {hand[a]}
      BY <1>4, <2>5 DEF Install
    <3>2. slot'.goal = hand[a]
      BY <2>1, <3>1, ActiveType
    <3> QED BY <2>1, <3>1, <3>2 DEF ParksInv
  <2> QED BY <2>3, <2>4, <2>5
<1>5. CASE UserAsks
  <2>1. CASE Arm
    <3>1. slot # None /\ slot \in Slots
      BY <2>1 DEF Arm, StoreOK
    <3>2. slot'.goal = slot.goal /\ slot'.status = slot.status
      BY <2>1, <3>1 DEF Arm, Slots
    <3>3. UNCHANGED <<parks, cancelled, parked, pc>>
      BY <2>1 DEF Arm, history
    <3> QED BY <3>1, <3>2, <3>3 DEF ParksInv, Holds
  <2>2. CASE ResumeQueued \/ \E g \in Work : QueueUp(g)
    <3>1. UNCHANGED <<slot, parks, cancelled, parked>> /\ pc'["forwarder"] = pc["forwarder"]
      BY <2>2 DEF ResumeQueued, QueueUp, Goto, history, ControlOK, Actors
    <3> QED BY <3>1, ParksStay
  <2> QED BY <1>1, <1>5, <2>1, <2>2 DEF UserAsks
<1>6. CASE ToolAsks
  <2>1. CASE Complete
    BY <2>1 DEF Complete, ParksInv, Holds
  <2>2. CASE Postpone \/ (\E g \in Work : FindsAGoal(g)) \/ (\E g \in Goals : Promote(g))
    <3>1. UNCHANGED <<slot, parks, cancelled, parked>> /\ pc'["forwarder"] = pc["forwarder"]
      BY <2>2
         DEF Postpone, Looks, FindsAGoal, Promote, Goto, history, ControlOK, Actors
    <3> QED BY <3>1, ParksStay
  <2>3. CASE Block
    <3>1. slot # None /\ SetStatus("blocked") /\ UNCHANGED <<parks, cancelled>>
      BY <2>3 DEF Block, Holds, history
    <3>2. slot'.status = "blocked"
      BY <3>1, StatusType DEF Statuses
    <3> QED BY <3>1, <3>2 DEF ParksInv, Holds
  <2> QED BY <1>1, <1>6, <2>1, <2>2, <2>3 DEF ToolAsks
<1>7. CASE UserGoesOn
  BY <1>2, <1>3, <1>4, <1>7 DEF UserGoesOn
<1>8. CASE ToolGoesOn
  <2>1. CASE Enqueue \/ Requeue \/ LookToDemote \/ Demote
    <3>1. UNCHANGED <<slot, parks, cancelled, parked>> /\ pc'["forwarder"] = pc["forwarder"]
      BY <2>1 DEF Enqueue, Requeue, LookToDemote, Looks, Demote, Done, Goto, history,
                  ControlOK, Actors
    <3> QED BY <3>1, ParksStay
  <2>2. CASE Unseat
    <3>1. /\ slot' \in {slot, None} /\ UNCHANGED <<parks, cancelled, parked>>
          /\ pc'["forwarder"] = pc["forwarder"]
      BY <2>2 DEF Unseat, Clear, Done, Goto, ControlOK, Actors
    <3> QED BY <3>1, ParksStay DEF ParksInv, Holds
  <2>3. CASE ReplaceByPromoted
    <3>1. hand["tool"] \in Goals
      BY <2>3 DEF ReplaceByPromoted, At, Hands, Keeping, ControlOK, Actors
    <3>2. /\ slot' = Active(hand["tool"]) /\ parked' = parked \ {hand["tool"]}
          /\ UNCHANGED <<parks, cancelled>>
      BY <2>3 DEF ReplaceByPromoted, Replace
    <3>3. slot'.goal = hand["tool"]
      BY <3>1, <3>2, ActiveType
    <3> QED BY <3>2, <3>3 DEF ParksInv
  <2>4. ASSUME NEW p \in Probes, Spawn(p)
        PROVE  ParksInv'
    <3>1. /\ UNCHANGED <<parks, cancelled, parked>> /\ p \notin known
          /\ pc'["forwarder"] = pc["forwarder"]
          /\ slot' \in {slot, Active(p)}
      BY <2>4 DEF Spawn, Done, Goto, ControlOK, Actors
    <3>2. CASE slot' = Active(p)
      <4>1. slot'.goal \notin parked'
        BY <1>0, <3>1, <3>2, ActiveType
      <4> QED BY <3>1, <4>1 DEF ParksInv
    <3> QED BY <3>1, <3>2, ParksStay
  <2> QED BY <1>2, <1>8, <2>1, <2>2, <2>3, <2>4 DEF ToolGoesOn
<1>9. CASE Forwards
  <2>1. CASE HearCompleted
    BY <2>1, ParksStay DEF HearCompleted, history
  <2>2. CASE HearCleared
    <3>1. /\ pc["forwarder"] = "idle" /\ UNCHANGED <<slot, parked>>
          /\ parks' = (Head(bus).cancel \/ armed) /\ cancelled' = Head(bus).cancel
      BY <2>2 DEF HearCleared, At
    <3> QED BY <3>1 DEF ParksInv, Holds
  <2>3. CASE Park
    <3>1. UNCHANGED <<parks, cancelled, parked>>
      BY <2>3 DEF Park, history
    <3>2. \/ slot # None /\ SetStatus("paused")
          \/ ~Holds({"active"}) /\ slot' = slot
      BY <2>3 DEF Park, Holds
    <3>3. ~Holds({"active"})'
      <4>1. CASE slot # None /\ SetStatus("paused")
        BY <1>0, <4>1, StatusType DEF Holds
      <4> QED BY <3>2, <4>1 DEF Holds
    <3> QED BY <3>1, <3>3 DEF ParksInv
  <2> QED BY <1>3, <1>4, <1>9, <2>1, <2>2, <2>3 DEF Forwards
<1>10. CASE DrainTakes \/ DrainSends \/ UNCHANGED vars
  BY <1>10, ParksStay DEF DrainTakes, DrainSends, vars, history
<1> QED BY <1>5, <1>6, <1>7, <1>8, <1>9, <1>10 DEF Next, Publishes

-----------------------------------------------------------------------------
(* One copy, when nobody ends or arms the goal in the slot *)

\* The commands that take the goal in the slot from under the tool, and the
\* one that makes the forwarder pause what it promotes.
Endings == {"cancel", "replace", "cancelAll", "arm"}

MildEvents == {e \in Events : IF e.kind = "completed" THEN ~e.armed ELSE ~e.cancel}

\* Nobody cancels and nothing is parked.
Calm ==
  /\ bus \in Seq(MildEvents) /\ backlog \in Seq(MildEvents)
  /\ sending \in MildEvents \cup {None}
  /\ armed = FALSE /\ parks = FALSE /\ (slot # None => slot.armed = FALSE)
  /\ pc["forwarder"] # "parking" /\ \A a \in Actors : pc[a] # "wiping"

Distinct == \A i, j \in DOMAIN queue : queue[i] = queue[j] => i = j

Alone ==
  \A a, b \in Actors : pc[a] \in Keeping /\ pc[b] \in Keeping /\ hand[a] = hand[b] => a = b

\* The places that keep goals have none in common, but for the copy of the
\* goal that the tool is about to take out of the slot.
Apart ==
  /\ \A g : InQueue(g) => ~Held(g)
  /\ \A g : InSlot(g) /\ Waits(g) => Moving(g)
  /\ \A g \in closed : ~Waits(g) /\ (InSlot(g) => Moving(g))
  /\ seen # None => InSlot(seen)
  /\ hand["tool"] # None => hand["tool"] # seen

Once == Calm /\ Distinct /\ Alone /\ Apart

\* A goal that was not in the queue is in it once after an insertion,
LEMMA AddedOnce ==
  ASSUME queue \in Seq(Goals), NEW g \in Goals, Front(g) \/ Back(g), Distinct, ~InQueue(g)
  PROVE  Distinct'
<1>1. CASE Front(g)
  <2>1. /\ DOMAIN queue = 1 .. Len(queue) /\ Len(queue) \in Nat
        /\ DOMAIN queue' = 1 .. Len(queue) + 1 /\ queue'[1] = g
        /\ \A i \in DOMAIN queue : queue'[i + 1] = queue[i]
    BY <1>1 DEF Front
  <2>2. \A i \in DOMAIN queue' : i # 1 => i - 1 \in DOMAIN queue /\ queue'[i] = queue[i - 1]
    <3>1. ASSUME NEW i \in DOMAIN queue', i # 1
          PROVE  i - 1 \in DOMAIN queue /\ queue'[i] = queue[i - 1]
      <4>1. i - 1 \in DOMAIN queue /\ (i - 1) + 1 = i
        BY <2>1, <3>1
      <4> QED BY <2>1, <4>1
    <3> QED BY <3>1
  <2>3. \A i \in DOMAIN queue : queue[i] # g
    BY DEF InQueue
  <2>4. ASSUME NEW i \in DOMAIN queue', NEW j \in DOMAIN queue', queue'[i] = queue'[j]
        PROVE  i = j
    <3>1. i \in Nat /\ j \in Nat
      BY <2>1
    <3>2. CASE i # 1 /\ j # 1
      <4>1. i - 1 = j - 1
        BY <2>2, <2>4, <3>2 DEF Distinct
      <4> QED BY <3>1, <4>1
    <3> QED BY <2>1, <2>2, <2>3, <2>4, <3>2
  <2> QED BY <2>4 DEF Distinct
<1>2. CASE Back(g)
  <2>1. /\ queue'[Len(queue) + 1] = g
        /\ \A i \in DOMAIN queue : queue'[i] = queue[i]
        /\ DOMAIN queue' = DOMAIN queue \cup {Len(queue) + 1}
    BY <1>2 DEF Back
  <2> QED BY <2>1 DEF Distinct, InQueue
<1> QED BY <1>1, <1>2

\* is not in it any more after a removal,
LEMMA RemovedOnce ==
  ASSUME queue \in Seq(Goals), NEW g, InQueue(g), queue' = Without(queue, g), Distinct
  PROVE  Distinct' /\ ~InQueue(g)'
<1>1. /\ Len(queue) \in Nat
      /\ DOMAIN queue = 1 .. Len(queue) /\ DOMAIN queue' = 1 .. Len(queue) - 1
  BY RemovedAt, LenProperties
<1>2. PICK f \in DOMAIN queue :
        /\ queue[f] = g
        /\ \A i \in 1 .. f - 1 : queue'[i] = queue[i]
        /\ \A i \in f .. Len(queue) - 1 : queue'[i] = queue[i + 1]
  BY RemovedAt
<1>3. ASSUME NEW i \in DOMAIN queue'
      PROVE  \E k \in DOMAIN queue : /\ k = (IF i < f THEN i ELSE i + 1)
                                     /\ queue'[i] = queue[k]
  <2>1. CASE i < f
    <3>1. i \in 1 .. f - 1 /\ i \in DOMAIN queue
      BY <1>1, <2>1
    <3> QED BY <1>2, <2>1, <3>1
  <2>2. CASE ~(i < f)
    <3>1. i \in f .. Len(queue) - 1 /\ i + 1 \in DOMAIN queue
      BY <1>1, <2>2
    <3> QED BY <1>2, <2>2, <3>1
  <2> QED BY <2>1, <2>2
<1>4. ASSUME NEW i \in DOMAIN queue', queue'[i] = g PROVE FALSE
  <2>1. PICK k \in DOMAIN queue : k = (IF i < f THEN i ELSE i + 1) /\ queue'[i] = queue[k]
    BY <1>3
  <2>2. k = f
    BY <1>2, <1>4, <2>1 DEF Distinct
  <2> QED BY <1>1, <2>1, <2>2
<1>5. ASSUME NEW i \in DOMAIN queue', NEW j \in DOMAIN queue', queue'[i] = queue'[j]
      PROVE  i = j
  <2>1. PICK k \in DOMAIN queue : k = (IF i < f THEN i ELSE i + 1) /\ queue'[i] = queue[k]
    BY <1>3
  <2>2. PICK l \in DOMAIN queue : l = (IF j < f THEN j ELSE j + 1) /\ queue'[j] = queue[l]
    BY <1>3
  <2>3. k = l
    BY <1>5, <2>1, <2>2 DEF Distinct
  <2> QED BY <1>1, <2>1, <2>2, <2>3
<1> QED BY <1>4, <1>5 DEF Distinct, InQueue

\* and a reordering duplicates none.
LEMMA SwappedOnce ==
  ASSUME queue \in Seq(Goals), NEW i \in DOMAIN queue, NEW j \in DOMAIN queue,
         queue' = [queue EXCEPT ![i] = queue[j], ![j] = queue[i]], Distinct
  PROVE  Distinct'
<1> DEFINE p(k) == IF k = i THEN j ELSE IF k = j THEN i ELSE k
<1>1. DOMAIN queue' = DOMAIN queue /\ \A k \in DOMAIN queue : queue'[k] = queue[p(k)]
  OBVIOUS
<1>2. \A k \in DOMAIN queue : p(k) \in DOMAIN queue
  OBVIOUS
<1>3. \A k, l \in DOMAIN queue : p(k) = p(l) => k = l
  OBVIOUS
<1> HIDE DEF p
<1> QED BY <1>1, <1>2, <1>3 DEF Distinct

\* Who holds what after a step of one actor, when no goal is held twice.
LEMMA HeldMoves ==
  ASSUME ControlOK, Alone, NEW a \in Actors, NEW step \in Steps, NEW g, Goto(a, step, g),
         pc[a] \notin Keeping /\ step \in Keeping => ~Held(g),
         pc[a] \in Keeping /\ step \in Keeping => g = hand[a]
  PROVE  /\ Alone'
         /\ \A x : Held(x)' <=> \/ Held(x) /\ ~(pc[a] \in Keeping /\ x = hand[a])
                                \/ step \in Keeping /\ x = g
<1>1. /\ pc'[a] = step /\ hand'[a] = g
      /\ \A b \in Actors \ {a} : pc'[b] = pc[b] /\ hand'[b] = hand[b]
  BY DEF Goto, ControlOK
<1>2. Alone'
  BY <1>1 DEF Alone, Held
<1>3. ASSUME NEW x
      PROVE  Held(x)' <=> \/ Held(x) /\ ~(pc[a] \in Keeping /\ x = hand[a])
                          \/ step \in Keeping /\ x = g
  BY <1>1 DEF Alone, Held
<1> QED BY <1>2, <1>3

\* The tool goes on with the goal it has in its hand.
LEMMA ToolStays ==
  ASSUME ControlOK, Alone, NEW step \in Steps,
         pc' = [pc EXCEPT !["tool"] = step], UNCHANGED hand,
         pc["tool"] \in Keeping <=> step \in Keeping
  PROVE  Alone' /\ \A x : Held(x)' <=> Held(x)
<1>1. pc'["tool"] = step /\ \A b \in Actors \ {"tool"} : pc'[b] = pc[b]
  BY DEF ControlOK, Actors
<1> QED BY <1>1 DEF Alone, Held, Actors

\* The events of a clear and a completion that park nothing.
LEMMA MildTypes ==
  /\ <<Cleared(FALSE)>> \in Seq(MildEvents)
  /\ \A s \in Slots : s.armed = FALSE => <<Completed(s), Cleared(FALSE)>> \in Seq(MildEvents)
<1>1. Cleared(FALSE) \in MildEvents
  BY DEF Cleared, Events, MildEvents
<1>2. ASSUME NEW s \in Slots, s.armed = FALSE PROVE Completed(s) \in MildEvents
  BY <1>2 DEF Completed, Events, MildEvents
<1>3. /\ \A e \in MildEvents : <<e>> \in Seq(MildEvents)
      /\ \A e, f \in MildEvents : <<e, f>> \in Seq(MildEvents)
  OBVIOUS
<1> QED BY <1>1, <1>2, <1>3

\* Without the commands that end or arm, every event is mild.
LEMMA CalmStep ==
  ASSUME Commands \cap Endings = {}, TypeOK, Hands, Calm, [Next]_vars
  PROVE  Calm'
<1> USE TypeParts
<1>0. /\ Work \subseteq Goals /\ Probes \subseteq Goals
      /\ {"active", "paused", "blocked"} \subseteq Statuses
      /\ "cancel" \notin Commands /\ "replace" \notin Commands
      /\ "cancelAll" \notin Commands /\ "arm" \notin Commands
  BY DEF Goals, Statuses, Endings
<1>1. \A g \in Goals : Active(g).armed = FALSE
  BY DEF Active
<1>2. ASSUME NEW s \in Statuses, slot # None, SetStatus(s)
      PROVE  slot'.armed = slot.armed
  BY <1>2 DEF SetStatus, StoreOK, Slots
<1>3. ASSUME UNCHANGED feed, UNCHANGED <<armed, parks>>,
             slot' # None => slot'.armed = FALSE,
             pc'["forwarder"] # "parking", \A a \in Actors : pc'[a] # "wiping"
      PROVE  Calm'
  BY <1>3 DEF Calm, feed
<1>4. ASSUME Publish(<<Cleared(FALSE)>>), UNCHANGED <<armed, parks>>,
             slot' # None => slot'.armed = FALSE,
             pc'["forwarder"] # "parking", \A a \in Actors : pc'[a] # "wiping"
      PROVE  Calm'
  <2>1. /\ bus' \in Seq(MildEvents) /\ backlog' \in Seq(MildEvents)
        /\ sending' \in MildEvents \cup {None}
    BY <1>4, MildTypes, PublishType DEF FeedOK, Calm
  <2> QED BY <1>4, <2>1 DEF Calm
<1>5. ASSUME NEW a \in Actors, NEW step \in Steps \ {"wiping", "parking"},
             pc' = [pc EXCEPT ![a] = step]
      PROVE  pc'["forwarder"] # "parking" /\ \A b \in Actors : pc'[b] # "wiping"
  BY <1>5 DEF Calm, ControlOK, Actors
<1>6. {"idle", "adding", "postponing", "clearing", "requeueing", "unseating", "spawning",
       "swapping", "demoting", "replacing", "taking", "holding", "restoring"}
         \subseteq Steps \ {"wiping", "parking"}
      /\ {"tool", "user", "forwarder"} \subseteq Actors
  BY DEF Steps, Actors
<1>7. ASSUME NEW a \in {"user", "tool"}, Asks(a)
      PROVE  Calm'
  <2>1. CASE Pause(a) \/ Resume(a)
    <3>1. slot # None /\ (SetStatus("paused") \/ SetStatus("active"))
          /\ UNCHANGED feed /\ UNCHANGED <<pc, armed, parks>>
      BY <2>1 DEF Pause, Resume, Holds, feed
    <3> QED BY <1>0, <1>2, <1>3, <3>1 DEF Calm
  <2>2. CASE \/ Reorder(a) \/ \E g \in Goals : Delete(a, g)
             \/ \E g \in Work : Start(a, g)
    <3>1. /\ UNCHANGED feed /\ UNCHANGED <<pc, armed, parks>>
          /\ slot' = slot \/ \E g \in Goals : slot' = Active(g)
      BY <1>0, <2>2 DEF Reorder, Delete, Start, feed
    <3> QED BY <1>1, <1>3, <3>1 DEF Calm
  <2> QED BY <1>0, <1>7, <2>1, <2>2
             DEF Asks, ReplaceCurrent, Cancel, WipeQueue, Begins
<1>8. ASSUME NEW a \in {"user", "tool"}, CancelRest(a)
      PROVE  Calm'
  BY <1>6, <1>8 DEF CancelRest, At, Calm
<1>9. ASSUME NEW a \in {"user", "forwarder"}, Take(a) \/ Restore(a) \/ Install(a)
      PROVE  Calm'
  <2>1. hand[a] \in Goals \cup {None}
    BY <1>6, <1>9 DEF ControlOK
  <2>2. \E step \in {"idle", "holding", "restoring"} : pc' = [pc EXCEPT ![a] = step]
    BY <1>9 DEF Take, Restore, Install, Pausing, Done, Goto, Calm
  <2>3. /\ UNCHANGED feed /\ UNCHANGED <<armed, parks>>
        /\ slot' = slot \/ slot' = Active(hand[a])
    BY <1>9 DEF Take, Restore, Install, feed
  <2>4. Active(hand[a]).armed = FALSE
    BY DEF Active
  <2> QED BY <1>3, <1>5, <1>6, <2>2, <2>3, <2>4 DEF Calm
<1>10. CASE UserAsks
  <2>1. CASE ResumeQueued
    <3>1. /\ UNCHANGED feed /\ UNCHANGED <<slot, armed, parks>>
          /\ pc' = [pc EXCEPT !["user"] = "taking"]
      BY <2>1 DEF ResumeQueued, Goto, feed
    <3> QED BY <1>3, <1>5, <1>6, <3>1 DEF Calm
  <2>2. CASE \E g \in Work : QueueUp(g)
    BY <1>3, <2>2 DEF QueueUp, feed, Calm
  <2> QED BY <1>0, <1>7, <1>10, <2>1, <2>2 DEF UserAsks, Arm, Begins
<1>11. CASE ToolAsks
  <2>1. CASE Complete
    <3>1. slot \in Slots /\ slot.armed = FALSE
      BY <2>1 DEF Complete, Holds, StoreOK, Calm
    <3>2. /\ bus' \in Seq(MildEvents) /\ backlog' \in Seq(MildEvents)
          /\ sending' \in MildEvents \cup {None}
      BY <2>1, <3>1, MildTypes, PublishType DEF Complete, FeedOK, Calm
    <3> QED BY <2>1, <3>2 DEF Complete, Calm
  <2>2. CASE Postpone \/ (\E g \in Work : FindsAGoal(g)) \/ (\E g \in Goals : Promote(g))
    <3>1. /\ UNCHANGED feed /\ UNCHANGED <<slot, armed, parks>>
          /\ \E step \in {"postponing", "adding", "swapping"} :
                pc' = [pc EXCEPT !["tool"] = step]
      BY <2>2 DEF Postpone, Looks, FindsAGoal, Promote, Goto, feed
    <3> QED BY <1>3, <1>5, <1>6, <3>1 DEF Calm
  <2>3. CASE Block
    <3>1. /\ slot # None /\ SetStatus("blocked")
          /\ UNCHANGED feed /\ UNCHANGED <<armed, parks>>
          /\ pc' = pc \/ pc' = [pc EXCEPT !["tool"] = "requeueing"]
      BY <2>3 DEF Block, Holds, Looks, feed
    <3> QED BY <1>0, <1>2, <1>3, <1>5, <1>6, <3>1 DEF Calm
  <2> QED BY <1>7, <1>11, <2>1, <2>2, <2>3 DEF ToolAsks
<1>12. CASE UserGoesOn
  BY <1>8, <1>9, <1>12 DEF UserGoesOn
<1>13. CASE ToolGoesOn
  <2>1. CASE Enqueue \/ Requeue \/ LookToDemote \/ Demote \/ \E p \in Probes : Spawn(p)
    <3>1. /\ UNCHANGED feed /\ UNCHANGED <<armed, parks>>
          /\ slot' = slot \/ \E g \in Goals : slot' = Active(g)
      BY <1>0, <2>1 DEF Enqueue, Requeue, LookToDemote, Demote, Spawn, feed
    <3>2. \E step \in {"idle", "clearing", "unseating", "replacing", "demoting"} :
             pc' = [pc EXCEPT !["tool"] = step]
      BY <2>1 DEF Enqueue, Requeue, LookToDemote, Looks, Demote, Spawn, Done, Goto
    <3> QED BY <1>1, <1>3, <1>5, <1>6, <3>1, <3>2 DEF Calm
  <2>2. CASE Unseat
    <3>1. \E step \in {"idle", "spawning"} : pc' = [pc EXCEPT !["tool"] = step]
      BY <2>2 DEF Unseat, Done, Goto
    <3>2. /\ UNCHANGED <<armed, parks>> /\ slot' = None
          /\ UNCHANGED feed \/ Publish(<<Cleared(FALSE)>>)
      BY <2>2 DEF Unseat, Clear
    <3> QED BY <1>3, <1>4, <1>5, <1>6, <3>1, <3>2
  <2>3. CASE ReplaceByPromoted
    <3>1. pc' = [pc EXCEPT !["tool"] = "idle"]
      BY <2>3 DEF ReplaceByPromoted, Done, Goto
    <3>2. /\ UNCHANGED <<armed, parks>> /\ slot' = Active(hand["tool"])
          /\ UNCHANGED feed \/ Publish(<<Cleared(FALSE)>>)
      BY <2>3 DEF ReplaceByPromoted, Replace
    <3>3. Active(hand["tool"]).armed = FALSE
      BY DEF Active
    <3> QED BY <1>3, <1>4, <1>5, <1>6, <3>1, <3>2, <3>3 DEF feed
  <2> QED BY <1>8, <1>13, <2>1, <2>2, <2>3 DEF ToolGoesOn
<1>14. CASE Forwards
  <2>1. CASE HearCompleted
    <3>1. Head(bus) \in MildEvents /\ Tail(bus) \in Seq(MildEvents) /\ Head(bus).kind = "completed"
      BY <2>1, HeadTailProperties DEF HearCompleted, Calm
    <3>2. Head(bus).armed = FALSE
      BY <3>1 DEF MildEvents, Events
    <3> QED BY <2>1, <3>1, <3>2 DEF HearCompleted, Calm
  <2>2. CASE HearCleared
    <3>1. Head(bus) \in MildEvents /\ Tail(bus) \in Seq(MildEvents) /\ Head(bus).kind = "cleared"
      BY <2>2, HeadTailProperties DEF HearCleared, Calm
    <3>2. Head(bus).cancel = FALSE
      BY <3>1 DEF MildEvents, Events
    <3>3. pc' = pc \/ pc' = [pc EXCEPT !["forwarder"] = "taking"]
      BY <2>2 DEF HearCleared, Goto
    <3>4. pc'["forwarder"] # "parking" /\ \A b \in Actors : pc'[b] # "wiping"
      BY <1>5, <1>6, <3>3 DEF Calm
    <3>5. /\ bus' = Tail(bus) /\ UNCHANGED <<backlog, sending, slot>> /\ armed' = FALSE
          /\ parks' = (Head(bus).cancel \/ armed)
      BY <2>2 DEF HearCleared
    <3>6. parks' = FALSE
      BY <3>2, <3>5 DEF Calm
    <3> QED BY <3>1, <3>4, <3>5, <3>6 DEF Calm
  <2>3. CASE Park
    BY <2>3 DEF Park, At, Calm
  <2> QED BY <1>9, <1>14, <2>1, <2>2, <2>3 DEF Forwards
<1>15. CASE DrainTakes \/ DrainSends
  <2>0. UNCHANGED <<slot, pc, armed, parks>>
    BY <1>15 DEF DrainTakes, DrainSends
  <2>1. CASE DrainTakes /\ backlog # <<>>
    <3>1. Head(backlog) \in MildEvents /\ Tail(backlog) \in Seq(MildEvents)
      BY <2>1, HeadTailProperties DEF Calm
    <3> QED BY <2>0, <2>1, <3>1 DEF DrainTakes, Calm
  <2>2. CASE DrainTakes /\ backlog = <<>>
    BY <2>0, <2>2 DEF DrainTakes, Calm
  <2>3. CASE DrainSends
    BY <2>0, <2>3 DEF DrainSends, Calm
  <2> QED BY <1>15, <2>1, <2>2, <2>3
<1>16. CASE UNCHANGED vars
  BY <1>3, <1>16 DEF vars, Calm
<1> QED BY <1>10, <1>11, <1>12, <1>13, <1>14, <1>15, <1>16 DEF Next, Publishes

\* Facts that the steps below share: what is kept is known.
LEMMA KeptKnown ==
  ASSUME StoreOK, ControlOK, KnownInv, Hands
  PROVE  /\ \A x : InSlot(x) => x \in known
         /\ \A x : Waits(x) => x \in known
         /\ None \notin known
BY GoalsOK DEF InSlot, Waits, Held, KnownInv, Hands, StoreOK

\* A step that moves no goal.
LEMMA OnceStays ==
  ASSUME Alone, Distinct, Apart, UNCHANGED <<queue, hand, seen, closed>>,
         pc' = pc, \A x : InSlot(x)' <=> InSlot(x)
  PROVE  Alone' /\ Distinct' /\ Apart'
<1>1. Alone' /\ Distinct' /\ \A x : Held(x)' <=> Held(x)
  BY DEF Alone, Distinct, Held
<1>2. (\A x : InQueue(x)' <=> InQueue(x)) /\ (\A x : Moving(x)' <=> Moving(x))
  BY DEF InQueue, Moving
<1> QED BY <1>1, <1>2 DEF Apart, Waits

\* Without these commands, no step of anybody makes a second copy that stays.
LEMMA OnceStep ==
  ASSUME Commands \cap Endings = {}, TypeOK, KnownInv, Hands, Once, [Next]_vars
  PROVE  Alone' /\ Distinct' /\ Apart'
<1> USE TypeParts
<1>0. /\ Work \subseteq Goals /\ Probes \subseteq Goals
      /\ {"active", "paused", "blocked"} \subseteq Statuses
      /\ "cancel" \notin Commands /\ "replace" \notin Commands
      /\ "cancelAll" \notin Commands /\ "arm" \notin Commands
  BY DEF Goals, Statuses, Endings
<1>k. /\ FeedOK /\ ControlOK /\ StoreOK
      /\ Calm /\ Distinct /\ Alone /\ Apart
      /\ \A x : InSlot(x) => x \in known
      /\ \A x : Waits(x) => x \in known
      /\ None \notin known
  BY KeptKnown DEF Once
<1>a. {"tool", "user", "forwarder"} \subseteq Actors
      /\ {"idle", "adding", "postponing", "clearing", "requeueing", "unseating", "spawning",
          "swapping", "demoting", "replacing", "taking", "holding", "restoring"} \subseteq Steps
  BY DEF Actors, Steps
<1>1. ASSUME NEW s \in Statuses, slot # None, SetStatus(s)
      PROVE  \A x : InSlot(x)' <=> InSlot(x)
  BY <1>k, <1>1, StatusType DEF InSlot
<1>2. ASSUME NEW g \in Goals, slot' = Active(g)
      PROVE  \A x : InSlot(x)' <=> x = g
  BY <1>2, ActiveType DEF InSlot
<1>3. ASSUME NEW a \in {"user", "tool"}, Asks(a)
      PROVE  Alone' /\ Distinct' /\ Apart'
  <2>1. ASSUME NEW g \in Work, Start(a, g)
        PROVE  Alone' /\ Distinct' /\ Apart'
    <3>1. /\ slot = None /\ slot' = Active(g) /\ g \notin known
          /\ UNCHANGED <<queue, pc, hand, seen, closed>>
      BY <2>1 DEF Start
    <3>2. (\A x : InSlot(x)' <=> x = g) /\ \A x : ~InSlot(x)
      BY <1>0, <1>2, <3>1 DEF InSlot
    <3>3. /\ Alone' /\ Distinct' /\ \A x : Waits(x)' <=> Waits(x)
          /\ \A x : Held(x)' <=> Held(x)
          /\ \A x : InQueue(x)' <=> InQueue(x)
          /\ \A x : Moving(x)' <=> Moving(x)
      BY <1>k, <3>1, QueueStays, HandsStay DEF Alone, Distinct, Waits, Moving
    <3>4. g \notin closed /\ seen = None
      BY <1>k, <3>1, <3>2 DEF StoreOK, Apart
    <3> QED BY <1>k, <3>1, <3>2, <3>3, <3>4 DEF Apart
  <2>2. CASE Pause(a) \/ Resume(a)
    <3>1. slot # None /\ (SetStatus("paused") \/ SetStatus("active"))
      BY <2>2 DEF Pause, Resume, Holds
    <3>2. UNCHANGED <<queue, pc, hand, seen, closed>>
      BY <2>2 DEF Pause, Resume, history
    <3> QED BY <1>0, <1>1, <1>k, <3>1, <3>2, OnceStays
  <2>3. CASE Reorder(a)
    <3>1. /\ \A x : InQueue(x)' <=> InQueue(x)
          /\ Distinct'
      BY <1>k, <2>3, Swapped, SwappedOnce DEF Reorder, StoreOK
    <3>2. UNCHANGED <<slot, pc, hand, seen, closed>>
      BY <2>3 DEF Reorder, history
    <3>3. /\ Alone' /\ \A x : Held(x)' <=> Held(x)
          /\ \A x : InSlot(x)' <=> InSlot(x)
          /\ \A x : Moving(x)' <=> Moving(x)
      BY <1>k, <3>2, HandsStay DEF Alone, InSlot, Moving
    <3> QED BY <1>k, <3>1, <3>2, <3>3 DEF Apart, Waits
  <2>4. ASSUME NEW g \in Goals, Delete(a, g)
        PROVE  Alone' /\ Distinct' /\ Apart'
    <3>1. /\ InQueue(g) /\ queue' = Without(queue, g) /\ closed' = closed \cup {g}
          /\ UNCHANGED <<slot, pc, hand, seen>>
      BY <2>4 DEF Delete, Ends
    <3>2. Distinct' /\ ~InQueue(g)'
      BY <1>k, <3>1, RemovedOnce DEF StoreOK
    <3>3. \A x : InQueue(x)' => InQueue(x)
      BY <1>k, <3>1, Removed DEF StoreOK
    <3>4. /\ Alone' /\ \A x : Held(x)' <=> Held(x)
          /\ \A x : InSlot(x)' <=> InSlot(x)
          /\ \A x : Moving(x)' <=> Moving(x)
      BY <1>k, <3>1, HandsStay DEF Alone, InSlot, Moving
    <3> QED BY <1>k, <3>1, <3>2, <3>3, <3>4 DEF Apart, Waits
  <2> QED BY <1>0, <1>3, <2>1, <2>2, <2>3, <2>4
          DEF Asks, ReplaceCurrent, Cancel, WipeQueue, Begins
<1>4. ASSUME NEW a \in {"user", "tool"}, CancelRest(a)
      PROVE  Alone' /\ Distinct' /\ Apart'
  BY <1>a, <1>k, <1>4 DEF CancelRest, At, Calm
<1>5. ASSUME NEW a \in {"user", "forwarder"}, Take(a)
      PROVE  Alone' /\ Distinct' /\ Apart'
  <2>1. pc[a] = "taking" /\ pc[a] \notin Keeping /\ a \in Actors
    BY <1>5 DEF Take, At, Keeping, Actors
  <2>2. /\ UNCHANGED <<slot, seen, closed>> /\ pc'["tool"] = pc["tool"]
        /\ hand'["tool"] = hand["tool"]
    BY <1>5 DEF Take, Done, Goto, ControlOK, Actors, history
  <2>3. (\A x : InSlot(x)' <=> InSlot(x)) /\ (\A x : Moving(x)' <=> Moving(x))
    BY <2>2 DEF InSlot, Moving
  <2>4. CASE InQueue(hand[a])
    <3>1. Goto(a, "holding", hand[a]) /\ queue' = Without(queue, hand[a])
      BY <1>5, <2>4 DEF Take
    <3>2. Distinct' /\ \A x : x = hand[a] => ~InQueue(x)'
      BY <1>k, <2>4, <3>1, RemovedOnce DEF StoreOK
    <3>3. \A x : InQueue(x)' => InQueue(x)
      BY <1>k, <2>4, <3>1, Removed DEF StoreOK
    <3>4. Alone' /\ \A x : Held(x)' <=> Held(x) \/ x = hand[a]
      <4>1. ~Held(hand[a]) /\ "holding" \in Keeping
        BY <1>k, <2>4 DEF Apart, Keeping
      <4> QED BY <1>a, <1>k, <2>1, <3>1, <4>1, HeldMoves
    <3> QED BY <1>k, <2>2, <2>3, <2>4, <3>2, <3>3, <3>4 DEF Apart, Waits
  <2>5. CASE ~InQueue(hand[a])
    <3>1. Goto(a, "idle", None) /\ UNCHANGED queue
      BY <1>5, <2>5 DEF Take, Done
    <3>2. Alone' /\ \A x : Held(x)' <=> Held(x)
      <4>1. "idle" \notin Keeping
        BY DEF Keeping
      <4> QED BY <1>a, <1>k, <2>1, <3>1, <4>1, HeldMoves
    <3>3. Distinct' /\ \A x : InQueue(x)' <=> InQueue(x)
      BY <1>k, <3>1, QueueStays DEF Distinct
    <3> QED BY <1>k, <2>2, <2>3, <3>2, <3>3 DEF Apart, Waits
  <2> QED BY <2>4, <2>5
<1>6. ASSUME NEW a \in {"user", "forwarder"}, Install(a)
      PROVE  Alone' /\ Distinct' /\ Apart'
  <2>1. /\ pc[a] = "holding" /\ pc[a] \in Keeping /\ a \in Actors
        /\ hand[a] \in Goals /\ Held(hand[a])
    BY <1>6 DEF Install, At, Keeping, Actors, Hands, ControlOK, Held
  <2>2. /\ UNCHANGED <<queue, seen, closed>> /\ pc'["tool"] = pc["tool"]
        /\ hand'["tool"] = hand["tool"]
    BY <1>6 DEF Install, Done, Goto, ControlOK, Actors
  <2>3. /\ Distinct' /\ \A x : InQueue(x)' <=> InQueue(x)
        /\ \A x : Moving(x)' <=> Moving(x)
    BY <1>k, <2>2, QueueStays DEF Distinct, Moving
  <2>4. CASE slot = None
    <3>1. slot' = Active(hand[a]) /\ Goto(a, "idle", None)
      BY <1>6, <1>k, <2>4 DEF Install, Pausing, Done, Calm
    <3>2. Alone' /\ \A x : Held(x)' <=> Held(x) /\ x # hand[a]
      <4>1. "idle" \notin Keeping
        BY DEF Keeping
      <4> QED BY <1>a, <1>k, <2>1, <3>1, <4>1, HeldMoves
    <3>3. (\A x : InSlot(x)' <=> x = hand[a]) /\ \A x : ~InSlot(x)
      BY <1>2, <2>1, <2>4, <3>1 DEF InSlot
    <3>4. seen = None
      BY <1>k, <3>3 DEF Apart
    <3>5. ~Moving(hand[a]) /\ ~InQueue(hand[a]) /\ hand[a] \notin closed
      BY <1>k, <2>1, <3>4, GoalsOK DEF Moving, Apart, Waits
    <3> QED BY <1>k, <2>2, <2>3, <3>2, <3>3, <3>4, <3>5 DEF Apart, Waits
  <2>5. CASE slot # None
    <3>1. Goto(a, "restoring", hand[a]) /\ slot' = slot
      BY <1>6, <2>5 DEF Install
    <3>2. Alone' /\ \A x : Held(x)' <=> Held(x)
      <4>1. "restoring" \in Keeping
        BY DEF Keeping
      <4> QED BY <1>a, <1>k, <2>1, <3>1, <4>1, HeldMoves
    <3>3. \A x : InSlot(x)' <=> InSlot(x)
      BY <3>1 DEF InSlot
    <3> QED BY <1>k, <2>2, <2>3, <3>2, <3>3 DEF Apart, Waits
  <2> QED BY <2>4, <2>5
<1>7. ASSUME NEW a \in {"user", "forwarder"}, Restore(a)
      PROVE  Alone' /\ Distinct' /\ Apart'
  <2>1. /\ pc[a] \in Keeping /\ a \in Actors
        /\ hand[a] \in Goals /\ Held(hand[a])
    BY <1>7 DEF Restore, At, Keeping, Actors, Hands, ControlOK, Held
  <2>2. ~InQueue(hand[a])
    BY <1>k, <2>1 DEF Apart
  <2>3. /\ \A x : InQueue(x)' <=> InQueue(x) \/ x = hand[a]
        /\ Distinct'
    BY <1>7, <1>k, <2>1, <2>2, Added, AddedOnce DEF Restore, StoreOK
  <2>4. Alone' /\ \A x : Held(x)' <=> Held(x) /\ x # hand[a]
    <3>1. Goto(a, "idle", None) /\ "idle" \notin Keeping
      BY <1>7 DEF Restore, Done, Keeping
    <3> QED BY <1>a, <1>k, <2>1, <3>1, HeldMoves
  <2>5. /\ UNCHANGED <<slot, seen, closed>> /\ pc'["tool"] = pc["tool"]
        /\ hand'["tool"] = hand["tool"]
    BY <1>7 DEF Restore, Done, Goto, ControlOK, Actors, history
  <2>6. (\A x : InSlot(x)' <=> InSlot(x)) /\ (\A x : Moving(x)' <=> Moving(x))
    BY <2>5 DEF InSlot, Moving
  <2> QED BY <1>k, <2>1, <2>3, <2>4, <2>5, <2>6 DEF Apart, Waits
<1>8. CASE UserAsks
  <2>1. CASE ResumeQueued
    <3>1. Goto("user", "taking", Head(queue)) /\ pc["user"] = "idle"
      BY <2>1 DEF ResumeQueued, Begins, At
    <3>2. Alone' /\ \A x : Held(x)' <=> Held(x)
      <4>1. "taking" \notin Keeping /\ pc["user"] \notin Keeping
        BY <3>1 DEF Keeping
      <4> QED BY <1>a, <1>k, <3>1, <4>1, HeldMoves
    <3>3. /\ UNCHANGED <<slot, queue, seen, closed>> /\ pc'["tool"] = pc["tool"]
          /\ hand'["tool"] = hand["tool"]
      BY <2>1 DEF ResumeQueued, Goto, ControlOK, Actors, history
    <3>4. /\ Distinct' /\ \A x : InQueue(x)' <=> InQueue(x)
          /\ \A x : InSlot(x)' <=> InSlot(x)
          /\ \A x : Moving(x)' <=> Moving(x)
      BY <1>k, <3>3, QueueStays DEF Distinct, InSlot, Moving
    <3> QED BY <1>k, <3>2, <3>3, <3>4 DEF Apart, Waits
  <2>2. ASSUME NEW g \in Work, QueueUp(g)
        PROVE  Alone' /\ Distinct' /\ Apart'
    <3>1. /\ g \notin known /\ (Front(g) \/ Back(g))
          /\ UNCHANGED <<slot, pc, hand, seen, closed>>
      BY <2>2 DEF QueueUp
    <3>2. ~InQueue(g) /\ ~Held(g) /\ ~InSlot(g) /\ g \notin closed
      BY <1>k, <3>1 DEF Waits, StoreOK
    <3>3. /\ \A x : InQueue(x)' <=> InQueue(x) \/ x = g
          /\ Distinct'
      BY <1>0, <1>k, <3>1, <3>2, Added, AddedOnce DEF StoreOK
    <3>4. /\ Alone' /\ \A x : Held(x)' <=> Held(x)
          /\ \A x : InSlot(x)' <=> InSlot(x)
          /\ \A x : Moving(x)' <=> Moving(x)
      BY <1>k, <3>1, HandsStay DEF Alone, InSlot, Moving
    <3> QED BY <1>k, <3>1, <3>2, <3>3, <3>4 DEF Apart, Waits
  <2> QED BY <1>0, <1>3, <1>8, <2>1, <2>2 DEF UserAsks, Arm, Begins
<1>9. CASE ToolAsks
  <2>0. ASSUME pc["tool"] = "idle"
        PROVE  seen = None /\ hand["tool"] = None /\ "idle" \notin Keeping
               /\ \A x \in known : ~Moving(x)
    BY <1>a, <2>0 DEF Hands, Keeping, Moving
  <2>1. CASE Complete
    <3>1. /\ slot # None /\ slot' = None /\ pc["tool"] = "idle"
          /\ closed' = closed \cup {slot.goal}
          /\ UNCHANGED <<queue, pc, hand, seen>>
      BY <2>1 DEF Complete, Holds, Ends, Begins, At
    <3>2. (\A x : ~InSlot(x)') /\ InSlot(slot.goal)
      BY <3>1 DEF InSlot
    <3>3. ~Waits(slot.goal)
      BY <1>k, <2>0, <3>1, <3>2 DEF Apart
    <3>4. /\ Alone' /\ Distinct' /\ \A x : Waits(x)' <=> Waits(x)
          /\ \A x : Held(x)' <=> Held(x)
          /\ \A x : InQueue(x)' <=> InQueue(x)
          /\ \A x : Moving(x)' <=> Moving(x)
      BY <1>k, <3>1, QueueStays, HandsStay DEF Alone, Distinct, Waits, Moving
    <3> QED BY <1>k, <2>0, <3>1, <3>2, <3>3, <3>4 DEF Apart
  <2>2. CASE Postpone
    <3>1. /\ pc["tool"] = "idle" /\ slot # None /\ seen' = slot.goal
          /\ pc' = [pc EXCEPT !["tool"] = "postponing"]
          /\ UNCHANGED <<slot, queue, hand, closed>>
      BY <2>2 DEF Postpone, Begins, At, Looks, history
    <3>2. Alone' /\ \A x : Held(x)' <=> Held(x)
      <4>1. "postponing" \notin Keeping
        BY DEF Keeping
      <4> QED BY <1>a, <1>k, <2>0, <3>1, <4>1, ToolStays
    <3>3. /\ Distinct' /\ \A x : InQueue(x)' <=> InQueue(x)
          /\ \A x : InSlot(x)' <=> InSlot(x)
          /\ \A x : x = slot.goal => InSlot(x)
      BY <1>k, <3>1, QueueStays DEF Distinct, InSlot
    <3>4. \A x \in known : ~Moving(x)
      BY <2>0, <3>1
    <3> QED BY <1>k, <2>0, <3>1, <3>2, <3>3, <3>4 DEF Apart, Waits
  <2>3. CASE Block
    <3>1. /\ slot # None /\ SetStatus("blocked") /\ pc["tool"] = "idle"
          /\ UNCHANGED <<queue, hand, closed>>
          /\ \/ UNCHANGED <<pc, seen>>
             \/ seen' = slot.goal /\ pc' = [pc EXCEPT !["tool"] = "requeueing"]
      BY <2>3 DEF Block, Begins, At, Holds, Looks, history
    <3>2. (\A x : InSlot(x)' <=> InSlot(x)) /\ (\A x : x = slot.goal => InSlot(x))
      BY <1>0, <1>1, <3>1 DEF InSlot
    <3>3. CASE UNCHANGED <<pc, seen>>
      BY <1>k, <3>1, <3>2, <3>3, OnceStays
    <3>4. CASE seen' = slot.goal /\ pc' = [pc EXCEPT !["tool"] = "requeueing"]
      <4>1. Alone' /\ \A x : Held(x)' <=> Held(x)
        <5>1. "requeueing" \notin Keeping
          BY DEF Keeping
        <5> QED BY <1>a, <1>k, <2>0, <3>1, <3>4, <5>1, ToolStays
      <4>2. Distinct' /\ \A x : InQueue(x)' <=> InQueue(x)
        BY <1>k, <3>1, QueueStays DEF Distinct
      <4>3. \A x \in known : ~Moving(x)
        BY <2>0, <3>1
      <4> QED BY <1>k, <2>0, <3>1, <3>2, <3>4, <4>1, <4>2, <4>3 DEF Apart, Waits
    <3> QED BY <3>1, <3>3, <3>4
  <2>4. ASSUME NEW g \in Work, FindsAGoal(g)
        PROVE  Alone' /\ Distinct' /\ Apart'
    <3>1. /\ pc["tool"] = "idle" /\ Goto("tool", "adding", g) /\ g \notin known
          /\ UNCHANGED <<slot, queue, seen, closed>>
      BY <2>4 DEF FindsAGoal, Begins, At
    <3>2. ~InQueue(g) /\ ~Held(g) /\ ~InSlot(g) /\ g \notin closed
      BY <1>k, <3>1 DEF Waits, StoreOK
    <3>3. Alone' /\ \A x : Held(x)' <=> Held(x) \/ x = g
      <4>1. "adding" \in Keeping
        BY DEF Keeping
      <4> QED BY <1>a, <1>k, <2>0, <3>1, <3>2, <4>1, HeldMoves
    <3>4. /\ Distinct' /\ \A x : InQueue(x)' <=> InQueue(x)
          /\ \A x : InSlot(x)' <=> InSlot(x)
      BY <1>k, <3>1, QueueStays DEF Distinct, InSlot
    <3> QED BY <1>k, <2>0, <3>1, <3>2, <3>3, <3>4 DEF Apart, Waits
  <2>5. ASSUME NEW g \in Goals, Promote(g)
        PROVE  Alone' /\ Distinct' /\ Apart'
    <3>1. /\ pc["tool"] = "idle" /\ Goto("tool", "swapping", g) /\ InQueue(g)
          /\ queue' = Without(queue, g)
          /\ UNCHANGED <<slot, seen, closed>>
      BY <2>5 DEF Promote, Begins, At, history
    <3>2. Distinct' /\ ~InQueue(g)'
      BY <1>k, <3>1, RemovedOnce DEF StoreOK
    <3>3. \A x : InQueue(x)' => InQueue(x)
      BY <1>k, <3>1, Removed DEF StoreOK
    <3>4. Alone' /\ \A x : Held(x)' <=> Held(x) \/ x = g
      <4>1. "swapping" \in Keeping /\ ~Held(g)
        BY <1>k, <3>1 DEF Keeping, Apart
      <4> QED BY <1>a, <1>k, <2>0, <3>1, <4>1, HeldMoves
    <3>5. \A x : InSlot(x)' <=> InSlot(x)
      BY <3>1 DEF InSlot
    <3>6. ~InSlot(g) /\ g \notin closed
      BY <1>k, <2>0, <3>1 DEF Apart, Waits
    <3> QED BY <1>k, <2>0, <3>1, <3>2, <3>3, <3>4, <3>5, <3>6 DEF Apart, Waits
  <2> QED BY <1>3, <1>9, <2>1, <2>2, <2>3, <2>4, <2>5 DEF ToolAsks
<1>10. CASE UserGoesOn
  BY <1>4, <1>5, <1>6, <1>7, <1>10 DEF UserGoesOn
<1>11. CASE ToolGoesOn
  <2>1. CASE Enqueue
    <3>1. /\ pc["tool"] = "adding" /\ pc["tool"] \in Keeping
          /\ hand["tool"] \in Goals /\ Held(hand["tool"]) /\ seen = None
      BY <1>a, <2>1 DEF Enqueue, At, Keeping, Hands, ControlOK, Held
    <3>2. ~InQueue(hand["tool"])
      BY <1>k, <3>1 DEF Apart
    <3>3. /\ \A x : InQueue(x)' <=> InQueue(x) \/ x = hand["tool"]
          /\ Distinct'
      BY <1>k, <2>1, <3>1, <3>2, Added, AddedOnce DEF Enqueue, StoreOK
    <3>4. Alone' /\ \A x : Held(x)' <=> Held(x) /\ x # hand["tool"]
      <4>1. Goto("tool", "idle", None) /\ "idle" \notin Keeping
        BY <2>1 DEF Enqueue, Done, Keeping
      <4> QED BY <1>a, <1>k, <3>1, <4>1, HeldMoves
    <3>5. /\ UNCHANGED <<slot, seen, closed>> /\ hand'["tool"] = None
      BY <2>1 DEF Enqueue, Done, Goto, ControlOK, Actors, history
    <3>6. (\A x : InSlot(x)' <=> InSlot(x)) /\ \A x \in known : ~Moving(x)
      BY <1>k, <3>1, <3>5 DEF InSlot, Moving
    <3> QED BY <1>k, <3>1, <3>2, <3>3, <3>4, <3>5, <3>6 DEF Apart, Waits
  <2>2. CASE Requeue
    <3>1. /\ seen \in Goals /\ pc["tool"] \notin Keeping
          /\ pc["tool"] \in {"postponing", "requeueing"}
      BY <2>2 DEF Requeue, At, Hands, ControlOK, Keeping
    <3>2. InSlot(seen) /\ ~Moving(seen)
      BY <1>k, <3>1, GoalsOK DEF Apart, Moving
    <3>3. ~InQueue(seen) /\ ~Held(seen) /\ seen \notin closed
      BY <1>k, <3>2 DEF Apart, Waits
    <3>4. /\ \A x : InQueue(x)' <=> InQueue(x) \/ x = seen
          /\ Distinct'
      BY <1>k, <2>2, <3>1, <3>3, Added, AddedOnce DEF Requeue, StoreOK
    <3>5. /\ Goto("tool", "clearing", None) \/ Goto("tool", "unseating", None)
          /\ UNCHANGED <<slot, seen, closed>>
      BY <2>2 DEF Requeue, history
    <3>6. Alone' /\ \A x : Held(x)' <=> Held(x)
      <4>1. "clearing" \notin Keeping /\ "unseating" \notin Keeping
        BY DEF Keeping
      <4> QED BY <1>a, <1>k, <3>1, <3>5, <4>1, HeldMoves
    <3>7. /\ hand'["tool"] = None /\ pc'["tool"] \in {"clearing", "unseating"}
          /\ \A x : InSlot(x)' <=> InSlot(x)
      BY <1>k, <3>5 DEF Goto, ControlOK, Actors, InSlot
    <3>8. (\A x : Moving(x)' <=> x = seen) /\ \A x : ~Moving(x)
      BY <3>1, <3>5, <3>7 DEF Moving
    <3> QED BY <1>k, <3>2, <3>3, <3>4, <3>5, <3>6, <3>7, <3>8 DEF Apart, Waits
  <2>3. CASE Unseat
    <3>1. /\ pc["tool"] \in {"clearing", "unseating"} /\ seen' = None
          /\ Goto("tool", "idle", None) \/ Goto("tool", "spawning", None)
          /\ slot' = None
          /\ UNCHANGED <<queue, closed>>
      BY <2>3 DEF Unseat, Clear, Done
    <3>2. Alone' /\ \A x : Held(x)' <=> Held(x)
      <4>1. "idle" \notin Keeping /\ "spawning" \notin Keeping /\ pc["tool"] \notin Keeping
        BY <3>1 DEF Keeping
      <4> QED BY <1>a, <1>k, <3>1, <4>1, HeldMoves
    <3>3. InSlot(seen) /\ \A x : Moving(x) => x = seen
      BY <1>k, <3>1 DEF Hands, Apart, Moving
    <3>4. /\ Distinct' /\ \A x : InQueue(x)' <=> InQueue(x)
          /\ hand'["tool"] = None /\ \A x : ~InSlot(x)'
      BY <1>k, <3>1, QueueStays DEF Distinct, InSlot, Goto, ControlOK, Actors
    <3>5. seen \in closed => ~Waits(seen)
      BY <1>k, <3>3 DEF Apart
    <3> QED BY <1>k, <3>1, <3>2, <3>3, <3>4, <3>5 DEF Apart, Waits
  <2>4. CASE LookToDemote
    <3>1. /\ pc["tool"] = "swapping" /\ hand' = hand /\ seen = None
          /\ \/ slot = None /\ pc' = [pc EXCEPT !["tool"] = "replacing"] /\ seen' = seen
             \/ slot # None /\ pc' = [pc EXCEPT !["tool"] = "demoting"] /\ seen' = slot.goal
          /\ UNCHANGED <<slot, queue, closed>>
      BY <2>4 DEF LookToDemote, At, Looks, Hands, history
    <3>2. Alone' /\ \A x : Held(x)' <=> Held(x)
      <4>1. "swapping" \in Keeping /\ "replacing" \in Keeping /\ "demoting" \in Keeping
        BY DEF Keeping
      <4> QED BY <1>a, <1>k, <3>1, <4>1, ToolStays
    <3>3. /\ Distinct' /\ \A x : InQueue(x)' <=> InQueue(x)
          /\ \A x : InSlot(x)' <=> InSlot(x)
          /\ slot # None => InSlot(slot.goal)
      BY <1>k, <3>1, QueueStays DEF Distinct, InSlot
    <3>4. \A x \in known : ~Moving(x)
      BY <1>k, <3>1 DEF Moving
    <3>5. Held(hand["tool"])
      BY <1>a, <3>1 DEF Held, Keeping
    <3>6. slot # None => slot.goal # hand["tool"]
      BY <1>k, <3>3, <3>4, <3>5 DEF Apart, Waits
    <3> QED BY <1>k, <3>1, <3>2, <3>3, <3>4, <3>6 DEF Apart, Waits
  <2>5. CASE Demote
    <3>1. seen \in Goals /\ pc["tool"] = "demoting"
      BY <2>5 DEF Demote, At, Hands, ControlOK
    <3>2. InSlot(seen) /\ \A x : ~Moving(x)
      BY <1>k, <3>1, GoalsOK DEF Apart, Moving
    <3>3. ~InQueue(seen) /\ ~Held(seen) /\ seen \notin closed
      BY <1>k, <3>2 DEF Apart, Waits
    <3>4. /\ \A x : InQueue(x)' <=> InQueue(x) \/ x = seen
          /\ Distinct'
      BY <1>k, <2>5, <3>1, <3>3, Added, AddedOnce DEF Demote, StoreOK
    <3>5. /\ pc' = [pc EXCEPT !["tool"] = "replacing"]
          /\ UNCHANGED <<slot, hand, seen, closed>>
      BY <2>5 DEF Demote, history
    <3>6. Alone' /\ \A x : Held(x)' <=> Held(x)
      <4>1. "demoting" \in Keeping /\ "replacing" \in Keeping
        BY DEF Keeping
      <4> QED BY <1>a, <1>k, <3>1, <3>5, <4>1, ToolStays
    <3>7. (\A x : InSlot(x)' <=> InSlot(x)) /\ (\A x : Moving(x)' <=> x = seen)
      BY <1>a, <1>k, <3>5 DEF InSlot, Moving, ControlOK
    <3> QED BY <1>k, <3>2, <3>3, <3>4, <3>5, <3>6, <3>7 DEF Apart, Waits
  <2>6. CASE ReplaceByPromoted
    <3>1. /\ pc["tool"] = "replacing" /\ pc["tool"] \in Keeping
          /\ hand["tool"] \in Goals /\ Held(hand["tool"]) /\ hand["tool"] # None
      BY <1>a, <2>6, GoalsOK
         DEF ReplaceByPromoted, At, Keeping, Hands, ControlOK, Held
    <3>2. /\ slot' = Active(hand["tool"]) /\ seen' = None
          /\ Goto("tool", "idle", None) /\ UNCHANGED <<queue, closed>>
      BY <2>6 DEF ReplaceByPromoted, Replace, Done
    <3>3. Alone' /\ \A x : Held(x)' <=> Held(x) /\ x # hand["tool"]
      <4>1. "idle" \notin Keeping
        BY DEF Keeping
      <4> QED BY <1>a, <1>k, <3>1, <3>2, <4>1, HeldMoves
    <3>4. \A x : InSlot(x)' <=> x = hand["tool"]
      BY <1>2, <3>1, <3>2
    <3>5. /\ hand["tool"] # seen /\ \A x : Moving(x) => x = seen
          /\ seen # None => InSlot(seen)
      BY <1>k, <3>1 DEF Apart, Moving
    <3>6. ~InQueue(hand["tool"]) /\ hand["tool"] \notin closed
      BY <1>k, <3>1, <3>5 DEF Apart, Waits
    <3>7. seen \in closed => ~Waits(seen)
      BY <1>k, <3>5 DEF Apart, StoreOK
    <3>8. /\ Distinct' /\ \A x : InQueue(x)' <=> InQueue(x)
          /\ hand'["tool"] = None
      BY <1>k, <3>2, QueueStays DEF Distinct, Goto, ControlOK, Actors
    <3> QED BY <1>k, <3>2, <3>3, <3>4, <3>5, <3>6, <3>7, <3>8 DEF Apart, Waits
  <2>7. ASSUME NEW p \in Probes, Spawn(p)
        PROVE  Alone' /\ Distinct' /\ Apart'
    <3>1. /\ pc["tool"] = "spawning" /\ Goto("tool", "idle", None) /\ p \notin known
          /\ UNCHANGED <<queue, seen, closed>> /\ seen = None
          /\ \/ slot = None /\ slot' = Active(p)
             \/ UNCHANGED slot
      BY <2>7 DEF Spawn, At, Done, Hands
    <3>2. Alone' /\ \A x : Held(x)' <=> Held(x)
      <4>1. "idle" \notin Keeping /\ pc["tool"] \notin Keeping
        BY <3>1 DEF Keeping
      <4> QED BY <1>a, <1>k, <3>1, <4>1, HeldMoves
    <3>3. /\ Distinct' /\ \A x : InQueue(x)' <=> InQueue(x)
          /\ hand'["tool"] = None
      BY <1>k, <3>1, QueueStays DEF Distinct, Goto, ControlOK, Actors
    <3>4. ~Waits(p) /\ p \notin closed /\ \A x \in known : ~Moving(x)
      BY <1>k, <3>1 DEF StoreOK, Moving
    <3>5. \/ \A x : InSlot(x)' <=> x = p
          \/ \A x : InSlot(x)' <=> InSlot(x)
      BY <1>0, <1>2, <3>1 DEF InSlot
    <3> QED BY <1>k, <3>1, <3>2, <3>3, <3>4, <3>5 DEF Apart, Waits
  <2> QED BY <1>4, <1>11, <2>1, <2>2, <2>3, <2>4, <2>5, <2>6, <2>7 DEF ToolGoesOn
<1>12. CASE Forwards
  <2>1. CASE HearCompleted
    BY <1>k, <2>1, OnceStays DEF HearCompleted, history, InSlot
  <2>2. CASE HearCleared
    <3>1. /\ pc["forwarder"] = "idle"
          /\ \/ UNCHANGED <<pc, hand>>
             \/ Goto("forwarder", "taking", Head(queue))
          /\ UNCHANGED <<slot, queue, seen, closed>>
      BY <2>2 DEF HearCleared, At
    <3>2. CASE UNCHANGED <<pc, hand>>
      BY <1>k, <3>1, <3>2, OnceStays DEF InSlot
    <3>3. CASE Goto("forwarder", "taking", Head(queue))
      <4>1. Alone' /\ \A x : Held(x)' <=> Held(x)
        <5>1. "taking" \notin Keeping /\ pc["forwarder"] \notin Keeping
          BY <3>1 DEF Keeping
        <5> QED BY <1>a, <1>k, <3>3, <5>1, HeldMoves
      <4>2. pc'["tool"] = pc["tool"] /\ hand'["tool"] = hand["tool"]
        BY <3>3 DEF Goto, ControlOK, Actors
      <4>3. /\ Distinct' /\ \A x : InQueue(x)' <=> InQueue(x)
            /\ \A x : InSlot(x)' <=> InSlot(x)
            /\ \A x : Moving(x)' <=> Moving(x)
        BY <1>k, <3>1, <4>2, QueueStays DEF Distinct, InSlot, Moving
      <4> QED BY <1>k, <3>1, <4>1, <4>2, <4>3 DEF Apart, Waits
    <3> QED BY <3>1, <3>2, <3>3
  <2>3. CASE Park
    BY <1>k, <2>3 DEF Park, At, Calm
  <2> QED BY <1>5, <1>6, <1>7, <1>12, <2>1, <2>2, <2>3 DEF Forwards
<1>13. CASE DrainTakes \/ DrainSends \/ UNCHANGED vars
  BY <1>k, <1>13, OnceStays DEF DrainTakes, DrainSends, vars, history, InSlot
<1> QED BY <1>8, <1>9, <1>10, <1>11, <1>12, <1>13 DEF Next, Publishes

\* A goal that is in one of the places is there once, and in one place.
LEMMA CopiesCount ==
  ASSUME Distinct, Alone, Apart, NEW g
  PROVE  Copies(g) <= (IF g \in closed THEN 0 ELSE 1) \/ Moving(g)
<1> DEFINE Q == {i \in DOMAIN queue : queue[i] = g}
           A == {a \in Actors : pc[a] \in Keeping /\ hand[a] = g}
<1>1. Copies(g) = Cardinality(Q) + Cardinality(A) + (IF InSlot(g) THEN 1 ELSE 0)
  BY DEF Copies
<1>2. Cardinality(Q) = (IF InQueue(g) THEN 1 ELSE 0)
  <2>1. CASE InQueue(g)
    <3>1. PICK i \in DOMAIN queue : queue[i] = g
      BY <2>1 DEF InQueue
    <3>2. Q = {i}
      BY <3>1 DEF Distinct
    <3> QED BY <2>1, <3>2, FS_Singleton
  <2>2. CASE ~InQueue(g)
    <3>1. Q = {}
      BY <2>2 DEF InQueue
    <3> QED BY <2>2, <3>1, FS_EmptySet
  <2> QED BY <2>1, <2>2
<1>3. Cardinality(A) = (IF Held(g) THEN 1 ELSE 0)
  <2>1. CASE Held(g)
    <3>1. PICK a \in Actors : pc[a] \in Keeping /\ hand[a] = g
      BY <2>1 DEF Held
    <3>2. A = {a}
      BY <3>1 DEF Alone
    <3> QED BY <2>1, <3>2, FS_Singleton
  <2>2. CASE ~Held(g)
    <3>1. A = {}
      BY <2>2 DEF Held
    <3> QED BY <2>2, <3>1, FS_EmptySet
  <2> QED BY <2>1, <2>2
<1> HIDE DEF Q, A
<1>4. /\ ~(InQueue(g) /\ Held(g))
      /\ InSlot(g) /\ (InQueue(g) \/ Held(g)) => Moving(g)
      /\ g \in closed => ~InQueue(g) /\ ~Held(g) /\ (InSlot(g) => Moving(g))
  BY DEF Apart, Waits
<1> QED BY <1>1, <1>2, <1>3, <1>4

-----------------------------------------------------------------------------
(* Theorems *)

Inv == TypeOK /\ KnownInv /\ Hands /\ Custody /\ ParksInv

\* Initially all goals are nowhere.
LEMMA InitInv == Init => Inv
<1> SUFFICES ASSUME Init PROVE Inv
  OBVIOUS
<1>1. /\ slot = None /\ queue = <<>> /\ bus = <<>> /\ backlog = <<>>
      /\ sending = None /\ draining = FALSE
      /\ pc = [a \in Actors |-> "idle"] /\ hand = [a \in Actors |-> None] /\ seen = None
      /\ armed = FALSE /\ parks = FALSE /\ spawns = 0
      /\ known = {} /\ closed = {} /\ cancelled = FALSE /\ parked = {} /\ unseen = {}
  BY DEF Init
<1>2. TypeOK
  <2>1. 0 \in 0 .. MaxSpawns
    BY GoalsOK
  <2>2. "idle" \in Steps /\ <<>> \in Seq(Goals) /\ <<>> \in Seq(Events)
    BY DEF Steps
  <2>3. pc \in [Actors -> Steps] /\ hand \in [Actors -> Goals \cup {None}]
    BY <1>1, <2>2
  <2> QED BY <1>1, <2>1, <2>2, <2>3 DEF TypeOK
<1>3. \A x : ~InQueue(x)
  BY <1>1 DEF InQueue
<1>4. KnownInv
  BY <1>1, <1>3 DEF KnownInv
<1>5. Hands
  BY <1>1 DEF Hands, Actors, Keeping
<1>6. Custody
  BY <1>1 DEF Custody, Looked, Copied, NothingLost
<1>7. ParksInv
  BY <1>1 DEF ParksInv, Holds
<1> QED BY <1>2, <1>4, <1>5, <1>6, <1>7 DEF Inv

\* Every step keeps the invariant.
LEMMA NextInv == Inv /\ [Next]_vars => Inv'
<1> SUFFICES ASSUME Inv, [Next]_vars PROVE Inv'
  OBVIOUS
<1>1. TypeOK /\ KnownInv /\ Hands /\ Custody /\ ParksInv
  BY DEF Inv
<1>2. FeedOK'
  BY <1>1, FeedType
<1>3. ControlOK' /\ Hands'
  BY <1>1, ControlType
<1>4. StoreOK' /\ KnownInv'
  BY <1>1, StoreType
<1>5. TypeOK'
  BY <1>2, <1>3, <1>4 DEF TypeOK, FeedOK, ControlOK, StoreOK
<1>6. Custody'
  BY <1>1, CustodyStep
<1>7. ParksInv'
  BY <1>1, ParksStep
<1> QED BY <1>3, <1>4, <1>5, <1>6, <1>7 DEF Inv

\* The invariant of custody and parking holds whatever the user and the
\* model ask for.
THEOREM InvHolds == Spec => []Inv
BY InitInv, NextInv, PTL DEF Spec

\* Every variable has its type: the actors know where they are, the feed
\* carries goal events, and only goals that were accepted are closed, parked
\* or thrown out.
THEOREM TypeCorrect == Spec => []TypeOK
<1>1. Inv => TypeOK
  BY DEF Inv
<1> QED BY <1>1, InvHolds, PTL

\* An accepted goal is in the slot, in the queue or in an operation's hands
\* until somebody ends it, or a tool call throws it out unseen, for any
\* commands, any number of goals, and any order in which the tool, the user
\* and the forwarder take their turns.
THEOREM NothingLostHolds == Spec => []NothingLost
<1>1. Inv => NothingLost
  BY DEF Inv, Custody
<1> QED BY <1>1, InvHolds, PTL

\* A goal promoted after a cancel is not worked on until somebody resumes it.
THEOREM ParkedWaitsHolds == Spec => []ParkedWaits
<1>1. Inv => ParkedWaits
  BY DEF Inv, ParksInv, ParkedWaits, At
<1> QED BY <1>1, InvHolds, PTL

\* No goal is in two places outside the tool's own move, and none that was
\* completed or deleted is in any, whatever the numbers of goals, as long as
\* nobody cancels or replaces the goal in the slot, or arms its pause: those
\* commands may end a goal between the tool's look and its copy, or send a
\* promoted goal back to the queue that the tool has blocked meanwhile.
THEOREM RunsOnceHolds ==
  ASSUME Commands \cap Endings = {}
  PROVE  Spec => []RunsOnce
<1>1. Init => Inv /\ Once
  <2> SUFFICES ASSUME Init PROVE Inv /\ Once
    OBVIOUS
  <2>1. /\ slot = None /\ queue = <<>> /\ bus = <<>> /\ backlog = <<>> /\ sending = None
        /\ pc = [a \in Actors |-> "idle"] /\ hand = [a \in Actors |-> None] /\ seen = None
        /\ armed = FALSE /\ parks = FALSE /\ closed = {}
    BY DEF Init
  <2>2. (\A x : ~InQueue(x)) /\ Distinct
    BY <2>1 DEF InQueue, Distinct
  <2>3. (\A x : ~Held(x)) /\ Alone
    BY <2>1 DEF Held, Alone, Actors, Keeping
  <2>4. Apart
    BY <2>1, <2>2, <2>3 DEF Apart, InSlot, Waits, Actors
  <2>5. Calm
    <3>1. bus \in Seq(MildEvents) /\ backlog \in Seq(MildEvents)
      BY <2>1
    <3> QED BY <2>1, <3>1 DEF Calm, Actors
  <2> QED BY <2>2, <2>3, <2>4, <2>5, InitInv DEF Once
<1>2. Inv /\ Once /\ [Next]_vars => Inv' /\ Once'
  <2> SUFFICES ASSUME Inv, Once, [Next]_vars PROVE Inv' /\ Once'
    OBVIOUS
  <2>1. Inv' /\ TypeOK /\ KnownInv /\ Hands /\ Calm
    BY NextInv DEF Inv, Once
  <2>2. Calm'
    BY <2>1, CalmStep
  <2>3. Alone' /\ Distinct' /\ Apart'
    BY <2>1, OnceStep
  <2> QED BY <2>1, <2>2, <2>3 DEF Once
<1>3. Once => RunsOnce
  BY CopiesCount DEF Once, RunsOnce
<1> QED BY <1>1, <1>2, <1>3, PTL DEF Spec
=============================================================================
