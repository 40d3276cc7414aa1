-------------------------- MODULE AgentPoolProofs ---------------------------
(***************************************************************************)
(* The counters of the agent pool are exact, its caps hold and its queue   *)
(* of waiters is sound, for every set of callers, every models and caps.   *)
(*                                                                         *)
(* Three kinds of steps matter: one caller becomes a holder and is billed, *)
(* one holder leaves and its bill is taken back, or the holders and the    *)
(* counters stay.  The lemmas say which step is of which kind; the rest is *)
(* counting.  The counters need nothing of the queue: a lost or a stale    *)
(* signal cannot make one wrong.  The queue is the last part: what a push, *)
(* a pop and a removal from the middle do to the places of the waiters.    *)
(* The lemmas about room in the pool are for the runs that wait for it.    *)
(***************************************************************************)
EXTENDS AgentPool, FiniteSetTheorems, SequenceTheorems, TLAPS

\* TypeOK without the queue, and the counters' meaning.
PoolInv ==
  /\ total \in Nat
  /\ perModel \in [Models -> Nat]
  /\ at \in [Callers -> Places]
  /\ CountsExact

\* The set of holders is finite, and so is the set of holders of a model.
LEMMA HoldersFinite ==
  /\ IsFiniteSet(Holders) /\ Cardinality(Holders) \in Nat
  /\ \A m : IsFiniteSet(HoldersOf(m)) /\ Cardinality(HoldersOf(m)) \in Nat
<1>1. IsFiniteSet(Holders)
  BY PoolOK, FS_Subset DEF Holders
<1>2. ASSUME NEW m PROVE IsFiniteSet(HoldersOf(m))
  BY <1>1, FS_Subset DEF HoldersOf
<1> QED BY <1>1, <1>2, FS_CardinalityType

\* A reservation makes its caller, which had no slot, a holder.
LEMMA ReserveTakes ==
  ASSUME PoolInv, NEW c \in Callers, Reserve(c)
  PROVE  /\ c \notin Holders /\ Holders' = Holders \cup {c}
         /\ \A m : HoldersOf(m)' = IF ModelOf[c] = m THEN HoldersOf(m) \cup {c}
                                   ELSE HoldersOf(m)
<1>1. c \notin Holders /\ Holders' = Holders \cup {c}
  BY DEF PoolInv, Reserve, Holders, Places
<1> QED BY <1>1 DEF HoldersOf

\* A rollback or a release takes exactly its caller out of the holders; the
\* sleeper it may wake was no holder and is none yet.
LEMMA ReleaseGives ==
  ASSUME PoolInv, NEW c \in Callers, at[c] \in {"reserved", "live"},
         ReleaseLocked(c)
  PROVE  /\ c \in Holders /\ Holders' = Holders \ {c}
         /\ \A m : HoldersOf(m)' = IF ModelOf[c] = m THEN HoldersOf(m) \ {c}
                                   ELSE HoldersOf(m)
<1>1. c \in Holders
  BY DEF Holders
<1>2. ASSUME NEW d \in Callers
      PROVE  at'[d] \in {"reserved", "live"} <=> d # c /\ at[d] \in {"reserved", "live"}
  BY <1>2 DEF ReleaseLocked, Signalled
<1>3. Holders' = Holders \ {c}
  BY <1>2 DEF Holders
<1> QED BY <1>1, <1>3 DEF HoldersOf

\* The steps of a caller that waits, and the birth of its agent, change no
\* slot and no counter.
LEMMA WaitingKeeps ==
  ASSUME PoolInv, NEW c \in Callers,
         Enqueue(c) \/ Park(c) \/ GiveUp(c) \/ CancelWaiter(c) \/ Built(c)
  PROVE  /\ UNCHANGED <<total, perModel, Holders>>
         /\ \A m : HoldersOf(m)' = HoldersOf(m)
<1>1. UNCHANGED <<total, perModel>>
  BY DEF Enqueue, Park, GiveUp, CancelWaiter, Built
<1>2. ASSUME NEW d \in Callers
      PROVE  at'[d] \in {"reserved", "live"} <=> at[d] \in {"reserved", "live"}
  BY <1>2 DEF PoolInv, Enqueue, Park, GiveUp, CancelWaiter, Built, Places
<1>3. Holders' = Holders
  BY <1>2 DEF Holders
<1> QED BY <1>1, <1>3 DEF HoldersOf

\* Places are kept by every step.
LEMMA PlacesKept ==
  ASSUME PoolInv, NEW c \in Callers, Step(c)
  PROVE  at' \in [Callers -> Places]
BY DEF PoolInv, Step, Reserve, Enqueue, Park, GiveUp, CancelWaiter, Built,
       BuildFails, Release, ReleaseLocked, Signalled, Places

LEMMA PoolInvInit == Init => PoolInv
<1> SUFFICES ASSUME Init PROVE PoolInv
  OBVIOUS
<1>1. Holders = {} /\ \A m : HoldersOf(m) = {}
  BY DEF Init, PoolInit, Holders, HoldersOf
<1> QED BY <1>1, FS_EmptySet DEF Init, PoolInit, PoolInv, CountsExact, Places

\* A reservation bills both counters of its caller once.
LEMMA ReserveCounts ==
  ASSUME PoolInv, NEW c \in Callers, Reserve(c)
  PROVE  PoolInv'
<1>1. /\ c \notin Holders /\ Holders' = Holders \cup {c}
      /\ \A m : HoldersOf(m)' = IF ModelOf[c] = m THEN HoldersOf(m) \cup {c}
                                ELSE HoldersOf(m)
  BY ReserveTakes
<1>2. ModelOf[c] \in Models
  BY PoolOK
<1>3. total' \in Nat /\ perModel' \in [Models -> Nat]
  BY <1>2 DEF PoolInv, Reserve
<1>4. at' \in [Callers -> Places]
  BY PlacesKept DEF Step
<1>5. total' = Cardinality(Holders')
  BY <1>1, HoldersFinite, FS_AddElement DEF PoolInv, CountsExact, Reserve
<1>6. ASSUME NEW m \in Models PROVE perModel'[m] = Cardinality(HoldersOf(m)')
  <2>1. CASE ModelOf[c] = m
    <3>1. c \notin HoldersOf(m)
      BY <1>1 DEF HoldersOf
    <3>2. Cardinality(HoldersOf(m)') = Cardinality(HoldersOf(m)) + 1
      BY <1>1, <2>1, <3>1, HoldersFinite, FS_AddElement
    <3> QED BY <2>1, <3>2 DEF PoolInv, CountsExact, Reserve
  <2>2. CASE ModelOf[c] # m
    BY <1>1, <2>2 DEF PoolInv, CountsExact, Reserve
  <2> QED BY <2>1, <2>2
<1> QED BY <1>3, <1>4, <1>5, <1>6 DEF PoolInv, CountsExact

\* A rollback or a release takes the bill back; the guards against negative
\* counters never bite, because a holder is counted.
LEMMA ReleaseCounts ==
  ASSUME PoolInv, NEW c \in Callers, at[c] \in {"reserved", "live"},
         ReleaseLocked(c), at' \in [Callers -> Places]
  PROVE  PoolInv'
<1>1. /\ c \in Holders /\ Holders' = Holders \ {c}
      /\ \A m : HoldersOf(m)' = IF ModelOf[c] = m THEN HoldersOf(m) \ {c}
                                ELSE HoldersOf(m)
  BY ReleaseGives
<1>2. ModelOf[c] \in Models
  BY PoolOK
<1>3. total' \in Nat /\ perModel' \in [Models -> Nat]
  BY <1>2 DEF PoolInv, ReleaseLocked, Less
<1>4. total' = Cardinality(Holders')
  <2>1. Cardinality(Holders') = Cardinality(Holders) - 1
    BY <1>1, HoldersFinite, FS_RemoveElement
  <2>2. Cardinality(Holders') \in Nat
    BY <1>1, HoldersFinite, FS_RemoveElement, FS_CardinalityType
  <2> QED BY <2>1, <2>2, HoldersFinite DEF PoolInv, CountsExact, ReleaseLocked, Less
<1>5. ASSUME NEW m \in Models PROVE perModel'[m] = Cardinality(HoldersOf(m)')
  <2>1. CASE ModelOf[c] = m
    <3>1. c \in HoldersOf(m)
      BY <1>1, <2>1 DEF HoldersOf
    <3>2. Cardinality(HoldersOf(m)') = Cardinality(HoldersOf(m)) - 1
      BY <1>1, <2>1, <3>1, HoldersFinite, FS_RemoveElement
    <3>3. Cardinality(HoldersOf(m)') \in Nat
      BY <1>1, <2>1, HoldersFinite, FS_RemoveElement, FS_CardinalityType
    <3>4. perModel'[m] = Less(perModel[m])
      BY <2>1 DEF PoolInv, ReleaseLocked
    <3> QED BY <3>2, <3>3, <3>4, HoldersFinite DEF PoolInv, CountsExact, Less
  <2>2. CASE ModelOf[c] # m
    BY <1>1, <2>2 DEF PoolInv, CountsExact, ReleaseLocked
  <2> QED BY <2>1, <2>2
<1> QED BY <1>3, <1>4, <1>5, <1>1 DEF PoolInv, CountsExact

LEMMA PoolInvNext == PoolInv /\ [Next]_poolVars => PoolInv'
<1> SUFFICES ASSUME PoolInv, [Next]_poolVars PROVE PoolInv'
  OBVIOUS
<1>1. CASE UNCHANGED poolVars
  BY <1>1 DEF PoolInv, CountsExact, Holders, HoldersOf, poolVars
<1>2. ASSUME NEW c \in Callers, Step(c) PROVE PoolInv'
  <2>1. at' \in [Callers -> Places]
    BY <1>2, PlacesKept
  <2>2. CASE Reserve(c)
    BY <2>2, ReserveCounts
  <2>3. CASE BuildFails(c)
    BY <2>1, <2>3, ReleaseCounts DEF BuildFails
  <2>4. CASE Release(c)
    BY <2>1, <2>4, ReleaseCounts DEF Release
  <2>5. CASE Enqueue(c) \/ Park(c) \/ GiveUp(c) \/ CancelWaiter(c) \/ Built(c)
    BY <2>1, <2>5, WaitingKeeps DEF PoolInv, CountsExact
  <2> QED BY <1>2, <2>2, <2>3, <2>4, <2>5 DEF Step
<1> QED BY <1>1, <1>2 DEF Next

\* The inductive invariant of the pool.
THEOREM PoolInvHolds == Spec => []PoolInv
BY PoolInvInit, PoolInvNext, PTL DEF Spec

\* However callers reserve, roll back, give up and release, the counters of
\* pool.go count the reserved and live agents, in all and of each model.
THEOREM CountsExactHolds == Spec => []CountsExact
<1>1. PoolInv => CountsExact
  BY DEF PoolInv
<1> QED BY <1>1, PoolInvHolds, PTL

\* SlotPool's instance counts as FiniteSets does.
LEMMA SameCardinality == \A S : Slots!Cardinality(S) = Cardinality(S)
BY DEF Slots!Cardinality, Cardinality

\* A step of the pool takes one slot that SlotPool allows, gives one back, or
\* changes no slot.
LEMMA StepIsSlotStep == PoolInv /\ [Next]_poolVars => [Slots!Next]_Holders
<1> SUFFICES ASSUME PoolInv, [Next]_poolVars PROVE [Slots!Next]_Holders
  OBVIOUS
<1>1. CASE UNCHANGED poolVars
  BY <1>1 DEF Holders, poolVars
<1>2. ASSUME NEW c \in Callers, Step(c) PROVE [Slots!Next]_Holders
  <2>1. CASE Reserve(c)
    <3>1. c \notin Holders /\ Holders' = Holders \cup {c}
      BY <2>1, ReserveTakes
    <3>2. Slots!Under(TotalCap, Holders)
      BY <2>1, SameCardinality
      DEF Reserve, UnderCaps, Under, Slots!Under, PoolInv, CountsExact
    <3>3. Slots!SameModel(c) = HoldersOf(ModelOf[c])
      BY DEF Slots!SameModel, HoldersOf
    <3>4. perModel[ModelOf[c]] = Cardinality(HoldersOf(ModelOf[c]))
      BY PoolOK DEF PoolInv, CountsExact
    <3>5. Slots!Under(ModelCap[ModelOf[c]], Slots!SameModel(c))
      BY <2>1, <3>3, <3>4, SameCardinality DEF Reserve, UnderCaps, Under, Slots!Under
    <3>6. Slots!Take(c)
      BY <3>1, <3>2, <3>5 DEF Slots!Take
    <3> QED BY <3>6 DEF Slots!Next
  <2>2. CASE BuildFails(c) \/ Release(c)
    <3>1. c \in Holders /\ Holders' = Holders \ {c}
      BY <2>2, ReleaseGives DEF BuildFails, Release
    <3> QED BY <3>1 DEF Slots!Next, Slots!Give
  <2>3. CASE Enqueue(c) \/ Park(c) \/ GiveUp(c) \/ CancelWaiter(c) \/ Built(c)
    BY <2>3, WaitingKeeps
  <2> QED BY <1>2, <2>1, <2>2, <2>3 DEF Step
<1> QED BY <1>1, <1>2 DEF Next

\* No interleaving of the pool's steps exceeds a cap: pool.go implements the
\* promise of SlotPool.
THEOREM KeepsTheCapsHolds == Spec => KeepsTheCaps
<1>1. Init => Slots!Init
  BY DEF Init, PoolInit, Slots!Init, Holders
<1> QED BY <1>1, StepIsSlotStep, PoolInvHolds, PTL DEF Spec, KeepsTheCaps, Slots!Spec
-----------------------------------------------------------------------------
(***************************************************************************)
(* The queue of waiters.                                                   *)
(***************************************************************************)
\* A queue without its entry i: later entries move up by one.
LEMMA RemoveAtEntries ==
  ASSUME NEW s \in Seq(Callers), NEW i \in DOMAIN s
  PROVE  /\ RemoveAt(s, i) \in Seq(Callers)
         /\ \A j \in DOMAIN RemoveAt(s, i) :
               \E k \in DOMAIN s : /\ k = (IF j < i THEN j ELSE j + 1)
                                  /\ RemoveAt(s, i)[j] = s[k]
<1> DEFINE a == SubSeq(s, 1, i - 1)
           b == SubSeq(s, i + 1, Len(s))
<1>1. Len(s) \in Nat /\ i \in 1 .. Len(s)
  BY LenProperties
<1>2. \A k \in 1 .. Len(s) : s[k] \in Callers
  BY ElementOfSeq
<1>3. /\ a \in Seq(Callers) /\ Len(a) = i - 1
      /\ \A k \in 1 .. i - 1 : a[k] = s[k]
  <2>1. /\ a \in Seq(Callers)
        /\ Len(a) = IF 1 <= i - 1 THEN i - 1 - 1 + 1 ELSE 0
        /\ \A k \in 1 .. i - 1 - 1 + 1 : a[k] = s[1 + k - 1]
    BY <1>1, <1>2, SubSeqProperties
  <2> QED BY <1>1, <2>1
<1>4. /\ b \in Seq(Callers) /\ Len(b) = Len(s) - i
      /\ \A k \in 1 .. Len(s) - i : b[k] = s[i + k]
  <2>1. /\ b \in Seq(Callers)
        /\ Len(b) = IF i + 1 <= Len(s) THEN Len(s) - (i + 1) + 1 ELSE 0
        /\ \A k \in 1 .. Len(s) - (i + 1) + 1 : b[k] = s[(i + 1) + k - 1]
    BY <1>1, <1>2, SubSeqProperties
  <2> QED BY <1>1, <2>1
<1> HIDE DEF a, b
<1> DEFINE ab == a \o b
<1>5. /\ ab \in Seq(Callers) /\ Len(ab) = Len(a) + Len(b)
      /\ \A j \in 1 .. Len(a) + Len(b) :
            ab[j] = IF j <= Len(a) THEN a[j] ELSE b[j - Len(a)]
  BY <1>3, <1>4, ConcatProperties
<1>6. RemoveAt(s, i) = ab
  BY DEF RemoveAt, a, b
<1> HIDE DEF ab
<1>7. DOMAIN ab = 1 .. Len(s) - 1
  BY <1>1, <1>3, <1>4, <1>5, LenProperties
<1>8. ASSUME NEW j \in DOMAIN ab
      PROVE  \E k \in DOMAIN s : k = (IF j < i THEN j ELSE j + 1) /\ ab[j] = s[k]
  <2>1. CASE j < i
    <3>1. ab[j] = a[j] /\ j \in 1 .. i - 1
      BY <1>1, <1>3, <1>4, <1>5, <1>7, <2>1
    <3>2. ab[j] = s[j] /\ j \in DOMAIN s
      BY <1>1, <1>3, <3>1, LenProperties
    <3> QED BY <2>1, <3>2
  <2>2. CASE ~(j < i)
    <3>0. /\ Len(a) = i - 1 /\ Len(b) = Len(s) - i /\ j \in 1 .. Len(s) - 1
          /\ j - (i - 1) \in 1 .. Len(s) - i /\ ~(j <= i - 1)
      BY <1>1, <1>3, <1>4, <1>7, <2>2
    <3>1. ab[j] = b[j - (i - 1)] /\ j - (i - 1) \in 1 .. Len(s) - i
      <4>1. j \in 1 .. Len(a) + Len(b)
        BY <1>1, <3>0
      <4> QED BY <1>5, <3>0, <4>1
    <3>2. i + (j - (i - 1)) = j + 1
      BY <1>1, <1>7
    <3>3. ab[j] = s[j + 1] /\ j + 1 \in DOMAIN s
      BY <1>1, <1>4, <1>7, <3>1, <3>2, LenProperties
    <3> QED BY <2>2, <3>3
  <2> QED BY <2>1, <2>2
<1> QED BY <1>5, <1>6, <1>8

\* The queue of waiters holds channels of callers, each once, and of those only
\* that have not moved on.
QueueInv == waiters \in Seq(Callers) /\ at \in [Callers -> Places] /\ QueueSound

\* The guard of a step tells whether its caller may be in the queue.
LEMMA OutOfQueue ==
  ASSUME QueueInv, NEW c \in Callers, at[c] \in {"idle", "woken", "reserved", "live"}
  PROVE  \A i \in DOMAIN waiters : waiters[i] # c
BY DEF QueueInv, QueueSound

\* A caller joins the queue: it was not in it.
LEMMA EnqueueSound == ASSUME QueueInv, NEW c \in Callers, Enqueue(c) PROVE QueueInv'
<1>1. \A i \in DOMAIN waiters : waiters[i] # c
  BY OutOfQueue DEF Enqueue
<1>2. waiters \in Seq(Callers) /\ at \in [Callers -> Places] /\ QueueSound
  BY DEF QueueInv
<1>3. waiters' = Append(waiters, c) /\ at' = [at EXCEPT ![c] = "queued"]
  BY DEF Enqueue
<1>4. /\ Len(waiters) \in Nat /\ DOMAIN waiters = 1 .. Len(waiters)
      /\ waiters' \in Seq(Callers) /\ DOMAIN waiters' = 1 .. Len(waiters) + 1
      /\ \A i \in 1 .. Len(waiters) : waiters'[i] = waiters[i]
      /\ waiters'[Len(waiters) + 1] = c
  BY <1>2, <1>3, AppendProperties, LenProperties
<1>5. \A i \in DOMAIN waiters' :
         \/ i \in DOMAIN waiters /\ waiters'[i] = waiters[i]
         \/ i = Len(waiters) + 1 /\ waiters'[i] = c
  BY <1>4
<1>6. at' \in [Callers -> Places]
  BY <1>2, <1>3 DEF Places
<1>7. \A i \in DOMAIN waiters : waiters[i] \in Callers
  BY <1>2, <1>4, ElementOfSeq
<1>8. \A i \in DOMAIN waiters' : at'[waiters'[i]] \in {"queued", "asleep", "cancelled"}
  BY <1>1, <1>2, <1>3, <1>5, <1>7 DEF QueueSound
<1>9. \A i, j \in DOMAIN waiters' : waiters'[i] = waiters'[j] => i = j
  BY <1>1, <1>2, <1>5 DEF QueueSound
<1> QED BY <1>4, <1>6, <1>8, <1>9 DEF QueueInv, QueueSound

\* A cancelled caller takes its one entry out and goes.
LEMMA CancelSound == ASSUME QueueInv, NEW c \in Callers, CancelWaiter(c) PROVE QueueInv'
<1>1. waiters \in Seq(Callers) /\ at \in [Callers -> Places] /\ QueueSound
  BY DEF QueueInv
<1>2. at[c] = "cancelled" /\ at' = [at EXCEPT ![c] = "idle"] /\ at' \in [Callers -> Places]
  BY <1>1 DEF CancelWaiter, Places
<1>3. \A i \in DOMAIN waiters : waiters[i] \in Callers
  BY <1>1, LenProperties, ElementOfSeq
<1>4. CASE waiters' = waiters /\ \A i \in DOMAIN waiters : waiters[i] # c
  BY <1>1, <1>2, <1>3, <1>4 DEF QueueInv, QueueSound
<1>5. ASSUME NEW i \in DOMAIN waiters, waiters[i] = c, waiters' = RemoveAt(waiters, i)
      PROVE  QueueInv'
  <2>1. /\ waiters' \in Seq(Callers)
        /\ \A j \in DOMAIN waiters' :
              \E k \in DOMAIN waiters : /\ k = (IF j < i THEN j ELSE j + 1)
                                       /\ waiters'[j] = waiters[k]
    BY <1>1, <1>5, RemoveAtEntries
  <2>2. /\ DOMAIN waiters = 1 .. Len(waiters) /\ Len(waiters) \in Nat
        /\ DOMAIN waiters' = 1 .. Len(waiters') /\ Len(waiters') \in Nat
    BY <1>1, <2>1, LenProperties
  <2>3. ASSUME NEW j \in DOMAIN waiters' PROVE waiters'[j] # c
    <3>1. PICK k \in DOMAIN waiters : /\ k = (IF j < i THEN j ELSE j + 1)
                                     /\ waiters'[j] = waiters[k]
      BY <2>1
    <3>2. k # i
      BY <2>2, <3>1
    <3> QED BY <1>1, <1>5, <3>1, <3>2 DEF QueueSound
  <2>4. \A j \in DOMAIN waiters' : at'[waiters'[j]] \in {"queued", "asleep", "cancelled"}
    BY <1>1, <1>2, <1>3, <2>1, <2>3 DEF QueueSound
  <2>5. \A j, k \in DOMAIN waiters' : waiters'[j] = waiters'[k] => j = k
    BY <1>1, <2>1, <2>2 DEF QueueSound
  <2> QED BY <1>2, <2>1, <2>4, <2>5 DEF QueueInv, QueueSound
<1> QED BY <1>4, <1>5 DEF CancelWaiter

\* A rollback or a release drops the head, awake now or on its way out; who
\* releases is not in the queue.
LEMMA ReleaseSound ==
  ASSUME QueueInv, NEW c \in Callers, at[c] \in {"reserved", "live"}, ReleaseLocked(c)
  PROVE  QueueInv'
<1>1. waiters \in Seq(Callers) /\ at \in [Callers -> Places] /\ QueueSound
  BY DEF QueueInv
<1>2. \A i \in DOMAIN waiters : waiters[i] \in Callers /\ waiters[i] # c
  BY <1>1, LenProperties, ElementOfSeq, OutOfQueue
<1>3. at' \in [Callers -> Places]
  BY <1>1 DEF ReleaseLocked, Places
<1>4. CASE waiters = <<>>
  <2>1. waiters' = <<>>
    BY <1>4 DEF ReleaseLocked
  <2> QED BY <1>3, <2>1 DEF QueueInv, QueueSound
<1>5. CASE waiters # <<>>
  <2>1. waiters' = Tail(waiters)
    BY <1>5 DEF ReleaseLocked
  <2>2. /\ waiters' \in Seq(Callers) /\ Len(waiters') = Len(waiters) - 1
        /\ \A i \in 1 .. Len(waiters') : waiters'[i] = waiters[i + 1]
    BY <1>1, <1>5, <2>1, HeadTailProperties
  <2>3. /\ DOMAIN waiters = 1 .. Len(waiters) /\ Len(waiters) \in Nat /\ Len(waiters) # 0
        /\ DOMAIN waiters' = 1 .. Len(waiters) - 1
    BY <1>1, <1>5, <2>2, LenProperties, EmptySeq
  <2>4. \A i \in DOMAIN waiters' :
           i + 1 \in DOMAIN waiters /\ i + 1 # 1 /\ waiters'[i] = waiters[i + 1]
    BY <2>2, <2>3
  <2>5. Head(waiters) = waiters[1] /\ 1 \in DOMAIN waiters
    BY <1>1, <1>5, <2>3
  <2>6. \A d \in Callers : d # c /\ d # waiters[1] => at'[d] = at[d]
    BY <2>5 DEF ReleaseLocked, Signalled
  <2>7. \A i \in DOMAIN waiters' : waiters'[i] # waiters[1] /\ waiters'[i] # c
    BY <1>1, <1>2, <2>4, <2>5 DEF QueueSound
  <2>8. \A i \in DOMAIN waiters' : at'[waiters'[i]] \in {"queued", "asleep", "cancelled"}
    BY <1>1, <1>2, <2>4, <2>6, <2>7 DEF QueueSound
  <2>9. \A i, j \in DOMAIN waiters' : waiters'[i] = waiters'[j] => i = j
    <3> SUFFICES ASSUME NEW i \in DOMAIN waiters', NEW j \in DOMAIN waiters',
                        waiters'[i] = waiters'[j]
                 PROVE  i = j
      OBVIOUS
    <3>1. i + 1 = j + 1
      BY <1>1, <2>4 DEF QueueSound
    <3> QED BY <2>3, <3>1
  <2> QED BY <1>3, <2>2, <2>8, <2>9 DEF QueueInv, QueueSound
<1> QED BY <1>4, <1>5

\* The other steps leave the queue alone; who takes one is not in it, or waits
\* before and after.
LEMMA QueueSoundNext == QueueInv /\ [Next]_poolVars => QueueInv'
<1> SUFFICES ASSUME QueueInv, [Next]_poolVars PROVE QueueInv'
  OBVIOUS
<1>1. CASE UNCHANGED poolVars
  BY <1>1 DEF QueueInv, QueueSound, poolVars
<1>2. ASSUME NEW c \in Callers, Step(c) PROVE QueueInv'
  <2>1. \A i \in DOMAIN waiters : waiters[i] \in Callers
    BY LenProperties, ElementOfSeq DEF QueueInv
  <2>2. CASE Reserve(c) \/ Built(c)
    <3>1. \A i \in DOMAIN waiters : waiters[i] # c
      BY <2>2, OutOfQueue DEF Reserve, Built
    <3> QED BY <2>1, <2>2, <3>1 DEF QueueInv, QueueSound, Places, Reserve, Built
  <2>3. CASE Park(c) \/ GiveUp(c)
    BY <2>1, <2>3 DEF QueueInv, QueueSound, Places, Park, GiveUp
  <2>4. CASE BuildFails(c) \/ Release(c)
    BY <2>4, ReleaseSound DEF BuildFails, Release
  <2> QED BY <1>2, <2>2, <2>3, <2>4, EnqueueSound, CancelSound DEF Step
<1> QED BY <1>1, <1>2 DEF Next

LEMMA QueueInvInit == Init => QueueInv
<1>1. Init => waiters \in Seq(Callers) /\ DOMAIN waiters = {}
  BY DEF Init, PoolInit
<1>2. Init => at \in [Callers -> Places]
  BY DEF Init, PoolInit, Places
<1> QED BY <1>1, <1>2 DEF QueueInv, QueueSound

\* No channel is queued twice, and none is left behind by a caller that got its
\* slot, gave up or was woken: the signal of releaseLocked is never sent to a
\* caller that has moved on.
THEOREM QueueSoundHolds == Spec => []QueueSound
<1>1. QueueInv => QueueSound
  BY DEF QueueInv
<1> QED BY <1>1, QueueInvInit, QueueSoundNext, PTL DEF Spec

\* Every variable of the pool keeps its type.
THEOREM TypeCorrect == Spec => []TypeOK
<1>1. PoolInv /\ QueueInv => TypeOK
  BY DEF PoolInv, QueueInv, TypeOK
<1>2. Init => QueueInv
  BY QueueInvInit
<1> QED BY <1>1, <1>2, QueueSoundNext, PoolInvHolds, PTL DEF Spec

-----------------------------------------------------------------------------
(***************************************************************************)
(* A caller that took a slot, gives it back and takes one again.           *)
(***************************************************************************)
\* The caps leave room for o, whatever o itself holds.
RoomFor(o) ==
  /\ Under(TotalCap, Cardinality(Holders \ {o}))
  /\ Under(ModelCap[ModelOf[o]], Cardinality(HoldersOf(ModelOf[o]) \ {o}))

\* Fewer holders leave as much room.
LEMMA FewerUnder ==
  ASSUME NEW cap, NEW S, IsFiniteSet(S), NEW T, T \subseteq S,
         cap \in Nat, Under(cap, Cardinality(S))
  PROVE  Under(cap, Cardinality(T))
<1>1. Cardinality(T) <= Cardinality(S) /\ Cardinality(S) \in Nat /\ Cardinality(T) \in Nat
  BY FS_Subset, FS_CardinalityType
<1> QED BY <1>1 DEF Under

\* One element for another leaves a set its size.
LEMMA SwapCount ==
  ASSUME NEW S, IsFiniteSet(S), NEW o \in S, NEW c, c \notin S
  PROVE  Cardinality((S \ {o}) \cup {c}) = Cardinality(S)
<1>1. IsFiniteSet(S \ {o}) /\ Cardinality(S \ {o}) = Cardinality(S) - 1
  BY FS_RemoveElement
<1>2. Cardinality((S \ {o}) \cup {c}) = Cardinality(S \ {o}) + 1
  BY <1>1, FS_AddElement
<1>3. Cardinality(S) \in Nat
  BY FS_CardinalityType
<1> QED BY <1>1, <1>2, <1>3

\* At the start there is room for everyone.
LEMMA RoomAtFirst == ASSUME Init, NEW o \in Callers PROVE RoomFor(o)
<1>1. Holders \ {o} = {} /\ HoldersOf(ModelOf[o]) \ {o} = {}
  BY DEF Init, PoolInit, Holders, HoldersOf
<1>2. TotalCap \in Nat /\ ModelCap[ModelOf[o]] \in Nat
  BY PoolOK
<1> QED BY <1>1, <1>2, FS_EmptySet DEF RoomFor, Under

\* A caller there is room for does not have to wait.
LEMMA RoomSuffices ==
  ASSUME PoolInv, NEW o \in Callers, o \notin Holders, RoomFor(o)
  PROVE  UnderCaps(o)
<1>1. Holders \ {o} = Holders /\ HoldersOf(ModelOf[o]) \ {o} = HoldersOf(ModelOf[o])
  BY DEF HoldersOf
<1>2. ModelOf[o] \in Models
  BY PoolOK
<1> QED BY <1>1, <1>2 DEF RoomFor, UnderCaps, PoolInv, CountsExact

\* While o has a slot, the caps that the others' reservations pass count it:
\* what they take leaves room for it.  Without a slot of its own, o needs that
\* nobody else reserves.
LEMMA RoomKept ==
  ASSUME PoolInv, NEW o \in Callers, RoomFor(o), NEW c \in Callers, Step(c),
         Reserve(c) => c = o \/ o \in Holders
  PROVE  RoomFor(o)'
<1> DEFINE m == ModelOf[o]
<1>1. /\ IsFiniteSet(Holders \ {o}) /\ IsFiniteSet(HoldersOf(m) \ {o})
      /\ TotalCap \in Nat /\ m \in Models /\ ModelCap[m] \in Nat
  BY HoldersFinite, FS_Subset, PoolOK
<1> HIDE DEF m
<1>2. CASE Holders' \ {o} \subseteq Holders \ {o} /\ HoldersOf(m)' \ {o} \subseteq HoldersOf(m) \ {o}
  <2>1. Under(TotalCap, Cardinality(Holders' \ {o}))
    BY <1>1, <1>2, FewerUnder DEF RoomFor
  <2>2. Under(ModelCap[m], Cardinality(HoldersOf(m)' \ {o}))
    BY <1>1, <1>2, FewerUnder DEF RoomFor, m
  <2> QED BY <2>1, <2>2 DEF RoomFor, m
<1>3. CASE Reserve(c)
  <2>1. /\ c \notin Holders /\ Holders' = Holders \cup {c}
        /\ HoldersOf(m)' = IF ModelOf[c] = m THEN HoldersOf(m) \cup {c} ELSE HoldersOf(m)
    BY <1>3, ReserveTakes
  <2>2. CASE c = o
    BY <1>2, <2>1, <2>2
  <2>3. CASE c # o
    <3>1. o \in Holders /\ o \in HoldersOf(m)
      BY <1>3, <2>3 DEF HoldersOf, m
    <3>2. Under(TotalCap, Cardinality(Holders' \ {o}))
      <4>1. Holders' \ {o} = (Holders \ {o}) \cup {c} /\ c \notin Holders \ {o}
        BY <2>1, <2>3
      <4>2. Cardinality(Holders' \ {o}) = Cardinality(Holders)
        BY <2>1, <3>1, <4>1, HoldersFinite, SwapCount
      <4> QED BY <1>3, <4>2 DEF Reserve, UnderCaps, PoolInv, CountsExact
    <3>3. Under(ModelCap[m], Cardinality(HoldersOf(m)' \ {o}))
      <4>1. CASE ModelOf[c] = m
        <5>1. /\ HoldersOf(m)' \ {o} = (HoldersOf(m) \ {o}) \cup {c}
              /\ c \notin HoldersOf(m)
          BY <2>1, <2>3, <4>1 DEF HoldersOf
        <5>2. Cardinality(HoldersOf(m)' \ {o}) = Cardinality(HoldersOf(m))
          BY <3>1, <5>1, HoldersFinite, SwapCount
        <5> QED BY <1>1, <1>3, <4>1, <5>2 DEF Reserve, UnderCaps, PoolInv, CountsExact
      <4>2. CASE ModelOf[c] # m
        BY <2>1, <4>2 DEF RoomFor, m
      <4> QED BY <4>1, <4>2
    <3> QED BY <3>2, <3>3 DEF RoomFor, m
  <2> QED BY <2>2, <2>3
<1>4. CASE BuildFails(c) \/ Release(c)
  BY <1>2, <1>4, ReleaseGives DEF BuildFails, Release
<1>5. CASE Enqueue(c) \/ Park(c) \/ GiveUp(c) \/ CancelWaiter(c) \/ Built(c)
  BY <1>2, <1>5, WaitingKeeps
<1> QED BY <1>3, <1>4, <1>5 DEF Step
=============================================================================
