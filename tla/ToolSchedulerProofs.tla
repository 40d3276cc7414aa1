------------------------- MODULE ToolSchedulerProofs -------------------------
(***************************************************************************)
(* No batch, whatever it declares and however many calls run at once,      *)
(* leaves a queued call with nobody to start it.                           *)
(***************************************************************************)
EXTENDS ToolScheduler, FiniteSetTheorems, TLAPS

\* With it, NobodyForgotten is inductive: a call that is added was nowhere.
Inv ==
  /\ TypeOK
  /\ \A c \in Calls : c >= next => at[c] = "unsent"
  /\ NobodyForgotten

\* Of two calls, the one that moves is not the one that holds the queue.
Holds(c) == c \in Starting \cup ActiveCalls

LEMMA HolderMatters == NobodyForgotten <=> (Pending = {} \/ \E c \in Calls : Holds(c))
BY DEF NobodyForgotten, Holds, Starting, ActiveCalls, In

\* The first of a finishing call's candidates is always taken: with nothing
\* active and nothing picked before it, nothing speaks against a call.
LEMMA SomebodyIsPicked ==
  ASSUME Pending # {}, Unblocked({}, {})
  PROVE  FALSE
<1>1. PICK c \in Pending : TRUE
  OBVIOUS
<1>2. ~Clash(c, {}) /\ Cardinality({}) + Cardinality({}) < MaxPar
  BY FS_EmptySet, BatchOK DEF Clash
<1>3. {} \cup {d \in {} : d < c} = {} /\ {d \in {} : d < c} = {}
  OBVIOUS
<1> QED BY <1>1, <1>2, <1>3 DEF Unblocked

\* A call is queued only behind one that is active or queued.
LEMMA AddKeeps ==
  ASSUME Inv, NEW c \in Calls, Add(c)
  PROVE  NobodyForgotten'
<1>1. at \in [Calls -> Places] /\ at[c] = "unsent"
  BY DEF Inv, TypeOK, Add, Calls
<1>2. CASE at' = [at EXCEPT ![c] = "admitted"]
  <2>1. Holds(c)'
    BY <1>1, <1>2 DEF Holds, Starting, In
  <2> QED BY <2>1 DEF NobodyForgotten, Holds
<1>3. CASE at' = [at EXCEPT ![c] = "pending"]
           /\ ~(~Clash(c, ActiveCalls \cup Pending) /\ Cardinality(ActiveCalls) < MaxPar)
  <2>1. ActiveCalls \cup Pending # {}
    <3> SUFFICES ASSUME ActiveCalls = {}, Pending = {} PROVE FALSE
      OBVIOUS
    <3>1. Cardinality(ActiveCalls) = 0 /\ ~Clash(c, ActiveCalls \cup Pending)
      BY FS_EmptySet DEF Clash
    <3> QED BY <1>3, <3>1, BatchOK
  <2>2. PICK d \in Starting \cup ActiveCalls : TRUE
    BY <2>1 DEF Inv, NobodyForgotten
  <2>3. d # c /\ d \in Calls
    BY <1>1, <2>2 DEF Starting, ActiveCalls, In
  <2>4. Holds(d)'
    BY <1>1, <1>3, <2>2, <2>3 DEF Holds, Starting, ActiveCalls, In
  <2> QED BY <2>4 DEF NobodyForgotten, Holds
<1> QED BY <1>2, <1>3 DEF Add

\* A call that leaves the active list picks one if nobody else will.
LEMMA FinishKeeps ==
  ASSUME Inv, NEW c \in Calls, Finish(c)
  PROVE  NobodyForgotten'
<1>1. PICK picks \in SUBSET Pending :
        /\ Unblocked(picks, ActiveCalls \ {c})
        /\ at' = [d \in Calls |-> IF d = c THEN "gone"
                                  ELSE IF d \in picks THEN "picked" ELSE at[d]]
  BY DEF Finish
<1>2. at[c] = "returned"
  BY DEF Finish
<1> SUFFICES ASSUME Pending' # {}, \A d \in Calls : ~Holds(d)' PROVE FALSE
  BY DEF NobodyForgotten, Holds, Starting, ActiveCalls, In
<1>3. picks = {}
  <2> SUFFICES ASSUME NEW d \in picks PROVE FALSE
    OBVIOUS
  <2>1. d \in Calls /\ d # c
    BY <1>2 DEF Pending, In
  <2>2. at'[d] = "picked"
    BY <1>1, <2>1
  <2> QED BY <2>1, <2>2 DEF Holds, Starting, In
<1>4. ActiveCalls \ {c} = {}
  <2> SUFFICES ASSUME NEW d \in ActiveCalls, d # c PROVE FALSE
    OBVIOUS
  <2>1. d \in Calls /\ at'[d] = at[d]
    BY <1>1, <1>3 DEF ActiveCalls, In
  <2> QED BY <2>1 DEF Holds, ActiveCalls, In
<1>5. Pending # {}
  BY <1>1, <1>3 DEF Pending, In
<1> QED BY <1>1, <1>3, <1>4, <1>5, SomebodyIsPicked

\* Every other step leaves the queue and whoever holds it.
LEMMA OtherKeeps ==
  ASSUME Inv, NEW c \in Calls, Start(c) \/ Return(c) \/ CancelQueued(c)
  PROVE  NobodyForgotten'
<1>1. at \in [Calls -> Places]
  BY DEF Inv, TypeOK
<1>2. \A d \in Calls : /\ at'[d] = "pending" => at[d] = "pending"
                       /\ Holds(d) => Holds(d)'
  BY <1>1 DEF Start, Return, CancelQueued, Holds, Starting, ActiveCalls, In
<1>3. Pending' \subseteq Pending
  BY <1>2 DEF Pending, In
<1>4. Pending' = {} \/ \E d \in Calls : Holds(d)'
  BY <1>2, <1>3, HolderMatters DEF Inv
<1> QED BY <1>4 DEF NobodyForgotten, Holds

LEMMA TypesKeep ==
  ASSUME Inv, [Next]_vars
  PROVE  TypeOK' /\ \A c \in Calls : c >= next' => at'[c] = "unsent"
<1>0. N \in Nat /\ TypeOK /\ (\A c \in Calls : c >= next => at[c] = "unsent")
  BY BatchOK DEF Inv
<1>1. ASSUME NEW c \in Calls, Add(c)
      PROVE  TypeOK' /\ \A d \in Calls : d >= next' => at'[d] = "unsent"
  <2>1. c = next /\ next' = next + 1 /\ next \in Nat
    BY <1>0, <1>1 DEF Add, TypeOK
  <2>2. \E to \in {"admitted", "pending"} : at' = [at EXCEPT ![c] = to]
    BY <1>1 DEF Add
  <2>3. watched' \in {watched, watched \cup {c}}
    BY <1>1 DEF Add
  <2> QED BY <1>0, <1>1, <2>1, <2>2, <2>3 DEF Add, TypeOK, Places, Calls
<1>2. ASSUME NEW c \in Calls, Start(c) \/ Return(c) \/ CancelQueued(c)
      PROVE  TypeOK' /\ \A d \in Calls : d >= next' => at'[d] = "unsent"
  <2>1. /\ at' = at \/ (at[c] # "unsent" /\ at' \in {[at EXCEPT ![c] = "running"],
                                                      [at EXCEPT ![c] = "returned"]})
        /\ UNCHANGED <<access, next, watched, cancelled, collected>>
    BY <1>2 DEF Start, Return, CancelQueued, Starting, In
  <2>2. result' = result \/ \E o \in Outcomes : result' = [result EXCEPT ![c] = o]
    BY <1>2 DEF Start, Return, CancelQueued, Once, Outcomes
  <2>3. at' \in [Calls -> Places] /\ result' \in [Calls -> Outcomes]
    BY <1>0, <2>1, <2>2 DEF TypeOK, Places
  <2>4. \A d \in Calls : d >= next' => at'[d] = "unsent"
    BY <1>0, <2>1 DEF TypeOK
  <2> QED BY <1>0, <2>1, <2>3, <2>4 DEF TypeOK
<1>3. ASSUME NEW c \in Calls, Finish(c)
      PROVE  TypeOK' /\ \A d \in Calls : d >= next' => at'[d] = "unsent"
  <2>1. PICK picks \in SUBSET Pending :
          at' = [d \in Calls |-> IF d = c THEN "gone"
                                 ELSE IF d \in picks THEN "picked" ELSE at[d]]
    BY <1>3 DEF Finish
  <2>2. at[c] = "returned" /\ UNCHANGED <<access, next, watched, result, cancelled, collected>>
    BY <1>3 DEF Finish
  <2>3. at' \in [Calls -> Places]
    BY <1>0, <2>1 DEF TypeOK, Places
  <2>4. \A d \in Calls : d >= next' => at'[d] = "unsent"
    BY <1>0, <2>1, <2>2 DEF Pending, In
  <2> QED BY <1>0, <2>2, <2>3, <2>4 DEF TypeOK
<1>4. ASSUME CancelTurn \/ Collect \/ UNCHANGED vars
      PROVE  TypeOK' /\ \A d \in Calls : d >= next' => at'[d] = "unsent"
  BY <1>0, <1>4 DEF CancelTurn, Collect, vars, TypeOK
<1> QED BY <1>1, <1>2, <1>3, <1>4 DEF Next, Goes

LEMMA Inductive == Inv /\ [Next]_vars => Inv'
<1> SUFFICES ASSUME Inv, [Next]_vars PROVE Inv'
  OBVIOUS
<1>1. NobodyForgotten'
  <2>1. ASSUME CancelTurn \/ Collect \/ UNCHANGED vars PROVE NobodyForgotten'
    BY <2>1 DEF CancelTurn, Collect, vars, Inv, NobodyForgotten, Pending, Starting, ActiveCalls, In
  <2> QED BY <2>1, AddKeeps, FinishKeeps, OtherKeeps DEF Next, Goes
<1> QED BY <1>1, TypesKeep DEF Inv

LEMMA Initially == Init => Inv
<1> SUFFICES ASSUME Init PROVE Inv
  OBVIOUS
<1>1. TypeOK
  <2>1. at \in [Calls -> Places] /\ result \in [Calls -> Outcomes]
    BY DEF Init, Places, Outcomes
  <2>2. next \in 1 .. N + 1
    BY BatchOK DEF Init
  <2>3. watched \subseteq Calls /\ cancelled \in BOOLEAN /\ collected \in BOOLEAN
    BY DEF Init
  <2>4. access \in Batches
    BY DEF Init
  <2> QED BY <2>1, <2>2, <2>3, <2>4 DEF TypeOK
<1>2. Pending = {}
  BY DEF Init, Pending, In
<1> QED BY <1>1, <1>2 DEF Init, Inv, NobodyForgotten

\* The inductive invariant holds of every behaviour.
THEOREM InvHolds == Spec => []Inv
BY Initially, Inductive, PTL DEF Spec

\* Every variable keeps its type, for every batch and every cap.
THEOREM TypeCorrect == Spec => []TypeOK
<1>1. Inv => TypeOK
  BY DEF Inv
<1> QED BY <1>1, InvHolds, PTL

\* While a call is queued, another is on its way that will look at the queue
\* when it ends, for every batch, every cap and every order of the goroutines.
THEOREM NobodyForgottenHolds == Spec => []NobodyForgotten
<1>1. Inv => NobodyForgotten
  BY DEF Inv
<1> QED BY <1>1, InvHolds, PTL
=============================================================================
