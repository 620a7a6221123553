---------------------------- MODULE ParMapProofs ----------------------------
(***************************************************************************)
(* The safety properties of ParMap for every number of items and every     *)
(* limit, from one inductive invariant, IInv, and that Map implements the  *)
(* abstract TaskBatch.                                                     *)
(***************************************************************************)
EXTENDS ParMap, FiniteSetTheorems, TLAPS

\* Sets of items are finite and no larger than N.
LEMMA ItemsFinite ==
  ASSUME NEW S, S \subseteq Items
  PROVE  IsFiniteSet(S) /\ Cardinality(S) \in 0 .. N
<1>1. IsFiniteSet(Items) /\ Cardinality(Items) = N
  BY NAssumption, FS_Interval DEF Items
<1>2. IsFiniteSet(S) /\ Cardinality(S) <= Cardinality(Items)
  BY <1>1, FS_Subset
<1>3. Cardinality(S) \in Nat
  BY <1>2, FS_CardinalityType
<1> QED BY <1>1, <1>2, <1>3, NAssumption

\* The limit is at least 1 once normalised.
LEMMA LimitPositive == Limit \in Nat \ {0}
BY LimitAssumption DEF Limit

\* The initial state satisfies the inductive invariant.
LEMMA InitIInv == Init => IInv
<1> SUFFICES ASSUME Init PROVE IInv
  OBVIOUS
<1> USE NAssumption
<1>1. Counted = {} /\ Active = {}
  BY DEF Init, Counted, Active, Items
<1>2. Cardinality({}) = 0
  BY FS_EmptySet
<1>3. TypeOK
  <2>1. phase \in [Items -> Phases] /\ outcome \in [Items -> {"none", "value", "cancelled"}]
    BY DEF Init, Phases
  <2>2. idx \in 1 .. N + 1 /\ mutex \in 0 .. N + 1 /\ late \in Nat
    BY DEF Init, Free
  <2>3. completed \in 0 .. N /\ reported \in 0 .. N
    BY DEF Init
  <2> QED BY <2>1, <2>2, <2>3 DEF Init, TypeOK
<1>4. LoopShape /\ LateShape
  BY DEF Init, LoopShape, LateShape, Items
<1>5. MutexShape
  BY DEF Init, MutexShape, Items, Free, Caller
<1>6. CountShape
  BY <1>1, <1>2 DEF Init, CountShape, Free
<1>7. BoundedGoroutines
  BY <1>1, <1>2, LimitPositive DEF BoundedGoroutines
<1> QED BY <1>3, <1>4, <1>5, <1>6, <1>7 DEF IInv

\* Taking one item into Counted counts one; leaving it alone counts none.
LEMMA CountOneMore ==
  ASSUME TypeOK, CountShape, NEW i \in Items, i \notin Counted,
         Counted' = Counted \cup {i}
  PROVE  Cardinality(Counted') = completed + 1 /\ completed + 1 \in 0 .. N
<1>1. Counted \subseteq Items /\ Counted' \subseteq Items
  BY DEF Counted, Items
<1>2. IsFiniteSet(Counted)
  BY <1>1, ItemsFinite
<1>3. Cardinality(Counted') = Cardinality(Counted) + 1
  BY <1>2, FS_AddElement
<1>4. Cardinality(Counted') \in 0 .. N
  BY <1>1, ItemsFinite
<1> QED BY <1>3, <1>4 DEF CountShape

\* A step after which no new goroutine is active keeps the bound.
LEMMA ActiveShrinks ==
  ASSUME BoundedGoroutines, Active' \subseteq Active
  PROVE  BoundedGoroutines'
<1>1. Active \subseteq Items /\ Active' \subseteq Items
  BY DEF Active, Items
<1>2. Cardinality(Active') <= Cardinality(Active)
  BY <1>1, ItemsFinite, FS_Subset
<1>3. Cardinality(Active') \in Nat /\ Cardinality(Active) \in Nat
  BY <1>1, ItemsFinite
<1> QED BY <1>2, <1>3, LimitPositive DEF BoundedGoroutines, Limit

\* Every step of the caller's goroutine preserves the invariant.
LEMMA CallerIInv == IInv /\ CallerStep => IInv'
<1> SUFFICES ASSUME IInv, CallerStep PROVE IInv'
  OBVIOUS
<1> USE NAssumption DEF Items, Caller, Free
<1>0. TypeOK /\ LoopShape /\ MutexShape /\ CountShape /\ LateShape /\ BoundedGoroutines
  BY DEF IInv
<1>1. CASE LoopCheck
  <2>1. Counted' = Counted /\ Active' = Active
    BY <1>0, <1>1 DEF LoopCheck, Branch, Counted, Active, LoopShape
  <2>2. TypeOK'
    BY <1>0, <1>1 DEF LoopCheck, Branch, TypeOK
  <2>3. LoopShape' /\ LateShape'
    BY <1>0, <1>1 DEF LoopCheck, Branch, TypeOK, LoopShape, LateShape
  <2>4. MutexShape' /\ CountShape'
    BY <1>0, <1>1, <2>1 DEF LoopCheck, Branch, MutexShape, CountShape
  <2>5. BoundedGoroutines'
    BY <1>0, <2>1, ActiveShrinks
  <2> QED BY <2>2, <2>3, <2>4, <2>5 DEF IInv
<1>2. CASE Launch
  <2>1. Counted' = Counted
    BY <1>0, <1>2 DEF Launch, Counted, TypeOK, LoopShape, Phases
  <2>2. Active' = Active \cup {idx} /\ idx \in Items /\ idx \notin Active
    BY <1>0, <1>2 DEF Launch, Active, TypeOK, LoopShape, Phases
  <2>3. Active \subseteq Items
    BY DEF Active
  <2>4. Cardinality(Active') = Cardinality(Active) + 1
    BY <2>2, <2>3, ItemsFinite, FS_AddElement
  <2>5. BoundedGoroutines'
    <3>0. Cardinality(Active) \in 0 .. N
      BY <2>3, ItemsFinite
    <3>1. Cardinality(Active) \in Nat
      BY <3>0
    <3>2. Cardinality(Active) < Limit
      BY <1>2 DEF Launch, SlotFree
    <3>3. Limit' = Limit
      BY DEF Limit
    <3> QED BY <2>4, <3>1, <3>2, <3>3, LimitPositive DEF BoundedGoroutines
  <2>6. TypeOK'
    BY <1>0, <1>2 DEF Launch, TypeOK, LoopShape, Phases
  <2>7. LoopShape' /\ LateShape'
    BY <1>0, <1>2 DEF Launch, TypeOK, LoopShape, LateShape, Phases
  <2>8. MutexShape' /\ CountShape'
    BY <1>0, <1>2, <2>1 DEF Launch, TypeOK, LoopShape, MutexShape, CountShape, Phases
  <2> QED BY <2>5, <2>6, <2>7, <2>8 DEF IInv
<1>3. CASE MarkRemaining
  <2>1. Counted' = Counted /\ Active' = Active
    BY <1>0, <1>3 DEF MarkRemaining, Counted, Active
  <2>2. TypeOK'
    BY <1>0, <1>3 DEF MarkRemaining, TypeOK
  <2>3. LoopShape' /\ LateShape'
    BY <1>0, <1>3 DEF MarkRemaining, TypeOK, LoopShape, LateShape
  <2>4. MutexShape' /\ CountShape'
    BY <1>0, <1>3, <2>1 DEF MarkRemaining, MutexShape, CountShape
  <2>5. BoundedGoroutines'
    BY <1>0, <2>1, ActiveShrinks
  <2> QED BY <2>2, <2>3, <2>4, <2>5 DEF IInv
<1>4. CASE MarkLock
  <2>1. idx \in Items /\ idx \notin Counted /\ Counted' = Counted \cup {idx}
    BY <1>0, <1>4 DEF MarkLock, Lock, Counted, TypeOK, LoopShape
  <2>2. Cardinality(Counted') = completed + 1 /\ completed + 1 \in 0 .. N
    BY <1>0, <2>1, CountOneMore
  <2>3. TypeOK'
    BY <1>0, <1>4, <2>2 DEF MarkLock, Lock, TypeOK
  <2>4. LoopShape' /\ LateShape'
    BY <1>0, <1>4 DEF MarkLock, Lock, TypeOK, LoopShape, LateShape
  <2>5. MutexShape' /\ CountShape'
    BY <1>0, <1>4, <2>2 DEF MarkLock, Lock, TypeOK, MutexShape, CountShape
  <2>6. BoundedGoroutines'
    BY <1>0, <1>4, ActiveShrinks DEF MarkLock, Active
  <2> QED BY <2>3, <2>4, <2>5, <2>6 DEF IInv
<1>5. CASE MarkCall
  <2>1. Counted' = Counted
    BY <1>0, <1>5 DEF MarkCall, Counted, TypeOK, LoopShape
  <2>2. TypeOK'
    BY <1>0, <1>5 DEF MarkCall, CallBackAndUnlock, TypeOK, LoopShape
  <2>3. LoopShape' /\ LateShape'
    BY <1>0, <1>5 DEF MarkCall, CallBackAndUnlock, TypeOK, LoopShape, LateShape
  <2>4. MutexShape' /\ CountShape'
    BY <1>0, <1>5, <2>1
       DEF MarkCall, CallBackAndUnlock, TypeOK, LoopShape, MutexShape, CountShape
  <2>5. BoundedGoroutines'
    BY <1>0, <1>5, ActiveShrinks DEF MarkCall, Active
  <2> QED BY <2>2, <2>3, <2>4, <2>5 DEF IInv
<1>6. CASE Wait
  <2>1. Counted' = Counted /\ Active' = Active
    BY <1>0, <1>6 DEF Wait, Counted, Active
  <2>2. TypeOK'
    BY <1>0, <1>6 DEF Wait, TypeOK
  <2>3. LoopShape' /\ LateShape'
    BY <1>0, <1>6 DEF Wait, AllGone, Active, Phases, TypeOK, LoopShape, LateShape
  <2>4. MutexShape' /\ CountShape'
    BY <1>0, <1>6, <2>1 DEF Wait, MutexShape, CountShape
  <2>5. BoundedGoroutines'
    BY <1>0, <2>1, ActiveShrinks
  <2> QED BY <2>2, <2>3, <2>4, <2>5 DEF IInv
<1> QED BY <1>1, <1>2, <1>3, <1>4, <1>5, <1>6 DEF CallerStep

\* Every step of an item's goroutine preserves the invariant.
LEMMA ItemIInv == ASSUME NEW i \in Items, IInv, ItemStep(i) PROVE IInv'
<1> USE NAssumption DEF Items, Caller, Free
<1>0. TypeOK /\ LoopShape /\ MutexShape /\ CountShape /\ LateShape /\ BoundedGoroutines
  BY DEF IInv
<1>1. CASE Enter(i)
  <2>1. Counted' = Counted /\ Active' \subseteq Active
    BY <1>0, <1>1 DEF Enter, Counted, Active, TypeOK
  <2>2. TypeOK'
    BY <1>0, <1>1 DEF Enter, TypeOK, Phases
  <2>3. LoopShape' /\ LateShape'
    BY <1>0, <1>1 DEF Enter, TypeOK, LoopShape, LateShape
  <2>4. MutexShape' /\ CountShape'
    BY <1>0, <1>1, <2>1 DEF Enter, TypeOK, MutexShape, CountShape
  <2>5. BoundedGoroutines'
    BY <1>0, <2>1, ActiveShrinks
  <2> QED BY <2>2, <2>3, <2>4, <2>5 DEF IInv
<1>2. CASE WorkerReturns(i)
  <2>1. Counted' = Counted /\ Active' \subseteq Active
    BY <1>0, <1>2 DEF WorkerReturns, Counted, Active, TypeOK
  <2>2. TypeOK'
    BY <1>0, <1>2 DEF WorkerReturns, TypeOK, Phases
  <2>3. LoopShape' /\ LateShape'
    BY <1>0, <1>2 DEF WorkerReturns, TypeOK, LoopShape, LateShape
  <2>4. MutexShape' /\ CountShape'
    BY <1>0, <1>2, <2>1 DEF WorkerReturns, TypeOK, MutexShape, CountShape
  <2>5. BoundedGoroutines'
    BY <1>0, <2>1, ActiveShrinks
  <2> QED BY <2>2, <2>3, <2>4, <2>5 DEF IInv
<1>3. CASE NotifyLock(i)
  <2>1. i \notin Counted /\ Counted' = Counted \cup {i}
    BY <1>0, <1>3 DEF NotifyLock, Lock, Counted, TypeOK, LoopShape
  <2>2. Cardinality(Counted') = completed + 1 /\ completed + 1 \in 0 .. N
    BY <1>0, <2>1, CountOneMore
  <2>3. TypeOK'
    BY <1>0, <1>3, <2>2 DEF NotifyLock, Lock, TypeOK, Phases
  <2>4. LoopShape' /\ LateShape'
    BY <1>0, <1>3 DEF NotifyLock, Lock, TypeOK, LoopShape, LateShape
  <2>5. MutexShape' /\ CountShape'
    BY <1>0, <1>3, <2>2 DEF NotifyLock, Lock, TypeOK, MutexShape, CountShape
  <2>6. Active' \subseteq Active
    BY <1>0, <1>3 DEF NotifyLock, Active, TypeOK
  <2>7. BoundedGoroutines'
    BY <1>0, <2>6, ActiveShrinks
  <2> QED BY <2>3, <2>4, <2>5, <2>7 DEF IInv
<1>4. CASE NotifyCall(i)
  <2>1. Counted' = Counted /\ Active' \subseteq Active
    BY <1>0, <1>4 DEF NotifyCall, Counted, Active, TypeOK
  <2>2. TypeOK'
    BY <1>0, <1>4 DEF NotifyCall, CallBackAndUnlock, TypeOK, Phases
  <2>3. LoopShape' /\ LateShape'
    BY <1>0, <1>4 DEF NotifyCall, CallBackAndUnlock, TypeOK, LoopShape, LateShape
  <2>4. MutexShape' /\ CountShape'
    BY <1>0, <1>4, <2>1 DEF NotifyCall, CallBackAndUnlock, TypeOK, MutexShape, CountShape
  <2>5. BoundedGoroutines'
    BY <1>0, <2>1, ActiveShrinks
  <2> QED BY <2>2, <2>3, <2>4, <2>5 DEF IInv
<1> QED BY <1>1, <1>2, <1>3, <1>4 DEF ItemStep

\* IInv is inductive: the step of the proof that every theorem below uses.
LEMMA NextIInv == IInv /\ [Next]_vars => IInv'
<1> SUFFICES ASSUME IInv, [Next]_vars PROVE IInv'
  OBVIOUS
<1>1. CASE ContextEnds
  <2>1. Counted' = Counted /\ Active' = Active
    BY <1>1 DEF ContextEnds, Counted, Active
  <2>2. TypeOK' /\ LoopShape' /\ LateShape'
    BY <1>1 DEF IInv, ContextEnds, TypeOK, LoopShape, LateShape
  <2>3. MutexShape' /\ CountShape' /\ BoundedGoroutines'
    BY <1>1, <2>1 DEF IInv, ContextEnds, MutexShape, CountShape, BoundedGoroutines
  <2> QED BY <2>2, <2>3 DEF IInv
<1>2. CASE CallerStep
  BY <1>2, CallerIInv
<1>3. CASE \E i \in Items : ItemStep(i)
  BY <1>3, ItemIInv
<1>4. CASE UNCHANGED vars
  BY <1>4 DEF vars, IInv, TypeOK, LoopShape, MutexShape, CountShape, Counted,
              LateShape, BoundedGoroutines, Active
<1> QED BY <1>1, <1>2, <1>3, <1>4 DEF Next, Returned

\* The inductive invariant holds of every reachable state.
THEOREM Invariance == Spec => []IInv
<1> QED BY InitIInv, NextIInv, PTL DEF Spec

\* The state is always well typed.
THEOREM TypeCorrect == Spec => []TypeOK
<1>1. IInv => TypeOK
  BY DEF IInv
<1> QED BY <1>1, Invariance, PTL

\* The pool never holds more goroutines than the (normalised) limit.
THEOREM PoolIsBounded == Spec => []BoundedGoroutines
<1>1. IInv => BoundedGoroutines
  BY DEF IInv
<1> QED BY <1>1, Invariance, PTL

\* After the context is done at most one more goroutine is launched.
THEOREM LateLaunchIsBounded == Spec => []AtMostOneLateLaunch
<1>1. IInv => AtMostOneLateLaunch
  BY DEF IInv, LateShape, AtMostOneLateLaunch
<1> QED BY <1>1, Invariance, PTL

\* When Map returns, every item has its outcome and has been reported.
THEOREM ReturnIsComplete == Spec => []ReturnedMeansReported
<1>1. ASSUME IInv, pc = "returned" PROVE reported = N
  <2> USE NAssumption DEF Items, Caller, Free
  <2>1. Counted = Items
    BY <1>1 DEF IInv, LoopShape, Counted
  <2>2. completed = N
    BY <1>1, <2>1, FS_Interval DEF IInv, CountShape
  <2>3. mutex = Free
    BY <1>1 DEF IInv, TypeOK, LoopShape, MutexShape
  <2> QED BY <1>1, <2>2, <2>3 DEF IInv, CountShape
<1>2. ASSUME IInv, pc = "returned" PROVE \A i \in Items : outcome[i] # "none"
  BY <1>1, <1>2, NAssumption DEF IInv, TypeOK, LoopShape, Items
<1>3. IInv => ReturnedMeansReported
  BY <1>1, <1>2 DEF ReturnedMeansReported
<1> QED BY <1>3, Invariance, PTL

\* Progress is reported one by one: a step that changes what was reported
\* is the mutex holder's callback, and reports the next value.
THEOREM ProgressIsInOrder == Spec => ProgressInOrder
<1>1. ASSUME IInv, [Next]_vars PROVE [reported' # reported => reported' = reported + 1]_vars
  <2> SUFFICES ASSUME reported' # reported PROVE reported' = reported + 1
    OBVIOUS
  <2>1. ASSUME NEW who \in 1 .. N + 1, CallBackAndUnlock(who) PROVE reported' = reported + 1
    BY <1>1, <2>1, NAssumption DEF IInv, CallBackAndUnlock, CountShape, TypeOK, Free
  <2>2. CASE MarkCall
    BY <2>1, <2>2, NAssumption DEF MarkCall, Caller
  <2>3. CASE \E i \in Items : NotifyCall(i)
    BY <2>1, <2>3, NAssumption DEF NotifyCall, Items
  <2>4. CASE UNCHANGED vars
    BY <2>4 DEF vars
  <2> QED
    BY <1>1, <2>2, <2>3, <2>4
       DEF Next, ContextEnds, CallerStep, LoopCheck, Launch, MarkRemaining, MarkLock,
           Wait, ItemStep, Enter, WorkerReturns, NotifyLock, Returned, vars
<1> QED BY <1>1, Invariance, PTL DEF Spec, ProgressInOrder

Working == {i \in Items : phase[i] = "running"}

\* The slots bound the workers: one that is about to enter finds fewer than
\* Limit at work.
LEMMA RoomToWork ==
  ASSUME IInv, NEW i \in Items, phase[i] = "launched"
  PROVE  Cardinality(Working) < Limit
<1>1. Working \subseteq Active \ {i} /\ i \in Active /\ Active \subseteq Items
  BY DEF Working, Active
<1>2. IsFiniteSet(Active) /\ Cardinality(Active) \in Nat
  BY <1>1, ItemsFinite
<1>3. Cardinality(Active \ {i}) = Cardinality(Active) - 1 /\ IsFiniteSet(Active \ {i})
  BY <1>1, <1>2, FS_RemoveElement
<1>4. Cardinality(Working) <= Cardinality(Active \ {i})
  BY <1>1, <1>3, FS_Subset
<1>5. Cardinality(Working) \in Nat
  BY <1>1, ItemsFinite
<1>6. Cardinality(Active) <= Limit
  BY DEF IInv, BoundedGoroutines
<1> QED BY <1>2, <1>3, <1>4, <1>5, <1>6, LimitPositive

\* Every step of Map is a step of the batch, or leaves it alone.
LEMMA StepImplementsBatch ==
  ASSUME IInv, [Next]_vars
  PROVE  [Batch!BatchNext]_(Batch!batchVars)
<1> USE DEF Batch!BatchNext, Batch!batchVars
<1>1. CASE ContextEnds
  BY <1>1 DEF ContextEnds, Batch!Cancel
<1>2. CASE LoopCheck \/ Launch \/ MarkLock \/ MarkCall
  <2>1. Working' = Working
    <3>1. CASE Launch
      BY <3>1 DEF IInv, TypeOK, LoopShape, Items, Launch, Working
    <3>2. CASE LoopCheck \/ MarkLock \/ MarkCall
      BY <3>2 DEF LoopCheck, MarkLock, MarkCall, Working
    <3> QED BY <1>2, <3>1, <3>2
  <2>2. pc # "returned" /\ pc' # "returned"
    BY <1>2 DEF LoopCheck, Branch, Launch, MarkLock, MarkCall
  <2>3. UNCHANGED <<outcome, done>>
    BY <1>2 DEF LoopCheck, Launch, MarkLock, MarkCall
  <2> QED BY <2>1, <2>2, <2>3 DEF Working
<1>3. CASE MarkRemaining
  <2>1. idx \in Items /\ phase[idx] = "idle" /\ outcome[idx] = "none" /\ done
    BY <1>3 DEF IInv, TypeOK, LoopShape, Items, MarkRemaining
  <2>2. Batch!GiveUp(idx)
    BY <1>3, <2>1 DEF MarkRemaining, Batch!GiveUp
  <2> QED BY <2>1, <2>2
<1>4. CASE Wait
  <2>1. \A i \in Items : outcome[i] # "none"
    BY <1>4, NAssumption DEF IInv, TypeOK, LoopShape, Wait, AllGone, Active, Items, Phases
  <2>2. Batch!Return
    BY <1>4, <2>1 DEF Wait, Batch!Return
  <2> QED BY <2>2
<1>5. ASSUME NEW i \in Items, Enter(i) PROVE Batch!BatchNext \/ UNCHANGED Batch!batchVars
  <2>1. phase[i] = "launched" /\ outcome[i] = "none" /\ phase \in [Items -> Phases]
    BY <1>5 DEF IInv, TypeOK, LoopShape, Enter
  <2>2. CASE done
    <3>1. Working' = Working
      BY <1>5, <2>1, <2>2 DEF Enter, Working
    <3>2. Batch!GiveUp(i)
      BY <1>5, <2>1, <2>2, <3>1 DEF Enter, Batch!GiveUp, Working
    <3> QED BY <3>2
  <2>3. CASE ~done
    <3>1. Working' = Working \cup {i}
      BY <1>5, <2>1, <2>3 DEF Enter, Working
    <3>2. Cardinality(Working) < Limit
      BY <2>1, RoomToWork
    <3>3. i \notin Working
      BY <2>1 DEF Working
    <3>4. outcome' = outcome /\ done' = done /\ pc' = pc
      BY <1>5, <2>3 DEF Enter
    <3>5. Batch!Cardinality(Working) = Cardinality(Working)
      BY Zenon DEF Cardinality, Batch!Cardinality
    <3>6. Batch!Cardinality(Working) < Limit
      BY <3>2, <3>5
    <3>7. Batch!Start(i)
      BY <2>1, <2>3, <3>1, <3>3, <3>4, <3>6, Zenon DEF Batch!Start, Working
    <3> QED BY <3>7
  <2> QED BY <2>2, <2>3
<1>6. ASSUME NEW i \in Items, WorkerReturns(i) PROVE Batch!BatchNext
  <2>1. Working' = Working \ {i} /\ i \in Working
    BY <1>6 DEF IInv, TypeOK, WorkerReturns, Working
  <2>2. Batch!Finish(i)
    BY <1>6, <2>1 DEF WorkerReturns, Batch!Finish, Working
  <2> QED BY <2>2
<1>7. ASSUME NEW i \in Items, NotifyLock(i) \/ NotifyCall(i) PROVE UNCHANGED Batch!batchVars
  BY <1>7 DEF IInv, TypeOK, NotifyLock, NotifyCall
<1>8. CASE UNCHANGED vars
  BY <1>8 DEF vars
<1> QED
  BY <1>1, <1>2, <1>3, <1>4, <1>5, <1>6, <1>7, <1>8
     DEF Next, CallerStep, ItemStep, Returned

\* parmap.Map implements the batch that its callers rely on.
THEOREM MapImplementsBatch == Spec => ImplementsBatch
<1>1. Init => Batch!BatchInit
  BY DEF Init, Batch!BatchInit
<1> QED
  BY <1>1, StepImplementsBatch, Invariance, PTL
     DEF Spec, ImplementsBatch, Batch!BatchSpec
=============================================================================
