------------------------------- MODULE ParMap -------------------------------
(***************************************************************************)
(* parmap.Map (internal/utils/parmap/parmap.go): a bounded parallel map.   *)
(* The caller's goroutine runs the launch loop; one goroutine per launched *)
(* item runs the worker; all of them report progress under one mutex.      *)
(* The context may end between any two steps.                              *)
(*                                                                         *)
(* A goroutine holds its errgroup slot from Go until after its deferred    *)
(* notifyProgress. A nil onProgress (the callback is then skipped) and a   *)
(* panicking worker (the program dies) are left out.                       *)
(***************************************************************************)
EXTENDS Naturals, Integers, FiniteSets

CONSTANTS
  N,        \* the number of items, Len(items)
  RawLimit  \* the limit the caller passes

ASSUME NAssumption == N \in Nat \ {0}
ASSUME LimitAssumption == RawLimit \in Int

Items == 1 .. N

\* limit < 1 is treated as 1.
Limit == IF RawLimit < 1 THEN 1 ELSE RawLimit

VARIABLES
  done,      \* groupCtx.Err() # nil
  pc,        \* where the caller's goroutine is
  idx,       \* its loop index: the next item to launch or to mark
  phase,     \* where each item's goroutine is
  outcome,   \* results[i]: "none" is the zero Result
  mutex,     \* who holds progressMu: 0 nobody, an item, or Caller
  completed, \* the counter progressMu protects
  reported,  \* the last value onProgress was called with
  late       \* history: launches made after the context was done

vars == <<done, pc, idx, phase, outcome, mutex, completed, reported, late>>

Caller == N + 1
Free == 0
Phases == {"idle", "launched", "running", "ended", "callback", "gone"}

\* The goroutines that occupy an errgroup slot.
Active == {i \in Items : phase[i] \notin {"idle", "gone"}}

Init ==
  /\ done = FALSE
  /\ pc = "check"
  /\ idx = 1
  /\ phase = [i \in Items |-> "idle"]
  /\ outcome = [i \in Items |-> "none"]
  /\ mutex = Free
  /\ completed = 0
  /\ reported = 0
  /\ late = 0

-----------------------------------------------------------------------------
(* The environment.                                                        *)

ContextEnds ==
  /\ ~done
  /\ done' = TRUE
  /\ UNCHANGED <<pc, idx, phase, outcome, mutex, completed, reported, late>>

-----------------------------------------------------------------------------
(* The caller's goroutine.                                                 *)

\* Where the launch loop goes with the context in this state.
BranchIgnoringContext(ended) == "go"
Branch(ended) == IF ended THEN "mark" ELSE "go"

LoopCheck ==
  /\ pc = "check"
  /\ pc' = IF idx > N THEN "wait" ELSE Branch(done)
  /\ UNCHANGED <<done, idx, phase, outcome, mutex, completed, reported, late>>

\* group.Go blocks until a slot is free, without consulting the context.
SlotFreeOffByOne == Cardinality(Active) <= Limit
SlotFree == Cardinality(Active) < Limit

Launch ==
  /\ pc = "go"
  /\ SlotFree
  /\ phase' = [phase EXCEPT ![idx] = "launched"]
  /\ idx' = idx + 1
  /\ pc' = "check"
  /\ late' = IF done THEN late + 1 ELSE late
  /\ UNCHANGED <<done, outcome, mutex, completed, reported>>

\* results[j].Cancelled = true, for the items the loop never launched.
MarkRemaining ==
  /\ pc = "mark"
  /\ outcome' = [outcome EXCEPT ![idx] = "cancelled"]
  /\ pc' = "markLock"
  /\ UNCHANGED <<done, idx, phase, mutex, completed, reported, late>>

\* notifyProgress: take the mutex and count, then call back and release it.
LockWithoutWaiting(who) ==
  /\ mutex' = who
  /\ completed' = completed + 1
Lock(who) ==
  /\ mutex = Free
  /\ mutex' = who
  /\ completed' = completed + 1

CallBackNoUnlock(who) ==
  /\ mutex = who
  /\ reported' = completed
  /\ mutex' = mutex
CallBackAndUnlock(who) ==
  /\ mutex = who
  /\ reported' = completed
  /\ mutex' = Free

MarkLock ==
  /\ pc = "markLock"
  /\ Lock(Caller)
  /\ pc' = "markCall"
  /\ UNCHANGED <<done, idx, phase, outcome, reported, late>>

MarkCallOffByOne ==
  /\ pc = "markCall"
  /\ CallBackAndUnlock(Caller)
  /\ idx' = idx + 1
  /\ pc' = IF idx > N THEN "wait" ELSE "mark"
  /\ UNCHANGED <<done, phase, outcome, completed, late>>
MarkCall ==
  /\ pc = "markCall"
  /\ CallBackAndUnlock(Caller)
  /\ idx' = idx + 1
  /\ pc' = IF idx = N THEN "wait" ELSE "mark"
  /\ UNCHANGED <<done, phase, outcome, completed, late>>

\* group.Wait returns when every launched goroutine is gone.
NothingToAwait == TRUE
AllGone == Active = {}

Wait ==
  /\ pc = "wait"
  /\ AllGone
  /\ pc' = "returned"
  /\ UNCHANGED <<done, idx, phase, outcome, mutex, completed, reported, late>>

CallerStep == LoopCheck \/ Launch \/ MarkRemaining \/ MarkLock \/ MarkCall \/ Wait

-----------------------------------------------------------------------------
(* The goroutine of item i.                                                *)

\* The goroutine looks at the context once more before it calls the worker.
EnterUnchecked(i) ==
  /\ phase[i] = "launched"
  /\ phase' = [phase EXCEPT ![i] = "running"]
  /\ outcome' = outcome
  /\ UNCHANGED <<done, pc, idx, mutex, completed, reported, late>>
Enter(i) ==
  /\ phase[i] = "launched"
  /\ phase' = [phase EXCEPT ![i] = IF done THEN "ended" ELSE "running"]
  /\ outcome' = IF done THEN [outcome EXCEPT ![i] = "cancelled"] ELSE outcome
  /\ UNCHANGED <<done, pc, idx, mutex, completed, reported, late>>

WorkerReturns(i) ==
  /\ phase[i] = "running"
  /\ phase' = [phase EXCEPT ![i] = "ended"]
  /\ outcome' = [outcome EXCEPT ![i] = "value"]
  /\ UNCHANGED <<done, pc, idx, mutex, completed, reported, late>>

NotifyLock(i) ==
  /\ phase[i] = "ended"
  /\ Lock(i)
  /\ phase' = [phase EXCEPT ![i] = "callback"]
  /\ UNCHANGED <<done, pc, idx, outcome, reported, late>>

\* The callback returns, the mutex and then the slot are released.
NotifyCall(i) ==
  /\ phase[i] = "callback"
  /\ CallBackAndUnlock(i)
  /\ phase' = [phase EXCEPT ![i] = "gone"]
  /\ UNCHANGED <<done, pc, idx, outcome, completed, late>>

ItemStep(i) ==
  Enter(i) \/ WorkerReturns(i) \/ NotifyLock(i) \/ NotifyCall(i)

-----------------------------------------------------------------------------

\* Map returned: nothing moves any more (but the context may still end).
Returned == pc = "returned" /\ UNCHANGED vars

Next ==
  \/ ContextEnds
  \/ CallerStep
  \/ \E i \in Items : ItemStep(i)
  \/ Returned

Spec == Init /\ [][Next]_vars

\* Goroutines are scheduled; a worker function returns (the workers are
\* bounded pieces of work that also watch the context); the mutex is fair to
\* every goroutine (sync.Mutex does not starve a waiter).
FairSpec ==
  /\ Spec
  /\ WF_vars(LoopCheck) /\ WF_vars(Launch) /\ WF_vars(MarkRemaining)
  /\ SF_vars(MarkLock) /\ WF_vars(MarkCall) /\ WF_vars(Wait)
  /\ \A i \in Items : /\ WF_vars(Enter(i)) /\ WF_vars(WorkerReturns(i))
                      /\ SF_vars(NotifyLock(i)) /\ WF_vars(NotifyCall(i))

-----------------------------------------------------------------------------
(* Properties.                                                             *)

\* Type correctness of the whole state.
TypeOK ==
  /\ done \in BOOLEAN
  /\ pc \in {"check", "go", "mark", "markLock", "markCall", "wait", "returned"}
  /\ idx \in 1 .. N + 1
  /\ phase \in [Items -> Phases]
  /\ outcome \in [Items -> {"none", "value", "cancelled"}]
  /\ mutex \in 0 .. N + 1
  /\ completed \in 0 .. N
  /\ reported \in 0 .. N
  /\ late \in Nat

\* "peak goroutine count stays <= limit even with millions of items"
\* (parmap.go:19-21): no interleaving of launches and exits exceeds the limit.
BoundedGoroutines == Cardinality(Active) <= Limit

\* The launch loop's comment (parmap.go:108-114): a cancelled run with a
\* saturated pool does not queue further workers behind the running ones. The
\* one item whose group.Go was already blocked is the only late launch.
AtMostOneLateLaunch == late <= 1

\* When Map returns every item has exactly one outcome and every one of them
\* was reported: the progress callback's last value is the total, whichever
\* goroutines raced for the mutex and wherever the context ended.
ReturnedMeansReported ==
  pc = "returned" =>
    /\ \A i \in Items : outcome[i] # "none"
    /\ reported = N

\* onProgress observes 1, 2, 3, ...: no value is skipped, repeated or
\* delivered out of order (parmap.go:49-54).
ProgressInOrder == [][reported' # reported => reported' = reported + 1]_vars

\* The items whose completion has been counted.
Counted ==
  {i \in Items : /\ i < idx \/ (i = idx /\ pc = "markCall")
                 /\ phase[i] \in {"idle", "callback", "gone"}}

\* The items from idx on are untouched (but for the one being marked); those
\* below it were launched, or marked as cancelled.
LoopShape ==
  /\ pc \in {"go", "mark", "markLock", "markCall"} => idx <= N
  /\ pc \in {"wait", "returned"} => idx = N + 1
  /\ \A i \in Items :
       /\ i >= idx => phase[i] = "idle"
       /\ i < idx /\ phase[i] = "idle" => outcome[i] = "cancelled"
       /\ i > idx => outcome[i] = "none"
       /\ i = idx =>
            outcome[i] = IF pc \in {"markLock", "markCall"} THEN "cancelled"
                                                           ELSE "none"
       /\ phase[i] \in {"launched", "running"} => outcome[i] = "none"
       /\ phase[i] \in {"ended", "callback", "gone"} => outcome[i] # "none"
       /\ outcome[i] = "cancelled" => done
       /\ pc = "returned" => phase[i] \in {"idle", "gone"}
  /\ pc \in {"mark", "markLock", "markCall"} => done

\* Who holds the mutex is in its callback, and only the holder is.
MutexShape ==
  /\ \A i \in Items : phase[i] = "callback" <=> mutex = i
  /\ pc = "markCall" <=> mutex = Caller

\* The counter counts, and only the holder's own completion is unreported.
CountShape ==
  /\ completed = Cardinality(Counted)
  /\ reported = IF mutex = Free THEN completed ELSE completed - 1

LateShape == late = 0 \/ (late = 1 /\ done /\ pc # "go")

\* The inductive invariant behind the safety properties above.
IInv ==
  /\ TypeOK
  /\ LoopShape
  /\ MutexShape
  /\ CountShape
  /\ LateShape
  /\ BoundedGoroutines

\* Map returns, whether or not the context ever ends.
Terminates == <>(pc = "returned")

\* Map implements the batch its callers rely on.
Batch == INSTANCE TaskBatch WITH
           running <- {i \in Items : phase[i] = "running"},
           returned <- (pc = "returned")
ImplementsBatch == Batch!BatchSpec
=============================================================================
