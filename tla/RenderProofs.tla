---------------------------- MODULE RenderProofs ----------------------------
(***************************************************************************)
(* Proofs about Render for every number of components and workers, all     *)
(* files, all configurations and all bounds. IInv is inductive and implies *)
(* the safety properties; from it every step is seen to write only what    *)
(* the run was asked to write.                                             *)
(***************************************************************************)
EXTENDS Render, TLAPS

USE RenderAssumption

-----------------------------------------------------------------------------
(* The beginning, and what a run starts from.                              *)

\* No run is in progress at the beginning.
LEMMA InitIInv == Init => IInv
  <1> SUFFICES ASSUME Init PROVE IInv
    OBVIOUS
  <1>1. TypeOK
    <2>1. edits \in 0 .. MaxEdits /\ faults \in 0 .. MaxFaults /\ stops \in 0 .. MaxStops
      BY BoundsAssumption DEF Init
    <2>2. NoJob \in Job
      BY DEF NoJob, Job
    <2> QED
      BY <2>1, <2>2 DEF Init, TypeOK, Pool!BatchInit
  <1>2. /\ IdleShape /\ JobShape /\ PoolShape /\ StatusShape /\ OutputShape /\ LeftShape
        /\ ReportIsTrue /\ CheckPassMeansRendered /\ SuccessMeansRendered
    BY DEF Init, Pool!BatchInit, IdleShape, JobShape, PoolShape, StatusShape, OutputShape,
           LeftShape, ReportIsTrue, CheckPassMeansRendered, SuccessMeansRendered
  <1> QED
    BY <1>1, <1>2 DEF IInv

\* Nothing depends on the configuration between runs.
LEMMA EditIInv ==
  ASSUME IInv, NEW c \in Comps, Edit(c)
  PROVE  IInv'
  <1>1. edits' \in 0 .. MaxEdits
    BY BoundsAssumption DEF IInv, TypeOK, Edit
  <1>2. TypeOK'
    BY <1>1 DEF IInv, TypeOK, Edit, pool, results
  <1>3. /\ IdleShape' /\ JobShape' /\ PoolShape' /\ StatusShape' /\ OutputShape'
        /\ LeftShape' /\ ReportIsTrue' /\ CheckPassMeansRendered'
        /\ SuccessMeansRendered'
    BY DEF IInv, TypeOK, Edit, pool, results, IdleShape, JobShape, PoolShape, StatusShape,
           OutputShape, LeftShape, ReportIsTrue, CheckPassMeansRendered,
           SuccessMeansRendered
  <1> QED
    BY <1>2, <1>3 DEF IInv

\* A run starts from a valid job and clean results.
LEMMA StartIInv ==
  ASSUME IInv, NEW j \in Job, Start(j)
  PROVE  IInv'
  <1>1. TypeOK'
    BY DEF IInv, TypeOK, Start, results, counts
  <1>2. /\ IdleShape' /\ JobShape' /\ PoolShape' /\ StatusShape' /\ OutputShape'
        /\ LeftShape' /\ ReportIsTrue' /\ CheckPassMeansRendered'
        /\ SuccessMeansRendered'
    BY DEF IInv, TypeOK, Start, Valid, Configured, Batch, pool, results, IdleShape, JobShape,
           PoolShape, StatusShape, OutputShape, LeftShape, ReportIsTrue,
           CheckPassMeansRendered, SuccessMeansRendered
  <1> QED
    BY <1>1, <1>2 DEF IInv

\* Faults and stops stay within their bounds.
LEMMA FaultCount ==
  ASSUME IInv, Fault
  PROVE  /\ faults' \in 0 .. MaxFaults
         /\ edits' \in 0 .. MaxEdits
         /\ stops' \in 0 .. MaxStops
  BY BoundsAssumption DEF IInv, TypeOK, Fault

\* The same for an interrupt or a kill.
LEMMA StopCount ==
  ASSUME IInv, Stop
  PROVE  /\ faults' \in 0 .. MaxFaults
         /\ edits' \in 0 .. MaxEdits
         /\ stops' \in 0 .. MaxStops
  BY BoundsAssumption DEF IInv, TypeOK, Stop

\* Only the context changes.
LEMMA InterruptIInv ==
  ASSUME IInv, Interrupt
  PROVE  IInv'
  <1>1. TypeOK'
    BY StopCount DEF IInv, TypeOK, Interrupt, Pool!Cancel, pool, results, counts
  <1>2. /\ IdleShape' /\ JobShape' /\ PoolShape' /\ StatusShape' /\ OutputShape'
        /\ LeftShape' /\ ReportIsTrue' /\ CheckPassMeansRendered'
        /\ SuccessMeansRendered'
    BY StopCount DEF IInv, TypeOK, Interrupt, Pool!Cancel, pool, results, counts,
    Valid, Configured, Batch, Failed, IdleShape, JobShape, PoolShape, StatusShape,
    OutputShape, LeftShape, ReportIsTrue, CheckPassMeansRendered, SuccessMeansRendered
  <1> QED
    BY <1>1, <1>2 DEF IInv

-----------------------------------------------------------------------------
(* Phase 1.                                                                *)

\* Starting a worker leaves its component untouched.
LEMMA PrepStartIInv ==
  ASSUME IInv, NEW c \in Comps, PrepStart(c)
  PROVE  IInv'
  <1>1. TypeOK'
    BY DEF IInv, TypeOK, PrepStart, Pool!Start, pool, results, counts
  <1>2. /\ IdleShape' /\ JobShape' /\ PoolShape' /\ StatusShape' /\ OutputShape'
        /\ LeftShape' /\ ReportIsTrue' /\ CheckPassMeansRendered'
        /\ SuccessMeansRendered'
    BY DEF IInv, TypeOK, PrepStart, Pool!Start, pool, results, counts, Valid,
    Configured, Batch, Failed, IdleShape, JobShape, PoolShape, StatusShape,
    OutputShape, LeftShape, ReportIsTrue, CheckPassMeansRendered, SuccessMeansRendered
  <1> QED
    BY <1>1, <1>2 DEF IInv

\* What is prepared is configured and not broken.
LEMMA PrepDoneIInv ==
  ASSUME IInv, NEW c \in Comps, PrepDone(c)
  PROVE  IInv'
  <1>1. TypeOK'
    BY FaultCount DEF IInv, TypeOK, PrepDone, MockAsked, Pool!Finish, Wants, pool,
        results, counts
  <1>2. /\ IdleShape' /\ JobShape' /\ PoolShape' /\ StatusShape' /\ OutputShape'
        /\ LeftShape' /\ ReportIsTrue' /\ CheckPassMeansRendered'
        /\ SuccessMeansRendered'
    BY FaultCount DEF IInv, TypeOK, PrepDone, MockAsked, Pool!Finish, Wants, pool,
        results, counts, Valid, Configured, Batch, Failed, IdleShape, JobShape,
        PoolShape, StatusShape, OutputShape, LeftShape, ReportIsTrue,
        CheckPassMeansRendered, SuccessMeansRendered
  <1> QED
    BY <1>1, <1>2 DEF IInv

\* A failed preparation has not reached the output.
LEMMA PrepFailsIInv ==
  ASSUME IInv, NEW c \in Comps, PrepFails(c)
  PROVE  IInv'
  <1>1. TypeOK'
    BY DEF IInv, TypeOK, PrepFails, Pool!Finish, pool, results, counts
  <1>2. /\ IdleShape' /\ JobShape' /\ PoolShape' /\ StatusShape' /\ OutputShape'
        /\ LeftShape' /\ ReportIsTrue' /\ CheckPassMeansRendered'
        /\ SuccessMeansRendered'
    BY DEF IInv, TypeOK, PrepFails, Pool!Finish, pool, results, counts, Valid,
    Configured, Batch, Failed, IdleShape, JobShape, PoolShape, StatusShape,
    OutputShape, LeftShape, ReportIsTrue, CheckPassMeansRendered, SuccessMeansRendered
  <1> QED
    BY <1>1, <1>2 DEF IInv

\* Nor has one that fails by a fault.
LEMMA PrepErrorIInv ==
  ASSUME IInv, NEW c \in Comps, PrepError(c)
  PROVE  IInv'
  <1>1. TypeOK'
    BY FaultCount DEF IInv, TypeOK, PrepError, Pool!Finish, pool, results, counts
  <1>2. /\ IdleShape' /\ JobShape' /\ PoolShape' /\ StatusShape' /\ OutputShape'
        /\ LeftShape' /\ ReportIsTrue' /\ CheckPassMeansRendered'
        /\ SuccessMeansRendered'
    BY FaultCount DEF IInv, TypeOK, PrepError, Pool!Finish, pool, results, counts,
    Valid, Configured, Batch, Failed, IdleShape, JobShape, PoolShape, StatusShape,
    OutputShape, LeftShape, ReportIsTrue, CheckPassMeansRendered, SuccessMeansRendered
  <1> QED
    BY <1>1, <1>2 DEF IInv

\* A component given up, in either phase, is untouched.
LEMMA GivenUpIInv ==
  ASSUME IInv, NEW c \in Comps, GivenUp(c)
  PROVE  IInv'
  <1>1. TypeOK'
    BY DEF IInv, TypeOK, GivenUp, Pool!GiveUp, pool, results, counts
  <1>2. /\ IdleShape' /\ JobShape' /\ PoolShape' /\ StatusShape' /\ OutputShape'
        /\ LeftShape' /\ ReportIsTrue' /\ CheckPassMeansRendered'
        /\ SuccessMeansRendered'
    BY DEF IInv, TypeOK, GivenUp, Pool!GiveUp, pool, results, counts, Valid,
    Configured, Batch, Failed, IdleShape, JobShape, PoolShape, StatusShape,
    OutputShape, LeftShape, ReportIsTrue, CheckPassMeansRendered, SuccessMeansRendered
  <1> QED
    BY <1>1, <1>2 DEF IInv

\* After the phase every selected component has a result or is prepared.
LEMMA PreparedIInv ==
  ASSUME IInv, Prepared
  PROVE  IInv'
  <1>1. TypeOK'
    BY DEF IInv, TypeOK, Prepared, Pool!Return, pool, results, counts
  <1>2. /\ IdleShape' /\ JobShape' /\ PoolShape' /\ StatusShape' /\ OutputShape'
        /\ LeftShape' /\ ReportIsTrue' /\ CheckPassMeansRendered'
        /\ SuccessMeansRendered'
    BY DEF IInv, TypeOK, Prepared, Pool!Return, pool, results, counts, Valid,
    Configured, Batch, Failed, IdleShape, JobShape, PoolShape, StatusShape,
    OutputShape, LeftShape, ReportIsTrue, CheckPassMeansRendered, SuccessMeansRendered
  <1> QED
    BY <1>1, <1>2 DEF IInv

-----------------------------------------------------------------------------
(* Phase 2.                                                                *)

\* What is pruned is not configured.
LEMMA ToPruneIsOrphaned ==
  ASSUME IInv, pc # "idle"
  PROVE  /\ ToPrune \subseteq Comps
         /\ \A c \in ToPrune : wants[c] = Absent /\ job.clean /\ ~job.check
  BY DEF IInv, TypeOK, JobShape, Valid, Configured, ToPrune, Orphans

\* The batch changes no directory and decides what to prune.
LEMMA BatchDoneIInv ==
  ASSUME IInv, BatchDone
  PROVE  IInv'
  <1>1. TypeOK'
    BY ToPruneIsOrphaned DEF IInv, TypeOK, BatchDone, EndOfBatch, Batch, pool, results,
        counts
  <1>2. /\ IdleShape' /\ JobShape' /\ PoolShape' /\ StatusShape' /\ OutputShape'
        /\ LeftShape' /\ ReportIsTrue' /\ CheckPassMeansRendered'
        /\ SuccessMeansRendered'
    BY ToPruneIsOrphaned DEF IInv, TypeOK, BatchDone, EndOfBatch, pool, results,
        counts, Valid, Configured, Batch, Failed, IdleShape, JobShape, PoolShape,
        StatusShape, OutputShape, LeftShape, ReportIsTrue, CheckPassMeansRendered,
        SuccessMeansRendered
  <1> QED
    BY <1>1, <1>2 DEF IInv

\* Components without a result stay prepared until they are finished.
LEMMA BatchErrorsIInv ==
  ASSUME IInv, BatchErrors
  PROVE  IInv'
  <1>1. TypeOK'
    BY ToPruneIsOrphaned, FaultCount DEF IInv, TypeOK, BatchErrors, EndOfBatch, Batch, pool,
        results, counts
  <1>2. /\ IdleShape' /\ JobShape' /\ PoolShape' /\ StatusShape' /\ OutputShape'
        /\ LeftShape' /\ ReportIsTrue' /\ CheckPassMeansRendered'
        /\ SuccessMeansRendered'
    BY ToPruneIsOrphaned, FaultCount DEF IInv, TypeOK, BatchErrors, EndOfBatch, pool,
        results, counts, Valid, Configured, Batch, Failed, IdleShape, JobShape,
        PoolShape, StatusShape, OutputShape, LeftShape, ReportIsTrue,
        CheckPassMeansRendered, SuccessMeansRendered
  <1> QED
    BY <1>1, <1>2 DEF IInv

\* BatchFails and BatchCrashes.
LEMMA NoBatchIInv ==
  ASSUME IInv, NoBatch, Fault \/ UNCHANGED counts
  PROVE  IInv'
  <1>1. TypeOK'
    BY ToPruneIsOrphaned, FaultCount DEF IInv, TypeOK, NoBatch, EndOfBatch, pool,
        results, counts
  <1>2. /\ IdleShape' /\ JobShape' /\ PoolShape' /\ StatusShape' /\ OutputShape'
        /\ LeftShape' /\ ReportIsTrue' /\ CheckPassMeansRendered'
        /\ SuccessMeansRendered'
    BY ToPruneIsOrphaned, FaultCount DEF IInv, TypeOK, NoBatch, EndOfBatch, pool,
        results, counts, Valid, Configured, Batch, Failed, IdleShape, JobShape,
        PoolShape, StatusShape, OutputShape, LeftShape, ReportIsTrue,
        CheckPassMeansRendered, SuccessMeansRendered
  <1> QED
    BY <1>1, <1>2 DEF IInv

\* Pruning touches no selected component.
LEMMA PruneOneIInv ==
  ASSUME IInv, NEW c \in Comps, PruneOne(c)
  PROVE  IInv'
  <1>1. TypeOK'
    BY DEF IInv, TypeOK, PruneOne, IsNext, pool, results, counts
  <1>2. /\ IdleShape' /\ JobShape' /\ PoolShape' /\ StatusShape' /\ OutputShape'
        /\ LeftShape' /\ ReportIsTrue' /\ CheckPassMeansRendered'
        /\ SuccessMeansRendered'
    BY DEF IInv, TypeOK, PruneOne, IsNext, pool, results, counts, Valid, Configured,
        Batch, Failed, IdleShape, JobShape, PoolShape, StatusShape, OutputShape,
        LeftShape, ReportIsTrue, CheckPassMeansRendered, SuccessMeansRendered
  <1> QED
    BY <1>1, <1>2 DEF IInv

\* Nor does pruning that fails.
LEMMA PruneFailsIInv ==
  ASSUME IInv, NEW c \in Comps, PruneFails(c)
  PROVE  IInv'
  <1>1. TypeOK'
    BY FaultCount DEF IInv, TypeOK, PruneFails, IsNext, Remains, pool, results,
        counts, Dirs
  <1>2. /\ IdleShape' /\ JobShape' /\ PoolShape' /\ StatusShape' /\ OutputShape'
        /\ LeftShape' /\ ReportIsTrue' /\ CheckPassMeansRendered'
        /\ SuccessMeansRendered'
    BY FaultCount DEF IInv, TypeOK, PruneFails, IsNext, Remains, pool, results,
        counts, Valid, Configured, Batch, Failed, IdleShape, JobShape, PoolShape,
        StatusShape, OutputShape, LeftShape, ReportIsTrue, CheckPassMeansRendered,
        SuccessMeansRendered
  <1> QED
    BY <1>1, <1>2 DEF IInv

\* A run that cannot list the orphans reports nothing.
LEMMA ListingFailsIInv ==
  ASSUME IInv, ListingFails
  PROVE  IInv'
  <1>1. TypeOK'
    BY FaultCount DEF IInv, TypeOK, ListingFails, pool, results, counts
  <1>2. /\ IdleShape' /\ JobShape' /\ PoolShape' /\ StatusShape' /\ OutputShape'
        /\ LeftShape' /\ ReportIsTrue' /\ CheckPassMeansRendered'
        /\ SuccessMeansRendered'
    BY FaultCount DEF IInv, TypeOK, ListingFails, pool, results, counts, Valid,
        Configured, Batch, Failed, IdleShape, JobShape, PoolShape, StatusShape,
        OutputShape, LeftShape, ReportIsTrue, CheckPassMeansRendered,
        SuccessMeansRendered
  <1> QED
    BY <1>1, <1>2 DEF IInv

\* The second batch is exactly the prepared components.
LEMMA PrunedIInv ==
  ASSUME IInv, Pruned
  PROVE  IInv'
  <1>1. TypeOK'
    BY DEF IInv, TypeOK, Pruned, pool, results, counts
  <1>2. /\ IdleShape' /\ JobShape' /\ PoolShape' /\ StatusShape' /\ OutputShape'
        /\ LeftShape' /\ ReportIsTrue' /\ CheckPassMeansRendered'
        /\ SuccessMeansRendered'
    BY DEF IInv, TypeOK, Pruned, pool, results, counts, Valid, Configured, Batch,
        Failed, IdleShape, JobShape, PoolShape, StatusShape, OutputShape, LeftShape,
        ReportIsTrue, CheckPassMeansRendered, SuccessMeansRendered
  <1> QED
    BY <1>1, <1>2 DEF IInv

-----------------------------------------------------------------------------
(* Phase 3.                                                                *)

\* What a worker of the finishing phase finds.
LEMMA AtWork ==
  ASSUME IInv, NEW c \in Comps, NEW x, At(c, x)
  PROVE  /\ status[c] = "prepared" /\ outcome[c] = "none" /\ c \in job.sel
         /\ wants[c] \in Trees
         /\ x # "copy" => out[c] = before[c] /\ ~changed[c]
  BY DEF IInv, TypeOK, At, PoolShape, StatusShape, OutputShape

\* What a worker that copies finds.
LEMMA Copying ==
  ASSUME IInv, NEW c \in Comps, At(c, "copy")
  PROVE  /\ ~job.check /\ out[c] \subseteq wants[c] /\ wants[c] \in Trees
         /\ changed[c] <=> before[c] # wants[c]
  BY DEF IInv, TypeOK, At, PoolShape, StatusShape, OutputShape

\* The worker has not looked at the directory yet.
LEMMA FinishStartIInv ==
  ASSUME IInv, NEW c \in Comps, FinishStart(c)
  PROVE  IInv'
  <1>1. TypeOK'
    BY DEF IInv, TypeOK, FinishStart, Pool!Start, pool, results, counts
  <1>2. /\ IdleShape' /\ JobShape' /\ PoolShape' /\ StatusShape' /\ OutputShape'
        /\ LeftShape' /\ ReportIsTrue' /\ CheckPassMeansRendered'
        /\ SuccessMeansRendered'
    BY DEF IInv, TypeOK, FinishStart, Pool!Start, pool, results, counts, Valid,
        Configured, Batch, Failed, IdleShape, JobShape, PoolShape, StatusShape,
        OutputShape, LeftShape, ReportIsTrue, CheckPassMeansRendered,
        SuccessMeansRendered
  <1> QED
    BY <1>1, <1>2 DEF IInv

\* The context was alive: the worker goes on.
LEMMA ProceedIInv ==
  ASSUME IInv, NEW c \in Comps, Proceed(c)
  PROVE  IInv'
  <1>1. TypeOK'
    BY DEF IInv, TypeOK, Proceed, At, pool, results, counts
  <1>2. /\ IdleShape' /\ JobShape' /\ PoolShape' /\ StatusShape' /\ OutputShape'
        /\ LeftShape' /\ ReportIsTrue' /\ CheckPassMeansRendered'
        /\ SuccessMeansRendered'
    BY DEF IInv, TypeOK, Proceed, At, pool, results, counts, Valid, Configured, Batch,
        Failed, IdleShape, JobShape, PoolShape, StatusShape, OutputShape, LeftShape,
        ReportIsTrue, CheckPassMeansRendered, SuccessMeansRendered
  <1> QED
    BY <1>1, <1>2 DEF IInv

\* A cancelled component is untouched.
LEMMA BailOutIInv ==
  ASSUME IInv, NEW c \in Comps, BailOut(c)
  PROVE  IInv'
  <1>1. TypeOK'
    BY DEF IInv, TypeOK, Ends, At, Pool!Finish, BailOut, pool, results, counts
  <1>2. /\ IdleShape' /\ JobShape' /\ PoolShape' /\ StatusShape' /\ OutputShape'
        /\ LeftShape' /\ ReportIsTrue' /\ CheckPassMeansRendered'
        /\ SuccessMeansRendered'
    BY DEF IInv, TypeOK, Ends, At, Pool!Finish, BailOut, pool, results, counts, Valid,
        Configured, Batch, Failed, IdleShape, JobShape, PoolShape, StatusShape,
        OutputShape, LeftShape, ReportIsTrue, CheckPassMeansRendered,
        SuccessMeansRendered
  <1> QED
    BY <1>1, <1>2 DEF IInv

\* A component without a mock result is untouched.
LEMMA NoResultIInv ==
  ASSUME IInv, NEW c \in Comps, NoResult(c)
  PROVE  IInv'
  <1>1. TypeOK'
    BY DEF IInv, TypeOK, Ends, At, Pool!Finish, NoResult, pool, results, counts
  <1>2. /\ IdleShape' /\ JobShape' /\ PoolShape' /\ StatusShape' /\ OutputShape'
        /\ LeftShape' /\ ReportIsTrue' /\ CheckPassMeansRendered'
        /\ SuccessMeansRendered'
    BY DEF IInv, TypeOK, Ends, At, Pool!Finish, NoResult, pool, results, counts,
        Valid, Configured, Batch, Failed, IdleShape, JobShape, PoolShape, StatusShape,
        OutputShape, LeftShape, ReportIsTrue, CheckPassMeansRendered,
        SuccessMeansRendered
  <1> QED
    BY <1>1, <1>2 DEF IInv

\* Errors before the comparison leave the directory.
LEMMA FinishErrorIInv ==
  ASSUME IInv, NEW c \in Comps, FinishError(c)
  PROVE  IInv'
  <1>1. TypeOK'
    BY FaultCount DEF IInv, TypeOK, Ends, At, Pool!Finish, FinishError, pool, results,
        counts
  <1>2. /\ IdleShape' /\ JobShape' /\ PoolShape' /\ StatusShape' /\ OutputShape'
        /\ LeftShape' /\ ReportIsTrue' /\ CheckPassMeansRendered'
        /\ SuccessMeansRendered'
    BY FaultCount DEF IInv, TypeOK, Ends, At, Pool!Finish, FinishError, pool, results,
        counts, Valid, Configured, Batch, Failed, IdleShape, JobShape, PoolShape,
        StatusShape, OutputShape, LeftShape, ReportIsTrue, CheckPassMeansRendered,
        SuccessMeansRendered
  <1> QED
    BY <1>1, <1>2 DEF IInv

\* A check reports the difference and leaves the directory.
LEMMA CheckOnlyIInv ==
  ASSUME IInv, NEW c \in Comps, CheckOnly(c)
  PROVE  IInv'
  <1>1. TypeOK'
    BY AtWork DEF IInv, TypeOK, Ends, At, Pool!Finish, Compared, CheckOnly, pool,
        results, counts
  <1>2. IdleShape' /\ JobShape' /\ PoolShape'
    BY AtWork DEF IInv, TypeOK, Ends, At, Pool!Finish, Compared, CheckOnly, pool,
        results, counts, Valid, Configured, IdleShape, JobShape, PoolShape,
        StatusShape
  <1>3. StatusShape'
    BY AtWork DEF IInv, TypeOK, Ends, At, Pool!Finish, Compared, CheckOnly, pool,
        results, counts, Batch, JobShape, PoolShape, StatusShape, LeftShape, Failed
  <1>4. OutputShape'
    <2> DEFINE drift == out[c] # wants[c]
    <2>1. drift \in BOOLEAN
      OBVIOUS
    <2>2. /\ changed' = [changed EXCEPT ![c] = drift]
          /\ drift <=> before[c] # wants[c]
      BY AtWork DEF CheckOnly, Compared
    <2>3. /\ job.check /\ At(c, "go")
          /\ status' = [status EXCEPT ![c] = "ok"]
          /\ step' = [step EXCEPT ![c] = "none"]
          /\ UNCHANGED <<wants, out, pc, job, before>>
      BY AtWork DEF CheckOnly, Compared, Ends, Pool!Finish, At
    <2> HIDE DEF drift
    <2> QED
      BY <2>1, <2>2, <2>3, AtWork DEF IInv, TypeOK, PoolShape, StatusShape, OutputShape
  <1>5. LeftShape'
    BY AtWork DEF IInv, TypeOK, Ends, At, Pool!Finish, Compared, CheckOnly, pool,
        results, counts, Failed, StatusShape, LeftShape, OutputShape
  <1>6. ReportIsTrue' /\ CheckPassMeansRendered' /\ SuccessMeansRendered'
    BY AtWork DEF IInv, TypeOK, Ends, At, Pool!Finish, Compared, CheckOnly, pool,
        results, counts, ReportIsTrue, CheckPassMeansRendered, SuccessMeansRendered
  <1> QED
    BY <1>1, <1>2, <1>3, <1>4, <1>5, <1>6 DEF IInv

\* A refused component is reported as an error.
LEMMA RefuseIInv ==
  ASSUME IInv, NEW c \in Comps, Refuse(c)
  PROVE  IInv'
  <1>1. TypeOK'
    BY DEF IInv, TypeOK, Ends, At, Pool!Finish, Compared, Refuse, pool, results,
        counts
  <1>2. /\ IdleShape' /\ JobShape' /\ PoolShape' /\ StatusShape' /\ OutputShape'
        /\ LeftShape' /\ ReportIsTrue' /\ CheckPassMeansRendered'
        /\ SuccessMeansRendered'
    BY DEF IInv, TypeOK, Ends, At, Pool!Finish, Compared, Refuse, pool, results,
        counts, Valid, Configured, Batch, Failed, IdleShape, JobShape, PoolShape,
        StatusShape, OutputShape, LeftShape, ReportIsTrue, CheckPassMeansRendered,
        SuccessMeansRendered
  <1> QED
    BY <1>1, <1>2 DEF IInv

\* The comparison is with what the run found.
LEMMA OverwriteIInv ==
  ASSUME IInv, NEW c \in Comps, Overwrite(c)
  PROVE  IInv'
  <1>1. TypeOK'
    BY AtWork DEF IInv, TypeOK, At, Compared, Overwrite, pool, results, counts, Dirs
  <1>2. IdleShape' /\ JobShape' /\ PoolShape'
    BY AtWork DEF IInv, TypeOK, At, Compared, Overwrite, pool, results, counts, Valid,
        Configured, IdleShape, JobShape, PoolShape, StatusShape
  <1>3. StatusShape'
    BY AtWork DEF IInv, TypeOK, At, Compared, Overwrite, pool, results, counts, Batch,
        JobShape, PoolShape, StatusShape, LeftShape, Failed
  <1>4. OutputShape'
    <2> DEFINE drift == out[c] # wants[c]
    <2>1. drift \in BOOLEAN
      OBVIOUS
    <2>2. /\ changed' = [changed EXCEPT ![c] = drift]
          /\ drift <=> before[c] # wants[c]
      BY AtWork DEF Overwrite, Compared
    <2>3. /\ ~job.check /\ At(c, "go")
          /\ out' = [out EXCEPT ![c] = {}]
          /\ step' = [step EXCEPT ![c] = "copy"]
          /\ UNCHANGED <<wants, pc, job, status, before>>
      BY AtWork DEF Overwrite, Compared, Ends, Pool!Finish, results
    <2> HIDE DEF drift
    <2> QED
      BY <2>1, <2>2, <2>3, AtWork DEF IInv, TypeOK, PoolShape, StatusShape, OutputShape
  <1>5. LeftShape'
    BY AtWork DEF IInv, TypeOK, At, Compared, Overwrite, pool, results, counts,
        Failed, StatusShape, LeftShape, OutputShape
  <1>6. ReportIsTrue' /\ CheckPassMeansRendered' /\ SuccessMeansRendered'
    BY AtWork DEF IInv, TypeOK, At, Compared, Overwrite, pool, results, counts,
        ReportIsTrue, CheckPassMeansRendered, SuccessMeansRendered
  <1> QED
    BY <1>1, <1>2, <1>3, <1>4, <1>5, <1>6 DEF IInv

\* A component half removed is an error.
LEMMA OverwriteFailsIInv ==
  ASSUME IInv, NEW c \in Comps, OverwriteFails(c)
  PROVE  IInv'
  <1>1. TypeOK'
    BY FaultCount DEF IInv, TypeOK, Ends, At, Pool!Finish, Compared, OverwriteFails,
        Remains, pool, results, counts, Dirs
  <1>2. /\ IdleShape' /\ JobShape' /\ PoolShape' /\ StatusShape' /\ OutputShape'
        /\ LeftShape' /\ ReportIsTrue' /\ CheckPassMeansRendered'
        /\ SuccessMeansRendered'
    BY FaultCount DEF IInv, TypeOK, Ends, At, Pool!Finish, Compared, OverwriteFails,
        Remains, pool, results, counts, Valid, Configured, Batch, Failed, IdleShape,
        JobShape, PoolShape, StatusShape, OutputShape, LeftShape, ReportIsTrue,
        CheckPassMeansRendered, SuccessMeansRendered
  <1> QED
    BY <1>1, <1>2 DEF IInv

\* Copying adds files of the rendered tree only.
LEMMA CopyIInv ==
  ASSUME IInv, NEW c \in Comps, Copy(c)
  PROVE  IInv'
  <1>1. TypeOK'
    <2>1. PICK f \in wants[c] \ out[c] : out' = [out EXCEPT ![c] = @ \cup {f}]
      BY DEF Copy
    <2>2. out[c] \cup {f} \in Dirs
      <3>1. At(c, "copy")
        BY DEF Copy
      <3>2. out[c] \subseteq wants[c] /\ wants[c] \in Trees
        BY <3>1, Copying
      <3> QED
        BY <2>1, <3>2 DEF Trees, Dirs
    <2>3. out' \in [Comps -> Dirs \cup {Absent}]
      BY <2>1, <2>2 DEF IInv, TypeOK
    <2> QED
      BY <2>3 DEF IInv, TypeOK, Copy, pool, results, counts
  <1>2. IdleShape' /\ JobShape' /\ PoolShape'
    BY AtWork, Copying DEF IInv, TypeOK, At, Copy, pool, results, counts, Valid, Configured,
        IdleShape, JobShape, PoolShape, StatusShape
  <1>3. StatusShape'
    BY AtWork, Copying DEF IInv, TypeOK, At, Copy, pool, results, counts, Batch, JobShape,
        PoolShape, StatusShape, LeftShape, Failed
  <1>4. OutputShape'
    BY AtWork, Copying DEF IInv, TypeOK, At, Copy, pool, results, counts, PoolShape,
        StatusShape, OutputShape, LeftShape, Failed
  <1>5. LeftShape'
    BY AtWork, Copying DEF IInv, TypeOK, At, Copy, pool, results, counts, Failed, StatusShape,
        LeftShape, OutputShape
  <1>6. ReportIsTrue' /\ CheckPassMeansRendered' /\ SuccessMeansRendered'
    BY AtWork, Copying DEF IInv, TypeOK, At, Copy, pool, results, counts, ReportIsTrue,
        CheckPassMeansRendered, SuccessMeansRendered
  <1> QED
    BY <1>1, <1>2, <1>3, <1>4, <1>5, <1>6 DEF IInv

\* A component half copied is an error.
LEMMA CopyFailsIInv ==
  ASSUME IInv, NEW c \in Comps, CopyFails(c)
  PROVE  IInv'
  <1>1. TypeOK'
    BY FaultCount DEF IInv, TypeOK, Ends, At, Pool!Finish, CopyFails, pool, results,
        counts
  <1>2. /\ IdleShape' /\ JobShape' /\ PoolShape' /\ StatusShape' /\ OutputShape'
        /\ LeftShape' /\ ReportIsTrue' /\ CheckPassMeansRendered'
        /\ SuccessMeansRendered'
    BY FaultCount DEF IInv, TypeOK, Ends, At, Pool!Finish, CopyFails, pool, results,
        counts, Valid, Configured, Batch, Failed, IdleShape, JobShape, PoolShape,
        StatusShape, OutputShape, LeftShape, ReportIsTrue, CheckPassMeansRendered,
        SuccessMeansRendered
  <1> QED
    BY <1>1, <1>2 DEF IInv

\* When all files are copied the directory is the tree.
LEMMA CopyDoneIInv ==
  ASSUME IInv, NEW c \in Comps, CopyDone(c)
  PROVE  IInv'
  <1>1. TypeOK'
    BY AtWork, Copying DEF IInv, TypeOK, Ends, At, Pool!Finish, CopyDone, pool, results, counts
  <1>2. IdleShape' /\ JobShape' /\ PoolShape'
    BY AtWork, Copying DEF IInv, TypeOK, Ends, At, Pool!Finish, CopyDone, pool, results,
        counts, Valid, Configured, IdleShape, JobShape, PoolShape, StatusShape
  <1>3. StatusShape'
    BY AtWork, Copying DEF IInv, TypeOK, Ends, At, Pool!Finish, CopyDone, pool, results,
        counts, Batch, JobShape, PoolShape, StatusShape, LeftShape, Failed
  <1>4. OutputShape'
    <2>1. out[c] = wants[c]
      <3>1. At(c, "copy") /\ wants[c] \subseteq out[c]
        BY DEF CopyDone
      <3>2. out[c] \subseteq wants[c]
        BY <3>1, Copying
      <3> QED
        BY <3>1, <3>2
    <2>2. /\ At(c, "copy")
          /\ status' = [status EXCEPT ![c] = "ok"]
          /\ step' = [step EXCEPT ![c] = "none"]
          /\ UNCHANGED <<wants, out, pc, job, changed, before>>
      BY DEF CopyDone, Ends
    <2> QED
      BY <2>1, <2>2, AtWork, Copying DEF IInv, TypeOK, PoolShape, StatusShape, OutputShape
  <1>5. LeftShape'
    BY AtWork, Copying DEF IInv, TypeOK, Ends, At, Pool!Finish, CopyDone, pool, results,
        counts, Failed, StatusShape, LeftShape, OutputShape
  <1>6. ReportIsTrue' /\ CheckPassMeansRendered' /\ SuccessMeansRendered'
    BY AtWork, Copying DEF IInv, TypeOK, Ends, At, Pool!Finish, CopyDone, pool, results,
        counts, ReportIsTrue, CheckPassMeansRendered, SuccessMeansRendered
  <1> QED
    BY <1>1, <1>2, <1>3, <1>4, <1>5, <1>6 DEF IInv

\* No component is left prepared; what failed is to be marked.
LEMMA FinishedIInv ==
  ASSUME IInv, Finished
  PROVE  IInv'
  <1>1. TypeOK'
    BY DEF IInv, TypeOK, Finished, Pool!Return, pool, results, counts, Failed
  <1>2. /\ IdleShape' /\ JobShape' /\ PoolShape' /\ StatusShape' /\ OutputShape'
        /\ LeftShape' /\ ReportIsTrue' /\ CheckPassMeansRendered'
        /\ SuccessMeansRendered'
    BY DEF IInv, TypeOK, Finished, Pool!Return, pool, results, counts, Valid,
        Configured, Batch, Failed, IdleShape, JobShape, PoolShape, StatusShape,
        OutputShape, LeftShape, ReportIsTrue, CheckPassMeansRendered,
        SuccessMeansRendered
  <1> QED
    BY <1>1, <1>2 DEF IInv


-----------------------------------------------------------------------------
(* The last pass, and the end.                                             *)

\* What marking leaves is a directory, or nothing.
LEMMA HalfMarkedType ==
  ASSUME IInv, NEW c \in Comps
  PROVE  HalfMarked(c) \subseteq Dirs \cup {Absent}
  <1>1. out[c] \in Dirs \cup {Absent}
    BY DEF IInv, TypeOK
  <1>2. CASE out[c] = Absent
    BY <1>2 DEF HalfMarked, Dirs
  <1>3. CASE out[c] # Absent /\ job.force
    <2>1. out[c] \cup {Marker} \in Dirs
      BY <1>1, <1>3 DEF Dirs
    <2> SUFFICES ASSUME NEW d \in HalfMarked(c) PROVE d \in Dirs \cup {Absent}
      BY Zenon
    <2>2. d = Absent \/ d \subseteq out[c] \cup {Marker}
      BY <1>3 DEF HalfMarked
    <2> QED
      BY <2>1, <2>2 DEF Dirs
  <1>4. CASE out[c] # Absent /\ ~job.force
    <2>1. out[c] \in Dirs /\ out[c] \ {Marker} \in Dirs
      BY <1>1, <1>4 DEF Dirs
    <2> QED
      BY <1>4, <2>1 DEF HalfMarked
  <1> QED
    BY <1>2, <1>3, <1>4

\* Marking touches failed components only; a check reports what a marker would change.
LEMMA MarkOneIInv ==
  ASSUME IInv, NEW c \in Comps, MarkOne(c)
  PROVE  IInv'
  <1>0. /\ pc = "mark" /\ c \in left /\ left' = left \ {c}
        /\ UNCHANGED <<wants, pc, job, status, mock, mocked, step, exit, before>>
        /\ UNCHANGED <<running, outcome, cancelled, returned>>
        /\ faults' \in 0 .. MaxFaults /\ edits' \in 0 .. MaxEdits /\ stops' \in 0 .. MaxStops
    BY DEF MarkOne, IsNext, pool, counts, IInv, TypeOK
  <1>1. PICK tree \in Dirs \cup {Absent} :
          out' = IF job.check THEN out ELSE [out EXCEPT ![c] = tree]
    <2> DEFINE tree == {Marker} \cup IF job.force \/ out[c] = Absent THEN {} ELSE out[c]
    <2>1. tree \in Dirs
      BY DEF IInv, TypeOK, Dirs
    <2> QED
      BY <2>1 DEF MarkOne
  <1>2. PICK drift \in BOOLEAN :
          /\ changed' = [changed EXCEPT ![c] = drift]
          /\ job.check => (drift \/ out[c] = {Marker})
    <2>1. CASE job.check
      <3> DEFINE drift == changed[c] \/ out[c] # {Marker}
      <3>1. drift \in BOOLEAN
        OBVIOUS
      <3>2. changed' = [changed EXCEPT ![c] = drift]
        BY <2>1 DEF MarkOne
      <3>3. drift \/ out[c] = {Marker}
        OBVIOUS
      <3> QED
        BY <3>1, <3>2, <3>3
    <2>2. CASE ~job.check
      <3>1. changed' = [changed EXCEPT ![c] = changed[c]] /\ changed[c] \in BOOLEAN
        BY <2>2 DEF MarkOne, IInv, TypeOK
      <3> QED
        BY <2>2, <3>1
    <2> QED
      BY <2>1, <2>2
  <1>3. /\ status[c] = "error" /\ c \in job.sel
        /\ \A d \in Comps \ {c} : out'[d] = out[d] /\ (changed'[d] <=> changed[d])
        /\ job.check => out' = out
    BY <1>0, <1>1, <1>2 DEF IInv, TypeOK, LeftShape, StatusShape, Failed
  <1>4. TypeOK'
    BY <1>0, <1>1, <1>2 DEF IInv, TypeOK
  <1>5. IdleShape' /\ JobShape' /\ PoolShape'
    BY <1>0 DEF IInv, TypeOK, Valid, Configured, IdleShape, JobShape, PoolShape
  <1>6. StatusShape'
    BY <1>0, <1>3 DEF IInv, TypeOK, Batch, StatusShape
  <1>7. OutputShape'
    BY <1>0, <1>3 DEF IInv, TypeOK, JobShape, Valid, Configured, PoolShape, StatusShape,
                      OutputShape
  <1>8. LeftShape'
    BY <1>0, <1>2, <1>3 DEF IInv, TypeOK, Failed, LeftShape
  <1>9. ReportIsTrue' /\ CheckPassMeansRendered' /\ SuccessMeansRendered'
    BY <1>0 DEF ReportIsTrue, CheckPassMeansRendered, SuccessMeansRendered
  <1> QED
    BY <1>4, <1>5, <1>6, <1>7, <1>8, <1>9 DEF IInv

\* So does marking that fails, and the check reports a change.
LEMMA MarkFailsIInv ==
  ASSUME IInv, NEW c \in Comps, MarkFails(c)
  PROVE  IInv'
  <1>0. /\ pc = "mark" /\ c \in left /\ left' = left \ {c}
        /\ UNCHANGED <<wants, pc, job, status, mock, mocked, step, exit, before>>
        /\ UNCHANGED <<running, outcome, cancelled, returned>>
        /\ faults' \in 0 .. MaxFaults /\ edits' \in 0 .. MaxEdits /\ stops' \in 0 .. MaxStops
    BY FaultCount DEF MarkFails, IsNext, pool, counts, IInv, TypeOK
  <1>1. PICK tree \in Dirs \cup {Absent} :
          out' = IF job.check THEN out ELSE [out EXCEPT ![c] = tree]
    <2>1. HalfMarked(c) \subseteq Dirs \cup {Absent}
      BY HalfMarkedType
    <2> QED
      BY <2>1 DEF MarkFails
  <1>2. PICK drift \in BOOLEAN :
          /\ changed' = [changed EXCEPT ![c] = drift]
          /\ job.check => (drift \/ out[c] = {Marker})
    <2>1. CASE job.check
      BY <2>1 DEF MarkFails
    <2>2. CASE ~job.check
      <3>1. changed' = [changed EXCEPT ![c] = changed[c]] /\ changed[c] \in BOOLEAN
        BY <2>2 DEF MarkFails, IInv, TypeOK
      <3> QED
        BY <2>2, <3>1
    <2> QED
      BY <2>1, <2>2
  <1>3. /\ status[c] = "error" /\ c \in job.sel
        /\ \A d \in Comps \ {c} : out'[d] = out[d] /\ (changed'[d] <=> changed[d])
        /\ job.check => out' = out
    BY <1>0, <1>1, <1>2 DEF IInv, TypeOK, LeftShape, StatusShape, Failed
  <1>4. TypeOK'
    BY <1>0, <1>1, <1>2 DEF IInv, TypeOK
  <1>5. IdleShape' /\ JobShape' /\ PoolShape'
    BY <1>0 DEF IInv, TypeOK, Valid, Configured, IdleShape, JobShape, PoolShape
  <1>6. StatusShape'
    BY <1>0, <1>3 DEF IInv, TypeOK, Batch, StatusShape
  <1>7. OutputShape'
    BY <1>0, <1>3 DEF IInv, TypeOK, JobShape, Valid, Configured, PoolShape, StatusShape,
                      OutputShape
  <1>8. LeftShape'
    BY <1>0, <1>2, <1>3 DEF IInv, TypeOK, Failed, LeftShape
  <1>9. ReportIsTrue' /\ CheckPassMeansRendered' /\ SuccessMeansRendered'
    BY <1>0 DEF ReportIsTrue, CheckPassMeansRendered, SuccessMeansRendered
  <1> QED
    BY <1>4, <1>5, <1>6, <1>7, <1>8, <1>9 DEF IInv

\* The verdict is true of the directories.
LEMMA ReportIInv ==
  ASSUME IInv, Report
  PROVE  IInv'
  <1>1. /\ pc = "mark" /\ left = {} /\ pc' = "done" /\ exit' = Verdict
        /\ wants' = wants /\ out' = out /\ job' = job /\ status' = status
        /\ changed' = changed /\ mock' = mock /\ mocked' = mocked /\ step' = step
        /\ left' = left /\ before' = before
        /\ running' = running /\ outcome' = outcome /\ cancelled' = cancelled
        /\ returned' = returned /\ edits' = edits /\ faults' = faults /\ stops' = stops
    BY DEF Report, pool, results, counts
  <1>2. TypeOK'
    BY <1>1 DEF IInv, TypeOK, Verdict
  <1>3. \A c \in job.sel :
          /\ job.check => out = before
          /\ step[c] = "none"
          /\ status[c] \in {"ok", "error", "cancelled"}
          /\ status[c] \in {"none", "prepared", "cancelled"} => out[c] = before[c]
          /\ status[c] = "ok" =>
               /\ wants[c] \in Trees
               /\ job.check \/ out[c] = wants[c]
               /\ changed[c] <=> before[c] # wants[c]
          /\ status[c] = "cancelled" => cancelled
          /\ status[c] = "error" /\ job.check => changed[c] \/ out[c] = {Marker}
    <2> SUFFICES ASSUME NEW c \in job.sel
                 PROVE  /\ job.check => out = before
                        /\ step[c] = "none"
                        /\ status[c] \in {"ok", "error", "cancelled"}
                        /\ status[c] \in {"none", "prepared", "cancelled"} => out[c] = before[c]
                        /\ status[c] = "ok" =>
                             /\ wants[c] \in Trees
                             /\ job.check \/ out[c] = wants[c]
                             /\ changed[c] <=> before[c] # wants[c]
                        /\ status[c] = "cancelled" => cancelled
                        /\ status[c] = "error" /\ job.check =>
                             changed[c] \/ out[c] = {Marker}
      OBVIOUS
    <2>1. c \in Comps
      BY DEF IInv, TypeOK, Job
    <2>2. step[c] = "none"
      BY <1>1, <2>1 DEF IInv, TypeOK, PoolShape
    <2>3. status[c] \in {"ok", "error", "cancelled"}
      BY <1>1, <2>1 DEF IInv, TypeOK, StatusShape, Batch
    <2> QED
      BY <1>1, <2>1, <2>2, <2>3 DEF IInv, StatusShape, OutputShape, LeftShape, Failed
  <1>4. IdleShape' /\ JobShape' /\ PoolShape' /\ StatusShape' /\ LeftShape'
    BY <1>1 DEF IInv, TypeOK, Valid, Configured, IdleShape, JobShape, PoolShape,
                StatusShape, LeftShape
  <1>5. OutputShape'
    BY <1>1 DEF IInv, OutputShape
  <1>6. ReportIsTrue'
    BY <1>1, <1>3 DEF ReportIsTrue
  <1>7. CheckPassMeansRendered'
    <2> SUFFICES ASSUME Verdict = "ok", job.check, ~cancelled
                 PROVE  /\ \A c \in job.sel :
                             out[c] = IF status[c] = "ok" THEN wants[c] ELSE {Marker}
                        /\ job.clean => \A c \in Comps : wants[c] = Absent => out[c] = Absent
      BY <1>1 DEF CheckPassMeansRendered
    <2>1. /\ \A c \in Comps : ~changed[c]
          /\ job.clean => Orphans = {}
      BY DEF Verdict
    <2>2. job.sel \subseteq Configured
      BY <1>1 DEF IInv, JobShape, Valid
    <2>3. job.sel \subseteq Comps
      BY DEF IInv, TypeOK, Job
    <2> QED
      BY <1>3, <2>1, <2>2, <2>3 DEF Orphans, Configured
  <1>8. SuccessMeansRendered'
    <2> SUFFICES ASSUME Verdict = "ok", job.failOn, NEW c \in job.sel
                 PROVE  out[c] = wants[c]
      BY <1>1 DEF SuccessMeansRendered
    <2>1. c \in Comps
      BY DEF IInv, TypeOK, Job
    <2>2. ~job.check
      BY <1>1 DEF IInv, JobShape, Valid
    <2>3. status[c] = "ok"
      BY <1>3, <2>1, <2>2 DEF Verdict
    <2> QED
      BY <1>3, <2>2, <2>3
  <1> QED
    BY <1>2, <1>4, <1>5, <1>6, <1>7, <1>8 DEF IInv

\* A check that cannot list the orphans does not pass.
LEMMA ReportFailsIInv ==
  ASSUME IInv, ReportFails
  PROVE  IInv'
  <1>1. TypeOK'
    BY FaultCount DEF IInv, TypeOK, ReportFails, pool, results, counts
  <1>2. /\ IdleShape' /\ JobShape' /\ PoolShape' /\ StatusShape' /\ OutputShape'
        /\ LeftShape' /\ ReportIsTrue' /\ CheckPassMeansRendered'
        /\ SuccessMeansRendered'
    BY FaultCount DEF IInv, TypeOK, ReportFails, pool, results, counts, Valid,
        Configured, Batch, Failed, IdleShape, JobShape, PoolShape, StatusShape,
        OutputShape, LeftShape, ReportIsTrue, CheckPassMeansRendered,
        SuccessMeansRendered
  <1> QED
    BY <1>1, <1>2 DEF IInv

\* The next run starts afresh.
LEMMA ExitIInv ==
  ASSUME IInv, Exit
  PROVE  IInv'
  <1>1. TypeOK'
    BY DEF IInv, TypeOK, Exit, Reset, NoJob, pool, results, counts, Job
  <1>2. /\ IdleShape' /\ JobShape' /\ PoolShape' /\ StatusShape' /\ OutputShape'
        /\ LeftShape' /\ ReportIsTrue' /\ CheckPassMeansRendered'
        /\ SuccessMeansRendered'
    BY DEF IInv, TypeOK, Exit, Reset, NoJob, pool, results, counts, Valid, Configured,
        Batch, Failed, IdleShape, JobShape, PoolShape, StatusShape, OutputShape,
        LeftShape, ReportIsTrue, CheckPassMeansRendered, SuccessMeansRendered
  <1> QED
    BY <1>1, <1>2 DEF IInv

\* So it does after a kill, with a directory half written.
LEMMA KilledIInv ==
  ASSUME IInv, Killed
  PROVE  IInv'
  <1>1. TypeOK'
    <2>1. ASSUME NEW c \in Comps PROVE Torn(c) \subseteq Dirs \cup {Absent}
      <3>1. Remains(c) \subseteq Dirs \cup {Absent}
        BY DEF IInv, TypeOK, Remains, Dirs
      <3>2. HalfMarked(c) \subseteq Dirs \cup {Absent}
        BY HalfMarkedType
      <3> QED
        BY <3>1, <3>2 DEF Torn
    <2>2. out' \in [Comps -> Dirs \cup {Absent}]
      BY <2>1 DEF Killed, IInv, TypeOK
    <2>3. NoJob \in Job
      BY DEF NoJob, Job
    <2> QED
      BY <2>2, <2>3, StopCount DEF IInv, TypeOK, Killed, Reset
  <1>2. /\ IdleShape' /\ JobShape' /\ PoolShape' /\ StatusShape' /\ OutputShape'
        /\ LeftShape' /\ ReportIsTrue' /\ CheckPassMeansRendered'
        /\ SuccessMeansRendered'
    BY StopCount DEF IInv, TypeOK, Killed, Reset, NoJob, Torn, pool, results, counts,
        Valid, Configured, Batch, Failed, IdleShape, JobShape, PoolShape, StatusShape,
        OutputShape, LeftShape, ReportIsTrue, CheckPassMeansRendered,
        SuccessMeansRendered
  <1> QED
    BY <1>1, <1>2 DEF IInv

\* Every step preserves the invariant.
LEMMA NextIInv == IInv /\ [Next]_vars => IInv'
  <1> SUFFICES ASSUME IInv, [Next]_vars PROVE IInv'
    OBVIOUS
  <1>1. CASE UNCHANGED vars
    <2>1. UNCHANGED <<wants, out, pc, job, status, changed, mock, mocked, step, left, exit,
                      before, running, outcome, cancelled, returned, edits, faults, stops>>
      BY <1>1 DEF vars, results, pool, counts
    <2>2. TypeOK' /\ IdleShape'
      BY <2>1 DEF IInv, TypeOK, IdleShape
    <2>3. JobShape' /\ PoolShape'
      BY <2>1 DEF IInv, Valid, Configured, JobShape, PoolShape
    <2>4. StatusShape' /\ OutputShape' /\ LeftShape'
      BY <2>1 DEF IInv, Batch, Failed, StatusShape, OutputShape, LeftShape
    <2>5. ReportIsTrue' /\ CheckPassMeansRendered' /\ SuccessMeansRendered'
      BY <2>1 DEF IInv, ReportIsTrue, CheckPassMeansRendered, SuccessMeansRendered
    <2> QED
      BY <2>2, <2>3, <2>4, <2>5 DEF IInv
  <1>2. CASE \E c \in Comps : Edit(c)
    BY <1>2, EditIInv
  <1>3. CASE \E j \in Jobs : Start(j)
    BY <1>3, StartIInv DEF Jobs
  <1>4. CASE RunStep
    <2>1. CASE BatchFails
      BY <2>1, NoBatchIInv DEF BatchFails
    <2> QED
      BY <1>4, <2>1, PreparedIInv, BatchDoneIInv, PrunedIInv, FinishedIInv, ReportIInv,
         ExitIInv, PrepStartIInv, PrepDoneIInv, PrepFailsIInv, GivenUpIInv, PruneOneIInv,
         FinishStartIInv, ProceedIInv, BailOutIInv, NoResultIInv, CheckOnlyIInv,
         RefuseIInv, OverwriteIInv, CopyIInv, CopyDoneIInv, MarkOneIInv
      DEF RunStep
  <1>5. CASE FaultStep
    <2>1. CASE BatchCrashes
      BY <2>1, NoBatchIInv DEF BatchCrashes
    <2> QED
      BY <1>5, <2>1, BatchErrorsIInv, ListingFailsIInv, ReportFailsIInv, InterruptIInv,
         KilledIInv, PrepErrorIInv, PruneFailsIInv, FinishErrorIInv, OverwriteFailsIInv,
         CopyFailsIInv, MarkFailsIInv
      DEF FaultStep
  <1> QED
    BY <1>1, <1>2, <1>3, <1>4, <1>5 DEF Next

-----------------------------------------------------------------------------
(* The theorems.                                                           *)

\* The inductive invariant holds in every state of every sequence of runs.
THEOREM Invariance == Spec => []IInv
  <1>1. Init => IInv
    BY InitIInv
  <1>2. IInv /\ [Next]_vars => IInv'
    BY NextIInv
  <1> QED
    BY <1>1, <1>2, PTL DEF Spec

\* Every variable keeps its type.
THEOREM TypeCorrect == Spec => []TypeOK
  <1>1. IInv => TypeOK
    BY DEF IInv
  <1> QED
    BY <1>1, Invariance, PTL

\* What a run reports of a component is what it left in its directory.
THEOREM ReportsAreTrue == Spec => []ReportIsTrue
  <1>1. IInv => ReportIsTrue
    BY DEF IInv
  <1> QED
    BY <1>1, Invariance, PTL

\* A check that passes found what a render would leave.
THEOREM CheckIsExact == Spec => []CheckPassMeansRendered
  <1>1. IInv => CheckPassMeansRendered
    BY DEF IInv
  <1> QED
    BY <1>1, Invariance, PTL

\* A run that succeeds with --fail-on-error has rendered all it was asked to.
THEOREM GateIsSound == Spec => []SuccessMeansRendered
  <1>1. IInv => SuccessMeansRendered
    BY DEF IInv
  <1> QED
    BY <1>1, Invariance, PTL

\* One step writes only what its run was asked to write.
LEMMA StepWritesAreJustified ==
  ASSUME IInv, [Next]_vars, NEW c \in Comps, out'[c] # out[c]
  PROVE  MayTouch(c) /\ (Loses(c) => job.force)
  <1> USE DEF MayTouch, Loses
  <1>1. CASE \E d \in Comps : PruneOne(d) \/ PruneFails(d)
    <2>1. PICK d \in Comps : PruneOne(d) \/ PruneFails(d)
      BY <1>1
    <2>2. c = d /\ c \in left /\ pc = "prune"
      BY <2>1 DEF PruneOne, PruneFails, IsNext, IInv, TypeOK
    <2>3. wants[c] = Absent /\ job.clean /\ ~job.check /\ job.force
      BY <2>2 DEF IInv, LeftShape, JobShape, Valid
    <2> QED
      BY <2>3
  <1>2. CASE \E d \in Comps : Overwrite(d) \/ OverwriteFails(d)
    <2>1. PICK d \in Comps : Overwrite(d) \/ OverwriteFails(d)
      BY <1>2
    <2>2. c = d /\ At(c, "go") /\ ~job.check /\ (out[c] = Absent \/ job.force)
      BY <2>1 DEF Overwrite, OverwriteFails, Compared, Refuses, IInv, TypeOK
    <2>3. c \in job.sel
      BY <2>2, AtWork
    <2> QED
      BY <2>2, <2>3
  <1>3. CASE \E d \in Comps : Copy(d)
    <2>1. PICK d \in Comps : Copy(d)
      BY <1>3
    <2>2. c = d /\ At(c, "copy") /\ \E f \in wants[c] : out'[c] = out[c] \cup {f}
      BY <2>1 DEF Copy, IInv, TypeOK
    <2>3. c \in job.sel /\ ~job.check
      BY <2>2, AtWork, Copying
    <2>4. out'[c] # Absent
      BY <2>1, <2>2, CopyIInv, Copying DEF IInv, OutputShape, Trees, Dirs
    <2> QED
      BY <2>2, <2>3, <2>4
  <1>4. CASE \E d \in Comps : MarkOne(d) \/ MarkFails(d)
    <2>1. PICK d \in Comps : MarkOne(d) \/ MarkFails(d)
      BY <1>4
    <2>2. c = d /\ c \in left /\ pc = "mark" /\ ~job.check
      BY <2>1 DEF MarkOne, MarkFails, IsNext, IInv, TypeOK
    <2>3. c \in job.sel
      BY <2>2 DEF IInv, LeftShape, StatusShape, Failed
    <2>4. ASSUME ~job.force, out[c] # Absent
          PROVE  out'[c] \in {out[c], out[c] \cup {Marker}, out[c] \ {Marker}}
      BY <2>1, <2>2, <2>4 DEF MarkOne, MarkFails, HalfMarked, IInv, TypeOK
    <2>5. ASSUME ~job.force, out[c] # Absent
          PROVE  out'[c] # Absent /\ out[c] \ {Marker} \subseteq out'[c]
      <3>1. out[c] \in Dirs
        BY <2>5 DEF IInv, TypeOK
      <3> QED
        BY <2>4, <2>5, <3>1 DEF Dirs
    <2> QED
      BY <2>2, <2>3, <2>5
  <1>5. CASE Killed
    <2>1. \E d \in Torn(c) : out'[c] = d
      BY <1>5 DEF Killed, IInv, TypeOK
    <2>2. CASE pc = "prune" /\ IsNext(c)
      BY <2>2 DEF IsNext, IInv, LeftShape, JobShape, Valid
    <2>3. CASE At(c, "go") /\ c \in mocked /\ ~job.check /\ job.force
      BY <2>3, AtWork
    <2>4. CASE pc = "mark" /\ IsNext(c) /\ ~job.check
      <3>1. c \in job.sel
        BY <2>4 DEF IsNext, IInv, LeftShape, StatusShape, Failed
      <3>2. out'[c] \in HalfMarked(c)
        BY <2>1, <2>4 DEF Torn, At
      <3>3. ASSUME ~job.force, out[c] # Absent
            PROVE  out'[c] # Absent /\ out[c] \ {Marker} \subseteq out'[c]
        <4>1. out[c] \in Dirs
          BY <3>3 DEF IInv, TypeOK
        <4> QED
          BY <3>2, <3>3, <4>1 DEF HalfMarked, Dirs
      <3> QED
        BY <2>4, <3>1, <3>3
    <2> QED
      BY <2>1, <2>2, <2>3, <2>4 DEF Torn
  <1>6. CASE UNCHANGED out
    BY <1>6
  <1> QED
    BY <1>1, <1>2, <1>3, <1>4, <1>5, <1>6
    DEF Next, RunStep, FaultStep, vars, Edit, Start, Prepared, BatchDone, BatchFails,
        Pruned, Finished, Report, Exit, PrepStart, PrepDone, PrepFails, GivenUp,
        FinishStart, Proceed, BailOut, NoResult, CheckOnly, Refuse, CopyDone, BatchErrors,
        BatchCrashes, NoBatch, EndOfBatch, ListingFails, ReportFails, Interrupt, PrepError,
        FinishError, CopyFails

\* A run writes nothing it was not asked to write, and without --force it
\* deletes nothing but its own marker.
THEOREM WritesJustified == Spec => WritesAreJustified
  <1>1. IInv /\ [Next]_vars =>
          [\A c \in Comps : out'[c] # out[c] =>
             MayTouch(c) /\ (Loses(c) => job.force)]_vars
    BY StepWritesAreJustified
  <1> QED
    BY <1>1, Invariance, PTL DEF Spec, WritesAreJustified
=============================================================================
