----------------------------- MODULE LockUpdate -----------------------------
(***************************************************************************)
(* "azldev component update" (internal/app/azldev/cmds/component/update.go *)
(* with the resolver's freshness check, the lock store and the orphan      *)
(* reconciliation it calls): freshness decides which components need       *)
(* upstream, a parallel phase resolves those, a sequential phase           *)
(* fingerprints and saves, a last one prunes. --check-only runs the same   *)
(* phases without writing, --bump a sequential phase of its own.           *)
(*                                                                         *)
(* Between runs the user edits configuration; upstream moves at any time.  *)
(* A run may be interrupted (Ctrl-C cancels the context), killed, and may  *)
(* meet network, disk and fingerprinting errors. The order in which the    *)
(* bounded pool resolves components is ParMap's concern: here it is any    *)
(* order. Configuration is loaded once per run and edited between runs.    *)
(***************************************************************************)
EXTENDS LockData

CONSTANTS
  Choices,    \* the configurations the user gives each component
  Initial,    \* the one each component starts with
  MaxEdits,   \* bound: edits of the configuration and moves of upstream
  MaxFaults,  \* bound: errors, interrupts and kills
  MaxBump     \* bound: bumps of one component

ASSUME BoundsAssumption ==
  /\ Choices \in [Comps -> SUBSET Config]
  /\ Initial \in [Comps -> Config \cup {Absent}]
  /\ MaxEdits \in Nat /\ MaxFaults \in Nat /\ MaxBump \in Nat

VARIABLES
  config,     \* the configuration of each component, or Absent
  at,         \* what upstream's head and snapshots resolve to
  lock,       \* the lock file of each component
  pc,         \* the phase of the run in progress
  job,        \* its options: mode, all, and the selected components
  res,        \* its UpdateResult of each component
  left,       \* the components the present phase has yet to visit
  cancelled,  \* its context was done when it was last to be consulted
  exit,       \* its outcome
  edits,      \* edits and upstream moves so far
  faults      \* errors, interrupts and kills so far

files == <<config, at, lock>>
run == <<pc, job, res, left, cancelled, exit>>
vars == <<config, at, lock, pc, job, res, left, cancelled, exit, edits, faults>>

Phases == {"idle", "resolve", "save", "prune", "bump", "done"}
Statuses == {"none", "pending", "fresh", "ok", "error", "skipped"}
Result == [status : Statuses, commit : 0 .. MaxCommit, changed : BOOLEAN]
Job == [mode : {"update", "check", "bump"}, all : BOOLEAN, sel : SUBSET Comps]

NoResult == [status |-> "none", commit |-> 0, changed |-> FALSE]
NoJob == [mode |-> "check", all |-> FALSE, sel |-> {}]

Configured == {c \in Comps : config[c] # Absent}

\* Results are visited in the resolver's order.
IsNext(c) == c \in left /\ \A d \in left : c <= d

Init ==
  /\ config = Initial
  /\ at = FirstCommits
  /\ lock \in [Comps -> UNION {InitialLocks(at, Initial[c]) : c \in Comps}]
  /\ \A c \in Comps : lock[c] \in InitialLocks(at, config[c])
  /\ pc = "idle"
  /\ job = NoJob
  /\ res = [c \in Comps |-> NoResult]
  /\ left = {}
  /\ cancelled = FALSE
  /\ exit = "none"
  /\ edits = 0
  /\ faults = 0

-----------------------------------------------------------------------------
(* The world around the runs.                                              *)

Edit(c) ==
  /\ pc = "idle"
  /\ edits < MaxEdits
  /\ \E cfg \in (Choices[c] \cup {Absent}) \ {config[c]} :
       config' = [config EXCEPT ![c] = cfg]
  /\ edits' = edits + 1
  /\ UNCHANGED <<at, lock, run, faults>>

\* A commit is pushed to the branch, or back-dated before a snapshot.
UpstreamMoves(s) ==
  /\ edits < MaxEdits
  /\ at[s] < MaxCommit
  /\ at' = [at EXCEPT ![s] = at[s] + 1]
  /\ edits' = edits + 1
  /\ UNCHANGED <<config, lock, run, faults>>

\* The user removes a lock file that does not parse.
Discard(c) ==
  /\ pc = "idle"
  /\ lock[c] = Corrupt
  /\ lock' = [lock EXCEPT ![c] = Absent]
  /\ UNCHANGED <<config, at, run, edits, faults>>

Fault == faults < MaxFaults /\ faults' = faults + 1

\* Ctrl-C while the run still consults the context. Saving and pruning do
\* not: an interrupt that arrives during them changes nothing.
Interrupt ==
  /\ pc \in {"resolve", "bump"}
  /\ ~cancelled
  /\ Fault
  /\ cancelled' = TRUE
  /\ UNCHANGED <<files, pc, job, res, left, exit, edits>>

-----------------------------------------------------------------------------
(* Loading and classification.                                             *)

\* classifyForResolution on what the resolver found out. --force-recalculate
\* turns the freshness check off, so that every component is resolved.
ClassifyReuseAnyHash(c, force) ==
  IF ~force /\ Current(config[c], lock[c])
  THEN [status |-> "fresh", commit |-> lock[c].commit, changed |-> FALSE]
  ELSE IF ~force /\ config[c].src = "upstream" /\ Readable(lock[c]) /\ lock[c].commit # 0
  THEN [status |-> "ok", commit |-> lock[c].commit, changed |-> FALSE]
  ELSE [status |-> "pending", commit |-> 0, changed |-> FALSE]
Classify(c, force) ==
  IF ~force /\ Current(config[c], lock[c])
  THEN [status |-> "fresh", commit |-> lock[c].commit, changed |-> FALSE]
  ELSE IF ~force /\ Reusable(config[c], lock[c])
  THEN [status |-> "ok", commit |-> lock[c].commit, changed |-> FALSE]
  ELSE [status |-> "pending", commit |-> 0, changed |-> FALSE]

\* A filter that matches nothing is refused; an empty project is not.
Selections == {[all |-> TRUE, sel |-> Configured]} \cup
              {[all |-> FALSE, sel |-> S] : S \in (SUBSET Configured) \ {{}}}

StartUpdate(mode, s, force) ==
  /\ pc = "idle"
  /\ mode \in {"update", "check"}
  /\ s \in Selections
  /\ job' = [mode |-> mode, all |-> s.all, sel |-> s.sel]
  /\ res' = [c \in Comps |-> IF c \in s.sel THEN Classify(c, force) ELSE NoResult]
  /\ pc' = "resolve"
  /\ UNCHANGED <<files, left, cancelled, exit, edits, faults>>

StartBump(s) ==
  /\ pc = "idle"
  /\ s \in Selections
  /\ \A c \in s.sel : Readable(lock[c]) => lock[c].bump < MaxBump
  /\ job' = [mode |-> "bump", all |-> s.all, sel |-> s.sel]
  /\ left' = s.sel
  /\ pc' = "bump"
  /\ UNCHANGED <<files, res, cancelled, exit, edits, faults>>

-----------------------------------------------------------------------------
(* Resolution: parallel, one step per component.                           *)

\* resolveAndRecordIdentity, with checkLockChanged.
ResolutionIgnoringCorrupt(c) ==
  LET commit == IF config[c].src = "upstream" THEN Resolve(at, config[c]) ELSE 0
  IN [status |-> "ok", commit |-> commit, changed |-> TRUE]
Resolution(c) ==
  LET commit == IF config[c].src = "upstream" THEN Resolve(at, config[c]) ELSE 0
  IN IF lock[c] = Corrupt
     THEN [status |-> "error", commit |-> commit, changed |-> FALSE]
     ELSE [status |-> "ok", commit |-> commit,
           changed |-> lock[c] = Absent \/ lock[c].commit # commit]

ResolveOne(c) ==
  /\ pc = "resolve"
  /\ res[c].status = "pending"
  /\ res' = [res EXCEPT ![c] = Resolution(c)]
  /\ UNCHANGED <<files, pc, job, left, cancelled, exit, edits, faults>>

ResolveFails(c) ==
  /\ pc = "resolve"
  /\ res[c].status = "pending"
  /\ Fault \/ (cancelled /\ UNCHANGED faults)
  /\ res' = [res EXCEPT ![c].status = "error"]
  /\ UNCHANGED <<files, pc, job, left, cancelled, exit, edits>>

\* The pool never started the component's worker.
SkipOne(c) ==
  /\ pc = "resolve"
  /\ cancelled
  /\ res[c].status = "pending"
  /\ res' = [res EXCEPT ![c].status = "skipped"]
  /\ UNCHANGED <<files, pc, job, left, cancelled, exit, edits, faults>>

\* Everything is resolved: save, unless the context is done by now.
ResolvedDespiteInterrupt ==
  /\ pc = "resolve"
  /\ \A c \in Comps : res[c].status # "pending"
  /\ pc' = "save"
  /\ left' = {c \in Comps : res[c].status = "ok"}
  /\ UNCHANGED <<files, job, res, cancelled, exit, edits, faults>>
Resolved ==
  /\ pc = "resolve"
  /\ \A c \in Comps : res[c].status # "pending"
  /\ IF cancelled
     THEN pc' = "done" /\ exit' = "failed" /\ left' = left
     ELSE /\ pc' = "save" /\ exit' = exit
          /\ left' = {c \in Comps : res[c].status = "ok"}
  /\ UNCHANGED <<files, job, res, cancelled, edits, faults>>

-----------------------------------------------------------------------------
(* Saving: sequential; the first error ends the run.                       *)

\* updateComponentLock: what the lock becomes, and what counts as a change.
Updated(c) == Refreshed(lock[c], config[c], res[c].commit)
Differs(c) == res[c].changed \/ GetOrNew(lock[c]).fp # Updated(c).fp
MustWriteOnDiffer(c) == Differs(c)
MustWrite(c) == Differs(c) \/ GetOrNew(lock[c]).rh # Updated(c).rh

SaveOne(c) ==
  /\ pc = "save"
  /\ IsNext(c)
  /\ res' = [res EXCEPT ![c].changed = Differs(c)]
  /\ lock' = IF MustWrite(c) /\ job.mode = "update"
             THEN [lock EXCEPT ![c] = Updated(c)]
             ELSE lock
  /\ left' = left \ {c}
  /\ UNCHANGED <<config, at, pc, job, cancelled, exit, edits, faults>>

\* The file is as it was, or, when the write had begun, torn.
UntouchedOrTorn(c, writing) ==
  lock' \in {lock} \cup (IF writing THEN {[lock EXCEPT ![c] = Corrupt]} ELSE {})

SaveFails(c) ==
  /\ pc = "save"
  /\ IsNext(c)
  /\ Fault
  /\ UntouchedOrTorn(c, MustWrite(c) /\ job.mode = "update")
  /\ pc' = "done"
  /\ exit' = "failed"
  /\ UNCHANGED <<config, at, job, res, left, cancelled, edits>>

SomeFailed == \E c \in Comps : res[c].status = "error"
SomeChanged == \E c \in Comps : res[c].changed
Orphans == {c \in Comps : lock[c] # Absent} \ job.sel

\* checkUpdateErrors, then the start of handleOrphanLocks.
PruneDespiteErrors ==
  /\ pc = "save" /\ left = {}
  /\ pc' = "prune"
  /\ left' = IF job.all /\ job.mode = "update" THEN Orphans ELSE {}
  /\ exit' = IF SomeFailed THEN "failed" ELSE exit
  /\ UNCHANGED <<files, job, res, cancelled, edits, faults>>
SaveEndsRun ==
  /\ pc = "save" /\ left = {}
  /\ pc' = IF SomeFailed THEN "done" ELSE "prune"
  /\ exit' = IF SomeFailed THEN "failed" ELSE exit
  /\ UNCHANGED <<files, job, res, left, cancelled, edits, faults>>
AllSaved ==
  /\ pc = "save" /\ left = {}
  /\ IF SomeFailed
     THEN pc' = "done" /\ exit' = "failed" /\ left' = left
     ELSE /\ pc' = "prune" /\ exit' = exit
          /\ left' = IF job.all /\ job.mode = "update" THEN Orphans ELSE {}
  /\ UNCHANGED <<files, job, res, cancelled, edits, faults>>

\* The locks directory cannot be listed.
ListingFails ==
  /\ pc = "save" /\ left = {}
  /\ ~SomeFailed /\ job.all
  /\ Fault
  /\ pc' = "done"
  /\ exit' = "failed"
  /\ UNCHANGED <<files, job, res, left, cancelled, edits>>

-----------------------------------------------------------------------------
(* Pruning: every orphan is tried, an error is remembered.                 *)

PruneOne(c) ==
  /\ pc = "prune"
  /\ IsNext(c)
  /\ lock' = [lock EXCEPT ![c] = Absent]
  /\ left' = left \ {c}
  /\ UNCHANGED <<config, at, pc, job, res, cancelled, exit, edits, faults>>

PruneFails(c) ==
  /\ pc = "prune"
  /\ IsNext(c)
  /\ Fault
  /\ left' = left \ {c}
  /\ exit' = "failed"
  /\ UNCHANGED <<files, pc, job, res, cancelled, edits>>

\* checkOnlyResult: a check-only run fails when something is stale.
CheckVerdictIgnoringOrphans == IF SomeChanged THEN "stale" ELSE "ok"
CheckVerdict ==
  IF SomeChanged \/ (job.all /\ Orphans # {}) THEN "stale" ELSE "ok"

Pruned ==
  /\ pc = "prune" /\ left = {}
  /\ pc' = "done"
  /\ exit' = IF exit = "failed" THEN "failed"
             ELSE IF job.mode = "check" THEN CheckVerdict ELSE "ok"
  /\ UNCHANGED <<files, job, res, left, cancelled, edits, faults>>

-----------------------------------------------------------------------------
(* --bump: sequential, without upstream.                                   *)

BumpOne(c) ==
  /\ pc = "bump"
  /\ IsNext(c)
  /\ ~cancelled
  /\ CanBump(lock[c], config[c])
  /\ lock' = [lock EXCEPT ![c] = Bumped(lock[c], config[c])]
  /\ left' = left \ {c}
  /\ UNCHANGED <<config, at, pc, job, res, cancelled, exit, edits, faults>>

\* The context is done, or the lock is missing, unreadable or has no commit.
BumpRefused(c) ==
  /\ pc = "bump"
  /\ IsNext(c)
  /\ cancelled \/ ~CanBump(lock[c], config[c])
  /\ pc' = "done"
  /\ exit' = "failed"
  /\ UNCHANGED <<files, job, res, left, cancelled, edits, faults>>

BumpFails(c) ==
  /\ pc = "bump"
  /\ IsNext(c)
  /\ ~cancelled
  /\ CanBump(lock[c], config[c])
  /\ Fault
  /\ UntouchedOrTorn(c, TRUE)
  /\ pc' = "done"
  /\ exit' = "failed"
  /\ UNCHANGED <<config, at, job, res, left, cancelled, edits>>

Bumps ==
  /\ pc = "bump" /\ left = {}
  /\ pc' = "done"
  /\ exit' = "ok"
  /\ UNCHANGED <<files, job, res, left, cancelled, edits, faults>>

-----------------------------------------------------------------------------
(* The end of a run.                                                       *)

Reset ==
  /\ pc' = "idle"
  /\ job' = NoJob
  /\ res' = [c \in Comps |-> NoResult]
  /\ left' = {}
  /\ cancelled' = FALSE
  /\ exit' = "none"

Finish ==
  /\ pc = "done"
  /\ Reset
  /\ UNCHANGED <<files, edits, faults>>

\* The process is killed; a file it was writing is torn. (A kill after an
\* interrupt in the middle of a write is a kill: the run had not seen it.)
Writing(c) ==
  /\ IsNext(c)
  /\ \/ pc = "save" /\ job.mode = "update" /\ MustWrite(c)
     \/ pc = "bump" /\ ~cancelled /\ CanBump(lock[c], config[c])

Killed ==
  /\ pc \notin {"idle", "done"}
  /\ Fault
  /\ \/ UNCHANGED lock
     \/ \E c \in Comps : Writing(c) /\ lock' = [lock EXCEPT ![c] = Corrupt]
  /\ Reset
  /\ UNCHANGED <<config, at, edits>>

-----------------------------------------------------------------------------

UserStep ==
  \/ \E c \in Comps : Edit(c) \/ Discard(c)
  \/ \E s \in Selections, force \in BOOLEAN :
       StartUpdate("update", s, force) \/ StartUpdate("check", s, force)
  \/ \E s \in Selections : StartBump(s)

RunStep ==
  \/ Resolved \/ AllSaved \/ Pruned \/ Bumps \/ Finish
  \/ \E c \in Comps : ResolveOne(c) \/ SkipOne(c) \/ SaveOne(c) \/ PruneOne(c)
                      \/ BumpOne(c) \/ BumpRefused(c)

FaultStep ==
  \/ Interrupt \/ Killed \/ ListingFails
  \/ \E c \in Comps :
       ResolveFails(c) \/ SaveFails(c) \/ PruneFails(c) \/ BumpFails(c)

Next ==
  \/ UserStep
  \/ \E s \in 0 .. NSnap : UpstreamMoves(s)
  \/ RunStep
  \/ FaultStep

Spec == Init /\ [][Next]_vars

FullUpdate == StartUpdate("update", [all |-> TRUE, sel |-> Configured], FALSE)

\* A run takes its steps; the user keeps running "update -a" among whatever
\* else, and removes files the tool cannot parse.
FairSpec ==
  /\ Spec
  /\ WF_vars(RunStep)
  /\ SF_vars(FullUpdate)
  /\ \A c \in Comps : SF_vars(Discard(c))

-----------------------------------------------------------------------------
(* Properties.                                                             *)

TypeOK ==
  /\ config \in [Comps -> Config \cup {Absent}]
  /\ at \in [0 .. NSnap -> Commits]
  /\ lock \in [Comps -> Lock \cup {Absent, Corrupt}]
  /\ pc \in Phases
  /\ job \in Job
  /\ res \in [Comps -> Result]
  /\ left \subseteq Comps
  /\ cancelled \in BOOLEAN
  /\ exit \in {"none", "ok", "failed", "stale"}
  /\ edits \in 0 .. MaxEdits
  /\ faults \in 0 .. MaxFaults

\* lockfile.go:45-53: when the recorded resolution hash matches, the locked
\* commit is reused unseen. So a lock's commit must be an answer upstream
\* gave to the very inputs whose hash it carries, through every sequence of
\* edits, source-type changes, bumps, partial, interrupted and killed runs.
CommitAnswersHash ==
  \A c \in Comps :
    Readable(lock[c]) /\ lock[c].rh # None /\ lock[c].commit # 0 =>
      ResolvedOnce(at, lock[c].rh, lock[c].commit)

\* What the update command skips as up to date, render and build accept.
CurrentLocksValidate ==
  \A c \in Configured : Current(config[c], lock[c]) => Validates(config[c], lock[c])

Settled(c) == IsSettled(config[c], lock[c])
NoOrphans == \A c \in Comps : config[c] = Absent => lock[c] = Absent

\* A successful update leaves every selected component settled, and with -a
\* no orphan, whatever the runs before it left behind.
SuccessSettles ==
  pc = "done" /\ exit = "ok" /\ job.mode = "update" =>
    /\ \A c \in job.sel : Settled(c)
    /\ job.all => NoOrphans

\* The CI gate: a check-only run that succeeds has seen, for every selected
\* component, the lock that renders and builds of the present configuration
\* need, and with -a no orphan.
CheckPassMeansLocked ==
  pc = "done" /\ exit = "ok" /\ job.mode = "check" =>
    /\ \A c \in job.sel :
         Readable(lock[c]) /\ lock[c].fp = Identity(config[c], lock[c].bump, res[c].commit)
    /\ job.all => NoOrphans

\* A run that changes a file is an update or a bump, never a check; an update
\* that was interrupted while it resolved writes and prunes nothing, nor does
\* a bump go on after an interrupt; an update writes only components it
\* resolved, and prunes only after every one of them resolved.
JustifiedWrite(c) ==
  /\ ~cancelled
  /\ \/ pc = "save" /\ job.mode = "update" /\ res[c].status = "ok"
     \/ pc = "bump" /\ job.mode = "bump"
     \/ pc = "prune" /\ job.mode = "update" /\ job.all /\ ~SomeFailed
        /\ config[c] = Absent
WritesAreJustified ==
  [][\A c \in Comps : pc # "idle" /\ lock'[c] # lock[c] => JustifiedWrite(c)]_vars

\* Every run does no more to the lock files than the abstract life of a lock
\* file allows: in particular import commits stay, bump counts never go
\* back, and a file that does not parse is never replaced.
Files == INSTANCE LockFiles
ImplementsLockFiles == Files!FilesSpec

\* Once edits, upstream moves and faults are over, repeated full updates
\* settle every component, however earlier runs ended.
Converges == <>[]((\A c \in Configured : Settled(c)) /\ NoOrphans)

\* update.go:31-36 says that "update -a --check-only" exits 0 when locks are
\* fresh and 1 when something is stale; resolver.go:629-633 says that a lock
\* is stale if either of its hashes differs. (Nothing that follows the head
\* is ever fresh.)
CheckPassMeansFresh ==
  pc = "done" /\ exit = "ok" /\ job.mode = "check" =>
    \A c \in job.sel :
      config[c].src = "upstream" /\ ~TracksHead(config[c]) => Current(config[c], lock[c])
-----------------------------------------------------------------------------
(* The inductive invariant behind the safety properties above.             *)

\* Every lock is sound, and with that keeps CommitAnswersHash.
LocksSound == \A c \in Comps : Readable(lock[c]) => Sound(at, lock[c])

\* Configuration is that of the start of the run.
JobShape ==
  /\ pc # "idle" =>
       /\ job.sel \subseteq Configured
       /\ job.all => job.sel = Configured
  /\ pc \in {"resolve", "save", "prune"} => job.mode # "bump"
  /\ pc = "bump" => job.mode = "bump" /\ left \subseteq job.sel
  /\ pc \notin {"prune", "done"} => exit = "none"

\* The commit a component will be locked to answers its configuration.
Answers(c) == Answer(at, config[c], res[c].commit)

\* The lock agrees with the outcome of a component.
Matches(c) ==
  /\ Readable(lock[c])
  /\ lock[c].fp = Identity(config[c], lock[c].bump, res[c].commit)

\* What a component's result says of its lock until the lock is visited.
ResultShape ==
  pc \in {"resolve", "save"} => \A c \in Comps :
    /\ c \in job.sel <=> res[c].status # "none"
    /\ res[c].status = "skipped" => cancelled
    /\ res[c].status = "fresh" =>
         Current(config[c], lock[c]) /\ res[c].commit = lock[c].commit
    /\ res[c].status = "ok" =>
         /\ lock[c] # Corrupt
         /\ Answers(c)
         /\ ~res[c].changed /\ (pc = "save" => c \in left) =>
              Readable(lock[c]) /\ lock[c].commit = res[c].commit

\* What has been visited is settled, or, in a check, reported as changed.
SaveShape ==
  pc = "save" =>
    /\ ~cancelled
    /\ \A c \in left : res[c].status = "ok"
    /\ \A c \in job.sel :
         /\ res[c].status \in {"fresh", "ok", "error"}
         /\ res[c].status = "ok" /\ c \notin left =>
              IF job.mode = "update" THEN Settled(c)
                                     ELSE res[c].changed \/ Matches(c)

PruneShape ==
  pc = "prune" =>
    /\ ~cancelled
    /\ ~SomeFailed
    /\ left # {} => job.mode = "update" /\ job.all
    /\ \A c \in left : config[c] = Absent /\ lock[c] # Absent
    /\ \A c \in job.sel :
         IF job.mode = "update" THEN Settled(c) ELSE res[c].changed \/ Matches(c)
    /\ job.mode = "update" /\ job.all /\ exit # "failed" =>
         \A c \in Comps : config[c] = Absent => lock[c] = Absent \/ c \in left

IInv ==
  /\ TypeOK
  /\ LocksSound
  /\ JobShape
  /\ ResultShape
  /\ SaveShape
  /\ PruneShape
  /\ SuccessSettles
  /\ CheckPassMeansLocked
=============================================================================
