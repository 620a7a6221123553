-------------------------- MODULE LockUpdateProofs --------------------------
(***************************************************************************)
(* Proofs about LockUpdate for every number of components, snapshots and   *)
(* commits, every configuration and every bound. IInv is inductive; the    *)
(* safety properties follow from it, and every step of a run is a step of  *)
(* LockFiles or leaves the files alone.                                    *)
(***************************************************************************)
EXTENDS LockUpdate, TLAPS

USE SizesAssumption, MarkersAssumption

-----------------------------------------------------------------------------
(* Data.                                                                   *)

\* A lock file is readable exactly when it holds a lock.
LEMMA ReadableIsLock ==
  ASSUME NEW l \in Lock \cup {Absent, Corrupt}
  PROVE  Readable(l) <=> l \in Lock
  BY DEF Readable

\* Identity is a fingerprint.
LEMMA IdentityType ==
  ASSUME NEW cfg \in Config, NEW bump \in Nat, NEW commit \in 0 .. MaxCommit
  PROVE  Identity(cfg, bump, commit) \in Fingerprint
  BY DEF Identity, Fingerprint, Config, Sources

\* GetOrNew returns a lock.
LEMMA GetOrNewType ==
  ASSUME NEW l \in Lock \cup {Absent, Corrupt}
  PROVE  /\ GetOrNew(l) \in Lock
         /\ Readable(l) => GetOrNew(l) = l
  BY DEF Readable, GetOrNew, NewLock, Lock

\* The resolution hash is a record of the inputs it hashes.
LEMMA ResolutionHashType ==
  ASSUME NEW cfg \in Config
  PROVE  /\ ResolutionHash(cfg) \in ResolutionInputs
         /\ ResolutionHash(cfg) # None
         /\ ResolutionHash(cfg).pin = cfg.pin
         /\ ResolutionHash(cfg).snap = cfg.snap
  <1>1. ResolutionHash(cfg) \in ResolutionInputs
    BY DEF ResolutionHash, ResolutionInputs, Config
  <1> QED
    BY <1>1 DEF ResolutionHash

\* Resolving an upstream component gives a commit its inputs resolve to.
LEMMA ResolveAnswers ==
  ASSUME NEW a \in [0 .. NSnap -> Commits], NEW cfg \in Config
  PROVE  /\ Resolve(a, cfg) \in Commits
         /\ ResolvedOnce(a, ResolutionHash(cfg), Resolve(a, cfg))
  <1>1. cfg.pin \in 0 .. MaxCommit /\ cfg.snap \in 0 .. NSnap
    BY DEF Config
  <1>2. a[cfg.snap] \in 1 .. MaxCommit
    BY <1>1 DEF Commits
  <1> QED
    BY <1>1, <1>2, ResolutionHashType DEF Resolve, ResolvedOnce, Commits

\* What a commit answers, it answers when more commits have been pushed.
LEMMA AnswersGrow ==
  ASSUME NEW a \in [0 .. NSnap -> Commits], NEW s \in 0 .. NSnap,
         NEW rh \in ResolutionInputs, NEW commit,
         ResolvedOnce(a, rh, commit)
  PROVE  ResolvedOnce([a EXCEPT ![s] = a[s] + 1], rh, commit)
  <1>1. rh.snap \in 0 .. NSnap
    BY DEF ResolutionInputs
  <1>2. a[rh.snap] \in Nat /\ a[s] \in Nat
    BY <1>1 DEF Commits
  <1> QED
    BY <1>1, <1>2 DEF ResolvedOnce

\* An answer is a commit.
LEMMA AnswerIsCommit ==
  ASSUME NEW a \in [0 .. NSnap -> Commits], NEW cfg \in Config, NEW commit,
         ResolvedOnce(a, ResolutionHash(cfg), commit)
  PROVE  commit # 0 /\ (cfg.pin # 0 => commit = cfg.pin)
  <1>1. cfg.pin \in 0 .. MaxCommit /\ cfg.snap \in 0 .. NSnap
    BY DEF Config
  <1> QED
    BY <1>1, ResolutionHashType DEF ResolvedOnce

\* The fields update writes.
LEMMA RefreshedFields ==
  ASSUME NEW l \in Lock \cup {Absent, Corrupt}, NEW cfg \in Config,
         NEW commit \in 0 .. MaxCommit
  PROVE  LET r == Refreshed(l, cfg, commit)
         IN /\ r \in Lock
            /\ r.commit = commit
            /\ r.import = ImportOf(GetOrNew(l), cfg, commit)
            /\ r.bump = GetOrNew(l).bump
            /\ r.fp = Identity(cfg, r.bump, commit)
            /\ r.rh = IF cfg.src = "upstream" THEN ResolutionHash(cfg)
                                              ELSE GetOrNew(l).rh
  <1> DEFINE b == GetOrNew(l)
  <1>1. b \in Lock
    BY GetOrNewType
  <1>2. /\ b.import \in 0 .. MaxCommit
        /\ b.bump \in Nat
        /\ b.rh \in ResolutionInputs \cup {None}
    BY <1>1 DEF Lock
  <1>3. Identity(cfg, b.bump, commit) \in Fingerprint
    BY <1>2, IdentityType
  <1>4. ImportOf(b, cfg, commit) \in 0 .. MaxCommit
    BY <1>2 DEF ImportOf
  <1>5. ResolutionHash(cfg) \in ResolutionInputs
    BY ResolutionHashType
  <1> HIDE DEF b
  <1>6. Refreshed(l, cfg, commit) =
          [commit |-> commit, import |-> ImportOf(b, cfg, commit),
           bump |-> b.bump, fp |-> Identity(cfg, b.bump, commit),
           rh |-> IF cfg.src = "upstream" THEN ResolutionHash(cfg) ELSE b.rh]
    BY DEF Refreshed, b
  <1>7. Refreshed(l, cfg, commit) \in Lock
    BY <1>2, <1>3, <1>4, <1>5, <1>6 DEF Lock
  <1> QED
    BY <1>6, <1>7 DEF b

\* The fields bump writes, and those it keeps.
LEMMA BumpedFields ==
  ASSUME NEW l \in Lock, NEW cfg \in Config
  PROVE  LET b == Bumped(l, cfg)
         IN /\ b \in Lock
            /\ b.commit = l.commit
            /\ b.import = l.import
            /\ b.rh = l.rh
  <1>1. l.bump + 1 \in Nat /\ l.commit \in 0 .. MaxCommit
    BY DEF Lock
  <1>2. Identity(cfg, l.bump + 1, l.commit) \in Fingerprint
    BY <1>1, IdentityType
  <1> QED
    BY <1>1, <1>2 DEF Bumped, Lock

\* Whatever the file held before, what update writes is sound and settles
\* the component, if the commit answers the configuration.
LEMMA RefreshedIsGood ==
  ASSUME NEW a \in [0 .. NSnap -> Commits],
         NEW l \in Lock \cup {Absent, Corrupt}, NEW cfg \in Config,
         NEW commit \in 0 .. MaxCommit, Answer(a, cfg, commit)
  PROVE  LET r == Refreshed(l, cfg, commit)
         IN Sound(a, r) /\ IsSettled(cfg, r)
  <1> DEFINE r == Refreshed(l, cfg, commit)
  <1>1. /\ r \in Lock
        /\ r.commit = commit
        /\ r.import = ImportOf(GetOrNew(l), cfg, commit)
        /\ r.fp = Identity(cfg, r.bump, commit)
        /\ cfg.src = "upstream" => r.rh = ResolutionHash(cfg)
    BY RefreshedFields
  <1> HIDE DEF r
  <1>2. Readable(r)
    BY <1>1, ReadableIsLock
  <1>3. cfg.src \in Sources
    BY DEF Config
  <1>4. CASE cfg.src = "upstream"
    <2>1. ResolvedOnce(a, r.rh, commit) /\ r.rh = ResolutionHash(cfg)
      BY <1>1, <1>4 DEF Answer
    <2>2. commit # 0 /\ (cfg.pin # 0 => commit = cfg.pin)
      BY <2>1, AnswerIsCommit
    <2>3. r.import # 0
      BY <1>1, <1>4, <2>2 DEF ImportOf
    <2> QED
      BY <1>1, <1>2, <1>4, <2>1, <2>2, <2>3 DEF Sound, IsSettled, Validates, r
  <1>5. CASE cfg.src = "local"
    <2>1. commit = 0 /\ r.import = 0
      BY <1>1, <1>5 DEF Answer, ImportOf
    <2> QED
      BY <1>1, <1>2, <1>5, <2>1 DEF Sound, IsSettled, Validates, r
  <1> QED
    BY <1>3, <1>4, <1>5 DEF Sources

\* A sound lock the freshness check calls current is settled.
LEMMA CurrentIsSettled ==
  ASSUME NEW a \in [0 .. NSnap -> Commits],
         NEW l \in Lock \cup {Absent, Corrupt}, NEW cfg \in Config,
         Readable(l) => Sound(a, l), Current(cfg, l)
  PROVE  IsSettled(cfg, l)
  <1>1. /\ Readable(l) /\ cfg.src = "upstream"
        /\ l.rh = ResolutionHash(cfg) /\ l.commit # 0
        /\ l.fp = Identity(cfg, l.bump, l.commit)
    BY DEF Current, ResolutionFresh
  <1>2. l.rh # None
    BY <1>1, ResolutionHashType
  <1>3. ResolvedOnce(a, ResolutionHash(cfg), l.commit) /\ l.import # 0
    BY <1>1, <1>2 DEF Sound
  <1>4. cfg.pin # 0 => l.commit = cfg.pin
    BY <1>3, AnswerIsCommit
  <1> QED
    BY <1>1, <1>3, <1>4 DEF IsSettled, Validates

\* A sound lock that already says what update would write is settled.
LEMMA SameIsSettled ==
  ASSUME NEW a \in [0 .. NSnap -> Commits], NEW l \in Lock, Sound(a, l),
         NEW cfg \in Config, Answer(a, cfg, l.commit),
         l.fp = Identity(cfg, l.bump, l.commit),
         cfg.src = "upstream" => l.rh = ResolutionHash(cfg)
  PROVE  IsSettled(cfg, l)
  <1>1. Readable(l)
    BY ReadableIsLock
  <1>2. cfg.src \in Sources
    BY DEF Config
  <1>3. CASE cfg.src = "upstream"
    <2>1. ResolvedOnce(a, ResolutionHash(cfg), l.commit)
      BY <1>3 DEF Answer
    <2>2. l.commit # 0 /\ (cfg.pin # 0 => l.commit = cfg.pin)
      BY <2>1, AnswerIsCommit
    <2>3. l.import # 0
      BY <1>3, <2>2, ResolutionHashType DEF Sound
    <2> QED
      BY <1>1, <1>3, <2>2, <2>3 DEF IsSettled, Validates
  <1>4. CASE cfg.src = "local"
    BY <1>1, <1>4 DEF Answer, Sound, IsSettled, Validates
  <1> QED
    BY <1>2, <1>3, <1>4 DEF Sources

-----------------------------------------------------------------------------
(* The inductive invariant: the initial states and the user's steps.       *)

\* No run is in progress at the beginning and every lock was written by one.
LEMMA InitIInv == Init => IInv
  <1> SUFFICES ASSUME Init PROVE IInv
    OBVIOUS
  <1>1. ASSUME NEW c \in Comps
        PROVE  /\ lock[c] \in Lock \cup {Absent}
               /\ Readable(lock[c]) => Sound(at, lock[c])
    <2>1. config[c] \in Config \cup {Absent}
      BY BoundsAssumption DEF Init
    <2>2. at \in [0 .. NSnap -> Commits] /\ lock[c] \in InitialLocks(at, config[c])
      BY DEF Init, FirstCommits, Commits
    <2>3. CASE lock[c] = Absent
      BY <2>3 DEF Readable
    <2>4. CASE lock[c] # Absent
      <3>1. config[c] \in Config
        BY <2>1, <2>2, <2>4 DEF InitialLocks
      <3> DEFINE commit == Resolve(at, config[c])
      <3>2. commit \in Commits
        BY <2>2, <3>1, ResolveAnswers
      <3>3. Identity(config[c], 0, commit) \in Fingerprint
        BY <3>1, <3>2, IdentityType DEF Commits
      <3>4. PICK fp \in {None, Identity(config[c], 0, commit)} :
              lock[c] = [commit |-> commit, import |-> commit, bump |-> 0,
                         fp |-> fp, rh |-> None]
        BY <2>2, <2>4 DEF InitialLocks
      <3> HIDE DEF commit
      <3> QED
        BY <3>2, <3>3, <3>4 DEF Lock, Commits, Sound
    <2> QED
      BY <2>3, <2>4
  <1>2. TypeOK
    <2>1. config \in [Comps -> Config \cup {Absent}]
      BY BoundsAssumption DEF Init
    <2>2. at \in [0 .. NSnap -> Commits]
      BY DEF Init, FirstCommits, Commits
    <2>3. lock \in [Comps -> Lock \cup {Absent, Corrupt}]
      BY <1>1 DEF Init
    <2>4. res \in [Comps -> Result] /\ job \in Job
      BY DEF Init, NoResult, Result, Statuses, NoJob, Job
    <2>5. edits \in 0 .. MaxEdits /\ faults \in 0 .. MaxFaults
      BY BoundsAssumption DEF Init
    <2>6. /\ pc \in Phases /\ left \subseteq Comps /\ cancelled \in BOOLEAN
          /\ exit \in {"none", "ok", "failed", "stale"}
      BY DEF Init, Phases
    <2> QED
      BY <2>1, <2>2, <2>3, <2>4, <2>5, <2>6 DEF TypeOK
  <1>3. LocksSound
    BY <1>1 DEF LocksSound
  <1> QED
    BY <1>2, <1>3 DEF Init, IInv, JobShape, ResultShape, SaveShape, PruneShape,
                      SuccessSettles, CheckPassMeansLocked

\* What is selected is configured as long as the run lasts.
LEMMA SelectedConfig ==
  ASSUME TypeOK, JobShape, pc # "idle", NEW c \in job.sel
  PROVE  c \in Comps /\ config[c] \in Config
  BY DEF TypeOK, JobShape, Configured

\* With no run in progress only the files' own invariants have a say.
LEMMA IdleIInv ==
  ASSUME TypeOK', LocksSound', pc' = "idle", exit' = "none"
  PROVE  IInv'
  BY DEF IInv, JobShape, ResultShape, SaveShape, PruneShape, SuccessSettles,
         CheckPassMeansLocked

\* An edit makes a lock stale, never wrong.
LEMMA EditIInv ==
  ASSUME IInv, NEW c \in Comps, Edit(c)
  PROVE  IInv'
  <1> USE DEF Edit, run
  <1>1. TypeOK'
    <2>1. PICK cfg \in (Choices[c] \cup {Absent}) \ {config[c]} :
            config' = [config EXCEPT ![c] = cfg]
      OBVIOUS
    <2>2. cfg \in Config \cup {Absent}
      BY <2>1, BoundsAssumption
    <2>3. config' \in [Comps -> Config \cup {Absent}]
      BY <2>1, <2>2 DEF IInv, TypeOK
    <2>4. edits' \in 0 .. MaxEdits
      BY BoundsAssumption DEF IInv, TypeOK
    <2> QED
      BY <2>3, <2>4 DEF IInv, TypeOK
  <1>2. LocksSound'
    BY DEF IInv, LocksSound
  <1>3. pc' = "idle" /\ exit' = "none"
    BY DEF IInv, JobShape
  <1> QED
    BY <1>1, <1>2, <1>3, IdleIInv

\* Removing a lock by hand leaves no claim behind.
LEMMA DiscardIInv ==
  ASSUME IInv, NEW c \in Comps, Discard(c)
  PROVE  IInv'
  <1> USE DEF Discard, run
  <1>1. TypeOK'
    BY DEF IInv, TypeOK
  <1>2. LocksSound'
    BY DEF IInv, TypeOK, LocksSound, Readable
  <1>3. pc' = "idle" /\ exit' = "none"
    BY DEF IInv, JobShape
  <1> QED
    BY <1>1, <1>2, <1>3, IdleIInv

\* New upstream commits leave old answers answers.
LEMMA UpstreamIInv ==
  ASSUME IInv, NEW s \in 0 .. NSnap, UpstreamMoves(s)
  PROVE  IInv'
  <1> USE DEF UpstreamMoves, run
  <1>1. TypeOK'
    <2>1. at' \in [0 .. NSnap -> Commits]
      BY DEF IInv, TypeOK, Commits
    <2>2. edits' \in 0 .. MaxEdits
      BY BoundsAssumption DEF IInv, TypeOK
    <2> QED
      BY <2>1, <2>2 DEF IInv, TypeOK
  <1>2. LocksSound'
    <2> SUFFICES ASSUME NEW c \in Comps, Readable(lock[c]), Sound(at, lock[c])
                 PROVE  Sound(at', lock[c])
      BY DEF IInv, LocksSound
    <2>1. lock[c] \in Lock
      BY ReadableIsLock DEF IInv, TypeOK
    <2>2. lock[c].rh \in ResolutionInputs \cup {None}
      BY <2>1 DEF Lock
    <2> QED
      BY <2>2, AnswersGrow DEF IInv, TypeOK, Sound
  <1>3. ASSUME NEW c \in Comps, Answers(c), c \in job.sel, pc # "idle"
        PROVE  Answers(c)'
    <2>1. config[c] \in Config
      BY <1>3, SelectedConfig DEF IInv
    <2>2. ResolutionHash(config[c]) \in ResolutionInputs
      BY <2>1, ResolutionHashType
    <2>3. Answer(at, config[c], res[c].commit)
      BY <1>3 DEF Answers
    <2>4. Answer(at', config[c], res[c].commit)
      BY <2>2, <2>3, AnswersGrow DEF IInv, TypeOK, Answer
    <2> QED
      BY <2>4 DEF Answers
  <1>4. ResultShape'
    BY <1>3 DEF IInv, ResultShape
  <1>5. JobShape' /\ SaveShape' /\ PruneShape'
    BY DEF IInv, JobShape, SaveShape, PruneShape, Settled, Matches, SomeFailed,
           Configured
  <1>6. SuccessSettles' /\ CheckPassMeansLocked'
    BY DEF IInv, SuccessSettles, CheckPassMeansLocked, Settled, NoOrphans
  <1> QED
    BY <1>1, <1>2, <1>4, <1>5, <1>6 DEF IInv

-----------------------------------------------------------------------------
(* The steps of a run: starting and resolving.                             *)

\* A run that fails leaves nothing to show but sound locks.
LEMMA FailedIInv ==
  ASSUME IInv, pc # "idle", TypeOK', LocksSound', pc' = "done", exit' = "failed",
         UNCHANGED <<config, job>>
  PROVE  IInv'
  BY DEF IInv, JobShape, ResultShape, SaveShape, PruneShape, SuccessSettles,
         CheckPassMeansLocked, Configured

\* A torn file says nothing.
LEMMA TornLocks ==
  ASSUME TypeOK, LocksSound, NEW c \in Comps,
         lock' \in {lock, [lock EXCEPT ![c] = Corrupt]}, UNCHANGED at
  PROVE  lock' \in [Comps -> Lock \cup {Absent, Corrupt}] /\ LocksSound'
  BY DEF TypeOK, LocksSound, Readable

\* A fault leaves the count of faults within its bound.
LEMMA FaultCount ==
  ASSUME TypeOK, Fault
  PROVE  faults' \in 0 .. MaxFaults
  BY BoundsAssumption DEF TypeOK, Fault

\* What classification knows of a component before anything is resolved.
LEMMA Classified ==
  ASSUME IInv, NEW c \in Comps, config[c] \in Config, NEW force \in BOOLEAN
  PROVE  LET r == Classify(c, force)
         IN /\ r \in Result
            /\ r.status \in {"fresh", "ok", "pending"}
            /\ r.status = "fresh" =>
                 Current(config[c], lock[c]) /\ r.commit = lock[c].commit
            /\ r.status = "ok" =>
                 /\ Readable(lock[c])
                 /\ r.commit = lock[c].commit
                 /\ Answer(at, config[c], r.commit)
  <1>1. lock[c] \in Lock \cup {Absent, Corrupt}
    BY DEF IInv, TypeOK
  <1>2. CASE ~force /\ Current(config[c], lock[c])
    <2>1. lock[c].commit \in 0 .. MaxCommit
      BY <1>1, <1>2, ReadableIsLock DEF Current, ResolutionFresh, Lock
    <2> QED
      BY <1>2, <2>1 DEF Classify, Result, Statuses
  <1>3. CASE ~force /\ ~Current(config[c], lock[c]) /\ Reusable(config[c], lock[c])
    <2>1. /\ Readable(lock[c]) /\ config[c].src = "upstream"
          /\ lock[c].rh = ResolutionHash(config[c]) /\ lock[c].commit # 0
      BY <1>3 DEF Reusable, ResolutionFresh
    <2>2. lock[c].commit \in 0 .. MaxCommit
      BY <1>1, <2>1, ReadableIsLock DEF Lock
    <2>3. ResolvedOnce(at, ResolutionHash(config[c]), lock[c].commit)
      BY <2>1, ResolutionHashType DEF IInv, LocksSound, Sound
    <2> QED
      BY <1>3, <2>1, <2>2, <2>3 DEF Classify, Result, Statuses, Answer
  <1>4. CASE force \/ (~Current(config[c], lock[c]) /\ ~Reusable(config[c], lock[c]))
    BY <1>4 DEF Classify, Result, Statuses
  <1> QED
    BY <1>2, <1>3, <1>4

\* A selection is of configured components; -a selects every one of them.
LEMMA SelectionType ==
  ASSUME NEW s \in Selections
  PROVE  /\ s.sel \subseteq Configured /\ s.all \in BOOLEAN
         /\ s.all => s.sel = Configured
  <1>1. CASE s = [all |-> TRUE, sel |-> Configured]
    BY <1>1
  <1>2. CASE \E S \in (SUBSET Configured) \ {{}} : s = [all |-> FALSE, sel |-> S]
    BY <1>2
  <1> QED
    BY <1>1, <1>2 DEF Selections

\* A run classifies what it selected before it writes anything.
LEMMA StartUpdateIInv ==
  ASSUME IInv, NEW mode, NEW s, NEW force \in BOOLEAN, StartUpdate(mode, s, force)
  PROVE  IInv'
  <1> USE DEF StartUpdate, files
  <1>1. /\ s.sel \subseteq Configured /\ s.all \in BOOLEAN
        /\ s.all => s.sel = Configured
    BY SelectionType
  <1>2. \A c \in s.sel : c \in Comps /\ config[c] \in Config
    BY <1>1 DEF Configured, IInv, TypeOK
  <1>3. job' \in Job /\ job'.sel = s.sel /\ job'.all = s.all /\ job'.mode = mode
    BY <1>1 DEF Job, Configured
  <1>4. NoResult \in Result /\ NoResult.status = "none"
    BY DEF NoResult, Result, Statuses
  <1>5. \A c \in Comps : res'[c] = IF c \in s.sel THEN Classify(c, force) ELSE NoResult
    BY DEF IInv
  <1>6. res' \in [Comps -> Result]
    BY <1>2, <1>4, Classified
  <1>7. TypeOK'
    BY <1>3, <1>6 DEF IInv, TypeOK, Phases
  <1>8. LocksSound'
    BY DEF IInv, LocksSound
  <1>9. JobShape'
    BY <1>1, <1>3 DEF IInv, JobShape, Configured
  <1>10. ResultShape'
    <2> SUFFICES ASSUME NEW c \in Comps
                 PROVE  /\ c \in s.sel <=> res'[c].status # "none"
                        /\ res'[c].status # "skipped"
                        /\ res'[c].status = "fresh" =>
                             /\ Current(config[c], lock[c])
                             /\ res'[c].commit = lock[c].commit
                        /\ res'[c].status = "ok" =>
                             /\ Readable(lock[c])
                             /\ Answer(at, config[c], res'[c].commit)
                             /\ lock[c].commit = res'[c].commit
      BY <1>3 DEF ResultShape, Answers, Readable
    <2>1. CASE c \in s.sel
      BY <1>2, <1>5, <2>1, Classified
    <2>2. CASE c \notin s.sel
      BY <1>4, <1>5, <2>2
    <2> QED
      BY <2>1, <2>2
  <1>11. SaveShape' /\ PruneShape' /\ SuccessSettles' /\ CheckPassMeansLocked'
    BY DEF SaveShape, PruneShape, SuccessSettles, CheckPassMeansLocked
  <1> QED
    BY <1>7, <1>8, <1>9, <1>10, <1>11 DEF IInv

\* A bump visits configured components only.
LEMMA StartBumpIInv ==
  ASSUME IInv, NEW s, StartBump(s)
  PROVE  IInv'
  <1> USE DEF StartBump, files
  <1>1. /\ s.sel \subseteq Configured /\ s.all \in BOOLEAN
        /\ s.all => s.sel = Configured
    BY SelectionType
  <1>2. job' \in Job /\ job'.sel = s.sel /\ job'.all = s.all /\ job'.mode = "bump"
    BY <1>1 DEF Job, Configured
  <1>3. TypeOK'
    BY <1>1, <1>2 DEF IInv, TypeOK, Phases, Configured
  <1>4. JobShape' /\ LocksSound'
    BY <1>1, <1>2 DEF IInv, JobShape, LocksSound, Configured
  <1> QED
    BY <1>3, <1>4 DEF IInv, ResultShape, SaveShape, PruneShape, SuccessSettles,
                      CheckPassMeansLocked

\* What a resolution answers, and says of the lock it found.
LEMMA ResolutionAnswers ==
  ASSUME IInv, NEW c \in Comps, config[c] \in Config
  PROVE  LET r == Resolution(c)
         IN /\ r \in Result
            /\ r.status \in {"ok", "error"}
            /\ r.status = "ok" =>
                 /\ lock[c] # Corrupt
                 /\ Answer(at, config[c], r.commit)
                 /\ ~r.changed => Readable(lock[c]) /\ lock[c].commit = r.commit
  <1> DEFINE commit == IF config[c].src = "upstream" THEN Resolve(at, config[c]) ELSE 0
             changed == lock[c] = Absent \/ lock[c].commit # commit
  <1>1. commit \in 0 .. MaxCommit /\ Answer(at, config[c], commit)
    BY ResolveAnswers DEF IInv, TypeOK, Answer, Commits
  <1>2. changed \in BOOLEAN /\ (~changed => lock[c] # Absent /\ lock[c].commit = commit)
    OBVIOUS
  <1>3. Resolution(c) =
          IF lock[c] = Corrupt
          THEN [status |-> "error", commit |-> commit, changed |-> FALSE]
          ELSE [status |-> "ok", commit |-> commit, changed |-> changed]
    BY DEF Resolution
  <1> HIDE DEF commit, changed
  <1>4. CASE lock[c] = Corrupt
    BY <1>1, <1>3, <1>4 DEF Result, Statuses
  <1>5. CASE lock[c] # Corrupt
    BY <1>1, <1>2, <1>3, <1>5 DEF Result, Statuses, Readable
  <1> QED
    BY <1>4, <1>5

\* Every step of the resolve phase that changes one pending result keeps the
\* invariant, if the new result is an error, skipped after an interrupt, or
\* what a resolution answers.
LEMMA ResolvePhase ==
  ASSUME IInv, NEW c \in Comps, pc = "resolve", res[c].status = "pending",
         NEW r \in Result, res' = [res EXCEPT ![c] = r],
         \/ r.status = "error"
         \/ r.status = "skipped" /\ cancelled
         \/ /\ r.status = "ok" /\ lock[c] # Corrupt
            /\ Answer(at, config[c], r.commit)
            /\ ~r.changed => Readable(lock[c]) /\ lock[c].commit = r.commit,
         faults' \in 0 .. MaxFaults,
         UNCHANGED <<files, pc, job, left, cancelled, exit, edits>>
  PROVE  IInv'
  <1> USE DEF files
  <1>1. TypeOK'
    BY DEF IInv, TypeOK
  <1>2. LocksSound' /\ JobShape'
    BY DEF IInv, LocksSound, JobShape, Configured
  <1>3. ResultShape'
    BY DEF IInv, TypeOK, ResultShape, Answers
  <1> QED
    BY <1>1, <1>2, <1>3 DEF IInv, SaveShape, PruneShape, SuccessSettles,
                            CheckPassMeansLocked

\* A resolved commit answers the hash it will be saved with.
LEMMA ResolveOneIInv ==
  ASSUME IInv, NEW c \in Comps, ResolveOne(c)
  PROVE  IInv'
  <1>1. config[c] \in Config
    BY SelectedConfig DEF ResolveOne, IInv, ResultShape
  <1> DEFINE r == Resolution(c)
  <1>2. /\ r \in Result
        /\ \/ r.status = "error"
           \/ /\ r.status = "ok" /\ lock[c] # Corrupt
              /\ Answer(at, config[c], r.commit)
              /\ ~r.changed => Readable(lock[c]) /\ lock[c].commit = r.commit
    BY <1>1, ResolutionAnswers
  <1>3. res' = [res EXCEPT ![c] = r] /\ faults' \in 0 .. MaxFaults
    BY DEF ResolveOne, IInv, TypeOK
  <1> HIDE DEF r
  <1> QED
    BY <1>2, <1>3, ResolvePhase DEF ResolveOne

\* A failed resolution is recorded as an error.
LEMMA ResolveFailsIInv ==
  ASSUME IInv, NEW c \in Comps, ResolveFails(c)
  PROVE  IInv'
  <1> DEFINE r == [res[c] EXCEPT !.status = "error"]
  <1>1. r \in Result /\ r.status = "error"
    BY DEF IInv, TypeOK, Result, Statuses
  <1>2. faults' \in 0 .. MaxFaults
    BY FaultCount DEF ResolveFails, IInv, TypeOK
  <1>3. res' = [res EXCEPT ![c] = r]
    BY DEF ResolveFails
  <1> HIDE DEF r
  <1> QED
    BY <1>1, <1>2, <1>3, ResolvePhase DEF ResolveFails

\* What is skipped is current.
LEMMA SkipOneIInv ==
  ASSUME IInv, NEW c \in Comps, SkipOne(c)
  PROVE  IInv'
  <1> DEFINE r == [res[c] EXCEPT !.status = "skipped"]
  <1>1. r \in Result /\ r.status = "skipped"
    BY DEF IInv, TypeOK, Result, Statuses
  <1>2. res' = [res EXCEPT ![c] = r] /\ faults' \in 0 .. MaxFaults
    BY DEF SkipOne, IInv, TypeOK
  <1> HIDE DEF r
  <1> QED
    BY <1>1, <1>2, ResolvePhase DEF SkipOne

\* An interrupt ends the resolution and writes nothing.
LEMMA InterruptIInv ==
  ASSUME IInv, Interrupt
  PROVE  IInv'
  <1> USE DEF Interrupt, files
  <1>1. faults' \in 0 .. MaxFaults
    BY FaultCount DEF IInv
  <1>2. TypeOK'
    BY <1>1 DEF IInv, TypeOK
  <1>3. LocksSound' /\ JobShape' /\ ResultShape'
    BY DEF IInv, LocksSound, JobShape, ResultShape, Answers, Configured
  <1> QED
    BY <1>2, <1>3 DEF IInv, SaveShape, PruneShape, SuccessSettles,
                      CheckPassMeansLocked

\* After the phase every selected component has a result.
LEMMA ResolvedIInv ==
  ASSUME IInv, Resolved
  PROVE  IInv'
  <1> USE DEF Resolved, files
  <1>1. TypeOK'
    BY DEF IInv, TypeOK, Phases
  <1>2. LocksSound'
    BY DEF IInv, LocksSound
  <1>3. CASE cancelled
    BY <1>1, <1>2, <1>3, FailedIInv
  <1>4. CASE ~cancelled
    <2>1. JobShape'
      BY <1>4 DEF IInv, JobShape, Configured
    <2>2. ResultShape'
      BY <1>4 DEF IInv, ResultShape, Answers
    <2>3. SaveShape'
      <3>1. \A c \in job.sel : c \in Comps /\ res[c].status \in Statuses
        BY SelectedConfig DEF IInv, TypeOK, Result
      <3>2. \A c \in job.sel : res[c].status \in {"fresh", "ok", "error"}
        BY <1>4, <3>1 DEF IInv, ResultShape, Statuses
      <3> QED
        BY <1>4, <3>1, <3>2 DEF SaveShape
    <2> QED
      BY <1>1, <1>2, <1>4, <2>1, <2>2, <2>3
      DEF IInv, PruneShape, SuccessSettles, CheckPassMeansLocked
  <1> QED
    BY <1>3, <1>4

-----------------------------------------------------------------------------
(* Saving.                                                                 *)

\* While saving, a component to be visited has all a write needs.
LEMMA ToSave ==
  ASSUME IInv, pc = "save", NEW c \in left
  PROVE  /\ c \in Comps /\ c \in job.sel /\ config[c] \in Config
         /\ lock[c] \in Lock \cup {Absent} /\ lock[c] # Corrupt
         /\ res[c] \in Result /\ res[c].status = "ok"
         /\ res[c].commit \in 0 .. MaxCommit /\ res[c].changed \in BOOLEAN
         /\ Answer(at, config[c], res[c].commit)
         /\ ~res[c].changed => Readable(lock[c]) /\ lock[c].commit = res[c].commit
  <1>1. c \in Comps /\ res[c].status = "ok"
    BY DEF IInv, TypeOK, SaveShape
  <1>2. c \in job.sel
    BY <1>1 DEF IInv, ResultShape
  <1>3. config[c] \in Config
    BY <1>2, SelectedConfig DEF IInv
  <1>4. res[c] \in Result
    BY <1>1 DEF IInv, TypeOK
  <1>5. res[c].commit \in 0 .. MaxCommit /\ res[c].changed \in BOOLEAN
    BY <1>4 DEF Result
  <1>6. /\ lock[c] # Corrupt /\ Answers(c)
        /\ ~res[c].changed => Readable(lock[c]) /\ lock[c].commit = res[c].commit
    BY <1>1 DEF IInv, ResultShape
  <1>7. lock[c] \in Lock \cup {Absent}
    BY <1>1, <1>6 DEF IInv, TypeOK
  <1> QED
    BY <1>1, <1>2, <1>3, <1>4, <1>5, <1>6, <1>7 DEF Answers

\* A component whose lock need not be written is settled, and one that does
\* not differ matches its lock.
LEMMA NothingToWrite ==
  ASSUME IInv, pc = "save", NEW c \in left, ~Differs(c)
  PROVE  /\ Matches(c)
         /\ ~MustWrite(c) => Settled(c)
  <1>1. /\ c \in Comps /\ config[c] \in Config /\ lock[c] \in Lock \cup {Absent, Corrupt}
        /\ res[c].commit \in 0 .. MaxCommit
        /\ Answer(at, config[c], res[c].commit)
    BY ToSave
  <1>2. Readable(lock[c]) /\ lock[c].commit = res[c].commit
    BY ToSave DEF Differs
  <1>3. lock[c] \in Lock /\ GetOrNew(lock[c]) = lock[c]
    BY <1>1, <1>2, GetOrNewType, ReadableIsLock
  <1>4. Updated(c).fp = Identity(config[c], lock[c].bump, res[c].commit)
    BY <1>1, <1>3, RefreshedFields DEF Updated
  <1>5. lock[c].fp = Identity(config[c], lock[c].bump, res[c].commit)
    BY <1>3, <1>4 DEF Differs
  <1>6. Matches(c)
    BY <1>2, <1>5 DEF Matches
  <1>7. ASSUME ~MustWrite(c) PROVE Settled(c)
    <2>1. config[c].src = "upstream" => lock[c].rh = ResolutionHash(config[c])
      BY <1>1, <1>3, <1>7, RefreshedFields DEF MustWrite, Updated
    <2>2. Sound(at, lock[c]) /\ at \in [0 .. NSnap -> Commits]
      BY <1>1, <1>2 DEF IInv, TypeOK, LocksSound
    <2> QED
      BY <1>1, <1>2, <1>3, <1>5, <2>1, <2>2, SameIsSettled DEF Settled
  <1> QED
    BY <1>6, <1>7

\* What update writes keeps every file a lock and every lock sound.
LEMMA WritesAreSound ==
  ASSUME IInv, pc = "save", NEW c \in left, UNCHANGED <<config, at>>,
         lock' = [lock EXCEPT ![c] = Updated(c)]
  PROVE  /\ lock' \in [Comps -> Lock \cup {Absent, Corrupt}]
         /\ LocksSound'
         /\ lock'[c] # Corrupt
         /\ IsSettled(config[c], lock'[c])
  <1>1. /\ c \in Comps /\ lock[c] \in Lock \cup {Absent, Corrupt}
        /\ config[c] \in Config /\ res[c].commit \in 0 .. MaxCommit
        /\ Answer(at, config[c], res[c].commit)
        /\ at \in [0 .. NSnap -> Commits]
    BY ToSave DEF IInv, TypeOK
  <1>2. Updated(c) \in Lock
    BY <1>1, RefreshedFields DEF Updated
  <1>3. Sound(at, Updated(c)) /\ IsSettled(config[c], Updated(c))
    BY <1>1, RefreshedIsGood DEF Updated
  <1>4. lock'[c] = Updated(c) /\ \A d \in Comps \ {c} : lock'[d] = lock[d]
    BY <1>1 DEF IInv, TypeOK
  <1>5. lock' \in [Comps -> Lock \cup {Absent, Corrupt}]
    BY <1>1, <1>2 DEF IInv, TypeOK
  <1>6. LocksSound'
    BY <1>3, <1>4 DEF IInv, LocksSound
  <1> QED
    BY <1>2, <1>3, <1>4, <1>5, <1>6

\* What is saved answers its hash and settles its component.
LEMMA SaveOneIInv ==
  ASSUME IInv, NEW c \in Comps, SaveOne(c)
  PROVE  IInv'
  <1> DEFINE writes == MustWrite(c) /\ job.mode = "update"
  <1>1. /\ pc = "save" /\ pc' = "save" /\ c \in left /\ left' = left \ {c}
        /\ res' = [res EXCEPT ![c].changed = Differs(c)]
        /\ UNCHANGED <<config, at, job, cancelled, exit, edits, faults>>
    BY DEF SaveOne, IsNext
  <1>2. /\ writes => lock' = [lock EXCEPT ![c] = Updated(c)]
        /\ ~writes => lock' = lock
    BY DEF SaveOne
  <1> HIDE DEF writes
  <1>3. res' \in [Comps -> Result]
    <2>1. Differs(c) \in BOOLEAN
      BY <1>1, ToSave DEF Differs
    <2> QED
      BY <1>1, <2>1 DEF IInv, TypeOK, Result
  <1>4. /\ \A d \in Comps : res'[d].status = res[d].status /\ res'[d].commit = res[d].commit
        /\ \A d \in Comps \ {c} : res'[d] = res[d]
        /\ res'[c].changed <=> Differs(c)
    BY <1>1 DEF IInv, TypeOK, Result
  <1>5. /\ lock' \in [Comps -> Lock \cup {Absent, Corrupt}]
        /\ LocksSound'
        /\ lock'[c] # Corrupt
        /\ writes => IsSettled(config[c], lock'[c])
    BY <1>1, <1>2, WritesAreSound, ToSave DEF IInv, TypeOK, LocksSound
  <1>6. \A d \in Comps \ {c} : lock'[d] = lock[d]
    BY <1>1, <1>2 DEF IInv, TypeOK
  <1>7. TypeOK'
    BY <1>1, <1>3, <1>5 DEF IInv, TypeOK
  <1>8. JobShape'
    BY <1>1 DEF IInv, JobShape, Configured
  <1>9. ResultShape'
    <2>1. ASSUME NEW d \in Comps, d # c
          PROVE  /\ d \in job'.sel <=> res'[d].status # "none"
                 /\ res'[d].status = "skipped" => cancelled'
                 /\ res'[d].status = "fresh" =>
                      /\ Current(config'[d], lock'[d])
                      /\ res'[d].commit = lock'[d].commit
                 /\ res'[d].status = "ok" =>
                      /\ lock'[d] # Corrupt
                      /\ Answer(at', config'[d], res'[d].commit)
                      /\ ~res'[d].changed /\ d \in left' =>
                           Readable(lock'[d]) /\ lock'[d].commit = res'[d].commit
      BY <1>1, <1>4, <1>6, <2>1 DEF IInv, ResultShape, Answers
    <2>2. /\ c \in job'.sel /\ res'[c].status = "ok" /\ c \notin left'
          /\ Answer(at', config'[c], res'[c].commit)
      BY <1>1, <1>4, ToSave
    <2> QED
      BY <1>1, <1>5, <2>1, <2>2 DEF ResultShape, Answers
  <1>10. SaveShape'
    <2>1. ASSUME NEW d \in job.sel, res[d].status = "ok", d \notin left'
          PROVE  IF job.mode = "update" THEN Settled(d)'
                                        ELSE res'[d].changed \/ Matches(d)'
      <3>1. d \in Comps
        BY <1>1, SelectedConfig DEF IInv
      <3>2. CASE d # c
        BY <1>1, <1>4, <1>6, <2>1, <3>1, <3>2 DEF IInv, SaveShape, Settled, Matches
      <3>3. CASE d = c /\ writes
        BY <1>1, <1>5, <3>3 DEF Settled, writes
      <3>4. CASE d = c /\ ~writes
        <4>1. lock' = lock /\ config' = config
          BY <1>1, <1>2, <3>4
        <4>2. CASE job.mode = "update"
          <5>1. ~MustWrite(c) /\ ~Differs(c)
            BY <3>4, <4>2 DEF writes, MustWrite
          <5>2. Settled(c)
            BY <1>1, <5>1, NothingToWrite
          <5> QED
            BY <3>4, <4>1, <4>2, <5>2 DEF Settled
        <4>3. CASE job.mode # "update"
          <5>1. Differs(c) \/ Matches(c)
            BY <1>1, NothingToWrite
          <5> QED
            BY <1>4, <3>4, <4>1, <4>3, <5>1 DEF Matches
        <4> QED
          BY <4>2, <4>3
      <3> QED
        BY <3>2, <3>3, <3>4
    <2>2. \A d \in job.sel : d \in Comps
      BY <1>1, SelectedConfig DEF IInv
    <2>3. ~cancelled' /\ \A d \in left' : res'[d].status = "ok"
      BY <1>1, <1>4 DEF IInv, TypeOK, SaveShape
    <2>4. \A d \in job.sel : res'[d].status = res[d].status
                             /\ res[d].status \in {"fresh", "ok", "error"}
      BY <1>1, <1>4, <2>2 DEF IInv, SaveShape
    <2> QED
      BY <1>1, <2>1, <2>3, <2>4 DEF SaveShape
  <1> QED
    BY <1>1, <1>5, <1>7, <1>8, <1>9, <1>10
    DEF IInv, PruneShape, SuccessSettles, CheckPassMeansLocked

\* A write that fails leaves the old lock or a torn file.
LEMMA SaveFailsIInv ==
  ASSUME IInv, NEW c \in Comps, SaveFails(c)
  PROVE  IInv'
  <1>1. /\ lock' \in {lock, [lock EXCEPT ![c] = Corrupt]}
        /\ pc = "save" /\ pc' = "done" /\ exit' = "failed"
        /\ UNCHANGED <<config, at, job, res, left, cancelled, edits>>
    BY DEF SaveFails, UntouchedOrTorn
  <1>2. lock' \in [Comps -> Lock \cup {Absent, Corrupt}] /\ LocksSound'
    BY <1>1, TornLocks DEF IInv
  <1>3. TypeOK'
    BY <1>1, <1>2, FaultCount DEF SaveFails, IInv, TypeOK, Phases
  <1> QED
    BY <1>1, <1>2, <1>3, FailedIInv

\* When every component has been visited and none failed, every selected one
\* is settled, or, in a check, changed or as its lock says.
LEMMA VisitedAll ==
  ASSUME IInv, pc = "save", left = {}, ~SomeFailed, NEW c \in job.sel
  PROVE  IF job.mode = "update" THEN Settled(c) ELSE res[c].changed \/ Matches(c)
  <1>1. /\ c \in Comps /\ config[c] \in Config
        /\ lock[c] \in Lock \cup {Absent, Corrupt}
    BY SelectedConfig DEF IInv, TypeOK
  <1>2. res[c].status \in {"fresh", "ok"}
    BY <1>1 DEF IInv, SaveShape, SomeFailed
  <1>3. CASE res[c].status = "ok"
    BY <1>3 DEF IInv, SaveShape
  <1>4. CASE res[c].status = "fresh"
    <2>1. Current(config[c], lock[c]) /\ res[c].commit = lock[c].commit
      BY <1>1, <1>4 DEF IInv, ResultShape
    <2>2. Settled(c)
      BY <1>1, <2>1, CurrentIsSettled DEF IInv, TypeOK, LocksSound, Settled
    <2> QED
      BY <2>1, <2>2 DEF Settled, IsSettled, Matches
  <1> QED
    BY <1>2, <1>3, <1>4

\* Pruning follows a run without errors, and takes orphans only.
LEMMA AllSavedIInv ==
  ASSUME IInv, AllSaved
  PROVE  IInv'
  <1> USE DEF AllSaved, files
  <1>1. TypeOK'
    BY DEF IInv, TypeOK, Phases, Orphans
  <1>2. LocksSound'
    BY DEF IInv, LocksSound
  <1>3. CASE SomeFailed
    BY <1>1, <1>2, <1>3, FailedIInv
  <1>4. CASE ~SomeFailed
    <2>1. JobShape'
      BY <1>4 DEF IInv, JobShape, Configured
    <2>2. \A c \in job.sel :
            IF job.mode = "update" THEN Settled(c)' ELSE res'[c].changed \/ Matches(c)'
      BY <1>4, VisitedAll DEF Settled, Matches
    <2>3. ~SomeFailed'
      BY <1>4 DEF SomeFailed
    <2>4. /\ left' = IF job.all /\ job.mode = "update" THEN Orphans ELSE {}
          /\ job.all => job.sel = Configured
          /\ ~cancelled'
      BY <1>4 DEF IInv, JobShape, SaveShape
    <2>5. PruneShape'
      BY <2>2, <2>3, <2>4 DEF PruneShape, Orphans, Configured
    <2> QED
      BY <1>1, <1>2, <1>4, <2>1, <2>5
      DEF IInv, ResultShape, SaveShape, SuccessSettles, CheckPassMeansLocked
  <1> QED
    BY <1>3, <1>4

\* A run that cannot list the orphans fails.
LEMMA ListingFailsIInv ==
  ASSUME IInv, ListingFails
  PROVE  IInv'
  <1> USE DEF ListingFails, files
  <1>1. TypeOK'
    BY FaultCount DEF IInv, TypeOK, Phases
  <1>2. LocksSound'
    BY DEF IInv, LocksSound
  <1> QED
    BY <1>1, <1>2, FailedIInv

-----------------------------------------------------------------------------
(* Pruning.                                                                *)

\* Pruning removes the lock of no configured component.
LEMMA PruneOneIInv ==
  ASSUME IInv, NEW c \in Comps, PruneOne(c)
  PROVE  IInv'
  <1> USE DEF PruneOne, IsNext
  <1>1. TypeOK'
    BY DEF IInv, TypeOK
  <1>2. LocksSound'
    BY DEF IInv, TypeOK, LocksSound, Readable
  <1>3. JobShape'
    BY DEF IInv, JobShape, Configured
  <1>4. PruneShape'
    <2>1. /\ job.mode = "update" /\ config[c] = Absent
          /\ \A d \in Comps \ {c} : lock'[d] = lock[d]
          /\ lock'[c] = Absent
      BY DEF IInv, TypeOK, PruneShape
    <2>2. \A d \in job.sel : d \in Comps /\ d # c
      BY <2>1, SelectedConfig DEF IInv
    <2>3. \A d \in job.sel : Settled(d)'
      BY <2>1, <2>2 DEF IInv, PruneShape, Settled
    <2>4. ~SomeFailed' /\ \A d \in left' : config'[d] = Absent /\ lock'[d] # Absent
      BY <2>1 DEF IInv, TypeOK, PruneShape, SomeFailed
    <2> QED
      BY <2>1, <2>3, <2>4 DEF IInv, PruneShape
  <1> QED
    BY <1>1, <1>2, <1>3, <1>4
    DEF IInv, ResultShape, SaveShape, SuccessSettles, CheckPassMeansLocked

\* A lock that cannot be removed is an error of the run.
LEMMA PruneFailsIInv ==
  ASSUME IInv, NEW c \in Comps, PruneFails(c)
  PROVE  IInv'
  <1> USE DEF PruneFails, IsNext, files
  <1>1. TypeOK'
    BY FaultCount DEF IInv, TypeOK
  <1>2. LocksSound' /\ JobShape'
    BY DEF IInv, LocksSound, JobShape, Configured
  <1>3. PruneShape'
    BY DEF IInv, PruneShape, Settled, Matches, SomeFailed
  <1> QED
    BY <1>1, <1>2, <1>3
    DEF IInv, ResultShape, SaveShape, SuccessSettles, CheckPassMeansLocked

\* The verdict is true of the files.
LEMMA PrunedIInv ==
  ASSUME IInv, Pruned
  PROVE  IInv'
  <1> USE DEF Pruned, files
  <1>1. TypeOK'
    BY DEF IInv, TypeOK, Phases, CheckVerdict
  <1>2. LocksSound' /\ JobShape'
    BY DEF IInv, LocksSound, JobShape, Configured
  <1>3. SuccessSettles'
    BY DEF IInv, PruneShape, SuccessSettles, Settled, NoOrphans
  <1>4. CheckPassMeansLocked'
    <2> SUFFICES ASSUME exit' = "ok", job.mode = "check"
                 PROVE  /\ \A c \in job.sel :
                             /\ Readable(lock[c])
                             /\ lock[c].fp =
                                  Identity(config[c], lock[c].bump, res[c].commit)
                        /\ job.all => NoOrphans
      BY DEF CheckPassMeansLocked, NoOrphans
    <2>1. ~SomeChanged /\ ~(job.all /\ Orphans # {})
      BY DEF CheckVerdict
    <2>2. \A c \in job.sel : c \in Comps
      BY SelectedConfig DEF IInv
    <2>3. \A c \in job.sel : Matches(c)
      BY <2>1, <2>2 DEF IInv, PruneShape, SomeChanged
    <2>4. job.all => NoOrphans
      BY <2>1 DEF IInv, JobShape, Orphans, Configured, NoOrphans
    <2> QED
      BY <2>3, <2>4 DEF Matches
  <1> QED
    BY <1>1, <1>2, <1>3, <1>4 DEF IInv, ResultShape, SaveShape, PruneShape

-----------------------------------------------------------------------------
(* Bumps, the end of a run, and kills.                                     *)

\* The locks CanBump accepts are locks, and stay sound.
LEMMA BumpsAreSound ==
  ASSUME IInv, NEW c \in left, c \in Comps, pc = "bump", CanBump(lock[c], config[c]),
         lock' = [lock EXCEPT ![c] = Bumped(lock[c], config[c])], UNCHANGED at
  PROVE  lock' \in [Comps -> Lock \cup {Absent, Corrupt}] /\ LocksSound'
  <1>1. config[c] \in Config
    BY SelectedConfig DEF IInv, JobShape
  <1>2. lock[c] \in Lock
    BY ReadableIsLock DEF IInv, TypeOK, CanBump
  <1>3. Sound(at, lock[c])
    BY DEF IInv, LocksSound, CanBump
  <1> DEFINE b == Bumped(lock[c], config[c])
  <1>4. /\ b \in Lock /\ b.commit = lock[c].commit
        /\ b.import = lock[c].import /\ b.rh = lock[c].rh
    BY <1>1, <1>2, BumpedFields
  <1> HIDE DEF b
  <1>5. Sound(at, b)
    BY <1>3, <1>4 DEF Sound
  <1>6. lock'[c] = b /\ \A d \in Comps \ {c} : lock'[d] = lock[d]
    BY DEF IInv, TypeOK, b
  <1>7. lock' \in [Comps -> Lock \cup {Absent, Corrupt}]
    BY <1>4 DEF IInv, TypeOK, b
  <1>8. LocksSound'
    BY <1>5, <1>6 DEF IInv, LocksSound
  <1> QED
    BY <1>7, <1>8

\* A bump keeps the commit and what it answers.
LEMMA BumpOneIInv ==
  ASSUME IInv, NEW c \in Comps, BumpOne(c)
  PROVE  IInv'
  <1> USE DEF BumpOne, IsNext
  <1>1. lock' \in [Comps -> Lock \cup {Absent, Corrupt}] /\ LocksSound'
    BY BumpsAreSound
  <1>2. TypeOK'
    BY <1>1 DEF IInv, TypeOK
  <1>3. JobShape'
    BY DEF IInv, JobShape, Configured
  <1> QED
    BY <1>1, <1>2, <1>3
    DEF IInv, ResultShape, SaveShape, PruneShape, SuccessSettles, CheckPassMeansLocked

\* A component that cannot be bumped keeps its lock.
LEMMA BumpRefusedIInv ==
  ASSUME IInv, NEW c \in Comps, BumpRefused(c)
  PROVE  IInv'
  <1> USE DEF BumpRefused, files
  <1>1. TypeOK'
    BY DEF IInv, TypeOK, Phases
  <1>2. LocksSound'
    BY DEF IInv, LocksSound
  <1> QED
    BY <1>1, <1>2, FailedIInv

\* A bump whose write fails leaves the old lock or a torn file.
LEMMA BumpFailsIInv ==
  ASSUME IInv, NEW c \in Comps, BumpFails(c)
  PROVE  IInv'
  <1>1. /\ lock' \in {lock, [lock EXCEPT ![c] = Corrupt]}
        /\ pc = "bump" /\ pc' = "done" /\ exit' = "failed"
        /\ UNCHANGED <<config, at, job, res, left, cancelled, edits>>
    BY DEF BumpFails, UntouchedOrTorn
  <1>2. lock' \in [Comps -> Lock \cup {Absent, Corrupt}] /\ LocksSound'
    BY <1>1, TornLocks DEF IInv
  <1>3. TypeOK'
    BY <1>1, <1>2, FaultCount DEF BumpFails, IInv, TypeOK, Phases
  <1> QED
    BY <1>1, <1>2, <1>3, FailedIInv

\* When all are bumped the run ends.
LEMMA BumpsIInv ==
  ASSUME IInv, Bumps
  PROVE  IInv'
  <1> USE DEF Bumps, files
  <1>1. TypeOK'
    BY DEF IInv, TypeOK, Phases
  <1>2. LocksSound' /\ JobShape'
    BY DEF IInv, LocksSound, JobShape, Configured
  <1>3. job'.mode = "bump"
    BY DEF IInv, JobShape
  <1> QED
    BY <1>1, <1>2, <1>3
    DEF IInv, ResultShape, SaveShape, PruneShape, SuccessSettles, CheckPassMeansLocked

\* A run that is over or killed leaves the values of no run.
LEMMA ResetType ==
  ASSUME Reset
  PROVE  /\ pc' \in Phases /\ job' \in Job /\ res' \in [Comps -> Result]
         /\ left' \subseteq Comps /\ cancelled' \in BOOLEAN
         /\ exit' \in {"none", "ok", "failed", "stale"}
  <1>1. NoJob \in Job /\ NoResult \in Result
    BY DEF Job, NoJob, Result, NoResult, Statuses
  <1> QED
    BY <1>1 DEF Reset, Phases

\* The next run starts afresh.
LEMMA FinishIInv ==
  ASSUME IInv, Finish
  PROVE  IInv'
  <1>1. TypeOK'
    BY ResetType DEF Finish, files, IInv, TypeOK
  <1>2. LocksSound'
    BY DEF Finish, files, IInv, LocksSound
  <1> QED
    BY <1>1, <1>2, IdleIInv DEF Finish, Reset

\* So it does after a kill, with at most one file torn.
LEMMA KilledIInv ==
  ASSUME IInv, Killed
  PROVE  IInv'
  <1>1. PICK c \in Comps : lock' \in {lock, [lock EXCEPT ![c] = Corrupt]}
    <2>1. 1 \in Comps
      BY DEF Comps
    <2> QED
      BY <2>1 DEF Killed
  <1>2. lock' \in [Comps -> Lock \cup {Absent, Corrupt}] /\ LocksSound'
    BY <1>1, TornLocks DEF Killed, IInv
  <1>3. TypeOK'
    BY <1>2, ResetType, FaultCount DEF Killed, IInv, TypeOK
  <1> QED
    BY <1>2, <1>3, IdleIInv DEF Killed, Reset

-----------------------------------------------------------------------------
(* The theorems.                                                           *)

\* Every step of the specification preserves the invariant.
LEMMA NextIInv == IInv /\ [Next]_vars => IInv'
  <1> SUFFICES ASSUME IInv, [Next]_vars PROVE IInv'
    OBVIOUS
  <1>1. CASE UserStep
    BY <1>1, EditIInv, DiscardIInv, StartUpdateIInv, StartBumpIInv DEF UserStep
  <1>2. CASE \E s \in 0 .. NSnap : UpstreamMoves(s)
    BY <1>2, UpstreamIInv
  <1>3. CASE RunStep
    BY <1>3, ResolvedIInv, AllSavedIInv, PrunedIInv, BumpsIInv, FinishIInv,
       ResolveOneIInv, SkipOneIInv, SaveOneIInv, PruneOneIInv, BumpOneIInv,
       BumpRefusedIInv
    DEF RunStep
  <1>4. CASE FaultStep
    BY <1>4, InterruptIInv, KilledIInv, ListingFailsIInv, ResolveFailsIInv,
       SaveFailsIInv, PruneFailsIInv, BumpFailsIInv
    DEF FaultStep
  <1>5. CASE UNCHANGED vars
    BY <1>5
    DEF vars, IInv, TypeOK, LocksSound, JobShape, ResultShape, SaveShape, PruneShape,
        SuccessSettles, CheckPassMeansLocked, Configured, Answers, Matches, Settled,
        SomeFailed, NoOrphans
  <1> QED
    BY <1>1, <1>2, <1>3, <1>4, <1>5 DEF Next

\* IInv holds in every reachable state.
THEOREM Invariance == Spec => []IInv
  <1>1. Init => IInv
    BY InitIInv
  <1>2. IInv /\ [Next]_vars => IInv'
    BY NextIInv
  <1> QED
    BY <1>1, <1>2, PTL DEF Spec

\* Every variable keeps its type, with any number of components and commits.
THEOREM TypeCorrect == Spec => []TypeOK
  <1>1. IInv => TypeOK
    BY DEF IInv
  <1> QED
    BY <1>1, Invariance, PTL

\* The commit of a lock is an answer upstream gave to the inputs whose hash
\* the lock carries, so that a commit reused unseen is the right one.
THEOREM LockedCommitAnswersHash == Spec => []CommitAnswersHash
  <1>1. IInv => CommitAnswersHash
    BY DEF IInv, LocksSound, Sound, CommitAnswersHash
  <1> QED
    BY <1>1, Invariance, PTL

\* What update skips as up to date, render and build accept.
THEOREM SkippedMeansAccepted == Spec => []CurrentLocksValidate
  <1>1. ASSUME IInv, NEW c \in Configured, Current(config[c], lock[c])
        PROVE  Validates(config[c], lock[c])
    <2>1. /\ config[c] \in Config /\ lock[c] \in Lock \cup {Absent, Corrupt}
          /\ at \in [0 .. NSnap -> Commits]
          /\ Readable(lock[c]) => Sound(at, lock[c])
      BY <1>1 DEF IInv, TypeOK, LocksSound, Configured
    <2>2. IsSettled(config[c], lock[c])
      BY <1>1, <2>1, CurrentIsSettled
    <2> QED
      BY <2>2 DEF IsSettled
  <1>2. IInv => CurrentLocksValidate
    BY <1>1 DEF CurrentLocksValidate
  <1> QED
    BY <1>2, Invariance, PTL

\* A successful update leaves what it selected settled, and -a no orphan.
THEOREM UpdateSettles == Spec => []SuccessSettles
  <1>1. IInv => SuccessSettles
    BY DEF IInv
  <1> QED
    BY <1>1, Invariance, PTL

\* A successful check-only run has seen the locks the configuration needs.
THEOREM CheckIsSafe == Spec => []CheckPassMeansLocked
  <1>1. IInv => CheckPassMeansLocked
    BY DEF IInv
  <1> QED
    BY <1>1, Invariance, PTL

-----------------------------------------------------------------------------
(* What a run does to the lock files.                                      *)

\* Every change of a lock file is by a user, or justified.
LEMMA StepWritesAreJustified ==
  ASSUME IInv, Next, NEW c \in Comps, pc # "idle", lock'[c] # lock[c]
  PROVE  JustifiedWrite(c)
  <1>1. ASSUME NEW d \in Comps, d # c
        PROVE  /\ \A x : lock' # [lock EXCEPT ![d] = x]
    BY <1>1 DEF IInv, TypeOK
  <1>2. CASE UserStep
    BY <1>2 DEF UserStep, Edit, Discard, StartUpdate, StartBump, files
  <1>3. CASE \E s \in 0 .. NSnap : UpstreamMoves(s)
    BY <1>3 DEF UpstreamMoves
  <1>4. CASE RunStep
    <2>1. CASE SaveOne(c)
      BY <2>1, ToSave DEF SaveOne, IsNext, JustifiedWrite, IInv, SaveShape
    <2>2. CASE PruneOne(c)
      BY <2>2 DEF PruneOne, IsNext, JustifiedWrite, IInv, PruneShape
    <2>3. CASE BumpOne(c)
      BY <2>3 DEF BumpOne, IsNext, JustifiedWrite, IInv, JobShape
    <2> QED
      BY <1>1, <1>4, <2>1, <2>2, <2>3
      DEF RunStep, Resolved, AllSaved, Pruned, Bumps, Finish, ResolveOne, SkipOne,
          SaveOne, PruneOne, BumpOne, BumpRefused, files
  <1>5. CASE FaultStep
    <2>1. CASE SaveFails(c)
      BY <2>1, ToSave
      DEF SaveFails, UntouchedOrTorn, IsNext, JustifiedWrite, IInv, SaveShape
    <2>2. CASE BumpFails(c)
      BY <2>2 DEF BumpFails, IsNext, JustifiedWrite, IInv, JobShape
    <2>3. CASE Killed
      <3>1. Writing(c)
        BY <1>1, <2>3 DEF Killed
      <3>2. CASE pc = "save"
        BY <3>1, <3>2, ToSave DEF Writing, IsNext, JustifiedWrite, IInv, SaveShape
      <3>3. CASE pc = "bump"
        BY <3>1, <3>3 DEF Writing, JustifiedWrite, IInv, JobShape
      <3> QED
        BY <3>1, <3>2, <3>3 DEF Writing
    <2> QED
      BY <1>1, <1>5, <2>1, <2>2, <2>3
      DEF FaultStep, Interrupt, ListingFails, ResolveFails, SaveFails, PruneFails,
          BumpFails, UntouchedOrTorn, files
  <1> QED
    BY <1>2, <1>3, <1>4, <1>5 DEF Next

\* A check never writes; an update interrupted while it resolved neither
\* writes nor prunes, and a bump stops at an interrupt; only what was resolved
\* is written and only what is an orphan is pruned.
THEOREM WritesJustified == Spec => WritesAreJustified
  <1>1. IInv /\ [Next]_vars =>
          [\A c \in Comps : pc # "idle" /\ lock'[c] # lock[c] => JustifiedWrite(c)]_vars
    BY StepWritesAreJustified
  <1> QED
    BY <1>1, Invariance, PTL DEF Spec, WritesAreJustified

\* LockFiles speaks of the same data.
LEMMA SameData ==
  /\ Files!Comps = Comps /\ Files!Config = Config
  /\ Files!FirstCommits = FirstCommits
  /\ \A a, cfg : Files!InitialLocks(a, cfg) = InitialLocks(a, cfg)
  /\ \A a, cfg, commit : Files!Answer(a, cfg, commit) <=> Answer(a, cfg, commit)
  /\ \A l, cfg, commit : Files!Refreshed(l, cfg, commit) = Refreshed(l, cfg, commit)
  /\ \A l, cfg : Files!Bumped(l, cfg) = Bumped(l, cfg)
  /\ \A l, cfg : Files!CanBump(l, cfg) <=> CanBump(l, cfg)
  <1>1. Files!Comps = Comps /\ Files!Config = Config /\ Files!FirstCommits = FirstCommits
    BY DEF Files!Comps, Comps, Files!Config, Config, Files!Sources, Sources,
           Files!FirstCommits, FirstCommits
  <1>2. \A cfg, bump, commit : Files!Identity(cfg, bump, commit) = Identity(cfg, bump, commit)
    BY DEF Files!Identity, Identity
  <1>3. \A cfg : Files!ResolutionHash(cfg) = ResolutionHash(cfg)
    BY DEF Files!ResolutionHash, ResolutionHash
  <1>4. \A a, cfg : Files!Resolve(a, cfg) = Resolve(a, cfg)
    BY DEF Files!Resolve, Resolve
  <1>5. \A l : /\ Files!Readable(l) <=> Readable(l)
               /\ Files!GetOrNew(l) = GetOrNew(l)
    BY DEF Files!Readable, Readable, Files!GetOrNew, GetOrNew, Files!NewLock, NewLock
  <1>6. \A l, cfg, commit : Files!ImportOf(l, cfg, commit) = ImportOf(l, cfg, commit)
    BY DEF Files!ImportOf, ImportOf
  <1>7. \A a, rh, commit : Files!ResolvedOnce(a, rh, commit) <=> ResolvedOnce(a, rh, commit)
    BY DEF Files!ResolvedOnce, ResolvedOnce
  <1>8. \A a, cfg : Files!InitialLocks(a, cfg) = InitialLocks(a, cfg)
    BY <1>2, <1>4, Zenon DEF Files!InitialLocks, InitialLocks
  <1>9. \A a, cfg, commit : Files!Answer(a, cfg, commit) <=> Answer(a, cfg, commit)
    BY <1>3, <1>7 DEF Files!Answer, Answer
  <1>10. \A l, cfg, commit : Files!Refreshed(l, cfg, commit) = Refreshed(l, cfg, commit)
    BY <1>2, <1>3, <1>5, <1>6, Zenon DEF Files!Refreshed, Refreshed
  <1>11. \A l, cfg : Files!Bumped(l, cfg) = Bumped(l, cfg)
    BY <1>2, Zenon DEF Files!Bumped, Bumped
  <1>12. \A l, cfg : Files!CanBump(l, cfg) <=> CanBump(l, cfg)
    BY <1>5 DEF Files!CanBump, CanBump
  <1> QED
    BY <1>1, <1>8, <1>9, <1>10, <1>11, <1>12

\* A step that leaves the files alone is a stutter of LockFiles.
LEMMA FilesStutter ==
  ASSUME UNCHANGED files
  PROVE  [Files!FilesNext]_(Files!fileVars)
  BY DEF files, Files!fileVars

\* A torn write of a file that was not torn before is a step of LockFiles.
LEMMA TornStep ==
  ASSUME NEW c \in Comps, config[c] # Absent, lock[c] # Corrupt,
         lock' \in {lock, [lock EXCEPT ![c] = Corrupt]}, UNCHANGED <<config, at>>
  PROVE  [Files!FilesNext]_(Files!fileVars)
  <1>1. CASE lock' = lock
    BY <1>1 DEF Files!fileVars
  <1>2. CASE lock' = [lock EXCEPT ![c] = Corrupt]
    BY <1>2, SameData DEF Files!FilesNext, Files!Tear
  <1> QED
    BY <1>1, <1>2

\* What may be bumped is configured and not torn.
LEMMA ToBump ==
  ASSUME IInv, pc = "bump", NEW c \in left
  PROVE  c \in Comps /\ config[c] \in Config /\ config[c] # Absent
  BY SelectedConfig DEF IInv, JobShape

\* Every step of every run is a step in the life of a lock file.
LEMMA StepImplementsLockFiles ==
  ASSUME IInv, [Next]_vars
  PROVE  [Files!FilesNext]_(Files!fileVars)
  <1>1. CASE UserStep
    <2>1. ASSUME NEW c \in Comps, Edit(c) PROVE Files!Edit(c)
      <3>1. TypeOK'
        BY <2>1, EditIInv DEF IInv
      <3>2. \A d \in Comps \ {c} : config'[d] = config[d]
        BY <2>1 DEF Edit, IInv, TypeOK
      <3> QED
        BY <2>1, <3>1, <3>2, SameData DEF Edit, Files!Edit, TypeOK
    <2>2. ASSUME NEW c \in Comps, Discard(c) PROVE Files!Discard(c)
      BY <2>2 DEF Discard, Files!Discard
    <2>3. ASSUME NEW c \in Comps, Edit(c) \/ Discard(c) PROVE Files!FilesNext
      BY <2>1, <2>2, <2>3, SameData DEF Files!FilesNext
    <2>4. CASE UNCHANGED files
      BY <2>4, FilesStutter
    <2> QED
      BY <1>1, <2>3, <2>4 DEF UserStep, StartUpdate, StartBump
  <1>2. ASSUME NEW s \in 0 .. NSnap, UpstreamMoves(s) PROVE Files!FilesNext
    BY <1>2 DEF UpstreamMoves, Files!FilesNext, Files!UpstreamMoves
  <1>3. ASSUME NEW c \in Comps, SaveOne(c) PROVE [Files!FilesNext]_(Files!fileVars)
    <2>1. /\ pc = "save" /\ c \in left /\ UNCHANGED <<config, at>>
          /\ \/ lock' = lock
             \/ lock' = [lock EXCEPT ![c] = Updated(c)]
      BY <1>3 DEF SaveOne, IsNext
    <2>2. /\ config[c] # Absent /\ lock[c] # Corrupt
          /\ res[c].commit \in 0 .. MaxCommit
          /\ Answer(at, config[c], res[c].commit)
      BY <2>1, ToSave
    <2>3. CASE lock' = lock
      BY <2>1, <2>3 DEF Files!fileVars
    <2>4. CASE lock' = [lock EXCEPT ![c] = Updated(c)]
      <3>1. Files!Refresh(c)
        BY <2>1, <2>2, <2>4, SameData DEF Files!Refresh, Updated
      <3> QED
        BY <3>1, SameData DEF Files!FilesNext
    <2> QED
      BY <2>1, <2>3, <2>4
  <1>4. ASSUME NEW c \in Comps, PruneOne(c) PROVE Files!FilesNext
    <2>1. config[c] = Absent /\ lock[c] # Absent
      BY <1>4 DEF PruneOne, IsNext, IInv, PruneShape
    <2>2. Files!Prune(c)
      BY <1>4, <2>1 DEF PruneOne, Files!Prune
    <2> QED
      BY <2>2, SameData DEF Files!FilesNext
  <1>5. ASSUME NEW c \in Comps, BumpOne(c) PROVE Files!FilesNext
    <2>1. config[c] # Absent
      BY <1>5, ToBump DEF BumpOne, IsNext
    <2>2. Files!Bump(c)
      BY <1>5, <2>1, SameData DEF BumpOne, Files!Bump
    <2> QED
      BY <2>2, SameData DEF Files!FilesNext
  <1>6. CASE RunStep
    BY <1>3, <1>4, <1>5, <1>6, FilesStutter
    DEF RunStep, Resolved, AllSaved, Pruned, Bumps, Finish, ResolveOne, SkipOne,
        BumpRefused
  <1>7. ASSUME NEW c \in Comps, SaveFails(c) PROVE [Files!FilesNext]_(Files!fileVars)
    <2>1. config[c] # Absent /\ lock[c] # Corrupt
      BY <1>7, ToSave DEF SaveFails, IsNext
    <2> QED
      BY <1>7, <2>1, TornStep DEF SaveFails, UntouchedOrTorn
  <1>8. ASSUME NEW c \in Comps, BumpFails(c) PROVE [Files!FilesNext]_(Files!fileVars)
    <2>1. config[c] # Absent /\ lock[c] # Corrupt
      BY <1>8, ToBump DEF BumpFails, IsNext, CanBump, Readable
    <2> QED
      BY <1>8, <2>1, TornStep DEF BumpFails, UntouchedOrTorn
  <1>9. CASE Killed
    <2>1. CASE UNCHANGED lock
      BY <1>9, <2>1, FilesStutter DEF Killed, files
    <2>2. ASSUME NEW c \in Comps, Writing(c), lock' = [lock EXCEPT ![c] = Corrupt]
          PROVE  [Files!FilesNext]_(Files!fileVars)
      <3>1. config[c] # Absent /\ lock[c] # Corrupt
        BY <2>2, ToSave, ToBump DEF Writing, IsNext, CanBump, Readable
      <3> QED
        BY <1>9, <2>2, <3>1, TornStep DEF Killed
    <2> QED
      BY <1>9, <2>1, <2>2 DEF Killed
  <1>10. CASE FaultStep
    BY <1>7, <1>8, <1>9, <1>10, FilesStutter
    DEF FaultStep, Interrupt, ListingFails, ResolveFails, PruneFails
  <1>11. CASE UNCHANGED vars
    BY <1>11, FilesStutter DEF vars, files
  <1> QED
    BY <1>1, <1>2, <1>6, <1>10, <1>11 DEF Next

\* Whatever runs do, in whatever order, however they end: to the lock files
\* it is refreshes, bumps, prunes of orphans and torn writes.
THEOREM UpdateImplementsLockFiles == Spec => ImplementsLockFiles
  <1>1. Init => Files!FilesInit
    <2> SUFFICES ASSUME Init PROVE Files!FilesInit
      OBVIOUS
    <2>1. config \in [Comps -> Config \cup {Absent}]
      BY BoundsAssumption DEF Init
    <2> QED
      BY <2>1, SameData DEF Init, Files!FilesInit
  <1>2. IInv /\ [Next]_vars => [Files!FilesNext]_(Files!fileVars)
    BY StepImplementsLockFiles
  <1> QED
    BY <1>1, <1>2, Invariance, PTL DEF Spec, ImplementsLockFiles, Files!FilesSpec
=============================================================================
