-------------------------- MODULE SyntheticHistory --------------------------
(***************************************************************************)
(* The git history azldev prepares for one component                       *)
(* (internal/app/azldev/core/sources: trySyntheticHistory and what it      *)
(* calls, and classifyComponent of cmds/component/changed.go).             *)
(*                                                                         *)
(* Every commit of the project repository that changed the fingerprint in  *)
(* the component's lock file becomes a synthetic commit, placed after the  *)
(* upstream commit the lock named then. In lock-file-free mode the file is *)
(* the generated TOML, which holds just the upstream commit. Before that,  *)
(* a static release is bumped once per change.                             *)
(*                                                                         *)
(* The project's history is linear and its lock files parse. Upstream's    *)
(* first-parent history is a constant; its commits are numbered so that a  *)
(* parent comes first.                                                     *)
(***************************************************************************)
EXTENDS LockData

CONSTANTS
  Mainline,   \* of each commit: itself and its first-parent ancestors
  Authored,   \* of each commit: its author, date, message and packaging tree
  Resolves,   \* of each snapshot: the commits it may resolve to
  SpecRelease, \* of each configuration and upstream commit (0: local sources):
              \* the integer in the Release tag, overlays applied
  Choices,    \* the configurations the user gives the component
  MaxEdits,   \* bound: edits of the configuration
  MaxBump,    \* bound: manual bumps
  MaxLog,     \* bound: project commits that touch the file
  MaxFaults   \* bound: errors in a preparation

ASSUME MainlineAssumption ==
  /\ Mainline \in [Commits -> SUBSET Commits]
  /\ \A c \in Commits : c \in Mainline[c] /\ \A d \in Mainline[c] : d <= c
  /\ \A c \in Commits : \A d \in Mainline[c] : \A e \in Mainline[c] :
       d <= e => d \in Mainline[e]

ASSUME HistoryAssumption ==
  /\ DOMAIN Authored = Commits
  /\ Resolves \in [0 .. NSnap -> SUBSET Commits]
  /\ Choices \subseteq Config
  /\ SpecRelease \in [Choices -> [0 .. MaxCommit -> Nat]]
  /\ MaxEdits \in Nat /\ MaxBump \in Nat /\ MaxLog \in Nat /\ MaxFaults \in Nat

VARIABLES
  lockFree,  \* --without-lockfile: the same for the life of the project
  config,    \* the configuration, or Absent
  lock,      \* the lock file, or TOML, in the working tree
  log,       \* its contents at each project commit that touched it
  size,      \* the number of those commits
  pc,        \* where the preparation is
  kind,      \* what becomes of the Release tag
  head,      \* what HEAD of the sources repository shows
  on,        \* the changes found: the upstream commit of each
  import,    \* the import commit that bounds the walk
  bump,      \* how often the Release tag was bumped
  pos,       \* the last upstream commit that was replayed, or 0
  todo,      \* the changes not replayed yet
  built,     \* the commits replayed so far
  len,       \* their number
  seen,      \* history: the last clean preparation of a static release
  edits,     \* of the configuration, so far
  faults     \* errors in this preparation

project == <<lockFree, config, lock, log, size, edits>>
replay == <<pos, todo, built, len>>
vars == <<lockFree, config, lock, log, size, pc, kind, head, on, import, bump,
          pos, todo, built, len, seen, edits, faults>>

\* The commit of the repository that initSourcesRepo makes.
InitialSources == MaxCommit + 1
Hashes == 1 .. MaxCommit + 1

\* The tree of an upstream commit is its number; Overlays is the prepared
\* sources, overlays and bumped release included. Those are in place when
\* initSourcesRepo commits all there is.
Overlays == 0
SourcesAt(c) == IF c = InitialSources THEN Overlays ELSE c

Dirty == MaxLog + 1
Changes == 1 .. Dirty

Entry == [kind : {"upstream", "synthetic"}, id : Nat, tree : 0 .. MaxCommit]

NoSeen == [lock |-> Absent, base |-> 0, release |-> 0]

\* The commits a configuration may resolve to.
Answers(c) ==
  IF c.src = "local" THEN {0} ELSE IF c.pin # 0 THEN {c.pin} ELSE Resolves[c.snap]

Init ==
  /\ lockFree \in BOOLEAN
  /\ config \in IF lockFree THEN {c \in Choices : c.src = "upstream"} ELSE Choices
  /\ \E commit \in Answers(config) :
       lock \in IF lockFree THEN {Absent} ELSE InitialLocks([s \in 0 .. NSnap |-> commit], config)
  /\ log = [i \in 1 .. MaxLog |-> Absent]
  /\ size = 0
  /\ pc = "idle"
  /\ kind = "none"
  /\ head = "none"
  /\ on = [k \in {} |-> 0]
  /\ import = 0
  /\ bump = 0
  /\ pos = 0
  /\ todo = {}
  /\ built = [i \in {} |-> 0]
  /\ len = 0
  /\ seen = NoSeen
  /\ edits = 0
  /\ faults = 0

-----------------------------------------------------------------------------
(* The project between preparations.                                       *)

prepared == <<pc, kind, head, on, import, bump, replay, seen, faults>>

Edit ==
  /\ pc = "idle"
  /\ edits < MaxEdits
  /\ \E c \in (Choices \cup {Absent}) \ {config} :
       /\ lockFree /\ c # Absent => c.src = "upstream"
       /\ config' = c
  /\ edits' = edits + 1
  /\ UNCHANGED <<lockFree, lock, log, size, prepared>>

\* component update, or refresh-upstream-commit.
Update ==
  /\ pc = "idle"
  /\ config # Absent
  /\ \E commit \in Answers(config) :
       lock' = IF lockFree THEN [NewLock EXCEPT !.commit = commit]
                           ELSE Refreshed(lock, config, commit)
  /\ UNCHANGED <<lockFree, config, log, size, edits, prepared>>

\* update --bump.
Bump ==
  /\ pc = "idle"
  /\ ~lockFree
  /\ config # Absent
  /\ CanBump(lock, config)
  /\ lock.bump < MaxBump
  /\ lock' = Bumped(lock, config)
  /\ UNCHANGED <<lockFree, config, log, size, edits, prepared>>

Prune ==
  /\ pc = "idle"
  /\ config = Absent
  /\ lock # Absent
  /\ lock' = Absent
  /\ UNCHANGED <<lockFree, config, log, size, edits, prepared>>

AtHead == IF size = 0 THEN Absent ELSE log[size]

\* git commit.
Commit ==
  /\ pc = "idle"
  /\ size < MaxLog
  /\ lock # AtHead
  /\ log' = [log EXCEPT ![size + 1] = lock]
  /\ size' = size + 1
  /\ UNCHANGED <<lockFree, config, lock, edits, prepared>>

-----------------------------------------------------------------------------
(* Discovery.                                                              *)

Fault == faults < MaxFaults /\ faults' = faults + 1

\* EffectiveUpstreamCommit: the locked commit, or else the pin.
Effective == IF Readable(lock) /\ lock.commit # 0 THEN lock.commit ELSE config.pin

\* The static Release tag of the spec: as prepared, and as bumped so far.
BaseRelease == SpecRelease[config][IF config.src = "local" THEN 0 ELSE Effective]
Release == BaseRelease + bump

\* tryBumpStaticRelease: what a calculation mode makes of a Release tag.
BumpKind(calculation, tag) ==
  CASE calculation \in {"manual", "autorelease"} -> "none"
    [] calculation = "auto" /\ tag = "autorelease" -> "none"
    [] calculation = "static" /\ tag = "autorelease" -> "refused"
    [] tag = "nonstandard" -> "refused"
    [] OTHER -> "static"

\* The resolver accepted the lock and FetchComponent cloned the commit, or
\* copied the local sources; the overlays are applied.
Prepare(calculation, tag) ==
  /\ pc = "idle"
  /\ config # Absent
  /\ IF lockFree THEN Readable(lock) ELSE Validates(config, lock)
  /\ kind' = BumpKind(calculation, tag)
  /\ head' = IF config.src = "local" THEN "none" ELSE "cloned"
  /\ pc' = "discover"
  /\ UNCHANGED <<project, on, import, bump, replay, seen, faults>>

\* FindFingerprintChanges: the commits whose fingerprint is not that of the
\* commit before. No fingerprint before the first.
Before(i) == IF i = 1 THEN None ELSE log[i - 1].fp
Found == {i \in 1 .. size : log[i].fp # Before(i)}

\* ShowAtCommit fails at a commit that deleted the file.
Deleted == \E i \in 1 .. size : log[i] = Absent

\* computeCurrentFingerprint. A local component has none, unless its lock or
\* its configuration still names a commit: that is then hashed in place of its
\* files, and no lock file holds such a fingerprint.
IdentityHere(bumps) == [Identity(config, bumps, Effective) EXCEPT !.id = Effective]
FingerprintButForBumps == IF Effective = 0 THEN None ELSE IdentityHere(AtHead.bump)
CurrentFingerprint ==
  IF Effective = 0 THEN None ELSE IdentityHere(IF Readable(lock) THEN lock.bump ELSE 0)

\* BuildDirtyChange.
IsDirty == None \notin {CurrentFingerprint, AtHead.fp} /\ CurrentFingerprint # AtHead.fp

FingerprintChangesAtHead ==
  [k \in Found \cup IF IsDirty THEN {Dirty} ELSE {} |->
     IF k = Dirty THEN AtHead.commit ELSE log[k].commit]
FingerprintChanges ==
  [k \in Found \cup IF IsDirty THEN {Dirty} ELSE {} |->
     IF k = Dirty THEN Effective ELSE log[k].commit]

\* FindUpstreamCommitChanges: every commit that touched the file counts; one
\* that deleted it counts with what its parent held.
CommitAt(k) == IF log[k] = Absent THEN log[k - 1].commit ELSE log[k].commit
CommitChanges == [k \in 1 .. size |-> CommitAt(k)]

\* Nothing to represent: HEAD of the project has no lock file, or the file
\* has no history yet.
Skipped == IF lockFree THEN size = 0 ELSE AtHead = Absent

\* The lock at HEAD was written before there were fingerprints.
FoundNothing == ~lockFree /\ ~Deleted /\ DOMAIN FingerprintChanges = {}

DiscoverNothing ==
  /\ pc = "discover"
  /\ IF Skipped THEN TRUE ELSE FoundNothing
  /\ pc' = "done"
  /\ UNCHANGED <<project, kind, head, on, import, bump, replay, seen, faults>>

DiscoverRefused ==
  /\ pc = "discover"
  /\ ~Skipped /\ ~lockFree /\ Deleted
  /\ pc' = "failed"
  /\ UNCHANGED <<project, kind, head, on, import, bump, replay, seen, faults>>

Discover ==
  /\ pc = "discover"
  /\ ~Skipped /\ (lockFree \/ ~Deleted) /\ ~FoundNothing
  /\ on' = IF lockFree THEN CommitChanges ELSE FingerprintChanges
  /\ import' = IF lockFree THEN 0 ELSE AtHead.import
  /\ pc' = "bump"
  /\ UNCHANGED <<project, kind, head, bump, replay, seen, faults>>

\* The last change, and the upstream commit it names.
Last == CHOOSE k \in DOMAIN on : \A j \in DOMAIN on : j <= k
Latest == on[Last]

-----------------------------------------------------------------------------
(* The release, then the walk of the upstream history.                     *)

BumpRefused ==
  /\ pc = "bump"
  /\ kind = "refused"
  /\ pc' = "failed"
  /\ UNCHANGED <<project, kind, head, on, import, bump, replay, seen, faults>>

\* Once per change, from the release the spec came with; rpmdev-bumpspec is
\* run that often, one at a time, and a failure restores the spec.
BumpOnce ==
  /\ pc = "bump"
  /\ kind = "static"
  /\ bump < Cardinality(DOMAIN on)
  /\ bump' = bump + 1
  /\ UNCHANGED <<project, pc, kind, head, on, import, replay, seen, faults>>

BumpFails ==
  /\ pc = "bump"
  /\ kind = "static"
  /\ Fault
  /\ bump' = 0
  /\ pc' = "failed"
  /\ UNCHANGED <<project, kind, head, on, import, replay, seen>>

BumpedEnoughForReplay ==
  kind = "static" => bump = Cardinality({k \in DOMAIN on : on[k] \in {0, Latest}})
BumpedEnough == kind = "static" => bump = Cardinality(DOMAIN on)

\* initSourcesRepo, where there is no clone: its commit holds everything in
\* the directory, which has the overlays and the bump by now.
OpenRepository ==
  /\ pc = "bump"
  /\ BumpedEnough /\ kind # "refused"
  /\ head' = IF head = "none" THEN "initial" ELSE head
  /\ pc' = "collect"
  /\ UNCHANGED <<project, kind, on, import, bump, replay, seen, faults>>

\* HEAD and its first-parent ancestors.
HeadLine == IF config.src = "local" THEN {InitialSources} ELSE Mainline[Effective]

\* collectUpstreamCommits: back from HEAD, from the latest change's commit to
\* the import commit, or to the root.
Reaches ==
  /\ Latest # 0 => Latest \in HeadLine
  /\ import # 0 => import \in HeadLine
  /\ Latest # 0 /\ import # 0 => import <= Latest
Path ==
  {c \in HeadLine : (Latest # 0 => c <= Latest) /\ (import # 0 => c >= import)}

CollectRefused ==
  /\ pc = "collect"
  /\ ~Reaches
  /\ pc' = "failed"
  /\ UNCHANGED <<project, kind, head, on, import, bump, replay, seen, faults>>

\* remapEquivalentUpstreamChanges.
Equivalents(c) == {d \in Path \ {InitialSources} : Authored[d] = Authored[c]}
NotRemapped(c) == c
Remapped(c) ==
  IF c = 0 \/ c \in Path \/ Cardinality(Equivalents(c)) # 1 THEN c
  ELSE CHOOSE d \in Equivalents(c) : TRUE

\* Where a change goes: after an upstream commit on the path, or on top.
\* (Latest is that of the changes once remapped; it is on the path.)
Top == MaxCommit + 2
Place(k) == IF on[k] \in {0, Latest} THEN Top ELSE on[k]
Placed(k) == Place(k) = Top \/ Place(k) \in Path

\* Remapping, then stageAndCaptureOverlayTree, whose commit moves HEAD.
CollectAndStage ==
  /\ pc = "collect"
  /\ Reaches
  /\ on' = [k \in DOMAIN on |-> Remapped(on[k])]
  /\ head' = "staged"
  /\ todo' = DOMAIN on
  /\ pc' = "replay"
  /\ UNCHANGED <<project, kind, import, bump, pos, built, len, seen, faults>>

-----------------------------------------------------------------------------
(* Interleaving and replay. The sequence that buildInterleavedSequence     *)
(* computes is emitted entry by entry.                                     *)

\* The synthetic commits that follow upstream commit pos.
Pending == {k \in todo : Place(k) = pos}
NextUpstream == {c \in Path : c > pos}
OnTop == {k \in todo : Place(k) = Top}
Earliest(S) == CHOOSE k \in S : \A j \in S : k <= j

EmitInPlace(entry) ==
  /\ built' = [i \in 1 .. len + 1 |-> IF i = len + 1 THEN entry ELSE built[i]]
  /\ len' = len
Emit(entry) ==
  /\ built' = [i \in 1 .. len + 1 |-> IF i = len + 1 THEN entry ELSE built[i]]
  /\ len' = len + 1

\* The first upstream commit is kept, the others are recreated.
ReplayUpstream ==
  /\ pc = "replay"
  /\ Pending = {} /\ NextUpstream # {}
  /\ LET c == Earliest(NextUpstream)
     IN /\ Emit([kind |-> "upstream", id |-> c, tree |-> SourcesAt(c)])
        /\ pos' = c
  /\ UNCHANGED <<project, pc, kind, head, on, import, bump, todo, seen, faults>>

\* Empty but for the last one of all, which carries the overlays.
TreeOfLastFound(k) == IF todo = {k} THEN Overlays ELSE built[len].tree
TreeOf(k) == IF {j \in todo : Placed(j)} = {k} THEN Overlays ELSE built[len].tree

ReplayOne(k) ==
  /\ Emit([kind |-> "synthetic", id |-> k, tree |-> TreeOf(k)])
  /\ todo' = todo \ {k}
  /\ UNCHANGED <<project, pc, kind, head, on, import, bump, pos, seen, faults>>

ReplayAfter ==
  /\ pc = "replay"
  /\ Pending # {}
  /\ ReplayOne(Earliest(Pending))

ReplayOnTop ==
  /\ pc = "replay"
  /\ Pending = {} /\ NextUpstream = {} /\ OnTop # {}
  /\ ReplayOne(Earliest(OnTop))

\* updateHead. What is left refers to commits that are not on the path.
UpdateHead ==
  /\ pc = "replay"
  /\ Pending = {} /\ NextUpstream = {} /\ OnTop = {}
  /\ head' = "rebuilt"
  /\ pc' = "done"
  /\ seen' = IF ~lockFree /\ kind = "static" /\ Dirty \notin DOMAIN on
             THEN [lock |-> AtHead, base |-> BaseRelease, release |-> Release] ELSE seen
  /\ UNCHANGED <<project, kind, on, import, bump, replay, faults>>

\* Git, the file system or the context fail.
PreparationFails ==
  /\ pc \in {"discover", "collect", "replay"}
  /\ Fault
  /\ pc' = "failed"
  /\ head' \in IF pc = "collect" THEN {head, "staged"} ELSE {head}
  /\ UNCHANGED <<project, kind, on, import, bump, replay, seen>>

\* The next preparation starts from a clone of its own.
Leave ==
  /\ pc \in {"done", "failed"}
  /\ pc' = "idle"
  /\ kind' = "none"
  /\ head' = "none"
  /\ on' = [k \in {} |-> 0]
  /\ import' = 0
  /\ bump' = 0
  /\ pos' = 0
  /\ todo' = {}
  /\ built' = [i \in {} |-> 0]
  /\ len' = 0
  /\ faults' = 0
  /\ UNCHANGED <<project, seen>>

-----------------------------------------------------------------------------

Calculations == {"auto", "autorelease", "static", "manual"}
Tags == {"integer", "autorelease", "nonstandard"}

ProjectStep == Edit \/ Update \/ Bump \/ Prune \/ Commit
PrepareStep ==
  \/ DiscoverNothing \/ DiscoverRefused \/ Discover
  \/ BumpRefused \/ BumpOnce \/ OpenRepository
  \/ CollectRefused \/ CollectAndStage
  \/ ReplayUpstream \/ ReplayAfter \/ ReplayOnTop \/ UpdateHead \/ Leave
FaultStep == BumpFails \/ PreparationFails

Next ==
  \/ ProjectStep
  \/ \E calculation \in Calculations, tag \in Tags : Prepare(calculation, tag)
  \/ PrepareStep
  \/ FaultStep

Spec == Init /\ [][Next]_vars

-----------------------------------------------------------------------------
(* component changed: classifyComponent.                                   *)

ChangeType(from, to) ==
  CASE from = Absent /\ to = Absent -> "unchanged"
    [] from = Absent -> "added"
    [] to = Absent -> "deleted"
    [] from.fp # to.fp -> "changed"
    [] OTHER -> "unchanged"

-----------------------------------------------------------------------------
(* Properties.                                                             *)

\* The variables stay in the sets of values they stand for; the commits
\* replayed are as many as len says.
TypeOK ==
  /\ lockFree \in BOOLEAN
  /\ config \in Choices \cup {Absent}
  /\ lock \in Lock \cup {Absent}
  /\ log \in [1 .. MaxLog -> Lock \cup {Absent}]
  /\ size \in 0 .. MaxLog
  /\ pc \in {"idle", "discover", "bump", "collect", "replay", "done", "failed"}
  /\ kind \in {"none", "static", "refused"}
  /\ head \in {"none", "cloned", "initial", "staged", "rebuilt"}
  /\ DOMAIN on \subseteq Changes
  /\ \A k \in DOMAIN on : on[k] \in 0 .. MaxCommit
  /\ import \in 0 .. MaxCommit
  /\ bump \in Nat
  /\ pos \in 0 .. MaxCommit + 1
  /\ todo \subseteq DOMAIN on
  /\ len \in Nat
  /\ built \in [1 .. len -> Entry]
  /\ seen \in [lock : Lock \cup {Absent}, base : Nat, release : Nat]
  /\ edits \in 0 .. MaxEdits
  /\ faults \in 0 .. MaxFaults

\* Where a change belongs: on the upstream commit it was made on, or on the
\* only one that was cherry-picked from it; on top if that is the latest or if
\* it was made on none; and nowhere otherwise.
Nowhere == 0
Home(k) ==
  LET c == IF lockFree THEN CommitChanges[k] ELSE FingerprintChanges[k]
      same == IF c \in Path THEN {c} ELSE Equivalents(c)
  IN IF c = 0 \/ same = {Latest} THEN Top
     ELSE IF Cardinality(same) = 1 THEN CHOOSE d \in same : TRUE ELSE Nowhere

\* Upstream commits in their order, each followed by its changes, oldest first.
Key(e) == IF e.kind = "upstream" THEN <<e.id, 0, 0>> ELSE <<Home(e.id), 1, e.id>>
Precedes(a, b) ==
  \/ a[1] < b[1]
  \/ a[1] = b[1] /\ a[2] < b[2]
  \/ a[1] = b[1] /\ a[2] = b[2] /\ a[3] < b[3]
Replayed(what) == {built[i].id : i \in {j \in 1 .. len : built[j].kind = what}}

\* HEAD only ever moves to a whole history: all upstream commits between the
\* import commit and the locked one, every change that belongs somewhere, once,
\* and each where it belongs.
HistoryIsComplete ==
  head = "rebuilt" =>
    /\ Replayed("upstream") = Path
    /\ Replayed("synthetic") = {k \in DOMAIN on : Home(k) # Nowhere}
    /\ \A i, j \in 1 .. len : i < j => Precedes(Key(built[i]), Key(built[j]))

\* HEAD holds the prepared sources, overlays and all. Below it every commit of
\* an upstream component just holds what the last upstream commit up to it
\* holds; a local component has no history without the overlays, since its
\* repository is made of the prepared sources.
OverlaysComeLast ==
  head = "rebuilt" =>
    /\ built[len].tree = Overlays
    /\ config.src = "local" => \A i \in 1 .. len : built[i].tree = Overlays
    /\ config.src = "upstream" =>
         \A i \in 1 .. len - 1 : \E j \in 1 .. i :
           /\ built[j].kind = "upstream" /\ built[j].id = built[i].tree
           /\ \A m \in j + 1 .. i : built[m].kind = "synthetic"

SwitchedByBump(l) == l.fp # None /\ l.fp.src = "local" /\ l.commit # 0

\* The upstream commit the file named when it was last committed.
LastNamed ==
  log[CHOOSE i \in 1 .. size :
        log[i] # Absent /\ \A j \in i + 1 .. size : log[j] = Absent].commit

\* Without an error a preparation only fails where it must: on a Release tag
\* that cannot be bumped, a history in which the lock was deleted, a switch to
\* local sources that is not committed, was bumped before it was updated or
\* left the pin of the upstream commit in the configuration, or a component set
\* back to a commit that the import commit is no ancestor of. In lock-file-free
\* mode it fails on a generated file that is not committed yet and names a
\* commit that does not descend from the one last committed (a snapshot set
\* back or moved to a branch), and never once that file is committed.
RefusalIsJustified ==
  pc = "failed" /\ faults = 0 =>
    \/ kind = "refused"
    \/ ~lockFree /\ Deleted
    \/ config.src = "local" /\ config.pin # 0
    \/ config.src = "local" /\ (AtHead.commit # 0 \/ (lock # Absent /\ lock.commit # 0))
    \/ config.src = "local" /\ \E i \in 1 .. size : SwitchedByBump(log[i])
    \/ config.src = "upstream" /\ ~lockFree /\ AtHead.import \notin {0} \cup Mainline[Effective]
    \/ lockFree /\ lock # AtHead /\ LastNamed \notin Mainline[Effective]

\* What a preparation with uncommitted changes represents is what it will
\* represent once the lock, brought up to date, is committed.
DirtyPreviewsCommit ==
  /\ pc = "bump" /\ ~lockFree /\ config.src = "upstream"
  /\ lock.fp = Identity(config, lock.bump, lock.commit)
  => IF lock.fp = AtHead.fp THEN Dirty \notin DOMAIN on
     ELSE Dirty \in DOMAIN on /\ on[Dirty] = lock.commit

\* As the project's history grows a static release does not fall, and rises
\* whenever "component changed" calls the component changed, unless the spec
\* itself came with a lower release: nothing makes up for that (a snapshot set
\* back or moved to a branch, an overlay, a switch of sources).
ReleaseRises ==
  [][seen' # seen /\ seen.lock # Absent /\ seen'.base >= seen.base =>
       /\ seen'.release >= seen.release
       /\ ChangeType(seen.lock, seen'.lock) = "changed" => seen'.release > seen.release]_vars
=============================================================================
