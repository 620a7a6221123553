# azldev in TLA+

Models, model checking and proofs for `azldev`, the Azure Linux developer
tool: a command-line program that keeps a distribution's components (RPM
packages) locked to upstream commits, renders their spec files into a tree
under version control, and builds them. The models are written from the Go
sources under `src/internal`; every definition that stands for code is tied to
its lines in `PROJECT.json` ("map").

Contents: [the system](#the-system), [the modules](#the-modules),
[the runs](#the-runs), [the proofs](#the-proofs),
[findings](#findings), [what is not modelled](#what-is-not-modelled),
[the plan](#the-plan).

## The system

azldev is a process per command. State that outlives a command is files: the
configuration (TOML), one lock file per component, one output directory per
component, and git history. Within a command, work on components runs on a
bounded pool of goroutines, and Ctrl-C cancels a context that the commands and
the programs they start watch. What is hard is therefore (a) the goroutines
inside a command, (b) what a command leaves in the files when some of it
fails, is interrupted or is killed, and (c) whether the next command, perhaps
after an edit, judges those files correctly.

| Component | State | Operations | Talks to | Hard behaviour | Correct when |
|---|---|---|---|---|---|
| Bounded parallel map (`utils/parmap`) | launch index, errgroup slots, results, a progress counter under a mutex | `Map` | called by update, render, refresh-upstream-commit | launches race with exits and with cancellation; callbacks race for the mutex | bound kept, one outcome per item, progress in order, returns |
| Component update (`cmds/component/update.go`) | the result of each component | update, `--check-only`, `--force-recalculate`, `-a`, `--bump` | resolver, `Map`, source providers, lock store | partial failure, Ctrl-C between resolving and saving, torn lock files, decisions by stale hashes | success settles what was selected; only justified writes; CI gate sound; repeated runs converge |
| Resolver and freshness (`core/components/resolver.go`) | configuration with lock data filled in | find components, `computeFreshnessStatus` | lock store, fingerprints | reuse of a locked commit without asking upstream | a commit is reused only for the inputs it answers |
| Lock files and store (`internal/lockfile`) | files, an in-memory cache | Get, GetOrNew, Save, Exists, Remove, PruneOrphans, ValidateUpstreamCommit | update, resolver, render, build, changed, history | in-place writes; the cache races with itself | readers see whole locks; the cache never hides a save |
| Fingerprints (`internal/fingerprint`) | none | ComputeIdentity, ComputeResolutionHash | update, resolver, changed, history | which inputs go into which hash | the snapshot is in the resolution hash only, the pin in both |
| Component render (`cmds/component/render.go`) | results, staging trees, output directories | render with `--force`, `--clean-stale`, `--check-only`, `--fail-on-error`, `--output-dir` | source preparation, mock processor, `Map` | two parallel phases around one shared batch; remove-and-copy in place; Ctrl-C; kills | reports are true, the gates are sound, nothing is deleted without licence, repeated runs converge |
| Mock processor (`core/sources/mockprocessor.go`) | a chroot, initialised lazily | BatchProcess, release queries, Destroy | render, source preparation | a failed first initialisation sticks | every component gets a result or an error |
| refresh-upstream-commit, `upstreamcommit` store | one TOML file per component | resolve, save, remove, prune | `Map`, source providers | partial saves, removals that are pending | like update, without freshness |
| Source preparation, synthetic history (`core/sources`) | a git clone being rewritten | fetch, overlay, interleave, replay, bump the release | source providers, lock history in git | ordering of two histories, orphaned changes, uncommitted locks, a replay that fails half way | each change appears once, in order; HEAD shows a whole history at the end; a change raises the release |
| Source download (`providers/sourceproviders`, `utils/downloader`, `utils/retry`) | files being fetched | FetchFiles, FetchComponent, retry | network, mock, overlays | retries, fallbacks, wrong hashes, leftovers of earlier runs | success means the expected files and digests; no unverified file stays |
| External commands (`utils/externalcmd`) | process, listeners | Start, Wait, Run | everything that runs a tool | wait order, cancellation, full pipes, descendants that keep pipes open | no output lost, listeners end, Run returns |
| Build (`cmds/component/build.go`, `core/componentbuilder`) | results, a local repository | build, resolve and place RPMs, publish | source preparation, mock | `--continue-on-error`, moves one by one | only complete results are published |
| changed (`cmds/component/changed.go`) | none | classify between two revisions | git, lock files | missing or old files | added, deleted and changed are exact |
| Project configuration (`internal/projectconfig`) | the merged configuration | load, include, merge, inherit | every command | order of includes and of defaults | the result does not depend on the order where it must not |
| Application, environment | flags, the cancellable context | run a command | every command | signals | see the models of the commands |
| Images, MCP server, spec editing, package lists and repository comparison, generated docs, build system | little or none | text, queries, sequences of tools | – | – | – |

`PROJECT.json` lists the components with their sources and status, and the
hazards: the places in this code where something can go wrong that a test would
hardly reach, each at its line, with the properties that would notice.

## The modules

```
 TaskBatch  <---implemented by---  ParMap  <- ParMapProofs
     ^ (instance, for both phases)
  Render  <- MCRender, RenderProofs

 LockData  <-  LockFiles  <---implemented by---  LockUpdate  <- MCLockUpdate
   ^ ^-------------------------------------------'   ^- LockUpdateProofs
   SyntheticHistory  <- MCSyntheticHistory, SyntheticHistoryProofs

 PrepareSources  <- MCPrepareSources, PrepareSourcesProofs

 ExternalCmd  <- ExternalCmdProofs
```

`TaskBatch` – what `parmap.Map` promises: each item ends with one outcome,
at most `Limit` run at once, items are given up only after the context is done,
and Map returns when every outcome is there.

`ParMap` – `Map` itself, one action per step between which another goroutine
can move. The launch loop's check of the context (`LoopCheck`) and the blocking
`group.Go` (`Launch`) are separate, as in the code, so that a launch may be late;
`Enter` is the goroutine's second look at the context; taking `progressMu`
(`Lock`) and calling back under it are separate. Slots are held from `Launch`
until after the callback.

`LockData` – the contents of a lock file, the configuration as far as
locking depends on it, the two hashes, upstream, the freshness check, and what
update and bump write. A hash is the record of the values it hashes, which is
what makes it clear that the fingerprint leaves the snapshot out. Upstream is
`at[s]`, the commit that snapshot `s` (or the head, 0) resolves to at present; it
may grow because commits can be back-dated.

`LockFiles` – the abstract life of lock files: refresh for the present
configuration with some commit its inputs resolved to, bump, tear, prune,
discard. It fixes what never happens: a file that does not parse is never replaced, and, as long as the file exists, its import commit does not
change while the component stays upstream and its bump count does not go back;
nothing that is configured is pruned.

`LockUpdate` – the command as a state machine over `pc`: `resolve`
(parallel, any order), `save` (sequential in the resolver's order), `prune`,
`bump`. `StartUpdate` includes the resolver's freshness check and
`classifyForResolution`; `SaveOne` is the whole of `updateComponentLock` with its
comparison, its write and its changed flag; `AllSaved` is `checkUpdateErrors` with
the start of `handleOrphanLocks`; `Pruned` gives the verdict. `UntouchedOrTorn`
is the in-place `WriteFile`. Between runs `Edit`, and at any time
`UpstreamMoves`.

`Render` – the command over `pc`: `prepare`, `mock`, `prune`, `finish`,
`mark`. Both parallel phases use the actions of `TaskBatch` as their pool, so
the theorem that `Map` implements `TaskBatch` carries over. A directory is the
set of its files, `Absent`, or includes the `RENDER_FAILED` marker;
`Overwrite`, `Copy`, `CopyDone` are the removal and the file-by-file copy of
`copyRenderedOutput`, so every intermediate directory is a state that a kill can
leave. `mock` is the chroot: cold, ready, or broken for good. `MarkOne` is
`writeFailureMarkers` with its comparison in a check. `Valid` stands for the
validation of the options, which decides when deletion is allowed.

`SyntheticHistory` – the git history that preparing a component writes. It
extends `LockData`, so the locks whose history is walked are the ones that update
and bump write. Between preparations the project moves: `Edit`, `Update`, `Bump`,
`Prune`, `Commit` (one project commit that touches the lock). A preparation goes
over `pc`: `Prepare` has the sources in place, overlays applied, with the release that
`SpecRelease` says the spec then has; `discover` reads the changes of the fingerprint out of the log, and
the uncommitted one (`IsDirty`), or in lock-file-free mode every commit that
touched the generated file (`IdentityHere` is the fingerprint the uncommitted
change is found by, which takes the effective commit for the identity of the
sources, local ones too); `bump` raises a static release once per change;
`collect` walks upstream's first-parent history from the latest change to the import
commit, moves changes made on a cherry-picked commit to its equivalent
(`Remapped`) and stages the overlays, for which HEAD moves to a commit of them alone; `replay` emits the interleaved sequence entry
by entry, and `UpdateHead` is last. `head` is what a reader of the clone sees. A local
component has no clone; `OpenRepository` makes a repository of the prepared sources,
so that its first commit has the overlays and the bumped release already
(`SourcesAt`).
`ChangeType` is the classification of `component changed`.

`PrepareSources` – how files get into a source directory and its `sources` file.
A command is a configuration with its options; commands follow one another into
the same output directory. `pc` is the phase (`fetch`, `extract`, `copy`, `files`,
`overlay`, `loose`, `record`), `next` the file, entry or overlay, and `stage`
where a `source-files` entry is looked for: lookaside cache, provider, origin.
`Download` and `Validate` are one attempt of the two retry loops;
`arrived` is the time between them, when an unverified file is on disk. `Repack`
is one archive; `ApplyLoose` one overlay on loose files; `UpdateSourcesFile` the
rehashing and merging of the digests with its one write. A content is a number; its
digest is the content itself.

`ExternalCmd` – one `Run` of an external command: the caller over `pc`, a reader
goroutine per stream with a listener, a follower goroutine per log, the wait
groups, the pipes with their capacity and their ends (`parent`, `closed`), the
command itself, descendants that hold its streams (`held`), and the context. A
reader leaves its wait group before it closes its end of the pipe, as the deferred
calls do. Every line goes through the pipe; `delivered` counts what
the listener has dealt with.

The three modules meet in a build or a render: a preparation of
`PrepareSources` ends where one of `SyntheticHistory` begins (`trySyntheticHistory`
is its last call), and git, mock and the scripts that both run are
`ExternalCmd`s. What crosses these borders is small (files in a directory; success or
an error), and each module lets the other side do all that its code can do, so
they are checked separately.

`MCLockUpdate`, `MCRender`, `MCSyntheticHistory`, `MCPrepareSources` – the
configurations the runs explore.

`ParMapProofs`, `LockUpdateProofs`, `RenderProofs`, `SyntheticHistoryProofs`,
`PrepareSourcesProofs`, `ExternalCmdProofs` – theorems and proofs.

Definitions that nothing uses (`SlotFreeOffByOne`, `MustWriteOnDiffer`, ...)
are variants of the definition that follows them, each with the kind of slip a
change to the code could introduce. `PROJECT.json` ("mutants") pairs every
property of a passing run with one that breaks it.

## The runs

Run any of them with `tlc -config <cfg> <module>`.

| Run | Module, cfg | Shows |
|---|---|---|
| `par_map` | `ParMap`, `ParMap.cfg` | every interleaving of launches, workers, callbacks and cancellation keeps the bound (`BoundedGoroutines`), launches at most one item late (`AtMostOneLateLaunch`), reports each item once (`ReturnedMeansReported`) and in order (`ProgressInOrder`), returns (`Terminates`) and implements `TaskBatch` (`ImplementsBatch`) |
| `lock_update` | `MCLockUpdate`, `LockUpdate.cfg` | a locked commit answers the inputs whose hash the lock carries (`CommitAnswersHash`), what is skipped as current is accepted by render and build (`CurrentLocksValidate`), success settles (`SuccessSettles`), a passing check has seen the right locks (`CheckPassMeansLocked`), a run writes only what it resolved, prunes only after full success, and does neither when interrupted before it began to save (`WritesAreJustified`), and every run implements `LockFiles` |
| `lock_update_live` | `MCLockUpdate`, `LockUpdateLive.cfg` | repeated `update -a` converges after whatever came before (`Converges`) |
| `check_gate` | `MCLockUpdate`, `LockUpdateCheckGate.cfg` | violated as expected, see [findings](#findings) |
| `render` | `MCRender`, `Render.cfg` | a reported render is on disk and a cancelled component untouched (`ReportIsTrue`), a check that passes means what it says (`CheckPassMeansRendered`), so does success with `--fail-on-error` (`SuccessMeansRendered`), and no directory is written or lost without licence (`WritesAreJustified`) |
| `render_live` | `MCRender`, `RenderLive.cfg` | repeated `render -a --clean-stale` reaches exactly the configured output, stale files, torn directories and orphans gone (`RendersEventually`) |
| `render_ctrlc` | `MCRender`, `RenderCtrlC.cfg` | violated as expected |
| `render_dryrun` | `MCRender`, `RenderDryRun.cfg` | violated as expected |
| `synthetic_history` | `MCSyntheticHistory`, `SyntheticHistory.cfg` | HEAD only moves to a whole history in the right order (`HistoryIsComplete`), the overlays come last (`OverlaysComeLast`), a preparation fails only where it must (`RefusalIsJustified`), an uncommitted lock previews the committed one (`DirtyPreviewsCommit`), a static release rises with every change that `component changed` reports, and falls only with the release in the spec (`ReleaseRises`) |
| `prepare_sources` | `MCPrepareSources`, `PrepareSources.cfg` | a successful preparation leaves exactly the files its configuration determines and their digests, whatever earlier ones left (`PreparedMeansExpected`); no file survives a retry loop with a wrong hash (`NothingUnverified`); Ctrl-C ends every wait but that for a script (`InterruptEnds`) |
| `prepare_digest` | `MCPrepareSources`, `PrepareSourcesDigest.cfg` | violated as expected |
| `external_cmd` | `ExternalCmd`, `ExternalCmd.cfg` | when Run returns, the listeners have seen all the output (`OutputDelivered`) and none runs any more (`QuietAfterReturn`); a command that is cancelled or has ended returns unless a descendant holds its output (`RunReturns`); a command is never left hanging on a full pipe (`ChildNeverStuck`) |

The first passing run of each module checks the type invariant, and those of
`ParMap`, `LockUpdate` and `Render` the inductive invariant of the proofs (`IInv`)
as well: a cross-check of what is proved. The inductive invariants of the
other three were found in the same way, by checking them as invariants on the
constants of those modules' runs before proving them.

Some properties have exceptions, and these are named: what the code leaves open
shows up as a definition rather than as a weaker sentence. `PreparedMeansExpected`
allows for digests that nobody compares with a file (`NeverVerified`: a tracked
file hides the `sources` entry of its name; a local component of a distro without a
lookaside cache), for the finding `DigestOverwritten`, and for overlays on loose
files that remove or edit a listed archive (`LooselyChanged`: their entries stay).
`QuietAfterReturn` allows for the reader of stdout when the pipe of stderr cannot be
opened (`ReaderAbandoned`): Start then returns without cleaning up, and the reader
waits on a pipe whose other end the process itself holds.
`RefusalIsJustified` lists the histories that cannot be represented, among them that
of a local component whose configuration still names an `upstream-commit`: no lock
file holds the fingerprint that is computed with it, so the component counts as
changed on an upstream commit that local sources do not have. In lock-file-free mode
it allows for a generated file that is not committed and names a commit that does not
descend from the one committed last; once the file is committed nothing is refused.
`ReleaseRises` compares preparations between which the release in the spec itself did
not fall: bumps are counted from it, and a snapshot set back or moved to another
branch, an overlay or a switch of sources may lower it by more than they add.
`InterruptEnds` does not speak of a script that has been started.
`WritesAreJustified` of `LockUpdate` is about an interrupt while components are resolved
or bumped: saving and pruning do not consult the context any more.

### Bounds and why they are enough

* `ParMap.cfg`: `N = 4`, `RawLimit = 2`. Two workers are needed for a race for
  the mutex, a third item to be blocked on a slot when the context ends, a fourth
  to be left for the marking loop after the late one.
* `LockUpdate.cfg`: two components, two snapshots, two commits, two values of
  all other inputs; `MaxEdits = 2` counts edits and upstream moves together,
  `MaxFaults = 1`, `MaxBump = 1`. Component 1 moves between two snapshots, the
  head, a pin, a local spec and other inputs, and can be removed and restored;
  component 2 is the bystander whose lock must survive. Any number of runs
  follow one another. Locks may exist before the first run, with or without
  fingerprint, from before the hashes were recorded. Two edits suffice for away
  and back (upstream, local, upstream), which is where stale fields bite; one
  fault puts a torn file, an error or a kill anywhere on the way. Faults are
  bounded because nothing can be promised while they never end.
* `LockUpdateLive.cfg`: the same with one edit, one fault and no bumps, because
  liveness checking is dearer.
* `LockUpdateCheckGate.cfg`: two edits and no fault, which the counterexample does
  not need.
* `Render.cfg`: two components, two workers, two files. The first component
  renders to one of two trees that share a file (so that stale files and torn
  copies are visible), is broken, or is not configured; the second is steady and
  asks mock for its release number, so that the two share the fate of the chroot.
  One edit, one error, one interrupt or kill. The initial output is any mixture
  of nothing, a marker, and either tree. All combinations of options start runs.
* `RenderLive.cfg`: no edit during the behaviour (every configuration and every
  old output is an initial state instead), one error and one interrupt or kill.
* `RenderCtrlC.cfg`, `RenderDryRun.cfg`: only the interrupt, or only the dry
  run, so that nothing else can be blamed.

* `SyntheticHistory.cfg`: upstream has a main line of two commits and a branch of
  two, the first of which is a cherry-pick from the main line, so that changes are
  on the path, off it with an equivalent on it, and off it for good. The release in
  the spec is 1 and 5 on the main line, 2 and 3 on the branch, and 4 in the local
  spec: it rises, and falls by more than a bump or two make up for. The first
  snapshot may resolve to either commit of the main line, forwards or back. Two
  edits (to the branch, to local sources with and without a pin that was left in
  the configuration, away and back), one manual bump, three
  project commits and one error in each preparation: three changes are the least with
  one before, one between and one on top.
* `PrepareSources.cfg`, `PrepareSourcesDigest.cfg`: two files, two contents and two
  attempts, so that a retry can be wrong first and right then, right at once, or
  fail. The first file may be tracked, listed in `sources`, downloaded, replaced,
  generated from an input or modified by overlays, in every combination the loader
  accepts, with every option and kind of distro; the second is the bystander, or the
  result of a script. Two overlays on loose files suffice for one to see the other's
  work. Any number of commands follow one another; errors are unlimited.
* `ExternalCmd.cfg`: both streams, each with or without a listener; one log; two
  lines to each and a pipe that holds one, so that the command blocks while an
  earlier line is being handled, or after one that ends the reader.

Every bound is a constant named in a guard or in the set it bounds: `MaxEdits`,
`MaxFaults`, `MaxStops`, `MaxBump`, `MaxLog`, `MaxAttempts`, `MaxLoose`, `MaxLines`,
`PipeSize`. The theorems hold for all their values.

### Fairness

* `ParMap`: weak fairness of each step of the launch loop and of the
  goroutines (the Go scheduler is preemptive), strong fairness of taking the
  mutex (`sync.Mutex` hands over to a waiter that starves), and workers return (each is
  a bounded piece of work under a context). Nothing is assumed of the context:
  `Terminates` holds whether or not it ends.
* `LockUpdate`: weak fairness of `RunStep`, the steps of a run that is under
  way; a fault may always happen instead, until there are none left. Strong
  fairness of `FullUpdate` says that the user (or CI) goes on running
  `update -a`, whatever other runs come in between. Strong fairness of `Discard`
  says that a file that does not parse is eventually removed by hand: the tool
  refuses to replace it, and without this `Converges` would be false.
* `Render`: weak fairness of `RunStep`, strong fairness of the start of
  `render -a --clean-stale` into the configured directory. Nobody needs to
  repair anything by hand.

* `PrepareSources`: weak fairness of the steps that only need this process. A
  server, git or mock may never answer, and none of them has a timeout: such a step
  (`Waits`) is only fair once the context is cancelled, when the request fails and git
  and mock are killed; a clone and the initialisation of mock write to no pipe of
  this process, so that the wait for them then ends. Nothing is assumed of a script once
  it has been started (`StartScript`): its output is read from pipes, the context kills
  mock alone, and what still runs in the chroot may hold them open
  (`customsourceprovider.go:303-314`).
* `ExternalCmd`: weak fairness of the caller, of each goroutine (listeners return:
  "a listener that gets stuck will cause us to get stuck too", `externalcmd.go:371`)
  and of the kill that a done context sends; strong fairness of a follower's
  taking the cancelled case of its `select`, which chooses at random. Nothing is
  assumed of the command or of its descendants: they may write, wait or run for
  ever.
* `SyntheticHistory` has safety properties only: a preparation is a sequence of local
  steps that ends.

No fairness is assumed of faults, edits, interrupts or upstream.

## The proofs

`tlapm <module>` checks them. The theorems hold for every value of the
constants, under assumptions named in the modules:

* `NAssumption`, `LimitAssumption` (`ParMap`): at least one item, an integer limit.
* `SizesAssumption`, `MarkersAssumption` (`LockData`): at least one component and
  one commit; the values for "no file" and "does not parse" are not locks.
* `BoundsAssumption` (`LockUpdate`, `Render`): choices of the right type, bounds
  that are natural numbers.
* `RenderAssumption` (`Render`): at least one worker; marker, trees and the
  special values are different from one another.

**ParMap** (`ParMapProofs`). `IInv` says which part of the items the loop has dealt
with (`LoopShape`), that the mutex is held by exactly the goroutine in its
callback (`MutexShape`), that the counter equals the number of items whose
completion has been counted and only the holder's own is unreported
(`CountShape`), and that a late launch needs a loop that passed its check before
the context ended (`LateShape`). `ReturnedMeansReported` is not inductive: it
needs the counter to be the cardinality of a set, and `ProgressInOrder` needs
who may be between counting and reporting. Proved: `Invariance`, `TypeCorrect`,
`PoolIsBounded`, `LateLaunchIsBounded`, `ReturnIsComplete`,
`ProgressIsInOrder`, and `MapImplementsBatch`, the refinement.

**LockUpdate** (`LockUpdateProofs`). The core is `LocksSound`: in every readable
lock the commit answers the resolution hash next to it. It must hold of every
lock, of unconfigured components too, because a component can come back.
`ResultShape` says what a result knows of its lock until the lock is visited
(no other component's write disturbs it; upstream may move, and an answer
stays an answer), `SaveShape` and `PruneShape` what is settled already.
`CommitAnswersHash`, `CurrentLocksValidate`, `SuccessSettles` and
`CheckPassMeansLocked` follow. Proved besides: `WritesJustified`, and
`UpdateImplementsLockFiles`, step by step: most steps stutter, `SaveOne` is
`Refresh`, `BumpOne` is `Bump`, failures and kills are `Tear`.

**Render** (`RenderProofs`). `OutputShape` says, per status and per step of the
finishing worker, what the directory is compared with the start of the run;
`StatusShape` which statuses the phase allows and how they agree with the pool;
`PoolShape` that only running items have steps; `LeftShape` what is still to
prune and to mark, and that a failed component that a check has passed carries
its marker or is reported. `ReportIsTrue` is not inductive without them: that a
component is rendered is decided when its worker ends, and has to survive the
workers of other components, the marking pass and every error. Proved:
`Invariance`, `TypeCorrect`, `ReportsAreTrue`, `CheckIsExact`, `GateIsSound`,
`WritesJustified`.

**ExternalCmd** (`ExternalCmdProofs`). That the listeners have seen everything rests
on which process can hold which end of which pipe. `LaunchShape` says that as long
as this process has the write ends there is no child and readers only wait;
`ListenerShape` that once there is a child every listener has a reader and nobody
closes a pipe that is being read; `ReaderShape` how far each reader is, and that one
that stopped met a line that does not fit or the end of all output, with nobody
left who could write more; `WaitShape` what Wait has behind it. Proved:
`Invariance`, `TypeCorrect`, `EverythingDelivered`, `QuietAtLast`.

**PrepareSources** (`PrepareSourcesProofs`). Two invariants. `IInv` is for
`PreparedMeansExpected`: `ContentShape` says, phase by phase, which files are as the
configuration determines (those before `next`) and which are still what the phase
found, `LoopShape` what an attempt under way is about, `PositionShape` and
`PristineShape` what the phase implies. The
files do not depend on what earlier commands left, because every command that gets
past the check of its output directory begins with empty ones. `Verified` is for
`NothingUnverified`: every file but the one a retry loop is at fits the digests the
command has for it. Proved: `Invariance`, `TypeCorrect`, `PreparedAsExpected`,
`NoneUnverified`.

**SyntheticHistory** (`SyntheticHistoryProofs`). One invariant for the whole life of
a component. `ProjectShape` is about the lock files in the working tree and in every
project commit: the fingerprint of an upstream component names the locked commit,
and a lock without a fingerprint has only such locks before it. `ChangesShape` ties
the changes a preparation works with to the project's history, `SeenShape` the
release of an earlier preparation, less the one its spec had, to a commit of it.
`ReplayShape` says that what was replayed is the part of the sequence up to `pos`, in order, and that nothing
still to do belongs before `pos`; `TreeShape` that until the last
change, which goes on top of everything and carries the overlays, every commit has the
tree of the upstream commit it follows.

* `HistoryComplete` follows when nothing is left, with the lemma (`HomeFacts`) that
  the place at which `Remapped` puts a change is the one where it belongs.
* `RefusalsJustified` is part of the invariant. It needs that the last change of an
  upstream component is on the commit that is checked out (`LatestIsEffective`): either
  the uncommitted change, or the last commit that changed the fingerprint, which HEAD
  of the project then still has (`LastIsCurrent`).
* `ReleaseMonotone` compares the number of changes up to two commits
  (`GrowingFacts`): a different fingerprint means one more in between. The release is
  the one in the spec with one bump for each (`ReleaseFacts`).
* `DirtyPreview` needs that a lock without a fingerprint at HEAD means no changes.

Proved: `Invariance`, `TypeCorrect` and these, with `OverlaysAtTheEnd`. The
upstream history is arbitrary: any first-parent order, any cherry-picks.

The assumptions of these three modules: bounds are natural numbers, a pipe holds at
least one line and a download is tried at least once (`SizesAssumption`,
`HistoryAssumption`), commands are ones the loader accepts (`CommandsAssumption`), and
`Mainline` is a first-parent history whose commits are numbered parents first
(`MainlineAssumption`).

Least and greatest elements of finite sets are found through the well-foundedness
of strict inclusion (`Extremes`), not by induction.

Two things came out of the proof attempts. The expectation of `PreparedMeansExpected`
about overlays on loose files is stated as the existence of intermediate
directories (`LooseApplied`), since a recursive function over sets of directories
cannot be unfolded without an induction. And the invariant of `SyntheticHistory`
did not hold for a local component with a pin: the model had left out that
`computeCurrentFingerprint` hashes the pin as the identity of the sources.

Only model-checked: the liveness properties (`Terminates`, `Converges`,
`RendersEventually`, `InterruptEnds`, `RunReturns`, `ChildNeverStuck`), which the
prover does not reach, and the four counterexamples. Every safety invariant and
every action property of a passing run, and both refinements, are theorems. No
operator of the models is declared RECURSIVE.

## Findings

Four places where what the repository says and what the code does differ. Each
is a run that TLC finds violated.

1. `check_gate`. `update --check-only` "exits 0 when locks are fresh and 1 when
   something is stale" (`update.go:35-36`), and a lock is stale if either of its
   hashes differs (`resolver.go:633`). But a stale resolution hash alone is
   written by a plain update without counting as a change
   (`update.go:443`), so the check passes over it. `CheckPassMeansLocked` is
   what the gate does guarantee: fingerprints and commits are right.
2. `render_ctrlc`. "Cancelled components are intentionally skipped"
   (`render.go:1095-1097`) when markers are written. A component whose sources
   are being prepared when Ctrl-C comes ends as an error and gets a marker in
   place of its output.
3. `render_dryrun`. In dry-run mode "no actual changes are intended to be made"
   (`opctx/interfaces.go:41-42`). Render does not consult it: nothing is fetched,
   every component fails to prepare, and its output is replaced by a marker.
4. `prepare_digest`. "The `sources` file is rehashed afterward to reflect the
   repacked archive" (`docs/user/reference/config/overlays.md:72-73`). With
   `--allow-no-hashes` the archive may be one that `source-files` downloads with a
   configured hash; the digest computed for the repacked archive is then overwritten
   by the configured one (`sourceprep.go:1197`), which is the download's.

Noted on the way, without a run of their own:

* "On failure, any partial file is cleaned up" (`sourcemanager.go:573`): the
  destination is, but the temporary file of the atomic writer is not
  (`downloader.go:87-100` has no call of its Cleanup).
* `computeCurrentFingerprint` "Returns ("", nil) for local components"
  (`sourceprep.go:649-651`). It looks at the effective upstream commit only: a local
  component whose lock or configuration still names one gets a fingerprint that no
  lock can have, is taken to have uncommitted changes on that commit, and its
  preparation fails when the walk does not find it. The `upstream-commit` option is
  "only relevant for upstream specs", and nothing rejects it for a local one.
* A listener "will be invoked with each line" of a stream or log
  (`opctx/interfaces.go:144-152`). A line of 64 KiB ends the listening silently
  (`externalcmd.go:316`), and the last lines of a log may be lost when its follower is
  cancelled (`externalcmd.go:341`). The models of `ExternalCmd` do both.

## What is not modelled

Inside modelled components:

* `Map`: a nil progress callback, and a worker that panics (the program ends).
* update: name patterns and groups, the wording of reports, and a spec directory
  of a local component that is edited while the run hashes it.
* Lock store: its cache. Its readers and writers can race by their code
  (`store.go:106-200`), but no command lets them: update resolves in parallel and
  saves sequentially, and the others only read.
* render: symbolic links for aliases, the filter of unreferenced files (which
  decides what is in a tree, not what happens to it), and names that are not a
  valid directory. The tree a component renders to is a function of its
  configuration; preparing its sources is one step of a worker, whose inside is in
  `PrepareSources` and `SyntheticHistory`.
* Synthetic history: merges in the project's own history, lock files that do not
  parse in a past commit, submodules, and the content of commits (author, date,
  message).
* Preparing sources: the edits of spec text, the macros file and the provenance
  macro, `DiffSources`, patterns that match more than one file, URLs, back-off times,
  and dry runs.
* External commands: `RunAndGetOutput`, dry runs, redirected stdin, stdout and
  stderr, progress events.
* Hash functions, TOML, git and file contents are abstracted to the values that
  the properties distinguish.

Components not modelled at all are listed in `PROJECT.json` with the reason.
Mock, images, the MCP server, package lists, generators and the build system
are command lines, queries and text with no state of their own to check; spec
editing is a pure transformation of text that table tests cover better, and so are
the merging of configuration files and the selection of components. The two commands
with state that remain, `component build` beyond preparing sources and
`refresh-upstream-commit`, are next in the plan.

## The plan

Ordered by how much depends on the component. Done: `TaskBatch`, `ParMap`,
`LockData`, `LockFiles`, `LockUpdate`, `Render`, `SyntheticHistory`,
`PrepareSources`, `ExternalCmd`, their runs and their proofs. To come:

1. An abstract specification of `SyntheticHistory` (a reader of the clone sees the
   sources, then the whole history, and nothing in between), and the proof
   that it is implemented.
2. `RefreshUpstream`: the lock-file-free counterpart of update, with removals that
   are pending until the end and the first error that stops the saving
   (`refreshupstreamcommit.go:150-420`); the generated files' history is in
   `SyntheticHistory` already.
3. `Build`: sequential builds with `--continue-on-error`, RPMs moved one by one
   and a local repository that later builds use (`build.go:190-470`), on top of
   `PrepareSources`.
4. The composition of `Render` with `LockUpdate`: what a passing check saw is what a
   render then uses.
