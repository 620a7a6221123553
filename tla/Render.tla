------------------------------- MODULE Render -------------------------------
(***************************************************************************)
(* "azldev component render" (internal/app/azldev/cmds/component/          *)
(* render.go): a parallel phase prepares the sources of the selected       *)
(* components, one batch in a shared mock chroot expands them, orphan      *)
(* directories are pruned, a second parallel phase compares each component *)
(* with its output directory and overwrites it, and a last pass leaves a   *)
(* RENDER_FAILED marker for every component that failed.                   *)
(*                                                                         *)
(* Both parallel phases are batches of parmap.Map (TaskBatch, which ParMap *)
(* is proved to implement). A directory is the set of its files; a file    *)
(* with other contents, or one whose copy was torn, is another file or a   *)
(* missing one. Between runs the user edits the configuration.             *)
(***************************************************************************)
EXTENDS Naturals, FiniteSets

CONSTANTS
  NComp,      \* number of component names
  Workers,    \* IOBoundConcurrency
  Files,      \* what rendered specs and sidecar files may be
  Marker,     \* the file RENDER_FAILED
  Absent,     \* no such directory, no such component
  Broken,     \* what a component wants whose preparation always fails
  Choices,    \* what the configuration may make each component render to
  NeedsMock,  \* the components that ask mock for an autorelease number
  DryRuns,    \* the values of --dry-run
  MaxEdits,   \* bound: edits of the configuration
  MaxFaults,  \* bound: errors
  MaxStops    \* bound: interrupts and kills

Comps == 1 .. NComp
Trees == (SUBSET Files) \ {{}}
Dirs == SUBSET (Files \cup {Marker})
Wants == Trees \cup {Broken, Absent}

ASSUME RenderAssumption ==
  /\ NComp \in Nat /\ Workers \in Nat \ {0}
  /\ NeedsMock \subseteq Comps
  /\ Marker \notin Files
  /\ Absent # Broken /\ {Absent, Broken} \cap Dirs = {}
  /\ Choices \in [Comps -> SUBSET Wants]
  /\ DryRuns \subseteq BOOLEAN

ASSUME BoundsAssumption ==
  /\ MaxEdits \in Nat /\ MaxFaults \in Nat /\ MaxStops \in Nat

VARIABLES
  wants,      \* what the configuration of each component renders to
  out,        \* the output directory of each component
  pc,         \* the phase of the run in progress
  job,        \* its options
  status,     \* the status of each result, or "prepared"
  changed,    \* the Changed field of each result
  mock,       \* the mock chroot: cold, ready, or broken for good
  mocked,     \* the components with a mock result
  step,       \* how far each worker of the finishing phase got
  left,       \* the components a sequential phase has yet to visit
  exit,       \* the outcome of the run
  before,     \* what the directories were when the run began
  running, outcome, cancelled, returned,  \* the batch, see TaskBatch
  edits, faults, stops

Pool == INSTANCE TaskBatch WITH Items <- Comps, Limit <- Workers, done <- cancelled

pool == <<running, outcome, cancelled, returned>>
results == <<status, changed>>
counts == <<edits, faults, stops>>
vars == <<wants, out, pc, job, results, mock, mocked, step, left, exit, before,
          pool, counts>>

Job == [sel : SUBSET Comps, force : BOOLEAN, clean : BOOLEAN,
        check : BOOLEAN, failOn : BOOLEAN, dry : BOOLEAN]
NoJob == [sel |-> {}, force |-> FALSE, clean |-> FALSE,
          check |-> TRUE, failOn |-> FALSE, dry |-> FALSE]

Configured == {c \in Comps : wants[c] # Absent}
Orphans == {c \in Comps : out[c] # Absent} \ job.sel
IsNext(c) == c \in left /\ \A d \in left : c <= d

Init ==
  /\ wants \in [Comps -> Wants] /\ \A c \in Comps : wants[c] \in Choices[c]
  /\ out \in [Comps -> Dirs \cup {Absent}]
  /\ \A c \in Comps : out[c] \in {Absent, {Marker}} \cup (Choices[c] \cap Trees)
  /\ pc = "idle"
  /\ job = NoJob
  /\ status = [c \in Comps |-> "none"]
  /\ changed = [c \in Comps |-> FALSE]
  /\ mock = "cold"
  /\ mocked = {}
  /\ step = [c \in Comps |-> "none"]
  /\ left = {}
  /\ exit = "none"
  /\ before = [c \in Comps |-> Absent]
  /\ Pool!BatchInit
  /\ edits = 0 /\ faults = 0 /\ stops = 0

Fault == faults < MaxFaults /\ faults' = faults + 1 /\ UNCHANGED <<edits, stops>>
Stop == stops < MaxStops /\ stops' = stops + 1 /\ UNCHANGED <<edits, faults>>

-----------------------------------------------------------------------------
(* Before a run.                                                           *)

Edit(c) ==
  /\ pc = "idle"
  /\ edits < MaxEdits
  /\ \E w \in Choices[c] \ {wants[c]} : wants' = [wants EXCEPT ![c] = w]
  /\ edits' = edits + 1
  /\ UNCHANGED <<out, pc, job, results, mock, mocked, step, left, exit, before, pool,
                 faults, stops>>

\* resolveAndValidateOutputDir and validateCleanStaleOptions: the configured
\* directory implies force, an explicit one needs --force for --clean-stale,
\* which is for a selection of everything (-a) only; --fail-on-error and
\* --check-only exclude each other; a selection that is empty is refused.
ValidCleaningPart(j) ==
  /\ j.sel # {} /\ j.sel \subseteq Configured
  /\ j.clean => j.force
  /\ ~(j.check /\ j.failOn)
Valid(j) ==
  /\ j.sel # {} /\ j.sel \subseteq Configured
  /\ j.clean => j.sel = Configured /\ j.force
  /\ ~(j.check /\ j.failOn)

Start(j) ==
  /\ pc = "idle"
  /\ Valid(j)
  /\ pc' = "prepare"
  /\ job' = j
  /\ before' = out
  /\ outcome' = [c \in Comps |-> IF c \in j.sel THEN "none" ELSE "value"]
  /\ UNCHANGED <<wants, out, results, mock, mocked, step, left, exit, running,
                 cancelled, returned, counts>>

\* Ctrl-C. What follows the finishing phase does not consult the context.
Interrupt ==
  /\ pc \in {"prepare", "mock", "prune", "finish"}
  /\ Stop
  /\ Pool!Cancel
  /\ UNCHANGED <<wants, out, pc, job, results, mock, mocked, step, left, exit, before>>

-----------------------------------------------------------------------------
(* Phase 1: prepare the sources of each component, in parallel.            *)

PrepStart(c) ==
  /\ pc = "prepare"
  /\ Pool!Start(c)
  /\ UNCHANGED <<wants, out, pc, job, results, mock, mocked, step, left, exit,
                 before, counts>>

\* addUpstreamProvenanceMacros asks mock and carries on without an answer;
\* the first user initialises the chroot, and a failure to do so sticks.
MockAsked(c, fails) ==
  mock' = IF c \notin NeedsMock \/ mock # "cold" THEN mock
          ELSE IF fails THEN "broken" ELSE "ready"

\* prepareOneComponent, when everything worked.
PrepDone(c) ==
  /\ pc = "prepare"
  /\ wants[c] # Broken /\ ~job.dry
  /\ Pool!Finish(c)
  /\ status' = [status EXCEPT ![c] = "prepared"]
  /\ \/ MockAsked(c, FALSE) /\ UNCHANGED counts
     \/ /\ c \in NeedsMock /\ mock = "cold"
        /\ Fault \/ (cancelled /\ UNCHANGED counts)
        /\ MockAsked(c, TRUE)
  /\ UNCHANGED <<wants, out, pc, job, changed, mocked, step, left, exit, before>>

\* It fails: always, in a dry run because nothing is fetched, or because the
\* commands it runs end with the context.
PrepFails(c) ==
  /\ pc = "prepare"
  /\ wants[c] = Broken \/ job.dry \/ cancelled
  /\ Pool!Finish(c)
  /\ status' = [status EXCEPT ![c] = "error"]
  /\ UNCHANGED <<wants, out, pc, job, changed, mock, mocked, step, left, exit,
                 before, counts>>

\* It fails for a reason of this run.
PrepError(c) ==
  /\ pc = "prepare"
  /\ Fault
  /\ Pool!Finish(c)
  /\ status' = [status EXCEPT ![c] = "error"]
  /\ UNCHANGED <<wants, out, pc, job, changed, mock, mocked, step, left, exit, before>>

\* The pool gave the component up.
GivenUp(c) ==
  /\ pc \in {"prepare", "finish"}
  /\ Pool!GiveUp(c)
  /\ status' = [status EXCEPT ![c] = "cancelled"]
  /\ UNCHANGED <<wants, out, pc, job, changed, mock, mocked, step, left, exit,
                 before, counts>>

Prepared ==
  /\ pc = "prepare"
  /\ Pool!Return
  /\ pc' = "mock"
  /\ UNCHANGED <<wants, out, job, results, mock, mocked, step, left, exit, before, counts>>

-----------------------------------------------------------------------------
(* Phase 2: one batch in the mock chroot, then pruning.                    *)

Batch == {c \in Comps : status[c] = "prepared"}

\* Orphans are pruned unless the run only checks.
ToPruneAnyway == IF job.clean THEN Orphans ELSE {}
ToPrune == IF job.clean /\ ~job.check THEN Orphans ELSE {}

EndOfBatch(good) ==
  /\ mocked' = good
  /\ left' = ToPrune
  /\ pc' = "prune"
  /\ UNCHANGED <<wants, out, job, results, step, exit, before, pool>>

\* Every component gets a result of its own.
BatchDone ==
  /\ pc = "mock"
  /\ Batch = {} \/ mock # "broken"
  /\ mock' = IF Batch = {} THEN mock ELSE "ready"
  /\ EndOfBatch(Batch)
  /\ UNCHANGED counts

BatchErrors ==
  /\ pc = "mock"
  /\ mock # "broken"
  /\ \E bad \in (SUBSET Batch) \ {{}} : EndOfBatch(Batch \ bad)
  /\ mock' = "ready"
  /\ Fault

\* No component gets one: the chroot is broken or breaks now, or the command
\* fails, as it does when the context ends.
NoBatch ==
  /\ pc = "mock"
  /\ Batch # {}
  /\ mock' \in IF mock = "cold" THEN {"ready", "broken"} ELSE {mock}
  /\ EndOfBatch({})

BatchFails ==
  /\ mock = "broken" \/ cancelled
  /\ NoBatch
  /\ UNCHANGED counts

BatchCrashes == Fault /\ NoBatch

PruneOne(c) ==
  /\ pc = "prune"
  /\ IsNext(c)
  /\ out' = [out EXCEPT ![c] = Absent]
  /\ left' = left \ {c}
  /\ UNCHANGED <<wants, pc, job, results, mock, mocked, step, exit, before, pool, counts>>

\* What a removal that does not end leaves behind.
Remains(c) == IF out[c] = Absent THEN {Absent} ELSE SUBSET out[c]

\* An orphan cannot be removed, or the orphans not be listed: the run ends
\* without results or markers.
PruneFails(c) ==
  /\ pc = "prune"
  /\ IsNext(c)
  /\ Fault
  /\ \E d \in Remains(c) : out' = [out EXCEPT ![c] = d]
  /\ pc' = "done"
  /\ exit' = "aborted"
  /\ UNCHANGED <<wants, job, results, mock, mocked, step, left, before, pool>>

ListingFails ==
  /\ pc = "prune" /\ out = before
  /\ job.clean /\ ~job.check
  /\ Fault
  /\ pc' = "done"
  /\ exit' = "aborted"
  /\ UNCHANGED <<wants, out, job, results, mock, mocked, step, left, before, pool>>

Pruned ==
  /\ pc = "prune" /\ left = {}
  /\ pc' = "finish"
  /\ outcome' = [c \in Comps |-> IF c \in Batch THEN "none" ELSE "value"]
  /\ returned' = FALSE
  /\ UNCHANGED <<wants, out, job, results, mock, mocked, step, left, exit, before,
                 running, cancelled, counts>>
-----------------------------------------------------------------------------
(* Phase 3: finish each prepared component, in parallel.                   *)

FinishStart(c) ==
  /\ pc = "finish"
  /\ Pool!Start(c)
  /\ UNCHANGED <<wants, out, pc, job, results, mock, mocked, step, left, exit,
                 before, counts>>

At(c, s) == pc = "finish" /\ c \in running /\ step[c] = s

\* The worker returns its result.
Ends(c, s) ==
  /\ Pool!Finish(c)
  /\ status' = [status EXCEPT ![c] = s]
  /\ step' = [step EXCEPT ![c] = "none"]

\* finishOneComponent looks at the context once.
Proceed(c) ==
  /\ At(c, "none")
  /\ ~cancelled
  /\ step' = [step EXCEPT ![c] = "go"]
  /\ UNCHANGED <<wants, out, pc, job, results, mock, mocked, left, exit, before,
                 pool, counts>>

BailOut(c) ==
  /\ At(c, "none")
  /\ cancelled
  /\ Ends(c, "cancelled")
  /\ UNCHANGED <<wants, out, pc, job, changed, mock, mocked, left, exit, before, counts>>

\* No mock result, or one that is an error; and errors of filtering or of
\* the comparison.
NoResult(c) ==
  /\ At(c, "go")
  /\ c \notin mocked
  /\ Ends(c, "error")
  /\ UNCHANGED <<wants, out, pc, job, changed, mock, mocked, left, exit, before, counts>>

FinishError(c) ==
  /\ At(c, "go")
  /\ c \in mocked
  /\ Fault
  /\ Ends(c, "error")
  /\ UNCHANGED <<wants, out, pc, job, changed, mock, mocked, left, exit, before>>

\* diffRenderedOutput.
Compared(c) ==
  /\ At(c, "go")
  /\ c \in mocked
  /\ changed' = [changed EXCEPT ![c] = out[c] # wants[c]]

Refuses(c) == out[c] # Absent /\ ~job.force

CheckOnly(c) ==
  /\ job.check
  /\ Compared(c)
  /\ Ends(c, "ok")
  /\ UNCHANGED <<wants, out, pc, job, mock, mocked, left, exit, before, counts>>

Refuse(c) ==
  /\ ~job.check /\ Refuses(c)
  /\ Compared(c)
  /\ Ends(c, "error")
  /\ UNCHANGED <<wants, out, pc, job, mock, mocked, left, exit, before, counts>>

\* copyRenderedOutput: remove the directory, make it, then copy file by file.
OverwriteInPlace(c) ==
  /\ ~job.check /\ ~Refuses(c)
  /\ Compared(c)
  /\ out' = [out EXCEPT ![c] = IF out[c] = Absent THEN {} ELSE out[c]]
  /\ step' = [step EXCEPT ![c] = "copy"]
  /\ UNCHANGED <<wants, pc, job, status, mock, mocked, left, exit, before, pool, counts>>
Overwrite(c) ==
  /\ ~job.check /\ ~Refuses(c)
  /\ Compared(c)
  /\ out' = [out EXCEPT ![c] = {}]
  /\ step' = [step EXCEPT ![c] = "copy"]
  /\ UNCHANGED <<wants, pc, job, status, mock, mocked, left, exit, before, pool, counts>>

\* The directory cannot be removed, or only in part, or not made again.
OverwriteFails(c) ==
  /\ ~job.check /\ ~Refuses(c)
  /\ Compared(c)
  /\ Fault
  /\ \E d \in Remains(c) \cup {Absent} : out' = [out EXCEPT ![c] = d]
  /\ Ends(c, "error")
  /\ UNCHANGED <<wants, pc, job, mock, mocked, left, exit, before>>

Copy(c) ==
  /\ At(c, "copy")
  /\ \E f \in wants[c] \ out[c] : out' = [out EXCEPT ![c] = @ \cup {f}]
  /\ UNCHANGED <<wants, pc, job, results, mock, mocked, step, left, exit, before,
                 pool, counts>>

CopyFails(c) ==
  /\ At(c, "copy")
  /\ Fault
  /\ Ends(c, "error")
  /\ UNCHANGED <<wants, out, pc, job, changed, mock, mocked, left, exit, before>>

StopCopying(c) ==
  /\ At(c, "copy")
  /\ Ends(c, "ok")
  /\ UNCHANGED <<wants, out, pc, job, changed, mock, mocked, left, exit, before, counts>>
CopyDone(c) ==
  /\ At(c, "copy")
  /\ wants[c] \subseteq out[c]
  /\ Ends(c, "ok")
  /\ UNCHANGED <<wants, out, pc, job, changed, mock, mocked, left, exit, before, counts>>

Failed == {c \in Comps : status[c] = "error"}

Finished ==
  /\ pc = "finish"
  /\ Pool!Return
  /\ pc' = "mark"
  /\ left' = Failed
  /\ UNCHANGED <<wants, out, job, results, mock, mocked, step, exit, before, counts>>

-----------------------------------------------------------------------------
(* The last pass: markers for what failed, and the verdict.                *)

\* writeFailureMarkers writes, or, in a check, compares.
MarkWithoutMkdir(c) ==
  /\ pc = "mark"
  /\ IsNext(c)
  /\ IF job.check
     THEN changed' = [changed EXCEPT ![c] = @ \/ out[c] # {Marker}] /\ out' = out
     ELSE /\ changed' = changed
          /\ out' = [out EXCEPT ![c] = {Marker} \cup IF job.force THEN {} ELSE @]
  /\ left' = left \ {c}
  /\ UNCHANGED <<wants, pc, job, status, mock, mocked, step, exit, before, pool, counts>>
MarkQuietly(c) ==
  /\ pc = "mark"
  /\ IsNext(c)
  /\ out' = IF job.check THEN out
            ELSE [out EXCEPT ![c] = {Marker} \cup
                                    IF job.force \/ @ = Absent THEN {} ELSE @]
  /\ left' = left \ {c}
  /\ UNCHANGED <<wants, pc, job, results, mock, mocked, step, exit, before, pool, counts>>
MarkOne(c) ==
  /\ pc = "mark"
  /\ IsNext(c)
  /\ IF job.check
     THEN changed' = [changed EXCEPT ![c] = @ \/ out[c] # {Marker}] /\ out' = out
     ELSE /\ changed' = changed
          /\ out' = [out EXCEPT ![c] = {Marker} \cup
                                    IF job.force \/ @ = Absent THEN {} ELSE @]
  /\ left' = left \ {c}
  /\ UNCHANGED <<wants, pc, job, status, mock, mocked, step, exit, before, pool, counts>>

\* What marking may leave when removing or writing fails; both are tolerated.
HalfMarked(c) ==
  IF out[c] = Absent THEN {Absent, {}}
  ELSE IF job.force THEN (SUBSET (out[c] \cup {Marker})) \cup {Absent}
  ELSE {out[c], out[c] \ {Marker}}

MarkFails(c) ==
  /\ pc = "mark"
  /\ IsNext(c)
  /\ Fault
  /\ IF job.check
     THEN changed' = [changed EXCEPT ![c] = TRUE] /\ out' = out
     ELSE /\ changed' = changed
          /\ \E d \in HalfMarked(c) : out' = [out EXCEPT ![c] = d]
  /\ left' = left \ {c}
  /\ UNCHANGED <<wants, pc, job, status, mock, mocked, step, exit, before, pool>>

\* checkOnlyRenderResult and checkRenderErrors.
VerdictOnErrors ==
  IF job.check
  THEN IF (\E c \in Comps : changed[c]) \/ (job.clean /\ Orphans # {})
       THEN "stale" ELSE "ok"
  ELSE IF job.failOn /\ \E c \in Comps : status[c] = "error"
       THEN "failed" ELSE "ok"
Verdict ==
  IF job.check
  THEN IF (\E c \in Comps : changed[c]) \/ (job.clean /\ Orphans # {})
       THEN "stale" ELSE "ok"
  ELSE IF job.failOn /\ \E c \in Comps : status[c] \in {"error", "cancelled"}
       THEN "failed" ELSE "ok"

Report ==
  /\ pc = "mark" /\ left = {}
  /\ pc' = "done"
  /\ exit' = Verdict
  /\ UNCHANGED <<wants, out, job, results, mock, mocked, step, left, before, pool, counts>>

\* The check needs the orphans, too.
ReportFails ==
  /\ pc = "mark" /\ left = {}
  /\ job.check /\ job.clean
  /\ Fault
  /\ pc' = "done"
  /\ exit' = "stale"
  /\ UNCHANGED <<wants, out, job, results, mock, mocked, step, left, before, pool>>

-----------------------------------------------------------------------------
(* The end of a run.                                                       *)

\* The next run is a process of its own.
Reset ==
  /\ pc' = "idle"
  /\ job' = NoJob
  /\ status' = [c \in Comps |-> "none"]
  /\ changed' = [c \in Comps |-> FALSE]
  /\ mock' = "cold"
  /\ mocked' = {}
  /\ step' = [c \in Comps |-> "none"]
  /\ left' = {}
  /\ exit' = "none"
  /\ before' = [c \in Comps |-> Absent]
  /\ running' = {}
  /\ outcome' = [c \in Comps |-> "none"]
  /\ cancelled' = FALSE
  /\ returned' = FALSE

Exit ==
  /\ pc = "done"
  /\ Reset
  /\ UNCHANGED <<wants, out, counts>>

\* Where a kill may find a directory half removed or half marked. (Copying
\* shows its steps; a torn file counts as missing.)
Torn(c) ==
  CASE pc = "prune" /\ IsNext(c) -> Remains(c)
    [] At(c, "go") /\ c \in mocked /\ ~job.check /\ job.force -> Remains(c) \cup {Absent}
    [] pc = "mark" /\ IsNext(c) /\ ~job.check -> HalfMarked(c)
    [] OTHER -> {}

Killed ==
  /\ pc \notin {"idle", "done"}
  /\ Stop
  /\ \/ out' = out
     \/ \E c \in Comps : \E d \in Torn(c) : out' = [out EXCEPT ![c] = d]
  /\ Reset
  /\ UNCHANGED wants

-----------------------------------------------------------------------------

RunStep ==
  \/ Prepared \/ BatchDone \/ BatchFails \/ Pruned \/ Finished \/ Report \/ Exit
  \/ \E c \in Comps :
       \/ PrepStart(c) \/ PrepDone(c) \/ PrepFails(c) \/ GivenUp(c) \/ PruneOne(c)
       \/ FinishStart(c) \/ Proceed(c) \/ BailOut(c) \/ NoResult(c) \/ CheckOnly(c)
       \/ Refuse(c) \/ Overwrite(c) \/ Copy(c) \/ CopyDone(c) \/ MarkOne(c)

FaultStep ==
  \/ BatchErrors \/ BatchCrashes \/ ListingFails \/ ReportFails \/ Interrupt \/ Killed
  \/ \E c \in Comps :
       \/ PrepError(c) \/ PruneFails(c) \/ FinishError(c) \/ OverwriteFails(c)
       \/ CopyFails(c) \/ MarkFails(c)

Jobs == {j \in Job : j.dry \in DryRuns}

Next ==
  \/ \E c \in Comps : Edit(c)
  \/ \E j \in Jobs : Start(j)
  \/ RunStep
  \/ FaultStep

Spec == Init /\ [][Next]_vars

FullJob == [sel |-> Configured, force |-> TRUE, clean |-> TRUE,
            check |-> FALSE, failOn |-> FALSE, dry |-> FALSE]

\* A run takes its steps, and the user keeps running "render -a --clean-stale"
\* among whatever else.
FairSpec == Spec /\ WF_vars(RunStep) /\ SF_vars(Start(FullJob))

-----------------------------------------------------------------------------
(* Properties.                                                             *)

TypeOK ==
  /\ wants \in [Comps -> Wants]
  /\ out \in [Comps -> Dirs \cup {Absent}]
  /\ pc \in {"idle", "prepare", "mock", "prune", "finish", "mark", "done"}
  /\ job \in Job
  /\ status \in [Comps -> {"none", "prepared", "ok", "error", "cancelled"}]
  /\ changed \in [Comps -> BOOLEAN]
  /\ mock \in {"cold", "ready", "broken"}
  /\ mocked \subseteq Comps
  /\ step \in [Comps -> {"none", "go", "copy"}]
  /\ left \subseteq Comps
  /\ exit \in {"none", "ok", "stale", "failed", "aborted"}
  /\ before \in [Comps -> Dirs \cup {Absent}]
  /\ running \subseteq Comps
  /\ outcome \in [Comps -> {"none", "value", "cancelled"}]
  /\ cancelled \in BOOLEAN /\ returned \in BOOLEAN
  /\ edits \in 0 .. MaxEdits /\ faults \in 0 .. MaxFaults /\ stops \in 0 .. MaxStops

\* A run that reports a component as rendered has left exactly its tree
\* there, whatever was in the directory and whatever else went wrong; one
\* that reports it as cancelled has left the directory alone.
ReportIsTrue ==
  pc = "done" /\ exit # "aborted" => \A c \in job.sel :
    /\ status[c] = "ok" =>
         /\ ~job.check => out[c] = wants[c]
         /\ changed[c] <=> before[c] # wants[c]
    /\ status[c] = "cancelled" => out[c] = before[c]

\* render.go:1197-1198, "1:1 parity": a check that passes, and was not cut
\* short, found each selected component as a render would leave it: its tree,
\* or for one that fails just the marker; and no orphan with --clean-stale.
CheckPassMeansRendered ==
  pc = "done" /\ exit = "ok" /\ job.check /\ ~cancelled =>
    /\ \A c \in job.sel :
         out[c] = IF status[c] = "ok" THEN wants[c] ELSE {Marker}
    /\ job.clean => \A c \in Comps : wants[c] = Absent => out[c] = Absent

\* With --fail-on-error, success means that everything selected is rendered,
\* even when the context ended on the way.
SuccessMeansRendered ==
  pc = "done" /\ exit = "ok" /\ job.failOn =>
    \A c \in job.sel : out[c] = wants[c]

\* Only a run that writes touches the output; it touches what it selected and,
\* to clean, what is no longer configured; and without --force it deletes
\* nothing, so that files in the way survive. (It may tear its own marker.)
MayTouch(c) ==
  /\ ~job.check
  /\ c \in job.sel \/ (job.clean /\ wants[c] = Absent)
Loses(c) ==
  out[c] # Absent /\ (out'[c] = Absent \/ ~(out[c] \ {Marker} \subseteq out'[c]))
WritesAreJustified ==
  [][\A c \in Comps : out'[c] # out[c] =>
       MayTouch(c) /\ (Loses(c) => job.force)]_vars

\* However runs failed, were interrupted or killed: the output comes to hold
\* exactly what the configuration renders to, stale files and orphans gone.
\* (A project without components cannot be rendered, orphans or not.)
Goal(c) ==
  out[c] = CASE wants[c] = Absent -> Absent
             [] wants[c] = Broken -> {Marker}
             [] OTHER -> wants[c]
RendersEventually ==
  []<>(Configured = {} \/ (pc = "idle" /\ \A c \in Comps : Goal(c)))

\* render.go:1095-1097: "a Ctrl-C is not a render failure, just an incomplete
\* run, and silently planting markers under those circumstances would lie in
\* git diff". So where nothing failed, no marker appears.
MarkersMeanFailure ==
  [][\A c \in Comps : wants[c] \in Trees /\ ~job.dry /\ faults' = 0 =>
       ~(out'[c] # out[c] /\ out'[c] # Absent /\ Marker \in out'[c])]_vars

\* opctx/interfaces.go:41-42: "In dry-run mode, no actual changes are intended
\* to be made to the host system".
DryRunChangesNothing == [][job.dry => out' = out]_vars
-----------------------------------------------------------------------------
(* The inductive invariant behind the safety properties above.             *)

IdleShape ==
  pc = "idle" =>
    /\ status = [c \in Comps |-> "none"]
    /\ changed = [c \in Comps |-> FALSE]
    /\ running = {}
    /\ ~cancelled /\ ~returned

JobShape ==
  /\ pc # "idle" => Valid(job)
  /\ pc # "done" => exit = "none"

\* Where the batch stands.
PoolShape ==
  /\ running # {} => pc \in {"prepare", "finish"}
  /\ \A c \in running : outcome[c] = "none" /\ c \in job.sel
  /\ \A c \in Comps : step[c] # "none" => pc = "finish" /\ c \in running

\* What the results say, phase by phase.
StatusShape ==
  /\ \A c \in Comps :
       /\ status[c] = "cancelled" => cancelled
       /\ pc # "idle" /\ c \notin job.sel => status[c] = "none" /\ ~changed[c]
       /\ status[c] \in {"prepared", "ok"} => wants[c] \in Trees
       /\ pc = "prepare" => (outcome[c] = "none" => c \in job.sel /\ status[c] = "none")
       /\ pc = "prepare" /\ c \in job.sel => (outcome[c] = "none" <=> status[c] = "none")
       /\ pc = "finish" => (outcome[c] = "none" <=> status[c] = "prepared")
  /\ pc \in {"mock", "prune", "finish", "mark"} =>
       \A c \in job.sel : status[c] # "none"
  /\ pc = "mark" => Batch = {}

\* What the run has done to the directories of the components it selected.
OutputShape ==
  pc # "idle" =>
    /\ job.check => out = before
    /\ \A c \in job.sel :
         /\ status[c] \in {"none", "prepared", "cancelled"} /\ step[c] # "copy" =>
              out[c] = before[c] /\ ~changed[c]
         /\ step[c] = "copy" =>
              /\ ~job.check
              /\ out[c] \subseteq wants[c]
         /\ status[c] = "ok" => job.check \/ out[c] = wants[c]
         /\ status[c] = "ok" \/ step[c] = "copy" => (changed[c] <=> before[c] # wants[c])

\* What is left to prune is not configured, what is left to mark has failed,
\* and what a check has marked is reported, or was marked already.
LeftShape ==
  /\ pc = "prune" => \A c \in left : wants[c] = Absent /\ job.clean /\ ~job.check
  /\ pc \in {"idle", "prepare", "mock", "finish"} => left = {}
  /\ pc = "mark" =>
       /\ left \subseteq Failed
       /\ job.check => \A c \in Failed \ left : changed[c] \/ out[c] = {Marker}

IInv ==
  /\ TypeOK
  /\ IdleShape
  /\ JobShape
  /\ PoolShape
  /\ StatusShape
  /\ OutputShape
  /\ LeftShape
  /\ ReportIsTrue
  /\ CheckPassMeansRendered
  /\ SuccessMeansRendered
=============================================================================
