--------------------------- MODULE PrepareSources ---------------------------
(***************************************************************************)
(* How the sources of a component get into a directory and into its        *)
(* 'sources' file (providers/sourceproviders, utils/retry, and             *)
(* PrepareSources of core/sources up to the git history, which module      *)
(* SyntheticHistory models): clone or copy, lookaside cache, custom        *)
(* scripts, download origins, archive overlays, digests.                   *)
(*                                                                         *)
(* A file is an archive, or one that overlays treat as loose, and its      *)
(* digest is modelled by its content; the spec is not modelled. The        *)
(* network, mock and the file system may fail at any step; Ctrl-C cancels  *)
(* the context, and a kill ends the process between any two steps. Dry     *)
(* runs change nothing and are left out.                                   *)
(***************************************************************************)
EXTENDS Naturals, Sequences, FiniteSets

CONSTANTS
  NFiles,       \* number of file names
  NContents,    \* number of contents before overlays
  MaxAttempts,  \* DefaultMaxAttempts, or --network-retries
  MaxLoose,     \* bound: overlays on loose files
  Commands,     \* the preparations a user may start: configuration and options
  Absent,       \* no such file
  None          \* no hash configured

ASSUME SizesAssumption == NFiles \in Nat /\ NContents \in Nat /\ MaxAttempts \in Nat \ {0} /\ MaxLoose \in Nat

Files == 1 .. NFiles
Pristine == 1 .. NContents
Contents == 1 .. 2 * NContents
Listing == [Files -> Pristine \cup {Absent}]
Directory == [Files -> Contents \cup {Absent}]

\* What an archive holds once its overlays are applied and it is repacked.
Overlaid(c) == c + NContents

\* An overlay on loose files; a pattern is the one file it matches.
Loose == [kind : {"add", "remove", "rename", "edit"}, file : Files, to : Files, content : Pristine]

\* A 'source-files' entry.
Ref == [name : Files, hash : Contents \cup {None}, origin : {"download", "custom", "overlay"},
        replace : BOOLEAN, inputs : SUBSET Files]

\* tracked: the files in dist-git, or beside a local spec; sources: the
\* entries of the 'sources' file there; overlays: the archives that overlays
\* modify.
Command ==
  [src : {"upstream", "local"}, tracked : Listing, sources : Listing,
   refs : UNION {[1 .. n -> Ref] : n \in 0 .. NFiles}, overlays : SUBSET Files,
   loose : UNION {[1 .. n -> Loose] : n \in 0 .. MaxLoose},
   noHashes : BOOLEAN,   \* --allow-no-hashes
   skip : BOOLEAN,       \* --skip-sources, and render
   plain : BOOLEAN,      \* --skip-overlays
   lookaside : BOOLEAN,  \* the distro has a lookaside cache
   provider : BOOLEAN,   \* the distro has a mock configuration
   origins : BOOLEAN]    \* the distro does not disable origins

\* validateSourceFiles, when the configuration is loaded.
Loads(c) ==
  /\ \A i, j \in DOMAIN c.refs : c.refs[i].name = c.refs[j].name => i = j
  /\ \A i \in DOMAIN c.refs :
       /\ c.refs[i].origin = "overlay" => c.refs[i].replace
       /\ c.refs[i].inputs # {} => c.refs[i].origin = "custom"

ASSUME CommandsAssumption ==
  /\ Absent \notin Contents /\ None \notin Contents
  /\ \A c \in Commands : c \in Command /\ Loads(c)

VARIABLES
  cmd,        \* the current command
  pc,         \* idle, fetch, extract, copy, files, overlay, loose, record, done, failed, killed
  next,       \* the file name, 'source-files' entry or overlay of the current phase
  stage,      \* within files: where that entry is looked for
  attempt,    \* failed attempts of the current retry loop
  arrived,    \* the current attempt has written the file and not yet validated it
  busy,       \* the script of the current entry has been started in mock
  cancelled,  \* the context
  dir,        \* the temporary clone and the output directory
  record      \* the entries of the output directory's 'sources' file

vars == <<cmd, pc, next, stage, attempt, arrived, busy, cancelled, dir, record>>
position == <<pc, next, stage, attempt, arrived, busy>>

Empty == [f \in Files |-> Absent]

Running == pc \notin {"idle", "done", "failed", "killed"}

Init ==
  /\ cmd \in Commands
  /\ pc = "idle"
  /\ next = 1
  /\ stage = "lookaside"
  /\ attempt = 0
  /\ arrived = FALSE
  /\ busy = FALSE
  /\ cancelled = FALSE
  /\ dir = [clone |-> Empty, out |-> Empty]
  /\ record = Empty

\* Control passes to a phase, to an entry of it, or to a stage of that entry.
At(phase, entry, place) ==
  /\ pc' = phase /\ next' = entry /\ stage' = place
  /\ attempt' = 0 /\ arrived' = FALSE /\ busy' = FALSE

Goto(phase) == At(phase, 1, "lookaside")
Advance == At(pc, next + 1, "lookaside")

-----------------------------------------------------------------------------
(* Beginning and ending.                                                   *)

\* CheckOutputDir: on --force leftovers are removed. Without it a command that
\* finds leftovers ends at once.
CheckedIgnoringLeftovers(old) == old
Checked(old) == Empty

OfOrigin(c, origins) == {c.refs[i].name : i \in {j \in DOMAIN c.refs : c.refs[j].origin \in origins}}

\* TargetsLooseFile.
Targets(o, f) == o.file = f \/ (o.kind = "rename" /\ o.to = f)

\* ValidateArchiveOverlays.
OverlaysValid(c) ==
  /\ OfOrigin(c, {"overlay"}) \subseteq c.overlays
  /\ c.noHashes \/ c.overlays \subseteq OfOrigin(c, {"overlay"})
  /\ \A f \in c.overlays, i \in DOMAIN c.loose : ~Targets(c.loose[i], f)

Start(c) ==
  /\ ~Running
  /\ cmd' = c
  /\ cancelled' = FALSE
  /\ dir' = [clone |-> Empty, out |-> Checked(dir.out)]
  /\ record' = Checked(record)
  /\ Goto(IF c.plain \/ OverlaysValid(c) THEN "fetch" ELSE "failed")

\* Ctrl-C.
Interrupt ==
  /\ Running /\ ~cancelled
  /\ cancelled' = TRUE
  /\ UNCHANGED <<cmd, position, dir, record>>

Kill ==
  /\ Running
  /\ Goto("killed")
  /\ UNCHANGED <<cmd, cancelled, dir, record>>

\* A step that fails ends the preparation; the output directory stays.
Fails ==
  /\ Running /\ ~arrived
  /\ pc \in {"copy", "overlay", "loose", "record"} \/ (pc = "files" /\ stage = "provider")
  /\ Goto("failed")
  /\ UNCHANGED <<cmd, cancelled, dir, record>>

-----------------------------------------------------------------------------
(* Retrying (utils/retry).                                                 *)

GivesUpLate == attempt = MaxAttempts \/ cancelled
GivesUp == attempt + 1 = MaxAttempts \/ cancelled

\* A cancelled context fails the request under way and every later one. Git
\* is killed, and since it writes to no pipe the wait for it then ends.
RequestFailsWithoutContext == FALSE
RequestFails == cancelled

Again ==
  /\ attempt' = attempt + 1 /\ arrived' = FALSE /\ busy' = FALSE
  /\ UNCHANGED <<pc, next, stage>>

-----------------------------------------------------------------------------
(* Fetching the component.                                                 *)

AfterFetch(c) == IF c.plain THEN "done" ELSE "overlay"
AfterComponent(c) == IF c.skip THEN AfterFetch(c) ELSE "files"

\* GetComponent clones into a temporary directory and checks the commit out.
Clone ==
  /\ pc = "fetch" /\ cmd.src = "upstream"
  /\ \/ /\ ~RequestFails
        /\ dir' = [dir EXCEPT !.clone = cmd.tracked]
        /\ Goto(IF cmd.skip THEN "copy" ELSE IF cmd.lookaside THEN "extract" ELSE "failed")
     \/ /\ IF GivesUp THEN Goto("failed") ELSE Again
        /\ UNCHANGED dir
  /\ UNCHANGED <<cmd, cancelled, record>>

CheckoutFails ==
  /\ pc = "fetch" /\ cmd.src = "upstream"
  /\ ~RequestFails
  /\ Goto("failed")
  /\ UNCHANGED <<cmd, cancelled, dir, record>>

\* SkipExistingFiles: what is there stays. A local copy has no such filter.
Onto(from, to) == [f \in Files |-> IF to[f] = Absent THEN from[f] ELSE to[f]]

CopyLocal ==
  /\ pc = "fetch" /\ cmd.src = "local"
  /\ dir' = [dir EXCEPT !.out = Onto(dir.out, cmd.tracked)]
  /\ record' = cmd.sources
  /\ Goto(IF ~cmd.skip /\ cmd.lookaside THEN "extract" ELSE AfterComponent(cmd))
  /\ UNCHANGED <<cmd, cancelled>>

CopyClone ==
  /\ pc = "copy"
  /\ dir' = [clone |-> Empty, out |-> Onto(dir.clone, dir.out)]
  /\ record' = cmd.sources
  /\ Goto(AfterComponent(cmd))
  /\ UNCHANGED <<cmd, cancelled>>

\* A copy that fails has copied some of the files.
CopyFails ==
  /\ pc = "copy" \/ (pc = "fetch" /\ cmd.src = "local")
  /\ \E done \in SUBSET Files :
       LET from == IF pc = "copy" THEN dir.clone ELSE cmd.tracked
           some == [f \in Files |-> IF f \in done THEN from[f] ELSE Absent]
       IN  dir' = [clone |-> Empty, out |-> Onto(some, dir.out)]
  /\ Goto("failed")
  /\ UNCHANGED <<cmd, cancelled, record>>

\* fetchedSourceFilenames: FetchFiles brings them.
Fetched(c) == OfOrigin(c, {"download", "custom"})

ExtractSkips(f) ==
  cmd.sources[f] = Absent \/ f \in Fetched(cmd) \/ dir[IF cmd.src = "upstream" THEN "clone" ELSE "out"][f] # Absent

Extract ==
  /\ pc = "extract"
  /\ attempt = 0 /\ ~arrived
  /\ IF next > NFiles THEN Goto(IF cmd.src = "upstream" THEN "copy" ELSE "files")
     ELSE ExtractSkips(next) /\ Advance
  /\ UNCHANGED <<cmd, cancelled, dir, record>>

-----------------------------------------------------------------------------
(* A download, in the retry loops of downloadAndVerifySources and          *)
(* downloadAndValidate.                                                    *)

Here == cmd.refs[next]

Downloads ==
  \/ pc = "extract" /\ next <= NFiles /\ (attempt > 0 \/ ~ExtractSkips(next))
  \/ /\ pc = "files" /\ next \in DOMAIN cmd.refs /\ Here.origin = "download"
     /\ \/ stage = "lookaside" /\ cmd.lookaside /\ Here.hash # None
        \/ stage = "origin" /\ cmd.origins

Target == IF pc = "extract" THEN next ELSE Here.name
Where == IF pc = "extract" /\ cmd.src = "upstream" THEN "clone" ELSE "out"
Expected == IF pc = "extract" THEN cmd.sources[next] ELSE Here.hash

Put(c) == dir' = [dir EXCEPT ![Where][Target] = c]

\* After the last attempt the file is removed; only a lookaside cache that
\* does not have a 'source-files' entry is not the end.
LeaveFile == UNCHANGED dir
RemoveFile == Put(Absent)

GiveUp ==
  /\ RemoveFile
  /\ IF pc = "files" /\ stage = "lookaside" THEN At("files", next, "provider") ELSE Goto("failed")

\* The old file is removed first; a transfer that fails leaves no file.
Download ==
  /\ ~arrived /\ Downloads
  /\ \/ /\ ~RequestFails
        /\ \E c \in Pristine : Put(c)
        /\ arrived' = TRUE
        /\ UNCHANGED <<pc, next, stage, attempt, busy>>
     \/ IF GivesUp THEN GiveUp ELSE Put(Absent) /\ Again
  /\ UNCHANGED <<cmd, cancelled, record>>

Validate ==
  /\ arrived
  /\ IF Expected = None \/ dir[Where][Target] = Expected
     THEN Advance /\ UNCHANGED dir
     ELSE IF GivesUp THEN GiveUp ELSE Again /\ UNCHANGED dir
  /\ UNCHANGED <<cmd, cancelled, record>>

-----------------------------------------------------------------------------
(* FetchFiles and fetchSourceFile.                                         *)

FilesEnd ==
  /\ pc = "files" /\ next \notin DOMAIN cmd.refs
  /\ Goto(AfterFetch(cmd))
  /\ UNCHANGED <<cmd, cancelled, dir, record>>

\* Entries that are not looked up in the lookaside cache.
FilesBegin ==
  /\ pc = "files" /\ next \in DOMAIN cmd.refs /\ stage = "lookaside"
  /\ ~Downloads
  /\ IF Here.origin = "custom" /\ ~cmd.provider /\ Here.hash = None THEN Goto("failed")
     ELSE IF Here.origin = "overlay" THEN Advance
     ELSE At("files", next, "provider")
  /\ UNCHANGED <<cmd, cancelled, dir, record>>

\* The custom provider: there is a mock configuration, and the inputs can be
\* staged.
Generates == pc = "files" /\ next \in DOMAIN cmd.refs /\ stage = "provider" /\ Here.origin = "custom"
CanGenerate == cmd.provider /\ \A f \in Here.inputs : dir.out[f] # Absent

\* execScriptInChroot: mock is initialised, and the script started in it.
StartScript ==
  /\ Generates /\ CanGenerate
  /\ ~busy /\ ~cancelled
  /\ busy' = TRUE
  /\ UNCHANGED <<cmd, pc, next, stage, attempt, arrived, cancelled, dir, record>>

\* An output that fails the validation stays. Nothing else makes a custom file.
Generate ==
  /\ Generates
  /\ \/ /\ ~CanGenerate \/ RequestFails
        /\ Goto("failed")
        /\ UNCHANGED dir
     \/ /\ busy /\ ~RequestFails
        /\ \E c \in Pristine :
             /\ dir' = [dir EXCEPT !.out[Here.name] = c]
             /\ IF Here.hash \in {None, c} THEN Advance ELSE Goto("failed")
  /\ UNCHANGED <<cmd, cancelled, record>>

ToOrigin ==
  /\ pc = "files" /\ next \in DOMAIN cmd.refs /\ stage = "provider"
  /\ Here.origin # "custom"
  /\ IF cmd.origins THEN At("files", next, "origin") ELSE Goto("failed")
  /\ UNCHANGED <<cmd, cancelled, dir, record>>

-----------------------------------------------------------------------------
(* Overlays and the 'sources' file.                                        *)

Modified(c) == IF c.skip THEN {} ELSE c.overlays

\* One archive is extracted, changed, repacked and renamed into place.
Repack ==
  /\ pc = "overlay" /\ next \in Modified(cmd)
  /\ IF dir.out[next] = Absent THEN Goto("failed") /\ UNCHANGED dir
     ELSE dir' = [dir EXCEPT !.out[next] = Overlaid(@)] /\ Advance
  /\ UNCHANGED <<cmd, cancelled, record>>

OverlayNext ==
  /\ pc = "overlay" /\ next \notin Modified(cmd)
  /\ IF next > NFiles THEN Goto("loose") ELSE Advance
  /\ UNCHANGED <<cmd, cancelled, dir, record>>

\* Lines are prepended or text is replaced.
Edited(c) == IF c < NContents THEN c + 1 ELSE c

\* addNonSpecFile does not overwrite; the others need a match.
Applies(o, files) == IF o.kind = "add" THEN files[o.file] = Absent ELSE files[o.file] # Absent

AppliedTo(o, files) ==
  CASE o.kind = "add"    -> [files EXCEPT ![o.file] = o.content]
    [] o.kind = "remove" -> [files EXCEPT ![o.file] = Absent]
    [] o.kind = "edit"   -> [files EXCEPT ![o.file] = Edited(@)]
    [] o.kind = "rename" -> [files EXCEPT ![o.file] = Absent, ![o.to] = files[o.file]]

\* applyOverlayList: what was applied before one that does not apply stays.
ApplyLoose ==
  /\ pc = "loose"
  /\ IF next \notin DOMAIN cmd.loose THEN Goto("record") /\ UNCHANGED dir
     ELSE IF Applies(cmd.loose[next], dir.out)
     THEN dir' = [dir EXCEPT !.out = AppliedTo(cmd.loose[next], dir.out)] /\ Advance
     ELSE Goto("failed") /\ UNCHANGED dir
  /\ UNCHANGED <<cmd, cancelled, record>>

\* rehashModifiedEntries.
NotRehashed(entries) == entries
Rehashed(entries) == [f \in Files |-> IF f \in Modified(cmd) THEN dir.out[f] ELSE entries[f]]

RehashRefused ==
  \E f \in Modified(cmd) :
    \/ record[f] = Absent
    \/ \E i \in DOMAIN cmd.refs :
         /\ cmd.refs[i].name = f /\ cmd.refs[i].origin = "overlay"
         /\ cmd.refs[i].hash \notin {None, dir.out[f]}

\* processSourceRef and resolveSourceHash.
RefRefused(r) ==
  \/ r.replace # (record[r.name] # Absent)
  \/ r.hash = None /\ (~cmd.noHashes \/ cmd.skip \/ dir.out[r.name] = Absent)

ResolvedHash(r) == IF r.hash = None THEN dir.out[r.name] ELSE r.hash

\* buildSourceEntries.
Merged(entries) ==
  [f \in Files |->
     IF \E i \in DOMAIN cmd.refs : cmd.refs[i].name = f
     THEN ResolvedHash(cmd.refs[CHOOSE i \in DOMAIN cmd.refs : cmd.refs[i].name = f])
     ELSE entries[f]]

\* updateSourcesFile: one write, at the end.
UpdateSourcesFile ==
  /\ pc = "record"
  /\ IF RehashRefused \/ \E i \in DOMAIN cmd.refs : RefRefused(cmd.refs[i])
     THEN Goto("failed") /\ UNCHANGED record
     ELSE record' = Merged(Rehashed(record)) /\ Goto("done")
  /\ UNCHANGED <<cmd, cancelled, dir>>

-----------------------------------------------------------------------------
Progress ==
  \/ CopyLocal \/ CopyClone \/ CopyFails \/ Extract \/ Validate
  \/ FilesEnd \/ FilesBegin \/ ToOrigin \/ Repack \/ OverlayNext \/ ApplyLoose \/ UpdateSourcesFile

\* Steps that wait for a server, git or mock, and have no timeout.
Waits == Clone \/ Download \/ Generate

Next ==
  \/ \E c \in Commands : Start(c)
  \/ Progress \/ Waits \/ StartScript \/ CheckoutFails \/ Fails \/ Interrupt \/ Kill

\* The process makes progress, except that a server, git or mock may never
\* answer: what ends such a wait for sure is the cancelled context. Nothing
\* ends the wait for a script: its output is read from pipes, the context kills
\* mock alone, and what runs in mock may hold the pipes open.
Fairness == WF_vars(Progress) /\ WF_vars(RequestFails /\ ~busy /\ Waits)

Spec == Init /\ [][Next]_vars /\ Fairness

-----------------------------------------------------------------------------
TypeOK ==
  /\ cmd \in Commands
  /\ pc \in {"idle", "fetch", "extract", "copy", "files", "overlay", "loose", "record", "done", "failed", "killed"}
  /\ next \in 1 .. NFiles + MaxLoose + 1
  /\ stage \in {"lookaside", "provider", "origin"}
  /\ attempt \in 0 .. MaxAttempts - 1
  /\ arrived \in BOOLEAN /\ busy \in BOOLEAN /\ cancelled \in BOOLEAN
  /\ dir \in [{"clone", "out"} -> Directory]
  /\ record \in Directory

\* What a successful preparation leaves in a file, before overlays: the
\* 'source-files' entry wins over a tracked file, and that over 'sources'.
Base(f) ==
  IF f \in Fetched(cmd) /\ ~cmd.skip
  THEN LET r == CHOOSE i \in DOMAIN cmd.refs : cmd.refs[i].name = f
       IN  IF cmd.refs[r].hash = None THEN Pristine ELSE {cmd.refs[r].hash}
  ELSE IF cmd.tracked[f] # Absent THEN {cmd.tracked[f]}
  ELSE IF ~cmd.skip /\ cmd.lookaside THEN {cmd.sources[f]}
  ELSE {Absent}

AfterArchives ==
  [f \in Files |-> IF f \in Modified(cmd) /\ ~cmd.plain THEN {Overlaid(c) : c \in Base(f)} ELSE Base(f)]

\* The first n overlays on loose files then apply, in their order: a directory
\* before each of them, and the one there is after the last.
LooseApplied(n) ==
  \E step \in [0 .. n -> Directory] :
    /\ step[n] = dir.out
    /\ \A f \in Files : step[0][f] \in AfterArchives[f]
    /\ \A i \in 1 .. n :
         Applies(cmd.loose[i], step[i - 1]) /\ step[i] = AppliedTo(cmd.loose[i], step[i - 1])

DirectoryExpected == LooseApplied(IF cmd.plain THEN 0 ELSE Len(cmd.loose))

\* Digests nobody compares with the file: a tracked file hides the 'sources'
\* entry of its name ("File already exists, skipping download"), and a local
\* component of a distro without a lookaside cache does not get its file.
NeverVerified(f) == f \notin Fetched(cmd) /\ (cmd.tracked[f] # Absent \/ ~cmd.lookaside)

\* With --allow-no-hashes an archive that overlays modify needs no entry of
\* overlay origin; the digest configured for the download then overwrites the
\* computed one.
DigestOverwritten(f) ==
  /\ cmd.noHashes /\ f \in cmd.overlays
  /\ \E i \in DOMAIN cmd.refs :
       cmd.refs[i].name = f /\ cmd.refs[i].origin # "overlay" /\ cmd.refs[i].hash # None

\* Overlays on loose files change no entry, and nothing stops them from
\* removing or editing an archive that is listed.
LooselyChanged(f) == \E i \in DOMAIN cmd.loose : Targets(cmd.loose[i], f)

RecordExpected ==
  ~cmd.skip /\ ~cmd.plain =>
    \A f \in Files :
      record[f] \in {Absent, dir.out[f]} \/ NeverVerified(f) \/ DigestOverwritten(f) \/ LooselyChanged(f)

\* A preparation that succeeds leaves the files its configuration determines,
\* whatever an earlier or interrupted one had left, however many attempts
\* failed and wherever each file was found; and the 'sources' file gives the
\* digests of these files as the overlays made them.
PreparedMeansExpected == pc = "done" => DirectoryExpected /\ RecordExpected

\* Outside a retry loop there is no file that has a digest and does not match
\* it: not in the clone, not in the output directory, not when every attempt
\* failed, the next place is tried, or the preparation has failed. (A tracked
\* file hides the entry of its name and is never compared with it, as said of
\* NeverVerified; a custom script's rejected output does stay, a kill may leave
\* any, and overlays on loose files change what they are told to.)
NothingUnverified ==
  ~arrived /\ attempt = 0 /\ pc # "killed" =>
    \A f \in Files, d \in {"clone", "out"} :
      LET Ok(hash) == dir[d][f] \in {Absent, hash, Overlaid(hash)}
      IN  cmd.tracked[f] = Absent /\ (~LooselyChanged(f) \/ cmd.plain) =>
            /\ cmd.sources[f] # Absent /\ f \notin Fetched(cmd) => Ok(cmd.sources[f])
            /\ \A i \in DOMAIN cmd.refs :
                 LET r == cmd.refs[i]
                 IN  r.name = f /\ r.origin = "download" /\ r.hash # None => Ok(r.hash)

\* The claim of the user guide (config/overlays.md, "the 'sources' file is
\* rehashed afterward to reflect the repacked archive"): the digest of an
\* archive that overlays modified is the repacked archive's. The code's rehash
\* is overwritten by a digest configured for the download.
RehashedAfterOverlays == pc = "done" /\ ~cmd.plain => \A f \in Modified(cmd) : record[f] = dir.out[f]

\* Ctrl-C ends a preparation, even one that waits for a server that never
\* answers, unless a script is running: that may hold on to its output after
\* mock is killed. Once it has let go, nothing is retried and nothing else is
\* begun for which the preparation could wait.
InterruptEnds == (cancelled /\ ~busy) ~> ~Running

=============================================================================
