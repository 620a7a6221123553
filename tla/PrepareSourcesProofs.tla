------------------------- MODULE PrepareSourcesProofs -------------------------
(***************************************************************************)
(* The safety properties of PrepareSources for any number of files,        *)
(* contents, attempts and overlays and any set of commands, from two       *)
(* inductive invariants: IInv, for how far the directories have got, and   *)
(* Verified, for what was compared with its digest.                        *)
(***************************************************************************)
EXTENDS PrepareSources, SequenceTheorems, TLAPS

Maybe == Pristine \cup {Absent}

\* No attempt of a retry loop has failed or is under way.
Between == attempt = 0 /\ ~arrived

\* Where the control is, and what the commands that get there have configured.
PositionShape ==
  /\ pc \in {"extract", "overlay"} => next \in 1 .. NFiles + 1
  /\ pc = "files" => next \in 1 .. Len(cmd.refs) + 1
  /\ pc = "loose" => next \in 1 .. Len(cmd.loose) + 1
  /\ pc \notin {"idle", "failed", "killed"} /\ ~cmd.plain => OverlaysValid(cmd)
  /\ pc \in {"overlay", "loose", "record"} => ~cmd.plain
  /\ pc = "extract" => ~cmd.skip /\ cmd.lookaside
  /\ pc = "copy" => cmd.src = "upstream" /\ (cmd.skip \/ cmd.lookaside)
  /\ pc = "files" => ~cmd.skip
  /\ cmd.src = "upstream" /\ pc \in {"files", "overlay", "loose", "record", "done"} => cmd.skip \/ cmd.lookaside

\* A retry loop is for a file that is to come from a server.
LoopShape ==
  /\ ~Between =>
       \/ pc = "fetch" /\ ~arrived
       \/ /\ pc = "extract" /\ next \in Files
          /\ cmd.sources[next] # Absent /\ next \notin Fetched(cmd) /\ cmd.tracked[next] = Absent
       \/ /\ pc = "files" /\ next \in DOMAIN cmd.refs /\ Here.origin = "download"
          /\ \/ stage = "lookaside" /\ cmd.lookaside /\ Here.hash # None
             \/ stage = "origin" /\ cmd.origins
  /\ arrived => dir[Where][Target] \in Pristine

\* Files are pristine until their overlays.
PristineShape ==
  /\ dir.clone \in [Files -> Maybe]
  /\ pc \in {"fetch", "extract", "copy", "files"} => dir.out \in [Files -> Maybe]
  /\ pc = "overlay" => \A f \in Files : f >= next => dir.out[f] \in Maybe

\* What the component itself brings, before its 'source-files'.
Component(f) ==
  IF cmd.tracked[f] # Absent THEN cmd.tracked[f]
  ELSE IF ~cmd.skip /\ cmd.lookaside /\ f \notin Fetched(cmd) THEN cmd.sources[f]
  ELSE Absent

\* What an entry brings.
Given(r) == IF r.hash = None THEN Pristine ELSE {r.hash}

Place == IF cmd.src = "upstream" THEN "clone" ELSE "out"

\* How far the directories have got, phase by phase.
ContentShape ==
  /\ pc = "fetch" => dir.clone = Empty /\ dir.out = Empty
  /\ pc = "extract" =>
       /\ cmd.src = "upstream" => dir.out = Empty
       /\ \A f \in Files :
            /\ f < next => dir[Place][f] = Component(f)
            /\ f > next \/ (f = next /\ Between) => dir[Place][f] = cmd.tracked[f]
  /\ pc = "copy" => dir.out = Empty /\ \A f \in Files : dir.clone[f] = Component(f)
  /\ pc = "files" =>
       /\ \A f \in Files \ Fetched(cmd) : dir.out[f] = Component(f)
       /\ \A i \in DOMAIN cmd.refs :
            i < next /\ cmd.refs[i].origin # "overlay" => dir.out[cmd.refs[i].name] \in Given(cmd.refs[i])
  /\ pc = "overlay" =>
       \A f \in Files : dir.out[f] \in IF f < next THEN AfterArchives[f] ELSE Base(f)
  /\ pc \in {"loose", "record", "done"} =>
       \A f \in Files : cmd.plain \/ ~LooselyChanged(f) => dir.out[f] \in AfterArchives[f]
  /\ pc = "loose" => LooseApplied(next - 1)
  /\ pc \in {"record", "done"} => DirectoryExpected

RecordShape ==
  /\ pc \in {"files", "overlay", "loose", "record"} \/ (pc = "extract" /\ cmd.src = "local") => record = cmd.sources
  /\ pc = "done" => RecordExpected

IInv == TypeOK /\ PositionShape /\ LoopShape /\ PristineShape /\ ContentShape /\ RecordShape

\* This file is the one a retry loop is about.
Trying(d, f) == ~Between /\ pc \in {"extract", "files"} /\ d = Where /\ f = Target

\* A content of a file that matches the digests the command has for it.
Fits(c, content, f) ==
  c.tracked[f] = Absent /\ (c.plain \/ \A i \in DOMAIN c.loose : ~Targets(c.loose[i], f)) =>
    /\ c.sources[f] # Absent /\ f \notin Fetched(c) => content \in {Absent, c.sources[f], Overlaid(c.sources[f])}
    /\ \A i \in DOMAIN c.refs :
         c.refs[i].name = f /\ c.refs[i].origin = "download" /\ c.refs[i].hash # None
         => content \in {Absent, c.refs[i].hash, Overlaid(c.refs[i].hash)}

\* Every other file matches its digests.
Verified ==
  pc # "killed" => \A f \in Files, d \in {"clone", "out"} : ~Trying(d, f) => Fits(cmd, dir[d][f], f)

-----------------------------------------------------------------------------
(* Contents and commands.                                                  *)

\* Repacked and edited files have contents too, and a repacked archive is not
\* the pristine one.
LEMMA ContentFacts ==
  /\ Pristine \subseteq Contents /\ Absent \notin Contents /\ None \notin Contents
  /\ \A c \in Pristine : Overlaid(c) \in Contents
  /\ \A c \in Contents : Overlaid(c) \notin Pristine
  /\ \A c \in Contents : Edited(c) \in Contents
<1> USE SizesAssumption, CommandsAssumption DEF Pristine, Contents, Overlaid, Edited
<1>1. Pristine \subseteq Contents /\ Absent \notin Contents /\ None \notin Contents
  OBVIOUS
<1>2. \A c \in Pristine : Overlaid(c) \in Contents
  OBVIOUS
<1>3. \A c \in Contents : Overlaid(c) \notin Pristine
  OBVIOUS
<1>4. \A c \in Contents : Edited(c) \in Contents
  OBVIOUS
<1> QED BY <1>1, <1>2, <1>3, <1>4

\* What a command may be.
LEMMA CommandFacts ==
  ASSUME NEW c \in Commands
  PROVE  /\ c.src \in {"upstream", "local"}
         /\ c.tracked \in [Files -> Maybe] /\ c.sources \in [Files -> Maybe]
         /\ Len(c.refs) \in 0 .. NFiles /\ DOMAIN c.refs = 1 .. Len(c.refs)
         /\ \A i \in DOMAIN c.refs : c.refs[i] \in Ref
         /\ c.overlays \in SUBSET Files
         /\ Len(c.loose) \in 0 .. MaxLoose /\ DOMAIN c.loose = 1 .. Len(c.loose)
         /\ \A i \in DOMAIN c.loose : c.loose[i] \in Loose
         /\ c.skip \in BOOLEAN /\ c.plain \in BOOLEAN /\ c.lookaside \in BOOLEAN
         /\ c.noHashes \in BOOLEAN /\ c.provider \in BOOLEAN /\ c.origins \in BOOLEAN
         /\ \A i, j \in DOMAIN c.refs : c.refs[i].name = c.refs[j].name => i = j
<1>1. c \in Command /\ Loads(c)
  BY CommandsAssumption
<1>2. /\ c.src \in {"upstream", "local"}
      /\ c.tracked \in Listing /\ c.sources \in Listing
      /\ c.refs \in UNION {[1 .. n -> Ref] : n \in 0 .. NFiles}
      /\ c.overlays \in SUBSET Files
      /\ c.loose \in UNION {[1 .. n -> Loose] : n \in 0 .. MaxLoose}
      /\ c.skip \in BOOLEAN /\ c.plain \in BOOLEAN /\ c.lookaside \in BOOLEAN
      /\ c.noHashes \in BOOLEAN /\ c.provider \in BOOLEAN /\ c.origins \in BOOLEAN
  BY <1>1 DEF Command
<1>3. Len(c.refs) \in 0 .. NFiles /\ c.refs \in [1 .. Len(c.refs) -> Ref]
  <2>1. PICK n \in 0 .. NFiles : c.refs \in [1 .. n -> Ref]
    BY <1>2
  <2>2. n \in Nat /\ c.refs \in Seq(Ref)
    BY <2>1, SizesAssumption, SeqDef
  <2>3. Len(c.refs) = n
    BY <2>1, <2>2, LenProperties
  <2> QED BY <2>1, <2>3
<1>4. Len(c.loose) \in 0 .. MaxLoose /\ c.loose \in [1 .. Len(c.loose) -> Loose]
  <2>1. PICK n \in 0 .. MaxLoose : c.loose \in [1 .. n -> Loose]
    BY <1>2
  <2>2. n \in Nat /\ c.loose \in Seq(Loose)
    BY <2>1, SizesAssumption, SeqDef
  <2>3. Len(c.loose) = n
    BY <2>1, <2>2, LenProperties
  <2> QED BY <2>1, <2>3
<1>5. \A i, j \in DOMAIN c.refs : c.refs[i].name = c.refs[j].name => i = j
  BY <1>1 DEF Loads
<1> QED BY <1>2, <1>3, <1>4, <1>5 DEF Listing, Maybe

\* The fields of an entry of 'source-files', and of an overlay.
LEMMA EntryFacts ==
  /\ \A r \in Ref : /\ r.name \in Files /\ r.hash \in Contents \cup {None}
                    /\ r.origin \in {"download", "custom", "overlay"} /\ r.inputs \subseteq Files
  /\ \A o \in Loose : /\ o.kind \in {"add", "remove", "rename", "edit"}
                      /\ o.file \in Files /\ o.to \in Files /\ o.content \in Pristine
BY DEF Ref, Loose

-----------------------------------------------------------------------------
(* Beginning and ending.                                                   *)

\* A phase begins with its first entry and the first attempt.
LEMMA Beginning == 1 \in 1 .. NFiles + MaxLoose + 1 /\ 0 \in 0 .. MaxAttempts - 1
BY SizesAssumption

\* Nothing has been prepared at first.
LEMMA InitIInv == Init => IInv
<1> SUFFICES ASSUME Init PROVE IInv
  OBVIOUS
<1>1. dir = [clone |-> Empty, out |-> Empty] /\ Empty \in [Files -> Maybe] /\ Empty \in Directory
  BY DEF Init, Empty, Maybe, Directory
<1>2. dir \in [{"clone", "out"} -> Directory] /\ dir.clone = Empty /\ dir.out = Empty
  BY <1>1
<1>3. TypeOK
  BY <1>1, <1>2, Beginning DEF Init, TypeOK
<1>4. PositionShape /\ LoopShape
  BY DEF Init, PositionShape, LoopShape, Between
<1>5. PristineShape /\ ContentShape /\ RecordShape
  BY <1>1, <1>2 DEF Init, PristineShape, ContentShape, RecordShape
<1> QED BY <1>3, <1>4, <1>5 DEF IInv

\* A preparation that ends without success leaves what it leaves.
LEMMA EndIInv ==
  ASSUME IInv, pc' \in {"failed", "killed"}, next' = 1, stage' = "lookaside",
         attempt' = 0, arrived' = FALSE /\ busy' = FALSE,
         cmd' \in Commands, cancelled' \in BOOLEAN, record' \in Directory,
         dir' \in [{"clone", "out"} -> Directory], dir'.clone \in [Files -> Maybe]
  PROVE  IInv'
<1>1. TypeOK'
  BY Beginning DEF TypeOK
<1>2. PositionShape' /\ LoopShape'
  BY DEF PositionShape, LoopShape, Between
<1>3. PristineShape' /\ ContentShape' /\ RecordShape'
  BY DEF PristineShape, ContentShape, RecordShape
<1> QED BY <1>1, <1>2, <1>3 DEF IInv

\* A command starts from nothing, whatever was left.
LEMMA StartIInv ==
  ASSUME NEW c \in Commands, IInv, Start(c)
  PROVE  IInv'
<1>1. dir' = [clone |-> Empty, out |-> Empty] /\ record' = Empty /\ Empty \in [Files -> Maybe] /\ Empty \in Directory
  BY DEF Start, Checked, Empty, Maybe, Directory
<1>2. dir' \in [{"clone", "out"} -> Directory] /\ dir'.clone = Empty /\ dir'.out = Empty
  BY <1>1
<1>3. /\ cmd' = c /\ cancelled' = FALSE /\ next' = 1 /\ stage' = "lookaside" /\ attempt' = 0
      /\ arrived' = FALSE /\ busy' = FALSE
      /\ pc' = IF c.plain \/ OverlaysValid(c) THEN "fetch" ELSE "failed"
  BY DEF Start, Goto, At
<1>4. CASE pc' = "failed"
  BY <1>1, <1>2, <1>3, <1>4, EndIInv
<1>5. CASE pc' = "fetch"
  <2>1. TypeOK'
    BY <1>1, <1>2, <1>3, <1>5, Beginning DEF TypeOK
  <2>2. PositionShape' /\ LoopShape'
    BY <1>3, <1>5 DEF PositionShape, LoopShape, Between
  <2>3. PristineShape' /\ ContentShape' /\ RecordShape'
    BY <1>1, <1>2, <1>5 DEF PristineShape, ContentShape, RecordShape
  <2> QED BY <2>1, <2>2, <2>3 DEF IInv
<1> QED BY <1>3, <1>4, <1>5

\* What is expected of the directories depends on the command alone.
LEMMA SameCommand ==
  ASSUME cmd' = cmd
  PROVE  /\ \A f \in Files : Base(f)' = Base(f) /\ Component(f)' = Component(f)
         /\ \A f \in Files : LooselyChanged(f)' <=> LooselyChanged(f)
         /\ AfterArchives' = AfterArchives /\ Place' = Place
BY DEF Base, Component, LooselyChanged, AfterArchives, Place

\* LooseApplied, of any directory.
AppliesInOrder(n, d, expected, loose) ==
  \E step \in [0 .. n -> Directory] :
    /\ step[n] = d
    /\ \A f \in Files : step[0][f] \in expected[f]
    /\ \A i \in 1 .. n : Applies(loose[i], step[i - 1]) /\ step[i] = AppliedTo(loose[i], step[i - 1])

\* With no overlays applied to loose files the directory is the one expected of
\* the archives.
LEMMA NoneApplied ==
  ASSUME NEW d \in Directory, NEW expected, \A f \in Files : d[f] \in expected[f], NEW loose
  PROVE  AppliesInOrder(0, d, expected, loose)
<1> DEFINE step == [i \in 0 .. 0 |-> d]
<1>1. step \in [0 .. 0 -> Directory] /\ step[0] = d
  OBVIOUS
<1>2. \A i \in 1 .. 0 : Applies(loose[i], step[i - 1]) /\ step[i] = AppliedTo(loose[i], step[i - 1])
  <2>1. 1 .. 0 = {}
    OBVIOUS
  <2> QED BY <2>1
<1> HIDE DEF step
<1> QED BY <1>1, <1>2 DEF AppliesInOrder

\* Ctrl-C and the start of a script change the context and a flag alone.
LEMMA FlagsIInv == IInv /\ (Interrupt \/ StartScript) => IInv'
<1> SUFFICES ASSUME IInv, Interrupt \/ StartScript PROVE IInv'
  OBVIOUS
<1>0. cancelled' \in BOOLEAN /\ busy' \in BOOLEAN /\ UNCHANGED <<cmd, pc, next, stage, attempt, arrived, dir, record>>
  BY DEF Interrupt, StartScript, position, IInv, TypeOK
<1>1. TypeOK'
  BY <1>0 DEF IInv, TypeOK
<1>2. PositionShape' /\ LoopShape'
  BY <1>0 DEF IInv, PositionShape, LoopShape, Between, Here, Where, Target
<1>3. PristineShape'
  BY <1>0 DEF IInv, PristineShape
<1>4. ContentShape'
  BY <1>0, SameCommand DEF IInv, ContentShape, LooseApplied, DirectoryExpected, Between
<1>5. RecordShape'
  BY <1>0 DEF IInv, RecordShape, RecordExpected, LooselyChanged, NeverVerified, DigestOverwritten
<1> QED BY <1>1, <1>2, <1>3, <1>4, <1>5 DEF IInv

\* After the fetch come the overlays, or nothing.
LEMMA AfterFetchIInv ==
  ASSUME IInv, Running, pc' = AfterFetch(cmd), next' = 1, stage' = "lookaside",
         attempt' = 0, arrived' = FALSE /\ busy' = FALSE,
         cmd' = cmd, cancelled' = cancelled, record' = cmd.sources,
         dir' \in [{"clone", "out"} -> Directory], dir'.clone \in [Files -> Maybe], dir'.out \in [Files -> Maybe],
         \A f \in Files : dir'.out[f] \in Base(f),
         cmd.src = "upstream" => cmd.skip \/ cmd.lookaside
  PROVE  IInv'
<1>0. cmd \in Commands /\ cancelled \in BOOLEAN
  BY DEF IInv, TypeOK
<1>1. record' \in Directory
  BY <1>0, CommandFacts, ContentFacts DEF Directory, Maybe
<1>2. TypeOK'
  BY <1>0, <1>1, Beginning DEF TypeOK, AfterFetch
<1>3. PositionShape' /\ LoopShape'
  BY SizesAssumption DEF IInv, PositionShape, LoopShape, Running, AfterFetch, Between
<1>4. PristineShape'
  BY DEF PristineShape, AfterFetch
<1>5. CASE cmd.plain
  <2>1. AfterArchives' = [f \in Files |-> Base(f)]
    BY <1>5, SameCommand DEF AfterArchives
  <2>2. LooseApplied(0)'
    <3>1. dir'.out \in Directory /\ \A f \in Files : dir'.out[f] \in AfterArchives'[f]
      BY <2>1
    <3> QED BY <3>1, NoneApplied DEF LooseApplied, AppliesInOrder
  <2>3. ContentShape'
    BY <1>5, <2>1, <2>2 DEF ContentShape, AfterFetch, DirectoryExpected
  <2>4. RecordShape'
    BY <1>5 DEF RecordShape, RecordExpected, AfterFetch
  <2> QED BY <1>2, <1>3, <1>4, <2>3, <2>4 DEF IInv
<1>6. CASE ~cmd.plain
  <2>1. ContentShape'
    BY <1>6, SameCommand DEF ContentShape, AfterFetch, Files
  <2>2. RecordShape'
    BY <1>6 DEF RecordShape, AfterFetch
  <2> QED BY <1>2, <1>3, <1>4, <2>1, <2>2 DEF IInv
<1> QED BY <1>5, <1>6

-----------------------------------------------------------------------------
(* The component.                                                          *)

\* Where nothing else is fetched the component is all there is to expect.
LEMMA ComponentIsBase ==
  ASSUME NEW f \in Files, f \notin Fetched(cmd) \/ cmd.skip
  PROVE  Component(f) \in Base(f)
BY DEF Component, Base

\* What the component brings is pristine.
LEMMA ComponentPristine ==
  ASSUME cmd \in Commands, NEW f \in Files
  PROVE  Component(f) \in Maybe
BY CommandFacts DEF Component, Maybe

\* The files of the component are in the output directory.
LEMMA AfterComponentIInv ==
  ASSUME IInv, Running, pc' = AfterComponent(cmd), next' = 1, stage' = "lookaside",
         attempt' = 0, arrived' = FALSE /\ busy' = FALSE,
         cmd' = cmd, cancelled' = cancelled, record' = cmd.sources,
         dir' \in [{"clone", "out"} -> Directory], dir'.clone \in [Files -> Maybe], dir'.out \in [Files -> Maybe],
         \A f \in Files : dir'.out[f] = Component(f),
         cmd.src = "upstream" => cmd.skip \/ cmd.lookaside
  PROVE  IInv'
<1>0. cmd \in Commands /\ cancelled \in BOOLEAN
  BY DEF IInv, TypeOK
<1>1. CASE cmd.skip
  <2>1. \A f \in Files : dir'.out[f] \in Base(f)
    BY <1>1, ComponentIsBase
  <2> QED BY <1>1, <2>1, AfterFetchIInv DEF AfterComponent
<1>2. CASE ~cmd.skip
  <2>1. record' \in Directory
    BY <1>0, CommandFacts, ContentFacts DEF Directory, Maybe
  <2>2. TypeOK'
    BY <1>0, <1>2, <2>1, Beginning DEF TypeOK, AfterComponent
  <2>3. PositionShape' /\ LoopShape'
    <3>1. 1 \in 1 .. Len(cmd.refs) + 1
      BY <1>0, CommandFacts, SizesAssumption
    <3> QED BY <1>2, <3>1 DEF IInv, PositionShape, LoopShape, Running, AfterComponent, Between
  <2>4. PristineShape'
    BY <1>2 DEF PristineShape, AfterComponent
  <2>5. ContentShape'
    <3>1. \A i \in DOMAIN cmd.refs : ~(i < 1)
      BY <1>0, CommandFacts
    <3> QED BY <1>2, <3>1, SameCommand DEF ContentShape, AfterComponent
  <2>6. RecordShape'
    BY <1>2 DEF RecordShape, AfterComponent
  <2> QED BY <2>2, <2>3, <2>4, <2>5, <2>6 DEF IInv
<1> QED BY <1>0, <1>1, <1>2, CommandFacts

\* The directories, while files are pristine.
LEMMA DirectoriesPristine ==
  ASSUME IInv, pc \in {"fetch", "extract", "copy", "files"}
  PROVE  /\ dir \in [{"clone", "out"} -> Directory] /\ [Files -> Maybe] \subseteq Directory
         /\ dir.clone \in [Files -> Maybe] /\ dir.out \in [Files -> Maybe]
         /\ Empty \in [Files -> Maybe] /\ cmd \in Commands /\ record \in Directory
         /\ cancelled \in BOOLEAN
<1>1. [Files -> Maybe] \subseteq Directory
  BY ContentFacts DEF Directory, Maybe
<1> QED BY <1>1 DEF IInv, TypeOK, PristineShape, Empty, Maybe

\* A kill, and the failures that have no clean-up.
LEMMA EndingsIInv == IInv /\ (Kill \/ Fails \/ CheckoutFails) => IInv'
<1> SUFFICES ASSUME IInv, Kill \/ Fails \/ CheckoutFails PROVE IInv'
  OBVIOUS
<1>1. /\ pc' \in {"failed", "killed"} /\ next' = 1 /\ stage' = "lookaside" /\ attempt' = 0
      /\ arrived' = FALSE /\ busy' = FALSE
      /\ UNCHANGED <<cmd, cancelled, dir, record>>
  BY DEF Kill, Fails, CheckoutFails, Goto, At
<1> QED BY <1>1, EndIInv DEF IInv, TypeOK, PristineShape

\* The next attempt of a retry loop.
LEMMA AgainType ==
  ASSUME TypeOK, ~GivesUp
  PROVE  attempt + 1 \in 0 .. MaxAttempts - 1 /\ attempt + 1 # 0
BY SizesAssumption DEF TypeOK, GivesUp

\* The upstream repository is cloned.
LEMMA CloneIInv == IInv /\ Clone => IInv'
<1> SUFFICES ASSUME IInv, Clone PROVE IInv'
  OBVIOUS
<1>0. pc = "fetch" /\ cmd.src = "upstream" /\ UNCHANGED <<cmd, cancelled, record>> /\ dir.clone = Empty /\ dir.out = Empty
  BY DEF Clone, IInv, ContentShape
<1>1. /\ dir \in [{"clone", "out"} -> Directory] /\ [Files -> Maybe] \subseteq Directory
      /\ Empty \in [Files -> Maybe] /\ cmd \in Commands /\ record \in Directory
      /\ cancelled \in BOOLEAN /\ cmd.tracked \in [Files -> Maybe]
      /\ cmd.skip \in BOOLEAN /\ cmd.lookaside \in BOOLEAN
  BY <1>0, DirectoriesPristine, CommandFacts
<1>2. CASE ~RequestFails /\ dir' = [dir EXCEPT !.clone = cmd.tracked]
           /\ Goto(IF cmd.skip THEN "copy" ELSE IF cmd.lookaside THEN "extract" ELSE "failed")
  <2>1. /\ dir' \in [{"clone", "out"} -> Directory] /\ dir'.clone = cmd.tracked /\ dir'.out = Empty
        /\ next' = 1 /\ stage' = "lookaside" /\ attempt' = 0 /\ arrived' = FALSE /\ busy' = FALSE
        /\ pc' = IF cmd.skip THEN "copy" ELSE IF cmd.lookaside THEN "extract" ELSE "failed"
    BY <1>0, <1>1, <1>2 DEF Goto, At
  <2>2. CASE pc' = "failed"
    BY <1>0, <1>1, <2>1, <2>2, EndIInv
  <2>3. CASE pc' # "failed"
    <3>0. (pc' = "copy" /\ cmd.skip) \/ (pc' = "extract" /\ ~cmd.skip /\ cmd.lookaside)
      <4>1. CASE cmd.skip
        <5>1. pc' = "copy"
          BY <2>1, <4>1
        <5> QED BY <4>1, <5>1
      <4>2. CASE ~cmd.skip /\ cmd.lookaside
        <5>1. pc' = "extract"
          BY <2>1, <4>2
        <5> QED BY <4>2, <5>1
      <4>3. CASE ~cmd.skip /\ ~cmd.lookaside
        BY <2>1, <2>3, <4>3
      <4> QED BY <4>1, <4>2, <4>3
    <3>1. TypeOK'
      BY <1>0, <1>1, <2>1, <3>0, Beginning DEF TypeOK
    <3>2. PositionShape' /\ LoopShape'
      BY <1>0, <2>1, <3>0, SizesAssumption DEF IInv, PositionShape, LoopShape, Between
    <3>3. PristineShape'
      BY <1>1, <2>1, <3>0 DEF PristineShape
    <3>4. ContentShape'
      <4>1. CASE pc' = "copy"
        <5>1. \A f \in Files : Component(f) = cmd.tracked[f]
          BY <3>0, <4>1 DEF Component
        <5> QED BY <1>0, <2>1, <4>1, <5>1, SameCommand DEF ContentShape
      <4>2. CASE pc' = "extract"
        <5>1. Place' = "clone" /\ \A f \in Files : ~(f < 1)
          BY <1>0 DEF Place, Files
        <5> QED BY <1>0, <2>1, <4>2, <5>1 DEF ContentShape
      <4> QED BY <3>0, <4>1, <4>2
    <3>5. RecordShape'
      BY <1>0, <3>0 DEF RecordShape
    <3> QED BY <3>1, <3>2, <3>3, <3>4, <3>5 DEF IInv
  <2> QED BY <2>2, <2>3
<1>3. CASE GivesUp /\ Goto("failed") /\ UNCHANGED dir
  BY <1>0, <1>1, <1>3, EndIInv DEF Goto, At
<1>4. CASE ~GivesUp /\ Again /\ UNCHANGED dir
  <2>1. attempt' \in 0 .. MaxAttempts - 1 /\ arrived' = FALSE /\ busy' = FALSE /\ UNCHANGED <<pc, next, stage>>
    BY <1>4, AgainType DEF Again, IInv
  <2>2. TypeOK'
    BY <1>0, <1>4, <2>1 DEF IInv, TypeOK
  <2>3. PositionShape' /\ LoopShape'
    BY <1>0, <1>4, <2>1 DEF IInv, PositionShape, LoopShape
  <2>4. PristineShape' /\ ContentShape' /\ RecordShape'
    BY <1>0, <1>4, <2>1 DEF IInv, PristineShape, ContentShape, RecordShape
  <2> QED BY <2>2, <2>3, <2>4 DEF IInv
<1> QED BY <1>2, <1>3, <1>4 DEF Clone

\* Copying into an empty directory copies, and nothing copied onto a directory
\* leaves it as it is.
LEMMA OntoEmpty ==
  ASSUME NEW d \in [Files -> Maybe]
  PROVE  Onto(d, Empty) = d /\ Onto(Empty, d) = d
BY DEF Onto, Empty

\* The local sources are copied.
LEMMA CopyLocalIInv == IInv /\ CopyLocal => IInv'
<1> SUFFICES ASSUME IInv, CopyLocal PROVE IInv'
  OBVIOUS
<1>0. pc = "fetch" /\ cmd.src = "local" /\ UNCHANGED <<cmd, cancelled>> /\ dir.clone = Empty /\ dir.out = Empty
      /\ record' = cmd.sources
  BY DEF CopyLocal, IInv, ContentShape
<1>1. /\ dir \in [{"clone", "out"} -> Directory] /\ [Files -> Maybe] \subseteq Directory
      /\ Empty \in [Files -> Maybe] /\ cmd \in Commands
      /\ cancelled \in BOOLEAN /\ cmd.tracked \in [Files -> Maybe] /\ cmd.sources \in [Files -> Maybe]
      /\ cmd.skip \in BOOLEAN /\ cmd.lookaside \in BOOLEAN
  BY <1>0, DirectoriesPristine, CommandFacts
<1>2. dir' = [dir EXCEPT !.out = cmd.tracked]
  BY <1>0, <1>1, OntoEmpty DEF CopyLocal
<1>3. /\ dir' \in [{"clone", "out"} -> Directory] /\ dir'.clone = Empty /\ dir'.out = cmd.tracked
      /\ next' = 1 /\ stage' = "lookaside" /\ attempt' = 0 /\ arrived' = FALSE /\ busy' = FALSE
      /\ pc' = IF ~cmd.skip /\ cmd.lookaside THEN "extract" ELSE AfterComponent(cmd)
  BY <1>0, <1>1, <1>2 DEF CopyLocal, Goto, At
<1>4. CASE ~cmd.skip /\ cmd.lookaside
  <2>0. pc' = "extract"
    BY <1>3, <1>4
  <2>1. TypeOK'
    BY <1>0, <1>1, <1>3, <2>0, Beginning DEF TypeOK
  <2>2. PositionShape' /\ LoopShape'
    BY <1>0, <1>3, <1>4, <2>0, SizesAssumption DEF IInv, PositionShape, LoopShape, Between
  <2>3. PristineShape'
    BY <1>1, <1>3, <2>0 DEF PristineShape
  <2>4. ContentShape'
    <3>1. Place' = "out" /\ \A f \in Files : ~(f < 1)
      BY <1>0 DEF Place, Files
    <3> QED BY <1>0, <1>3, <2>0, <3>1 DEF ContentShape
  <2>5. RecordShape'
    BY <1>0, <2>0 DEF RecordShape
  <2> QED BY <2>1, <2>2, <2>3, <2>4, <2>5 DEF IInv
<1>5. CASE cmd.skip \/ ~cmd.lookaside
  <2>1. \A f \in Files : Component(f) = cmd.tracked[f]
    BY <1>5 DEF Component
  <2> QED BY <1>0, <1>1, <1>3, <1>5, <2>1, AfterComponentIInv DEF Running
<1> QED BY <1>1, <1>4, <1>5

\* The clone is copied.
LEMMA CopyCloneIInv == IInv /\ CopyClone => IInv'
<1> SUFFICES ASSUME IInv, CopyClone PROVE IInv'
  OBVIOUS
<1>0. /\ pc = "copy" /\ UNCHANGED <<cmd, cancelled>> /\ record' = cmd.sources /\ dir.out = Empty
      /\ \A f \in Files : dir.clone[f] = Component(f)
      /\ cmd.skip \/ cmd.lookaside
  BY DEF CopyClone, IInv, ContentShape, PositionShape
<1>1. /\ [Files -> Maybe] \subseteq Directory /\ Empty \in [Files -> Maybe] /\ dir.clone \in [Files -> Maybe]
  BY <1>0, DirectoriesPristine
<1>2. dir' = [clone |-> Empty, out |-> dir.clone]
  BY <1>0, <1>1, OntoEmpty DEF CopyClone
<1>3. /\ dir' \in [{"clone", "out"} -> Directory] /\ dir'.clone = Empty /\ dir'.out = dir.clone
      /\ next' = 1 /\ stage' = "lookaside" /\ attempt' = 0 /\ arrived' = FALSE /\ busy' = FALSE /\ pc' = AfterComponent(cmd)
  BY <1>1, <1>2 DEF CopyClone, Goto, At
<1> QED BY <1>0, <1>1, <1>3, AfterComponentIInv DEF Running

\* A copy breaks off.
LEMMA CopyFailsIInv == IInv /\ CopyFails => IInv'
<1> SUFFICES ASSUME IInv, CopyFails PROVE IInv'
  OBVIOUS
<1>0. pc \in {"copy", "fetch"} /\ UNCHANGED <<cmd, cancelled, record>>
      /\ pc' = "failed" /\ next' = 1 /\ stage' = "lookaside" /\ attempt' = 0 /\ arrived' = FALSE /\ busy' = FALSE
  BY DEF CopyFails, Goto, At
<1>1. /\ [Files -> Maybe] \subseteq Directory /\ Empty \in [Files -> Maybe] /\ cmd \in Commands
      /\ dir.clone \in [Files -> Maybe] /\ dir.out \in [Files -> Maybe] /\ cmd.tracked \in [Files -> Maybe]
      /\ record \in Directory /\ cancelled \in BOOLEAN
  BY <1>0, DirectoriesPristine, CommandFacts
<1>2. PICK done \in SUBSET Files :
        LET from == IF pc = "copy" THEN dir.clone ELSE cmd.tracked
            some == [f \in Files |-> IF f \in done THEN from[f] ELSE Absent]
        IN  dir' = [clone |-> Empty, out |-> Onto(some, dir.out)]
  BY DEF CopyFails
<1> DEFINE from == IF pc = "copy" THEN dir.clone ELSE cmd.tracked
           some == [f \in Files |-> IF f \in done THEN from[f] ELSE Absent]
<1>3. some \in [Files -> Maybe]
  BY <1>1 DEF Maybe
<1>4. Onto(some, dir.out) \in [Files -> Maybe]
  BY <1>1, <1>3 DEF Onto
<1>5. dir' = [clone |-> Empty, out |-> Onto(some, dir.out)]
  BY <1>2
<1>6. dir' \in [{"clone", "out"} -> Directory] /\ dir'.clone = Empty
  BY <1>1, <1>4, <1>5
<1> QED BY <1>0, <1>1, <1>6, EndIInv

-----------------------------------------------------------------------------
(* Retry loops.                                                            *)

\* What a download may be for.
Sought ==
  \/ /\ pc = "extract" /\ next \in Files
     /\ cmd.sources[next] # Absent /\ next \notin Fetched(cmd) /\ cmd.tracked[next] = Absent
  \/ /\ pc = "files" /\ next \in DOMAIN cmd.refs /\ Here.origin = "download"
     /\ \/ stage = "lookaside" /\ cmd.lookaside /\ Here.hash # None
        \/ stage = "origin" /\ cmd.origins

\* The names of the entries that are fetched.
LEMMA HereFetched ==
  ASSUME cmd \in Commands, next \in DOMAIN cmd.refs
  PROVE  /\ Here.name \in Files /\ Here.hash \in Contents \cup {None}
         /\ Here.origin \in {"download", "custom", "overlay"} /\ Here.inputs \subseteq Files
         /\ Here.origin # "overlay" => Here.name \in Fetched(cmd)
         /\ \A i \in DOMAIN cmd.refs : i # next => cmd.refs[i].name # Here.name
<1>1. Here \in Ref
  BY CommandFacts DEF Here
<1> QED BY <1>1, CommandFacts, EntryFacts DEF Here, Fetched, OfOrigin

\* A step that changes one file: the one a download is for, or the output of a
\* script.
LEMMA PutFrame ==
  ASSUME IInv, NEW c \in Maybe,
         \/ Sought /\ dir' = [dir EXCEPT ![Where][Target] = c]
         \/ /\ pc = "files" /\ next \in DOMAIN cmd.refs /\ Here.origin = "custom"
            /\ dir' = [dir EXCEPT !.out[Here.name] = c]
  PROVE  /\ dir' \in [{"clone", "out"} -> Directory]
         /\ dir'.clone \in [Files -> Maybe] /\ dir'.out \in [Files -> Maybe]
         /\ Sought => dir'[Where][Target] = c
         /\ pc = "extract" =>
              /\ \A f \in Files \ {next} : dir'[Place][f] = dir[Place][f]
              /\ cmd.src = "upstream" => dir'.out = dir.out
         /\ pc = "files" =>
              /\ dir'.out[Here.name] = c
              /\ \A f \in Files \ Fetched(cmd) : dir'.out[f] = dir.out[f]
              /\ \A i \in DOMAIN cmd.refs : i # next => dir'.out[cmd.refs[i].name] = dir.out[cmd.refs[i].name]
<1>0. /\ dir \in [{"clone", "out"} -> Directory] /\ [Files -> Maybe] \subseteq Directory
      /\ dir.clone \in [Files -> Maybe] /\ dir.out \in [Files -> Maybe] /\ cmd \in Commands
      /\ cmd.src \in {"upstream", "local"}
  BY DirectoriesPristine, CommandFacts DEF Sought
<1>1. CASE pc = "extract"
  <2>0. Sought /\ Target = next /\ next \in Files /\ Where = Place /\ Place \in {"clone", "out"}
    BY <1>0, <1>1 DEF Sought, Target, Where, Place
  <2>1. dir' = [dir EXCEPT ![Place] = [dir[Place] EXCEPT ![next] = c]]
    BY <1>1, <2>0
  <2>2. [dir[Place] EXCEPT ![next] = c] \in [Files -> Maybe]
    BY <1>0, <2>0
  <2>3. /\ dir'[Place] = [dir[Place] EXCEPT ![next] = c]
        /\ dir' \in [{"clone", "out"} -> Directory]
        /\ dir'.clone \in [Files -> Maybe] /\ dir'.out \in [Files -> Maybe]
        /\ cmd.src = "upstream" => dir'.out = dir.out
    BY <1>0, <2>0, <2>1, <2>2 DEF Place
  <2> QED BY <1>0, <1>1, <2>0, <2>3
<1>2. CASE pc = "files"
  <2>0. next \in DOMAIN cmd.refs /\ Here.name \in Files /\ Here.name \in Fetched(cmd)
        /\ \A i \in DOMAIN cmd.refs : i # next => cmd.refs[i].name # Here.name
    BY <1>0, <1>2, HereFetched DEF Sought
  <2>1. Where = "out" /\ Target = Here.name
    BY <1>2 DEF Where, Target
  <2>2. dir' = [dir EXCEPT !.out = [dir.out EXCEPT ![Here.name] = c]]
    BY <1>2, <2>1
  <2>3. [dir.out EXCEPT ![Here.name] = c] \in [Files -> Maybe]
    BY <1>0, <2>0
  <2>4. /\ dir'.out = [dir.out EXCEPT ![Here.name] = c]
        /\ dir' \in [{"clone", "out"} -> Directory]
        /\ dir'.clone \in [Files -> Maybe] /\ dir'.out \in [Files -> Maybe]
    BY <1>0, <2>2, <2>3
  <2>5. \A i \in DOMAIN cmd.refs : cmd.refs[i].name \in Files
    BY <1>0, CommandFacts, EntryFacts
  <2> QED BY <1>0, <1>2, <2>0, <2>1, <2>4, <2>5
<1> QED BY <1>1, <1>2 DEF Sought

\* A step within a retry loop: the file is written, or removed, or the next
\* attempt is due.
LEMMA LoopIInv ==
  ASSUME IInv, Sought, NEW c \in Maybe,
         dir' = [dir EXCEPT ![Where][Target] = c],
         UNCHANGED <<cmd, cancelled, record, pc, next, stage>>,
         attempt' \in 0 .. MaxAttempts - 1, arrived' \in BOOLEAN, busy' \in BOOLEAN,
         attempt' # 0 \/ arrived', arrived' => c \in Pristine
  PROVE  IInv'
<1>0. /\ dir' \in [{"clone", "out"} -> Directory]
      /\ dir'.clone \in [Files -> Maybe] /\ dir'.out \in [Files -> Maybe]
      /\ dir'[Where][Target] = c
      /\ pc = "extract" =>
           /\ \A f \in Files \ {next} : dir'[Place][f] = dir[Place][f]
           /\ cmd.src = "upstream" => dir'.out = dir.out
      /\ pc = "files" =>
           /\ \A f \in Files \ Fetched(cmd) : dir'.out[f] = dir.out[f]
           /\ \A i \in DOMAIN cmd.refs : i # next => dir'.out[cmd.refs[i].name] = dir.out[cmd.refs[i].name]
  BY PutFrame
<1>1. TypeOK'
  BY <1>0 DEF IInv, TypeOK
<1>2. PositionShape'
  BY DEF IInv, PositionShape
<1>3. LoopShape'
  <2>1. Where' = Where /\ Target' = Target /\ Here' = Here
    BY DEF Where, Target, Here
  <2>2. Sought'
    BY <2>1 DEF Sought
  <2>3. arrived' => dir'[Where'][Target'] \in Pristine
    BY <1>0, <2>1
  <2> QED BY <2>2, <2>3 DEF LoopShape, Sought
<1>4. PristineShape'
  BY <1>0 DEF PristineShape, Sought
<1>5. ContentShape'
  <2>0. ~Between'
    BY DEF Between
  <2>1. CASE pc = "extract"
    <3>1. \A f \in Files : (f < next => f # next) /\ (f > next => f # next)
      BY <2>1 DEF Sought, Files
    <3> QED BY <1>0, <2>0, <2>1, <3>1, SameCommand DEF IInv, ContentShape
  <2>2. CASE pc = "files"
    <3>1. \A i \in DOMAIN cmd.refs : i < next => i # next
      BY <2>2, CommandFacts DEF IInv, TypeOK, Sought
    <3>2. \A f \in Files \ Fetched(cmd) : dir'.out[f] = Component(f)
      BY <1>0, <2>2 DEF IInv, ContentShape
    <3>3. \A i \in DOMAIN cmd.refs :
            i < next /\ cmd.refs[i].origin # "overlay" => dir'.out[cmd.refs[i].name] \in Given(cmd.refs[i])
      BY <1>0, <2>2, <3>1 DEF IInv, ContentShape
    <3>4. pc' = "files" /\ next' = next /\ cmd' = cmd
      BY <2>2
    <3> QED BY <3>2, <3>3, <3>4, SameCommand DEF ContentShape, Given
  <2> QED BY <2>1, <2>2 DEF Sought
<1>6. RecordShape'
  BY DEF IInv, RecordShape, Sought
<1> QED BY <1>1, <1>2, <1>3, <1>4, <1>5, <1>6 DEF IInv

\* Control moves on to another stage of the entry; the file may be gone.
LEMMA StageIInv ==
  ASSUME IInv, pc = "files", next \in DOMAIN cmd.refs,
         \/ UNCHANGED dir
         \/ Sought /\ dir' = [dir EXCEPT ![Where][Target] = Absent],
         UNCHANGED <<cmd, cancelled, record, pc, next>>,
         stage' \in {"provider", "origin"}, attempt' = 0, arrived' = FALSE /\ busy' = FALSE
  PROVE  IInv'
<1>0. /\ dir' \in [{"clone", "out"} -> Directory]
      /\ dir'.clone \in [Files -> Maybe] /\ dir'.out \in [Files -> Maybe]
      /\ \A f \in Files \ Fetched(cmd) : dir'.out[f] = dir.out[f]
      /\ \A i \in DOMAIN cmd.refs : i # next => dir'.out[cmd.refs[i].name] = dir.out[cmd.refs[i].name]
  <2>1. CASE UNCHANGED dir
    BY <2>1, DirectoriesPristine
  <2>2. CASE Sought /\ dir' = [dir EXCEPT ![Where][Target] = Absent]
    <3>1. Absent \in Maybe
      BY DEF Maybe
    <3> QED BY <2>2, <3>1, PutFrame
  <2> QED BY <2>1, <2>2
<1>1. TypeOK'
  BY <1>0, Beginning DEF IInv, TypeOK
<1>2. PositionShape' /\ LoopShape'
  BY DEF IInv, PositionShape, LoopShape, Between
<1>3. PristineShape'
  BY <1>0 DEF PristineShape
<1>4. ContentShape'
  <2>1. \A i \in DOMAIN cmd.refs : i < next => i # next
    BY CommandFacts DEF IInv, TypeOK
  <2> QED BY <1>0, <2>1, SameCommand DEF IInv, ContentShape, Given
<1>5. RecordShape'
  BY DEF IInv, RecordShape
<1> QED BY <1>1, <1>2, <1>3, <1>4, <1>5 DEF IInv

\* The loop ends without the file.
LEMMA GiveUpIInv ==
  ASSUME IInv, Sought, GiveUp, UNCHANGED <<cmd, cancelled, record>>
  PROVE  IInv'
<1>1. dir' = [dir EXCEPT ![Where][Target] = Absent] /\ Absent \in Maybe
  BY DEF GiveUp, RemoveFile, Put, Maybe
<1>2. CASE pc = "files" /\ stage = "lookaside"
  BY <1>1, <1>2, StageIInv DEF GiveUp, At, Sought
<1>3. CASE ~(pc = "files" /\ stage = "lookaside")
  <2>1. dir' \in [{"clone", "out"} -> Directory] /\ dir'.clone \in [Files -> Maybe]
    BY <1>1, PutFrame
  <2> QED BY <1>3, <2>1, EndIInv DEF GiveUp, Goto, At, IInv, TypeOK
<1> QED BY <1>2, <1>3

\* What is downloaded is sought.
LEMMA DownloadsSought ==
  ASSUME IInv, ~arrived, Downloads
  PROVE  Sought
<1>1. CASE pc = "files"
  BY <1>1 DEF Downloads, Sought
<1>2. CASE pc = "extract"
  <2>1. next \in Files
    BY <1>2 DEF IInv, PositionShape, Downloads, Files
  <2>2. CASE attempt > 0
    BY <1>2, <2>2 DEF IInv, TypeOK, LoopShape, Between, Sought
  <2>3. CASE ~ExtractSkips(next) /\ ~(attempt > 0)
    <3>1. Between
      BY <2>3, SizesAssumption DEF IInv, TypeOK, Between
    <3>2. dir[Place][next] = cmd.tracked[next]
      BY <1>2, <2>1, <3>1 DEF IInv, ContentShape
    <3> QED BY <1>2, <2>1, <2>3, <3>2 DEF ExtractSkips, Place, Sought
  <2> QED BY <1>2, <2>2, <2>3 DEF Downloads
<1> QED BY <1>1, <1>2 DEF Downloads

\* An attempt to download.
LEMMA DownloadIInv == IInv /\ Download => IInv'
<1> SUFFICES ASSUME IInv, Download PROVE IInv'
  OBVIOUS
<1>0. Sought /\ ~arrived /\ UNCHANGED <<cmd, cancelled, record>> /\ attempt \in 0 .. MaxAttempts - 1 /\ busy \in BOOLEAN
  BY DownloadsSought DEF Download, IInv, TypeOK
<1>1. CASE /\ ~RequestFails
           /\ \E c \in Pristine : Put(c)
           /\ arrived' = TRUE
           /\ UNCHANGED <<pc, next, stage, attempt, busy>>
  <2>1. PICK c \in Pristine : Put(c)
    BY <1>1
  <2> QED BY <1>0, <1>1, <2>1, LoopIInv DEF Put, Maybe
<1>2. CASE GivesUp /\ GiveUp
  BY <1>0, <1>2, GiveUpIInv
<1>3. CASE ~GivesUp /\ Put(Absent) /\ Again
  BY <1>0, <1>3, AgainType, LoopIInv DEF Put, Again, Maybe, IInv
<1> QED BY <1>1, <1>2, <1>3 DEF Download

\* Files are left alone and control moves on to the next entry.
LEMMA AdvanceIInv ==
  ASSUME IInv, UNCHANGED <<cmd, cancelled, record, dir>>, Advance,
         \/ pc = "extract" /\ next \in Files /\ dir[Place][next] = Component(next)
         \/ /\ pc = "files" /\ next \in DOMAIN cmd.refs
            /\ Here.origin # "overlay" => dir.out[Here.name] \in Given(Here)
  PROVE  IInv'
<1>0. /\ pc' = pc /\ next' = next + 1 /\ stage' = "lookaside" /\ attempt' = 0 /\ arrived' = FALSE /\ busy' = FALSE
      /\ cmd \in Commands
  BY DEF Advance, At, IInv, TypeOK
<1>1. PositionShape' /\ LoopShape'
  <2>1. pc = "files" => next + 1 \in 1 .. Len(cmd.refs) + 1
    BY <1>0, CommandFacts
  <2>2. pc = "extract" => next + 1 \in 1 .. NFiles + 1
    BY SizesAssumption DEF Files
  <2> QED BY <1>0, <2>1, <2>2 DEF IInv, PositionShape, LoopShape, Between
<1>2. TypeOK'
  <2>1. next + 1 \in 1 .. NFiles + MaxLoose + 1
    <3>1. CASE pc = "files"
      <4>1. next \in 1 .. Len(cmd.refs) /\ Len(cmd.refs) \in 0 .. NFiles
        BY <1>0, <3>1, CommandFacts
      <4> QED BY <4>1, SizesAssumption
    <3>2. CASE pc = "extract"
      BY <3>2, SizesAssumption DEF Files
    <3> QED BY <3>1, <3>2
  <2> QED BY <1>0, <2>1, Beginning DEF IInv, TypeOK
<1>3. PristineShape' /\ RecordShape'
  BY <1>0 DEF IInv, PristineShape, RecordShape
<1>4. ContentShape'
  <2>1. CASE pc = "extract"
    <3>1. \A f \in Files : f < next + 1 => f < next \/ f = next
      BY <2>1 DEF Files
    <3>2. \A f \in Files : f > next + 1 \/ f = next + 1 => f > next
      BY <2>1 DEF Files
    <3> QED BY <1>0, <2>1, <3>1, <3>2, SameCommand DEF IInv, ContentShape
  <2>2. CASE pc = "files"
    <3>1. \A i \in DOMAIN cmd.refs : i < next + 1 => i < next \/ i = next
      BY <1>0, <2>2, CommandFacts
    <3> QED BY <1>0, <2>2, <3>1, SameCommand DEF IInv, ContentShape, Given, Here
  <2> QED BY <2>1, <2>2
<1> QED BY <1>1, <1>2, <1>3, <1>4 DEF IInv

\* What has arrived is compared with its digest.
LEMMA ValidateIInv == IInv /\ Validate => IInv'
<1> SUFFICES ASSUME IInv, Validate PROVE IInv'
  OBVIOUS
<1>0. Sought /\ UNCHANGED <<cmd, cancelled, record>> /\ dir[Where][Target] \in Pristine /\ cmd \in Commands
  BY DEF Validate, IInv, TypeOK, LoopShape, Between, Sought
<1>1. CASE (Expected = None \/ dir[Where][Target] = Expected) /\ Advance /\ UNCHANGED dir
  <2>1. CASE pc = "extract"
    <3>1. Where = Place /\ Target = next /\ Expected = cmd.sources[next]
      BY <2>1 DEF Where, Place, Target, Expected
    <3>2. cmd.sources[next] # None
      BY <1>0, <2>1, CommandFacts, ContentFacts DEF Sought, Maybe
    <3>3. Component(next) = cmd.sources[next]
      BY <1>0, <2>1 DEF IInv, PositionShape, Sought, Component
    <3> QED BY <1>0, <1>1, <2>1, <3>1, <3>2, <3>3, AdvanceIInv DEF Sought
  <2>2. CASE pc = "files"
    <3>1. Where = "out" /\ Target = Here.name /\ Expected = Here.hash
      BY <2>2 DEF Where, Target, Expected
    <3> QED BY <1>0, <1>1, <2>2, <3>1, AdvanceIInv DEF Sought, Given
  <2> QED BY <1>0, <2>1, <2>2 DEF Sought
<1>2. CASE GivesUp /\ GiveUp
  BY <1>0, <1>2, GiveUpIInv
<1>3. CASE ~GivesUp /\ Again /\ UNCHANGED dir
  <2>1. dir = [dir EXCEPT ![Where][Target] = dir[Where][Target]]
    BY DEF IInv, TypeOK, Directory
  <2> QED BY <1>0, <1>3, <2>1, AgainType, LoopIInv DEF Again, Maybe, IInv
<1> QED BY <1>1, <1>2, <1>3 DEF Validate

-----------------------------------------------------------------------------
(* Between the downloads.                                                  *)

\* The next entry of the lookaside cache, or the end of them.
LEMMA ExtractIInv == IInv /\ Extract => IInv'
<1> SUFFICES ASSUME IInv, Extract PROVE IInv'
  OBVIOUS
<1>0. /\ pc = "extract" /\ Between /\ UNCHANGED <<cmd, cancelled, dir, record>> /\ cmd \in Commands
      /\ next \in 1 .. NFiles + 1 /\ ~cmd.skip /\ cmd.lookaside
  BY DEF Extract, Between, IInv, TypeOK, PositionShape
<1>1. CASE next > NFiles /\ Goto(IF cmd.src = "upstream" THEN "copy" ELSE "files")
  <2>0. /\ next' = 1 /\ stage' = "lookaside" /\ attempt' = 0 /\ arrived' = FALSE /\ busy' = FALSE
        /\ \A f \in Files : dir[Place][f] = Component(f)
    <3>1. \A f \in Files : f < next
      BY <1>0, <1>1, SizesAssumption DEF Files
    <3> QED BY <1>0, <1>1, <3>1 DEF Goto, At, IInv, ContentShape
  <2>1. CASE cmd.src = "local"
    <3>1. pc' = AfterComponent(cmd) /\ record' = cmd.sources /\ \A f \in Files : dir'.out[f] = Component(f)
      BY <1>0, <1>1, <2>0, <2>1 DEF Goto, At, AfterComponent, IInv, RecordShape, Place
    <3> QED BY <1>0, <2>0, <2>1, <3>1, DirectoriesPristine, AfterComponentIInv DEF Running
  <2>2. CASE cmd.src = "upstream"
    <3>0. pc' = "copy" /\ \A f \in Files : dir'.clone[f] = Component(f) /\ dir'.out = Empty
      BY <1>0, <1>1, <2>0, <2>2 DEF Goto, At, IInv, ContentShape, Place
    <3>1. TypeOK'
      BY <1>0, <2>0, <3>0, Beginning DEF IInv, TypeOK
    <3>2. PositionShape' /\ LoopShape'
      BY <1>0, <2>0, <2>2, <3>0 DEF IInv, PositionShape, LoopShape, Between
    <3>3. PristineShape'
      BY <1>0, <3>0 DEF IInv, PristineShape
    <3>4. ContentShape'
      <4>1. dir'.out = Empty
        BY <1>0, <2>2 DEF IInv, ContentShape
      <4> QED BY <1>0, <3>0, <4>1, SameCommand DEF ContentShape
    <3>5. RecordShape'
      BY <2>2, <3>0, <1>0 DEF RecordShape
    <3> QED BY <3>1, <3>2, <3>3, <3>4, <3>5 DEF IInv
  <2> QED BY <1>0, <2>1, <2>2, CommandFacts
<1>2. CASE next <= NFiles /\ ExtractSkips(next) /\ Advance
  <2>1. next \in Files /\ dir[Place][next] = cmd.tracked[next]
    BY <1>0, <1>2 DEF Files, IInv, ContentShape
  <2>2. Component(next) = cmd.tracked[next]
    <3>1. cmd.sources[next] = Absent \/ next \in Fetched(cmd) \/ cmd.tracked[next] # Absent
      BY <1>2, <2>1 DEF ExtractSkips, Place
    <3> QED BY <1>0, <3>1 DEF Component
  <2> QED BY <1>0, <1>2, <2>1, <2>2, AdvanceIInv
<1> QED BY <1>0, <1>1, <1>2, SizesAssumption DEF Extract

\* What an entry brings is what is expected of its file.
LEMMA GivenIsBase ==
  ASSUME cmd \in Commands, ~cmd.skip, NEW i \in DOMAIN cmd.refs, cmd.refs[i].origin # "overlay"
  PROVE  Given(cmd.refs[i]) = Base(cmd.refs[i].name) /\ cmd.refs[i].name \in Fetched(cmd)
<1>1. cmd.refs[i] \in Ref
  BY CommandFacts
<1>2. cmd.refs[i].name \in Fetched(cmd)
  BY <1>1, EntryFacts DEF Fetched, OfOrigin
<1>3. (CHOOSE r \in DOMAIN cmd.refs : cmd.refs[r].name = cmd.refs[i].name) = i
  <2>1. \A r \in DOMAIN cmd.refs : cmd.refs[r].name = cmd.refs[i].name => r = i
    BY CommandFacts
  <2> QED BY <2>1
<1> QED BY <1>2, <1>3 DEF Given, Base

\* All entries are fetched.
LEMMA FilesEndIInv == IInv /\ FilesEnd => IInv'
<1> SUFFICES ASSUME IInv, FilesEnd PROVE IInv'
  OBVIOUS
<1>0. /\ pc = "files" /\ next \notin DOMAIN cmd.refs /\ UNCHANGED <<cmd, cancelled, dir, record>>
      /\ cmd \in Commands /\ ~cmd.skip /\ record = cmd.sources
      /\ cmd.src = "upstream" => cmd.skip \/ cmd.lookaside
      /\ pc' = AfterFetch(cmd) /\ next' = 1 /\ stage' = "lookaside" /\ attempt' = 0 /\ arrived' = FALSE /\ busy' = FALSE
  BY DEF FilesEnd, Goto, At, IInv, TypeOK, PositionShape, RecordShape
<1>1. \A i \in DOMAIN cmd.refs : i < next
  <2>1. next \in 1 .. Len(cmd.refs) + 1 /\ DOMAIN cmd.refs = 1 .. Len(cmd.refs) /\ Len(cmd.refs) \in Nat
    BY <1>0, CommandFacts DEF IInv, PositionShape
  <2> QED BY <1>0, <2>1
<1>2. ASSUME NEW f \in Files PROVE dir.out[f] \in Base(f)
  <2>1. CASE f \in Fetched(cmd)
    <3>1. PICK i \in DOMAIN cmd.refs : cmd.refs[i].name = f /\ cmd.refs[i].origin # "overlay"
      BY <2>1 DEF Fetched, OfOrigin
    <3> QED BY <1>0, <1>1, <3>1, GivenIsBase DEF IInv, ContentShape
  <2>2. CASE f \notin Fetched(cmd)
    BY <1>0, <2>2, ComponentIsBase DEF IInv, ContentShape
  <2> QED BY <2>1, <2>2
<1> QED BY <1>0, <1>2, DirectoriesPristine, AfterFetchIInv DEF Running

\* Entries that are not looked up.
LEMMA FilesBeginIInv == IInv /\ FilesBegin => IInv'
<1> SUFFICES ASSUME IInv, FilesBegin PROVE IInv'
  OBVIOUS
<1>0. pc = "files" /\ next \in DOMAIN cmd.refs /\ UNCHANGED <<cmd, cancelled, dir, record>>
  BY DEF FilesBegin
<1>1. CASE Goto("failed")
  BY <1>0, <1>1, EndIInv DEF Goto, At, IInv, TypeOK, PristineShape
<1>2. CASE Here.origin = "overlay" /\ Advance
  BY <1>0, <1>2, AdvanceIInv
<1>3. CASE At("files", next, "provider")
  BY <1>0, <1>3, StageIInv DEF At
<1> QED BY <1>1, <1>2, <1>3 DEF FilesBegin

\* A custom script runs.
LEMMA GenerateIInv == IInv /\ Generate => IInv'
<1> SUFFICES ASSUME IInv, Generate PROVE IInv'
  OBVIOUS
<1>0. /\ pc = "files" /\ next \in DOMAIN cmd.refs /\ UNCHANGED <<cmd, cancelled, record>>
      /\ Here.origin = "custom" /\ cmd \in Commands /\ stage = "provider"
  BY DEF Generate, Generates, IInv, TypeOK
<1>1. CASE Goto("failed") /\ UNCHANGED dir
  BY <1>0, <1>1, EndIInv DEF Goto, At, IInv, TypeOK, PristineShape
<1>2. CASE \E c \in Pristine :
             /\ dir' = [dir EXCEPT !.out[Here.name] = c]
             /\ IF Here.hash \in {None, c} THEN Advance ELSE Goto("failed")
  <2>0. PICK c \in Pristine :
             /\ dir' = [dir EXCEPT !.out[Here.name] = c]
             /\ IF Here.hash \in {None, c} THEN Advance ELSE Goto("failed")
    BY <1>2
  <2>1. /\ dir' \in [{"clone", "out"} -> Directory]
        /\ dir'.clone \in [Files -> Maybe] /\ dir'.out \in [Files -> Maybe]
        /\ dir'.out[Here.name] = c
        /\ \A f \in Files \ Fetched(cmd) : dir'.out[f] = dir.out[f]
        /\ \A i \in DOMAIN cmd.refs : i # next => dir'.out[cmd.refs[i].name] = dir.out[cmd.refs[i].name]
    BY <1>0, <2>0, PutFrame DEF Maybe
  <2>2. CASE Goto("failed")
    BY <1>0, <2>1, <2>2, EndIInv DEF Goto, At, IInv, TypeOK
  <2>3. CASE Here.hash \in {None, c} /\ Advance
    <3>0. pc' = pc /\ next' = next + 1 /\ stage' = "lookaside" /\ attempt' = 0 /\ arrived' = FALSE /\ busy' = FALSE
      BY <2>3 DEF Advance, At
    <3>1. next \in 1 .. Len(cmd.refs) /\ Len(cmd.refs) \in 0 .. NFiles /\ DOMAIN cmd.refs = 1 .. Len(cmd.refs)
      BY <1>0, CommandFacts
    <3>2. TypeOK'
      <4>1. next + 1 \in 1 .. NFiles + MaxLoose + 1
        BY <3>1, SizesAssumption
      <4> QED BY <1>0, <2>1, <3>0, <4>1, Beginning DEF IInv, TypeOK
    <3>3. PositionShape' /\ LoopShape'
      <4>1. next + 1 \in 1 .. Len(cmd.refs) + 1
        BY <3>1, SizesAssumption
      <4> QED BY <1>0, <3>0, <4>1 DEF IInv, PositionShape, LoopShape, Between
    <3>4. PristineShape'
      BY <1>0, <2>1, <3>0 DEF PristineShape
    <3>5. ContentShape'
      <4>1. \A i \in DOMAIN cmd.refs : i < next + 1 => i = next \/ (i < next /\ i # next)
        BY <3>1
      <4>2. c \in Given(Here)
        BY <2>0, <2>3 DEF Given
      <4>3. \A i \in DOMAIN cmd.refs :
              i < next + 1 /\ cmd.refs[i].origin # "overlay" => dir'.out[cmd.refs[i].name] \in Given(cmd.refs[i])
        BY <1>0, <2>1, <4>1, <4>2 DEF IInv, ContentShape, Here
      <4>4. \A f \in Files \ Fetched(cmd) : dir'.out[f] = Component(f)
        BY <1>0, <2>1 DEF IInv, ContentShape
      <4> QED BY <1>0, <3>0, <4>3, <4>4, SameCommand DEF ContentShape, Given
    <3>6. RecordShape'
      BY <1>0, <3>0 DEF IInv, RecordShape
    <3> QED BY <3>2, <3>3, <3>4, <3>5, <3>6 DEF IInv
  <2> QED BY <2>0, <2>2, <2>3
<1> QED BY <1>1, <1>2 DEF Generate

\* The origin is next.
LEMMA ToOriginIInv == IInv /\ ToOrigin => IInv'
<1> SUFFICES ASSUME IInv, ToOrigin PROVE IInv'
  OBVIOUS
<1>0. pc = "files" /\ next \in DOMAIN cmd.refs /\ UNCHANGED <<cmd, cancelled, dir, record>>
  BY DEF ToOrigin
<1>1. CASE At("files", next, "origin")
  BY <1>0, <1>1, StageIInv DEF At
<1>2. CASE Goto("failed")
  BY <1>0, <1>2, EndIInv DEF Goto, At, IInv, TypeOK, PristineShape
<1> QED BY <1>1, <1>2 DEF ToOrigin

-----------------------------------------------------------------------------
(* Overlays.                                                               *)

\* An archive is repacked.
LEMMA RepackIInv == IInv /\ Repack => IInv'
<1> SUFFICES ASSUME IInv, Repack PROVE IInv'
  OBVIOUS
<1>0. /\ pc = "overlay" /\ next \in Modified(cmd) /\ UNCHANGED <<cmd, cancelled, record>>
      /\ cmd \in Commands /\ dir \in [{"clone", "out"} -> Directory] /\ dir.clone \in [Files -> Maybe]
      /\ ~cmd.plain
  BY DEF Repack, IInv, TypeOK, PristineShape, PositionShape
<1>1. CASE Goto("failed") /\ UNCHANGED dir
  BY <1>0, <1>1, EndIInv DEF Goto, At, IInv, TypeOK
<1>2. CASE /\ dir.out[next] # Absent
           /\ dir' = [dir EXCEPT !.out[next] = Overlaid(@)] /\ Advance
  <2>0. /\ next \in Files /\ pc' = pc /\ next' = next + 1 /\ stage' = "lookaside"
        /\ attempt' = 0 /\ arrived' = FALSE /\ busy' = FALSE
    BY <1>0, <1>2, CommandFacts DEF Advance, At, Modified
  <2>1. next \in Nat /\ next <= NFiles /\ NFiles \in Nat /\ \A f \in Files : f \in Nat
    BY <2>0, SizesAssumption DEF Files
  <2>2. dir.out[next] \in Pristine
    BY <1>0, <1>2, <2>0, <2>1 DEF IInv, PristineShape, Maybe
  <2>3. /\ dir'.out = [dir.out EXCEPT ![next] = Overlaid(dir.out[next])] /\ dir'.clone = dir.clone
        /\ dir' \in [{"clone", "out"} -> Directory]
    <3>1. Overlaid(dir.out[next]) \in Contents /\ dir.out \in Directory
      BY <1>0, <2>2, ContentFacts
    <3>2. [dir.out EXCEPT ![next] = Overlaid(dir.out[next])] \in Directory
      BY <3>1 DEF Directory
    <3>3. dir' = [dir EXCEPT !.out = [dir.out EXCEPT ![next] = Overlaid(dir.out[next])]]
      BY <1>2
    <3> QED BY <1>0, <3>2, <3>3
  <2>4. /\ \A f \in Files : f # next => dir'.out[f] = dir.out[f]
        /\ dir'.out[next] = Overlaid(dir.out[next])
    <3>1. dir.out \in Directory
      BY <1>0
    <3> QED BY <2>0, <2>3, <3>1 DEF Directory
  <2>5. TypeOK'
    <3>1. next + 1 \in 1 .. NFiles + MaxLoose + 1
      BY <2>1, SizesAssumption
    <3> QED BY <1>0, <2>0, <2>3, <3>1, Beginning DEF IInv, TypeOK
  <2>6. PositionShape' /\ LoopShape'
    BY <1>0, <2>0, <2>1 DEF IInv, PositionShape, LoopShape, Between
  <2>7. PristineShape'
    <3>1. \A f \in Files : f >= next + 1 => f >= next /\ f # next
      BY <2>1
    <3> QED BY <1>0, <2>0, <2>3, <2>4, <3>1 DEF IInv, PristineShape
  <2>8. ContentShape'
    <3>1. \A f \in Files : f < next + 1 => f = next \/ (f < next /\ f # next)
      BY <2>1
    <3>2. \A f \in Files : ~(f < next + 1) => ~(f < next) /\ f # next
      BY <2>1
    <3>3. Overlaid(dir.out[next]) \in AfterArchives[next]
      <4>1. dir.out[next] \in Base(next)
        BY <1>0, <2>0, <2>1 DEF IInv, ContentShape
      <4> QED BY <1>0, <2>0, <4>1 DEF AfterArchives
    <3>4. \A f \in Files : dir'.out[f] \in IF f < next + 1 THEN AfterArchives[f] ELSE Base(f)
      BY <1>0, <2>4, <3>1, <3>2, <3>3 DEF IInv, ContentShape
    <3> QED BY <1>0, <2>0, <3>4, SameCommand DEF ContentShape
  <2>9. RecordShape'
    BY <1>0, <2>0 DEF IInv, RecordShape
  <2> QED BY <2>5, <2>6, <2>7, <2>8, <2>9 DEF IInv
<1> QED BY <1>1, <1>2 DEF Repack

\* A file that no overlay modifies, or the end of them.
LEMMA OverlayNextIInv == IInv /\ OverlayNext => IInv'
<1> SUFFICES ASSUME IInv, OverlayNext PROVE IInv'
  OBVIOUS
<1>0. /\ pc = "overlay" /\ next \notin Modified(cmd) /\ UNCHANGED <<cmd, cancelled, record, dir>>
      /\ cmd \in Commands /\ dir \in [{"clone", "out"} -> Directory] /\ ~cmd.plain
      /\ next \in 1 .. NFiles + 1
  BY DEF OverlayNext, IInv, TypeOK, PositionShape
<1>1. CASE next > NFiles /\ Goto("loose")
  <2>0. pc' = "loose" /\ next' = 1 /\ stage' = "lookaside" /\ attempt' = 0 /\ arrived' = FALSE /\ busy' = FALSE
    BY <1>1 DEF Goto, At
  <2>1. \A f \in Files : dir.out[f] \in AfterArchives[f]
    <3>1. \A f \in Files : f < next
      BY <1>0, <1>1, SizesAssumption DEF Files
    <3> QED BY <1>0, <3>1 DEF IInv, ContentShape
  <2>2. LooseApplied(0)'
    BY <1>0, <2>1, NoneApplied, SameCommand DEF LooseApplied, AppliesInOrder
  <2>3. TypeOK'
    BY <1>0, <2>0, Beginning DEF IInv, TypeOK
  <2>4. PositionShape' /\ LoopShape'
    <3>1. 1 \in 1 .. Len(cmd.loose) + 1
      BY <1>0, CommandFacts, SizesAssumption
    <3> QED BY <1>0, <2>0, <3>1 DEF IInv, PositionShape, LoopShape, Between
  <2>5. PristineShape' /\ RecordShape'
    BY <1>0, <2>0 DEF IInv, PristineShape, RecordShape
  <2>6. ContentShape'
    <3>1. next' - 1 = 0
      BY <2>0
    <3> QED BY <1>0, <2>0, <2>1, <2>2, <3>1, SameCommand DEF ContentShape
  <2> QED BY <2>3, <2>4, <2>5, <2>6 DEF IInv
<1>2. CASE next <= NFiles /\ Advance
  <2>0. pc' = pc /\ next' = next + 1 /\ stage' = "lookaside" /\ attempt' = 0 /\ arrived' = FALSE /\ busy' = FALSE
    BY <1>2 DEF Advance, At
  <2>1. next \in Files /\ next \in Nat /\ NFiles \in Nat /\ \A f \in Files : f \in Nat
    BY <1>0, <1>2, SizesAssumption DEF Files
  <2>2. TypeOK'
    <3>1. next + 1 \in 1 .. NFiles + MaxLoose + 1
      BY <1>2, <2>1, SizesAssumption
    <3> QED BY <1>0, <2>0, <3>1, Beginning DEF IInv, TypeOK
  <2>3. PositionShape' /\ LoopShape'
    BY <1>0, <1>2, <2>0, <2>1 DEF IInv, PositionShape, LoopShape, Between
  <2>4. PristineShape' /\ RecordShape'
    <3>1. \A f \in Files : f >= next + 1 => f >= next
      BY <2>1
    <3> QED BY <1>0, <2>0, <3>1 DEF IInv, PristineShape, RecordShape
  <2>5. ContentShape'
    <3>1. \A f \in Files : f < next + 1 <=> f = next \/ f < next
      BY <2>1
    <3>2. dir.out[next] \in AfterArchives[next]
      <4>1. dir.out[next] \in Base(next)
        BY <1>0, <2>1 DEF IInv, ContentShape
      <4> QED BY <1>0, <2>1, <4>1 DEF AfterArchives
    <3>3. \A f \in Files : dir.out[f] \in IF f < next + 1 THEN AfterArchives[f] ELSE Base(f)
      BY <1>0, <3>1, <3>2 DEF IInv, ContentShape
    <3> QED BY <1>0, <2>0, <3>3, SameCommand DEF ContentShape
  <2> QED BY <2>2, <2>3, <2>4, <2>5 DEF IInv
<1> QED BY <1>0, <1>1, <1>2, SizesAssumption DEF OverlayNext

\* An overlay on loose files gives a directory, and leaves alone what it does
\* not target.
LEMMA AppliedFacts ==
  ASSUME NEW o \in Loose, NEW files \in Directory, Applies(o, files)
  PROVE  AppliedTo(o, files) \in Directory /\ \A f \in Files : ~Targets(o, f) => AppliedTo(o, files)[f] = files[f]
<1>0. /\ o.kind \in {"add", "remove", "rename", "edit"} /\ o.file \in Files /\ o.to \in Files /\ o.content \in Contents
      /\ \A c \in Contents : Edited(c) \in Contents
  BY EntryFacts, ContentFacts
<1>1. CASE o.kind = "add"
  BY <1>0, <1>1 DEF AppliedTo, Directory, Targets
<1>2. CASE o.kind = "remove"
  BY <1>0, <1>2 DEF AppliedTo, Directory, Targets
<1>3. CASE o.kind = "edit"
  <2>1. files[o.file] \in Contents
    BY <1>0, <1>3 DEF Applies, Directory
  <2> QED BY <1>0, <1>3, <2>1 DEF AppliedTo, Directory, Targets
<1>4. CASE o.kind = "rename"
  BY <1>0, <1>4 DEF AppliedTo, Directory, Targets
<1> QED BY <1>0, <1>1, <1>2, <1>3, <1>4

\* One more overlay has been applied.
LEMMA OneMoreApplied ==
  ASSUME NEW n \in Nat, NEW before, NEW d \in Directory, NEW expected, NEW loose,
         AppliesInOrder(n, before, expected, loose),
         Applies(loose[n + 1], before), d = AppliedTo(loose[n + 1], before)
  PROVE  AppliesInOrder(n + 1, d, expected, loose)
<1>0. PICK step \in [0 .. n -> Directory] :
        /\ step[n] = before
        /\ \A f \in Files : step[0][f] \in expected[f]
        /\ \A i \in 1 .. n : Applies(loose[i], step[i - 1]) /\ step[i] = AppliedTo(loose[i], step[i - 1])
  BY DEF AppliesInOrder
<1> DEFINE more == [i \in 0 .. n + 1 |-> IF i = n + 1 THEN d ELSE step[i]]
<1>1. more \in [0 .. n + 1 -> Directory]
  BY <1>0
<1>2. more[n + 1] = d /\ more[0] = step[0] /\ more[n] = step[n]
  OBVIOUS
<1>3. ASSUME NEW i \in 1 .. n + 1
      PROVE  Applies(loose[i], more[i - 1]) /\ more[i] = AppliedTo(loose[i], more[i - 1])
  <2>1. CASE i = n + 1
    <3>1. i - 1 = n
      BY <2>1
    <3> QED BY <1>0, <1>2, <2>1, <3>1
  <2>2. CASE i # n + 1
    <3>1. i \in 1 .. n /\ i - 1 \in 0 .. n /\ more[i] = step[i] /\ more[i - 1] = step[i - 1]
      BY <2>2
    <3> QED BY <1>0, <3>1
  <2> QED BY <2>1, <2>2
<1> HIDE DEF more
<1> QED BY <1>0, <1>1, <1>2, <1>3 DEF AppliesInOrder

\* An overlay on loose files, or the end of them.
LEMMA ApplyLooseIInv == IInv /\ ApplyLoose => IInv'
<1> SUFFICES ASSUME IInv, ApplyLoose PROVE IInv'
  OBVIOUS
<1>0. /\ pc = "loose" /\ UNCHANGED <<cmd, cancelled, record>> /\ cmd \in Commands /\ record = cmd.sources
      /\ dir \in [{"clone", "out"} -> Directory] /\ dir.clone \in [Files -> Maybe] /\ ~cmd.plain
      /\ next \in 1 .. Len(cmd.loose) + 1 /\ Len(cmd.loose) \in 0 .. MaxLoose
      /\ DOMAIN cmd.loose = 1 .. Len(cmd.loose) /\ \A i \in DOMAIN cmd.loose : cmd.loose[i] \in Loose
  BY CommandFacts DEF ApplyLoose, IInv, TypeOK, PristineShape, PositionShape, RecordShape
<1>1. CASE next \notin DOMAIN cmd.loose /\ Goto("record") /\ UNCHANGED dir
  <2>0. pc' = "record" /\ next' = 1 /\ stage' = "lookaside" /\ attempt' = 0 /\ arrived' = FALSE /\ busy' = FALSE
    BY <1>1 DEF Goto, At
  <2>1. next - 1 = Len(cmd.loose)
    BY <1>0, <1>1, SizesAssumption
  <2>2. LooseApplied(next - 1)
    BY <1>0 DEF IInv, ContentShape
  <2>3. DirectoryExpected'
    <3>1. LooseApplied(Len(cmd.loose))
      BY <2>1, <2>2
    <3> QED BY <1>0, <1>1, <3>1, SameCommand DEF DirectoryExpected, LooseApplied
  <2>4. TypeOK'
    BY <1>0, <1>1, <2>0, Beginning DEF IInv, TypeOK
  <2>5. PositionShape' /\ LoopShape'
    BY <1>0, <2>0 DEF IInv, PositionShape, LoopShape, Between
  <2>6. PristineShape' /\ RecordShape'
    BY <1>0, <1>1, <2>0 DEF PristineShape, RecordShape
  <2>7. ContentShape'
    BY <1>0, <1>1, <2>0, <2>3, SameCommand DEF IInv, ContentShape
  <2> QED BY <2>4, <2>5, <2>6, <2>7 DEF IInv
<1>2. CASE /\ next \in DOMAIN cmd.loose /\ Applies(cmd.loose[next], dir.out)
           /\ dir' = [dir EXCEPT !.out = AppliedTo(cmd.loose[next], dir.out)] /\ Advance
  <2>0. pc' = pc /\ next' = next + 1 /\ stage' = "lookaside" /\ attempt' = 0 /\ arrived' = FALSE /\ busy' = FALSE
    BY <1>2 DEF Advance, At
  <2>1. next \in 1 .. Len(cmd.loose) /\ next - 1 \in Nat /\ next + 1 - 1 = (next - 1) + 1 /\ (next - 1) + 1 = next
    BY <1>0, <1>2
  <2>2. /\ AppliedTo(cmd.loose[next], dir.out) \in Directory
        /\ \A f \in Files : ~Targets(cmd.loose[next], f) => AppliedTo(cmd.loose[next], dir.out)[f] = dir.out[f]
    BY <1>0, <1>2, AppliedFacts
  <2>3. /\ dir' \in [{"clone", "out"} -> Directory] /\ dir'.clone = dir.clone
        /\ dir'.out = AppliedTo(cmd.loose[next], dir.out)
    BY <1>0, <1>2, <2>2
  <2>4. TypeOK'
    <3>1. next + 1 \in 1 .. NFiles + MaxLoose + 1
      BY <1>0, <2>1, SizesAssumption
    <3> QED BY <1>0, <2>0, <2>3, <3>1, Beginning DEF IInv, TypeOK
  <2>5. PositionShape' /\ LoopShape'
    <3>1. next + 1 \in 1 .. Len(cmd.loose) + 1
      BY <1>0, <2>1, SizesAssumption
    <3> QED BY <1>0, <2>0, <3>1 DEF IInv, PositionShape, LoopShape, Between
  <2>6. PristineShape' /\ RecordShape'
    BY <1>0, <2>0, <2>3 DEF PristineShape, RecordShape
  <2>7. LooseApplied(next - 1)'
    <3>1. AppliesInOrder(next - 1, dir.out, AfterArchives, cmd.loose)
      BY <1>0 DEF IInv, ContentShape, LooseApplied, AppliesInOrder
    <3>2. AppliesInOrder((next - 1) + 1, dir'.out, AfterArchives, cmd.loose)
      BY <1>2, <2>1, <2>2, <2>3, <3>1, OneMoreApplied
    <3>3. (next - 1) + 1 = next /\ next' - 1 = next
      BY <2>0, <2>1
    <3>4. AppliesInOrder(next, dir'.out, AfterArchives, cmd.loose)
      BY <3>2, <3>3
    <3>5. AppliesInOrder(next, dir'.out, AfterArchives', cmd'.loose)
      BY <1>0, <3>4, SameCommand
    <3> QED BY <3>3, <3>5 DEF LooseApplied, AppliesInOrder
  <2>8. ContentShape'
    <3>1. \A f \in Files : ~LooselyChanged(f) => dir'.out[f] = dir.out[f]
      BY <1>2, <2>2, <2>3 DEF LooselyChanged
    <3> QED BY <1>0, <2>0, <2>7, <3>1, SameCommand DEF IInv, ContentShape
  <2> QED BY <2>4, <2>5, <2>6, <2>8 DEF IInv
<1>3. CASE Goto("failed") /\ UNCHANGED dir
  BY <1>0, <1>3, EndIInv DEF Goto, At, IInv, TypeOK
<1> QED BY <1>1, <1>2, <1>3 DEF ApplyLoose

\* The entry of a file, where it has one.
LEMMA EntryOf ==
  ASSUME cmd \in Commands, NEW i \in DOMAIN cmd.refs
  PROVE  (CHOOSE j \in DOMAIN cmd.refs : cmd.refs[j].name = cmd.refs[i].name) = i
<1>1. \A j \in DOMAIN cmd.refs : cmd.refs[j].name = cmd.refs[i].name => j = i
  BY CommandFacts
<1> QED BY <1>1

\* The digest written for a file that has an entry is the file's.
LEMMA EntryDigest ==
  ASSUME IInv, pc = "record", ~RehashRefused, ~cmd.skip, NEW i \in DOMAIN cmd.refs,
         ~LooselyChanged(cmd.refs[i].name), ~DigestOverwritten(cmd.refs[i].name), cmd.refs[i].hash # None
  PROVE  cmd.refs[i].hash = dir.out[cmd.refs[i].name]
<1> DEFINE f == cmd.refs[i].name
<1>0. cmd \in Commands /\ ~cmd.plain /\ OverlaysValid(cmd) /\ f \in Files /\ dir.out[f] \in AfterArchives[f]
  <2>1. cmd \in Commands /\ f \in Files
    BY CommandFacts, EntryFacts DEF IInv, TypeOK
  <2> QED BY <2>1 DEF IInv, PositionShape, ContentShape
<1>1. CASE cmd.refs[i].origin = "overlay"
  <2>1. f \in Modified(cmd)
    BY <1>0, <1>1 DEF OverlaysValid, OfOrigin, Modified
  <2> QED BY <1>1, <2>1 DEF RehashRefused
<1>2. CASE cmd.refs[i].origin # "overlay"
  <2>1. f \notin cmd.overlays
    <3>1. \A j \in DOMAIN cmd.refs : cmd.refs[j].name = f => cmd.refs[j].origin # "overlay"
      BY <1>0, <1>2, CommandFacts
    <3>2. f \notin OfOrigin(cmd, {"overlay"})
      BY <3>1 DEF OfOrigin
    <3>3. ~(cmd.noHashes /\ f \in cmd.overlays)
      BY <1>2 DEF DigestOverwritten
    <3> QED BY <1>0, <3>2, <3>3 DEF OverlaysValid
  <2>2. AfterArchives[f] = Base(f)
    BY <1>0, <2>1 DEF AfterArchives, Modified
  <2>3. Base(f) = {cmd.refs[i].hash}
    BY <1>0, <1>2, GivenIsBase DEF Given
  <2> QED BY <1>0, <2>2, <2>3
<1> QED BY <1>1, <1>2

\* The 'sources' file is written.
LEMMA UpdateSourcesFileIInv == IInv /\ UpdateSourcesFile => IInv'
<1> SUFFICES ASSUME IInv, UpdateSourcesFile PROVE IInv'
  OBVIOUS
<1>0. /\ pc = "record" /\ UNCHANGED <<cmd, cancelled, dir>> /\ cmd \in Commands /\ record = cmd.sources
      /\ record \in Directory /\ dir \in [{"clone", "out"} -> Directory] /\ dir.clone \in [Files -> Maybe] /\ ~cmd.plain
  BY DEF UpdateSourcesFile, IInv, TypeOK, PristineShape, PositionShape, RecordShape
<1>1. CASE Goto("failed") /\ UNCHANGED record
  BY <1>0, <1>1, EndIInv DEF Goto, At, IInv, TypeOK
<1>2. CASE ~RehashRefused /\ record' = Merged(Rehashed(record)) /\ Goto("done")
  <2>0. pc' = "done" /\ next' = 1 /\ stage' = "lookaside" /\ attempt' = 0 /\ arrived' = FALSE /\ busy' = FALSE
    BY <1>2 DEF Goto, At
  <2>1. ASSUME NEW i \in DOMAIN cmd.refs
        PROVE  /\ record'[cmd.refs[i].name] = ResolvedHash(cmd.refs[i])
               /\ cmd.refs[i].name \in Files /\ cmd.refs[i].hash \in Contents \cup {None}
    <3>1. cmd.refs[i].name \in Files /\ cmd.refs[i].hash \in Contents \cup {None}
      BY <1>0, CommandFacts, EntryFacts
    <3>2. (CHOOSE j \in DOMAIN cmd.refs : cmd.refs[j].name = cmd.refs[i].name) = i
      BY <1>0, EntryOf
    <3> QED BY <1>2, <3>1, <3>2 DEF Merged
  <2>2. ASSUME NEW f \in Files, \A i \in DOMAIN cmd.refs : cmd.refs[i].name # f
        PROVE  record'[f] = IF f \in Modified(cmd) THEN dir.out[f] ELSE cmd.sources[f]
    BY <1>0, <1>2, <2>2 DEF Merged, Rehashed
  <2>3. record' \in Directory
    <3>1. ASSUME NEW f \in Files PROVE record'[f] \in Contents \cup {Absent}
      <4>0. dir.out[f] \in Contents \cup {Absent} /\ cmd.sources[f] \in Contents \cup {Absent}
        BY <1>0 DEF Directory
      <4>1. CASE \A i \in DOMAIN cmd.refs : cmd.refs[i].name # f
        BY <2>2, <4>0, <4>1
      <4>2. CASE \E i \in DOMAIN cmd.refs : cmd.refs[i].name = f
        BY <2>1, <4>0, <4>2 DEF ResolvedHash
      <4> QED BY <4>1, <4>2
    <3>2. record' = [f \in Files |-> record'[f]]
      BY <1>2 DEF Merged
    <3> QED BY <3>1, <3>2 DEF Directory
  <2>4. TypeOK'
    BY <1>0, <2>0, <2>3, Beginning DEF IInv, TypeOK
  <2>5. PositionShape' /\ LoopShape' /\ PristineShape'
    BY <1>0, <2>0 DEF IInv, PositionShape, LoopShape, PristineShape, Between
  <2>6. ContentShape'
    <3>1. DirectoryExpected'
      BY <1>0, SameCommand DEF IInv, ContentShape, DirectoryExpected, LooseApplied
    <3> QED BY <1>0, <2>0, <3>1, SameCommand DEF IInv, ContentShape
  <2>7. ASSUME ~cmd.skip, NEW f \in Files, ~NeverVerified(f), ~DigestOverwritten(f), ~LooselyChanged(f)
        PROVE  record'[f] \in {Absent, dir.out[f]}
    <3>1. CASE \E i \in DOMAIN cmd.refs : cmd.refs[i].name = f
      <4>1. PICK i \in DOMAIN cmd.refs : cmd.refs[i].name = f
        BY <3>1
      <4>2. record'[f] = IF cmd.refs[i].hash = None THEN dir.out[f] ELSE cmd.refs[i].hash
        BY <2>1, <4>1 DEF ResolvedHash
      <4>3. CASE cmd.refs[i].hash # None
        BY <1>0, <1>2, <2>7, <4>1, <4>2, <4>3, EntryDigest
      <4> QED BY <4>2, <4>3
    <3>2. CASE \A i \in DOMAIN cmd.refs : cmd.refs[i].name # f
      <4>1. f \notin Fetched(cmd)
        BY <3>2 DEF Fetched, OfOrigin
      <4>2. CASE f \in Modified(cmd)
        BY <2>2, <3>2, <4>2
      <4>3. CASE f \notin Modified(cmd)
        <5>1. dir.out[f] \in AfterArchives[f]
          BY <1>0, <2>7 DEF IInv, ContentShape
        <5>2. AfterArchives[f] = Base(f)
          BY <4>3 DEF AfterArchives
        <5>3. Base(f) = {cmd.sources[f]}
          BY <2>7, <4>1 DEF Base, NeverVerified
        <5> QED BY <2>2, <3>2, <4>3, <5>1, <5>2, <5>3
      <4> QED BY <4>2, <4>3
    <3> QED BY <3>1, <3>2
  <2>8. RecordShape'
    <3>1. \A f \in Files : /\ NeverVerified(f)' <=> NeverVerified(f)
                           /\ DigestOverwritten(f)' <=> DigestOverwritten(f)
                           /\ LooselyChanged(f)' <=> LooselyChanged(f)
      BY <1>0 DEF NeverVerified, DigestOverwritten, LooselyChanged
    <3> QED BY <1>0, <2>0, <2>7, <3>1 DEF RecordShape, RecordExpected
  <2> QED BY <2>4, <2>5, <2>6, <2>8 DEF IInv
<1> QED BY <1>1, <1>2 DEF UpdateSourcesFile

-----------------------------------------------------------------------------
(* The invariant, and what a successful preparation leaves.                *)

\* Every step keeps the invariant.
LEMMA NextIInv == IInv /\ [Next]_vars => IInv'
<1> SUFFICES ASSUME IInv, [Next]_vars PROVE IInv'
  OBVIOUS
<1>1. CASE \E c \in Commands : Start(c)
  BY <1>1, StartIInv
<1>2. CASE Interrupt \/ StartScript
  BY <1>2, FlagsIInv
<1>3. CASE Kill \/ Fails \/ CheckoutFails
  BY <1>3, EndingsIInv
<1>4. CASE Clone \/ Download \/ Generate
  BY <1>4, CloneIInv, DownloadIInv, GenerateIInv
<1>5. CASE CopyLocal \/ CopyClone \/ CopyFails \/ Extract \/ Validate
  BY <1>5, CopyLocalIInv, CopyCloneIInv, CopyFailsIInv, ExtractIInv, ValidateIInv
<1>6. CASE FilesEnd \/ FilesBegin \/ ToOrigin \/ Repack \/ OverlayNext \/ ApplyLoose \/ UpdateSourcesFile
  BY <1>6, FilesEndIInv, FilesBeginIInv, ToOriginIInv, RepackIInv, OverlayNextIInv, ApplyLooseIInv,
     UpdateSourcesFileIInv
<1>7. CASE UNCHANGED vars
  BY <1>7, SameCommand DEF vars, IInv, TypeOK, PositionShape, LoopShape, PristineShape, ContentShape, RecordShape,
     Between, Here, Where, Target, LooseApplied, DirectoryExpected, RecordExpected, LooselyChanged, NeverVerified,
     DigestOverwritten
<1> QED BY <1>1, <1>2, <1>3, <1>4, <1>5, <1>6, <1>7 DEF Next, Progress, Waits

\* IInv holds in every state (PrepareSources and the providers).
THEOREM Invariance == Spec => []IInv
<1>1. Init => IInv
  BY InitIInv
<1>2. IInv /\ [Next]_vars => IInv'
  BY NextIInv
<1> QED BY <1>1, <1>2, PTL DEF Spec

\* Every variable keeps its type.
THEOREM TypeCorrect == Spec => []TypeOK
<1>1. IInv => TypeOK
  BY DEF IInv
<1> QED BY <1>1, Invariance, PTL

\* A successful preparation leaves the files that its configuration determines
\* and their digests (PrepareSources, updateSourcesFile).
THEOREM PreparedAsExpected == Spec => []PreparedMeansExpected
<1>1. IInv => PreparedMeansExpected
  BY DEF IInv, ContentShape, RecordShape, PreparedMeansExpected
<1> QED BY <1>1, Invariance, PTL

-----------------------------------------------------------------------------
(* What was compared with its digest.                                      *)

\* No file, and a tracked file, matches.
LEMMA FitsFacts ==
  ASSUME NEW c, NEW f
  PROVE  Fits(c, Absent, f) /\ \A x : c.tracked[f] # Absent => Fits(c, x, f)
BY DEF Fits

\* A step keeps Verified if every file it changes or stops trying matches.
LEMMA VerifiedFrame ==
  ASSUME Verified, pc # "killed", cmd' = cmd,
         \A f \in Files, d \in {"clone", "out"} :
           ~Trying(d, f)' => (dir'[d][f] = dir[d][f] /\ ~Trying(d, f)) \/ Fits(cmd, dir'[d][f], f)
  PROVE  Verified'
BY DEF Verified

\* A step outside the retry loops changes no file that does not match.
LEMMA OutsideFrame ==
  ASSUME Verified, pc # "killed", cmd' = cmd, \A f \in Files, d \in {"clone", "out"} : ~Trying(d, f),
         \A f \in Files, d \in {"clone", "out"} : dir'[d][f] = dir[d][f] \/ Fits(cmd, dir'[d][f], f)
  PROVE  Verified'
BY VerifiedFrame

\* Outside the phases that download, and outside of a retry loop, nothing is
\* being tried.
LEMMA NotTrying ==
  ASSUME IInv, pc \notin {"extract", "files"} \/ Between \/ (pc = "files" /\ stage = "provider")
               \/ (pc = "files" /\ next \notin DOMAIN cmd.refs) \/ (pc = "files" /\ ~Downloads /\ stage = "lookaside")
  PROVE  \A f \in Files, d \in {"clone", "out"} : ~Trying(d, f)
BY DEF Trying, IInv, LoopShape, Downloads

\* A download changes one file.
LEMMA OneFile ==
  ASSUME IInv, Sought, NEW c, dir' = [dir EXCEPT ![Where][Target] = c]
  PROVE  /\ Where \in {"clone", "out"} /\ Target \in Files
         /\ dir'[Where][Target] = c
         /\ \A f \in Files, d \in {"clone", "out"} : ~(d = Where /\ f = Target) => dir'[d][f] = dir[d][f]
<1>1. Where \in {"clone", "out"} /\ Target \in Files
  BY HereFetched DEF Where, Target, Sought, IInv, TypeOK
<1>2. dir \in [{"clone", "out"} -> Directory] /\ dir[Where] \in [Files -> Contents \cup {Absent}]
  BY <1>1 DEF IInv, TypeOK, Directory
<1>3. dir' = [dir EXCEPT ![Where] = [dir[Where] EXCEPT ![Target] = c]]
  OBVIOUS
<1>4. dir'[Where] = [dir[Where] EXCEPT ![Target] = c]
  BY <1>1, <1>2, <1>3
<1> QED BY <1>1, <1>2, <1>3, <1>4

\* A command starts with no files.
LEMMA StartVerified ==
  ASSUME NEW c \in Commands, Start(c)
  PROVE  Verified'
<1>1. dir' = [clone |-> Empty, out |-> Empty]
  BY DEF Start, Checked
<1>2. \A f \in Files, d \in {"clone", "out"} : dir'[d][f] = Absent
  BY <1>1 DEF Empty
<1> QED BY <1>2, FitsFacts DEF Verified

\* A kill, Ctrl-C and the start of a script, and the failures that have no
\* clean-up.
LEMMA EndingsVerified == IInv /\ Verified /\ (Interrupt \/ StartScript \/ Kill \/ Fails \/ CheckoutFails) => Verified'
<1> SUFFICES ASSUME IInv, Verified, Interrupt \/ StartScript \/ Kill \/ Fails \/ CheckoutFails PROVE Verified'
  OBVIOUS
<1>1. CASE Interrupt \/ StartScript
  <2>1. UNCHANGED <<cmd, pc, next, stage, attempt, arrived, dir>>
    BY <1>1 DEF Interrupt, StartScript, position
  <2>2. \A f, d : Trying(d, f)' <=> Trying(d, f)
    BY <2>1 DEF Trying, Between, Where, Target, Here
  <2> QED BY <2>1, <2>2 DEF Verified
<1>2. CASE Kill
  BY <1>2 DEF Kill, Goto, At, Verified
<1>3. CASE Fails \/ CheckoutFails
  <2>1. pc # "killed" /\ UNCHANGED <<cmd, dir>>
    BY <1>3 DEF Fails, CheckoutFails
  <2>2. \A f \in Files, d \in {"clone", "out"} : ~Trying(d, f)
    BY <1>3, NotTrying DEF Fails, CheckoutFails
  <2> QED BY <2>1, <2>2, OutsideFrame
<1> QED BY <1>1, <1>2, <1>3

\* The component's own files are tracked ones, or were verified in the clone.
LEMMA ComponentVerified == IInv /\ Verified /\ (Clone \/ CopyLocal \/ CopyClone \/ CopyFails) => Verified'
<1> SUFFICES ASSUME IInv, Verified, Clone \/ CopyLocal \/ CopyClone \/ CopyFails PROVE Verified'
  OBVIOUS
<1>0. /\ pc \in {"fetch", "copy"} /\ cmd' = cmd /\ dir.out = Empty /\ (pc = "fetch" => dir.clone = Empty)
      /\ dir \in [{"clone", "out"} -> Directory] /\ dir.clone \in [Files -> Maybe] /\ cmd.tracked \in [Files -> Maybe]
      /\ Empty \in [Files -> Maybe] /\ \A f \in Files : Empty[f] = Absent
  BY DirectoriesPristine, CommandFacts DEF Clone, CopyLocal, CopyClone, CopyFails, IInv, ContentShape, Empty
<1>1. \A f \in Files, d \in {"clone", "out"} : ~Trying(d, f)
  BY <1>0, NotTrying
<1>2. \A f \in Files : /\ Fits(cmd, Absent, f) /\ Fits(cmd, cmd.tracked[f], f) /\ Fits(cmd, dir.clone[f], f)
                       /\ (pc = "fetch" => dir.clone[f] = Absent) /\ dir.out[f] = Absent
  BY <1>0, <1>1, FitsFacts DEF Verified
<1>3. \A f \in Files : Fits(cmd, dir'.clone[f], f) /\ Fits(cmd, dir'.out[f], f)
  <2>1. CASE Clone
    <3>1. dir' = [dir EXCEPT !.clone = cmd.tracked] \/ dir' = dir
      BY <2>1 DEF Clone
    <3> QED BY <1>0, <1>2, <3>1
  <2>2. CASE CopyLocal
    <3>1. dir' = [dir EXCEPT !.out = cmd.tracked]
      BY <1>0, <2>2, OntoEmpty DEF CopyLocal
    <3> QED BY <1>0, <1>2, <3>1
  <2>3. CASE CopyClone
    <3>1. dir' = [clone |-> Empty, out |-> dir.clone]
      BY <1>0, <2>3, OntoEmpty DEF CopyClone
    <3> QED BY <1>0, <1>2, <3>1
  <2>4. CASE CopyFails
    <3>1. PICK done \in SUBSET Files :
            LET from == IF pc = "copy" THEN dir.clone ELSE cmd.tracked
                some == [f \in Files |-> IF f \in done THEN from[f] ELSE Absent]
            IN  dir' = [clone |-> Empty, out |-> Onto(some, dir.out)]
      BY <2>4 DEF CopyFails
    <3>2. dir'.clone = Empty
          /\ \A f \in Files : dir'.out[f] \in {Absent, dir.clone[f], cmd.tracked[f]}
      BY <1>0, <3>1 DEF Onto
    <3> QED BY <1>0, <1>2, <3>2
  <2> QED BY <2>1, <2>2, <2>3, <2>4
<1>4. \A f \in Files, d \in {"clone", "out"} : Fits(cmd, dir'[d][f], f)
  BY <1>3
<1> QED BY <1>0, <1>1, <1>4, OutsideFrame

\* A file that is given up is removed, and the others stay.
LEMMA GiveUpVerified ==
  ASSUME IInv, Verified, Sought, GiveUp, cmd' = cmd
  PROVE  Verified'
<1>1. dir' = [dir EXCEPT ![Where][Target] = Absent]
  BY DEF GiveUp, RemoveFile, Put
<1>2. ASSUME NEW f \in Files, NEW d \in {"clone", "out"}
      PROVE  (dir'[d][f] = dir[d][f] /\ ~Trying(d, f)) \/ Fits(cmd, dir'[d][f], f)
  <2>1. CASE d = Where /\ f = Target
    BY <1>1, <2>1, OneFile, FitsFacts
  <2>2. CASE ~(d = Where /\ f = Target)
    BY <1>1, <2>2, OneFile DEF Trying
  <2> QED BY <2>1, <2>2
<1>3. pc # "killed"
  BY DEF Sought
<1> QED BY <1>2, <1>3, VerifiedFrame

\* While a file is being tried the others stay as they are.
LEMMA LoopVerified ==
  ASSUME IInv, Verified, Sought, NEW c, dir' = [dir EXCEPT ![Where][Target] = c],
         UNCHANGED <<cmd, pc, next>>, attempt' # 0 \/ arrived'
  PROVE  Verified'
<1>1. Where' = Where /\ Target' = Target /\ ~Between' /\ pc' \in {"extract", "files"} /\ pc # "killed"
  BY DEF Where, Target, Here, Between, Sought
<1>2. ASSUME NEW f \in Files, NEW d \in {"clone", "out"}, ~Trying(d, f)'
      PROVE  dir'[d][f] = dir[d][f] /\ ~Trying(d, f)
  <2>1. ~(d = Where /\ f = Target)
    BY <1>1, <1>2 DEF Trying
  <2> QED BY <2>1, OneFile DEF Trying
<1> QED BY <1>1, <1>2, VerifiedFrame

\* An attempt to download.
LEMMA DownloadVerified == IInv /\ Verified /\ Download => Verified'
<1> SUFFICES ASSUME IInv, Verified, Download PROVE Verified'
  OBVIOUS
<1>0. Sought /\ cmd' = cmd /\ attempt \in 0 .. MaxAttempts - 1
  BY DownloadsSought DEF Download, IInv, TypeOK
<1>1. CASE /\ \E c \in Pristine : Put(c)
           /\ arrived' = TRUE
           /\ UNCHANGED <<pc, next, stage, attempt, busy>>
  <2>1. PICK c \in Pristine : dir' = [dir EXCEPT ![Where][Target] = c]
    BY <1>1 DEF Put
  <2> QED BY <1>0, <1>1, <2>1, LoopVerified
<1>2. CASE GiveUp
  BY <1>0, <1>2, GiveUpVerified
<1>3. CASE ~GivesUp /\ Put(Absent) /\ Again
  BY <1>0, <1>3, AgainType, LoopVerified DEF Put, Again, IInv
<1> QED BY <1>1, <1>2, <1>3 DEF Download

\* What was downloaded is compared with the digest it was looked up by.
LEMMA ValidateVerified == IInv /\ Verified /\ Validate => Verified'
<1> SUFFICES ASSUME IInv, Verified, Validate PROVE Verified'
  OBVIOUS
<1>0. Sought /\ cmd' = cmd /\ attempt \in 0 .. MaxAttempts - 1 /\ cmd \in Commands /\ arrived
  BY DEF Validate, IInv, TypeOK, LoopShape, Sought, Between
<1>1. CASE (Expected = None \/ dir[Where][Target] = Expected) /\ Advance /\ UNCHANGED dir
  <2>1. Fits(cmd, dir[Where][Target], Target)
    <3>1. CASE pc = "extract"
      <4>1. Target = next /\ Expected = cmd.sources[next] /\ next \in Files
            /\ cmd.sources[next] # Absent /\ next \notin Fetched(cmd) /\ cmd.sources[next] # None
        BY <1>0, <3>1, CommandFacts, ContentFacts DEF Target, Expected, Sought, Maybe
      <4>2. \A i \in DOMAIN cmd.refs : cmd.refs[i].origin = "download" => cmd.refs[i].name # next
        BY <4>1 DEF Fetched, OfOrigin
      <4> QED BY <1>1, <4>1, <4>2 DEF Fits
    <3>2. CASE pc = "files"
      <4>1. Target = Here.name /\ Expected = Here.hash /\ next \in DOMAIN cmd.refs /\ Here.name \in Fetched(cmd)
            /\ \A i \in DOMAIN cmd.refs : i # next => cmd.refs[i].name # Here.name
        BY <1>0, <3>2, HereFetched DEF Target, Expected, Sought
      <4>2. \A i \in DOMAIN cmd.refs : cmd.refs[i].name = Target => cmd.refs[i] = Here
        BY <4>1 DEF Here
      <4> QED BY <1>1, <4>1, <4>2 DEF Fits
    <3> QED BY <1>0, <3>1, <3>2 DEF Sought
  <2>2. pc # "killed"
    BY <1>0 DEF Sought
  <2> QED BY <1>0, <1>1, <2>1, <2>2, VerifiedFrame DEF Trying
<1>2. CASE GiveUp
  BY <1>0, <1>2, GiveUpVerified
<1>3. CASE ~GivesUp /\ Again /\ UNCHANGED dir
  <2>1. dir = [dir EXCEPT ![Where][Target] = dir[Where][Target]]
    BY DEF IInv, TypeOK, Directory
  <2> QED BY <1>0, <1>3, <2>1, AgainType, LoopVerified DEF Again, IInv
<1> QED BY <1>1, <1>2, <1>3 DEF Validate

\* Between the downloads only a script makes a file, and no digest of a server
\* is for that.
LEMMA FilesVerified == IInv /\ Verified /\ (Extract \/ FilesEnd \/ FilesBegin \/ ToOrigin \/ Generate) => Verified'
<1> SUFFICES ASSUME IInv, Verified, Extract \/ FilesEnd \/ FilesBegin \/ ToOrigin \/ Generate PROVE Verified'
  OBVIOUS
<1>0. pc \in {"extract", "files"} /\ cmd' = cmd /\ cmd \in Commands /\ dir \in [{"clone", "out"} -> Directory]
  BY DEF Extract, FilesEnd, FilesBegin, ToOrigin, Generate, Generates, IInv, TypeOK
<1>1. \A f \in Files, d \in {"clone", "out"} : ~Trying(d, f)
  BY NotTrying DEF Extract, FilesEnd, FilesBegin, ToOrigin, Generate, Generates, Between
<1>2. CASE UNCHANGED dir
  BY <1>0, <1>1, <1>2, OutsideFrame
<1>3. CASE Generate /\ dir' # dir
  <2>1. PICK c \in Pristine : dir' = [dir EXCEPT !.out[Here.name] = c]
    BY <1>3 DEF Generate
  <2>2. /\ next \in DOMAIN cmd.refs /\ Here.origin = "custom" /\ Here.name \in Files /\ Here.name \in Fetched(cmd)
        /\ \A i \in DOMAIN cmd.refs : i # next => cmd.refs[i].name # Here.name
    BY <1>0, <1>3, HereFetched DEF Generate, Generates
  <2>3. Fits(cmd, dir'.out[Here.name], Here.name)
    BY <2>2 DEF Fits, Here
  <2>4. dir' = [dir EXCEPT !.out = [dir.out EXCEPT ![Here.name] = c]]
    BY <2>1
  <2>5. \A f \in Files, d \in {"clone", "out"} : f # Here.name \/ d # "out" => dir'[d][f] = dir[d][f]
    BY <1>0, <2>4 DEF Directory
  <2> QED BY <1>0, <1>1, <2>3, <2>5, OutsideFrame
<1> QED BY <1>2, <1>3 DEF Extract, FilesEnd, FilesBegin, ToOrigin

\* A repacked archive is the one verified, overlaid once; overlays on loose
\* files change what they target.
LEMMA OverlaysVerified ==
  IInv /\ Verified /\ (Repack \/ OverlayNext \/ ApplyLoose \/ UpdateSourcesFile) => Verified'
<1> SUFFICES ASSUME IInv, Verified, Repack \/ OverlayNext \/ ApplyLoose \/ UpdateSourcesFile PROVE Verified'
  OBVIOUS
<1>0. /\ pc \in {"overlay", "loose", "record"} /\ cmd' = cmd /\ cmd \in Commands
      /\ dir \in [{"clone", "out"} -> Directory] /\ ~cmd.plain
  BY DEF Repack, OverlayNext, ApplyLoose, UpdateSourcesFile, IInv, TypeOK, PositionShape
<1>1. \A f \in Files, d \in {"clone", "out"} : ~Trying(d, f)
  BY <1>0, NotTrying
<1>2. CASE UNCHANGED dir
  BY <1>0, <1>1, <1>2, OutsideFrame
<1>3. CASE Repack /\ dir' # dir
  <2>0. /\ next \in Files /\ dir.out[next] \in Pristine
        /\ dir' = [dir EXCEPT !.out = [dir.out EXCEPT ![next] = Overlaid(dir.out[next])]]
    <3>1. next \in Files
      BY <1>0, <1>3, CommandFacts DEF Repack, Modified
    <3>2. next >= next
      BY <3>1 DEF Files
    <3> QED BY <1>3, <3>1, <3>2 DEF Repack, IInv, PristineShape, Maybe
  <2>1. Fits(cmd, dir.out[next], next)
    BY <1>0, <1>1, <2>0 DEF Verified
  <2>2. Fits(cmd, Overlaid(dir.out[next]), next)
    <3>1. ASSUME NEW hash \in Contents, dir.out[next] \in {Absent, hash, Overlaid(hash)}
          PROVE  dir.out[next] = hash
      BY <2>0, <3>1, ContentFacts
    <3>2. cmd.sources[next] # Absent => cmd.sources[next] \in Contents
      BY <1>0, <2>0, CommandFacts, ContentFacts DEF Maybe
    <3>3. \A i \in DOMAIN cmd.refs : cmd.refs[i].hash # None => cmd.refs[i].hash \in Contents
      BY <1>0, CommandFacts, EntryFacts
    <3> QED BY <2>1, <3>1, <3>2, <3>3 DEF Fits
  <2>3. \A f \in Files, d \in {"clone", "out"} : f # next \/ d # "out" => dir'[d][f] = dir[d][f]
    BY <1>0, <2>0 DEF Directory
  <2>4. dir'.out[next] = Overlaid(dir.out[next])
    BY <1>0, <2>0 DEF Directory
  <2> QED BY <1>0, <1>1, <2>2, <2>3, <2>4, OutsideFrame
<1>4. CASE ApplyLoose /\ dir' # dir
  <2>0. /\ next \in DOMAIN cmd.loose /\ Applies(cmd.loose[next], dir.out) /\ cmd.loose[next] \in Loose
        /\ dir' = [dir EXCEPT !.out = AppliedTo(cmd.loose[next], dir.out)]
    BY <1>0, <1>4, CommandFacts DEF ApplyLoose
  <2>1. \A f \in Files : ~Targets(cmd.loose[next], f) => dir'.out[f] = dir.out[f]
    BY <1>0, <2>0, AppliedFacts
  <2>2. \A f \in Files : Targets(cmd.loose[next], f) => \A x : Fits(cmd, x, f)
    BY <1>0, <2>0 DEF Fits
  <2>3. dir'.clone = dir.clone
    BY <1>0, <2>0
  <2> QED BY <1>0, <1>1, <2>1, <2>2, <2>3, OutsideFrame
<1> QED BY <1>2, <1>3, <1>4 DEF OverlayNext, UpdateSourcesFile

\* Every step keeps Verified.
LEMMA NextVerified == IInv /\ Verified /\ [Next]_vars => Verified'
<1> SUFFICES ASSUME IInv, Verified, [Next]_vars PROVE Verified'
  OBVIOUS
<1>1. CASE \E c \in Commands : Start(c)
  BY <1>1, StartVerified
<1>2. CASE Interrupt \/ StartScript \/ Kill \/ Fails \/ CheckoutFails
  BY <1>2, EndingsVerified
<1>3. CASE Clone \/ CopyLocal \/ CopyClone \/ CopyFails
  BY <1>3, ComponentVerified
<1>4. CASE Download \/ Validate
  BY <1>4, DownloadVerified, ValidateVerified
<1>5. CASE Extract \/ FilesEnd \/ FilesBegin \/ ToOrigin \/ Generate
  BY <1>5, FilesVerified
<1>6. CASE Repack \/ OverlayNext \/ ApplyLoose \/ UpdateSourcesFile
  BY <1>6, OverlaysVerified
<1>7. CASE UNCHANGED vars
  <2>1. \A f, d : Trying(d, f)' <=> Trying(d, f)
    BY <1>7 DEF vars, Trying, Between, Where, Target, Here
  <2> QED BY <1>7, <2>1 DEF vars, Verified
<1> QED BY <1>1, <1>2, <1>3, <1>4, <1>5, <1>6, <1>7 DEF Next, Progress, Waits

\* Outside a retry loop there is no file that has a digest and does not match it
\* (downloadAndVerifySources, downloadAndValidate, FetchFiles).
THEOREM NoneUnverified == Spec => []NothingUnverified
<1>1. Init => Verified
  <2>1. ASSUME Init PROVE \A f \in Files, d \in {"clone", "out"} : dir[d][f] = Absent
    BY <2>1 DEF Init, Empty
  <2> QED BY <2>1, FitsFacts DEF Verified
<1>2. IInv /\ Verified /\ [Next]_vars => Verified'
  BY NextVerified
<1>3. Verified => NothingUnverified
  BY DEF Verified, NothingUnverified, Fits, Trying, Between, LooselyChanged
<1> QED BY <1>1, <1>2, <1>3, Invariance, PTL DEF Spec

=============================================================================
