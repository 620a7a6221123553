----------------------- MODULE SyntheticHistoryProofs -----------------------
(***************************************************************************)
(* The safety properties of SyntheticHistory for any upstream history, any *)
(* configurations and any number of edits, commits, bumps and faults.      *)
(* IInv is inductive: it says what lock files hold, what was found in      *)
(* their history, and how far the replay has got.                          *)
(***************************************************************************)
EXTENDS SyntheticHistory, FiniteSetTheorems, TLAPS

-----------------------------------------------------------------------------
(* The project.                                                            *)

\* A lock without an upstream commit has no import commit, and the fingerprint
\* of an upstream component is that of the locked commit.
SoundLock(l) ==
  /\ l.commit = 0 => l.import = 0
  /\ l.fp # None => (l.fp.src = "upstream" => l.fp.id = l.commit)

\* The commits of the project up to the i-th hold no fingerprint.
Unprinted(i) == \A j \in 1 .. i : log[j] # Absent => log[j].fp = None

\* Lock files are sound, each project commit changed the file, and a lock that
\* has no fingerprint comes from before there were any.
ProjectShape ==
  /\ lock # Absent => SoundLock(lock)
  /\ \A i \in 1 .. size :
       /\ log[i] # Absent => SoundLock(log[i])
       /\ log[i] # IF i = 1 THEN Absent ELSE log[i - 1]
       /\ ~lockFree /\ log[i] # Absent => (log[i].fp = None => Unprinted(i))
  /\ ~lockFree /\ lock # Absent => (lock.fp = None => Unprinted(size))
  /\ lockFree /\ config # Absent => config.src = "upstream"
  /\ lockFree /\ lock # Absent => lock.commit # 0

-----------------------------------------------------------------------------
(* Discovery.                                                              *)

Discovered == IF lockFree THEN CommitChanges ELSE FingerprintChanges

Replaying == pc = "replay" \/ head = "rebuilt"

\* What the preparation has found out, and what it owes to the project.
ChangesShape ==
  /\ pc # "idle" => config # Absent /\ IF lockFree THEN Readable(lock) ELSE Validates(config, lock)
  /\ pc \in {"bump", "collect"} \/ Replaying =>
       /\ ~Skipped /\ (~lockFree => ~Deleted)
       /\ DOMAIN on = DOMAIN Discovered /\ DOMAIN on # {}
       /\ import = IF lockFree THEN 0 ELSE AtHead.import
  /\ pc \in {"bump", "collect"} => on = Discovered
  /\ pc \in {"collect", "replay"} /\ kind = "static" => bump = Cardinality(DOMAIN on)
  /\ Replaying => /\ Reaches
                  /\ \A k \in DOMAIN on, c \in 0 .. MaxCommit : Discovered[k] = c => on[k] = Remapped(c)
  /\ head = "rebuilt" => pc = "done"

-----------------------------------------------------------------------------
(* Replay.                                                                 *)

\* An entry of the history, and where the replay puts it.
PlaceKey(e) == IF e.kind = "upstream" THEN <<e.id, 0, 0>> ELSE <<Place(e.id), 1, e.id>>

\* The tree of the i-th commit is what the last upstream commit up to it holds.
Follows(i) ==
  \E j \in 1 .. i :
    /\ built[j].kind = "upstream" /\ SourcesAt(built[j].id) = built[i].tree
    /\ \A m \in j + 1 .. i : built[m].kind = "synthetic"

ReplayShape ==
  /\ ~Replaying /\ pc \notin {"done", "failed"} => pos = 0 /\ len = 0 /\ todo = {}
  /\ pos = 0 <=> len = 0
  /\ Replaying =>
       /\ pos # 0 => pos \in Path
       /\ \A i \in 1 .. len : built[i].kind = "upstream" => built[i].id \in Path /\ built[i].id <= pos
       /\ \A c \in Path : c <= pos => \E i \in 1 .. len : built[i].kind = "upstream" /\ built[i].id = c
       /\ \A i \in 1 .. len :
            LET k == built[i].id IN
            built[i].kind = "synthetic" =>
              /\ k \in DOMAIN on \ todo /\ Placed(k)
              /\ Place(k) <= pos \/ (Place(k) = Top /\ Pending = {} /\ NextUpstream = {})
              /\ \A later \in todo : Place(later) = Place(k) => k < later
       /\ \A k \in DOMAIN on \ todo : \E i \in 1 .. len : built[i].kind = "synthetic" /\ built[i].id = k
       /\ \A k \in todo : Placed(k) => Place(k) >= pos
       /\ \A i, j \in 1 .. len : i < j => Precedes(PlaceKey(built[i]), PlaceKey(built[j]))

\* The overlays come with the last change, which is the last commit.
TreeShape ==
  Replaying =>
    IF Last \in todo THEN head # "rebuilt" /\ \A i \in 1 .. len : Follows(i)
    ELSE /\ Pending = {} /\ NextUpstream = {} /\ OnTop = {}
         /\ len > 0 /\ built[len].tree = Overlays
         /\ \A i \in 1 .. len : i # len => Follows(i)

-----------------------------------------------------------------------------
(* The release.                                                            *)

FoundUpTo(s) == {i \in 1 .. s : log[i].fp # Before(i)}

\* What was seen was a commit of the project, and a release raised once for
\* every change up to it.
SeenShape ==
  seen.lock # Absent =>
    \E s \in 1 .. size :
      seen.lock = log[s] /\ seen.release = seen.base + Cardinality(FoundUpTo(s))

IInv ==
  /\ TypeOK /\ ProjectShape /\ ChangesShape /\ ReplayShape /\ TreeShape /\ SeenShape
  /\ RefusalIsJustified

-----------------------------------------------------------------------------
(* Numbers.                                                                *)

\* A finite set of numbers has a least and a greatest element.
LEMMA Extremes ==
  ASSUME NEW S \in SUBSET Nat, IsFiniteSet(S), S # {}
  PROVE  /\ \E x \in S : \A y \in S : x <= y
         /\ \E x \in S : \A y \in S : y <= x
<1>1. IsWellFoundedOn(StrictSubsetOrdering(S), FiniteSubsetsOf(S))
  BY FS_StrictSubsetOrderingWellFounded
<1>2. \E x \in S : \A y \in S : x <= y
  <2> DEFINE Below(x) == {y \in S : y < x}
             T == {Below(x) : x \in S}
  <2>1. T \subseteq FiniteSubsetsOf(S) /\ T # {}
    <3>1. ASSUME NEW x \in S PROVE Below(x) \in SUBSET S /\ IsFiniteSet(Below(x))
      <4>1. Below(x) \in SUBSET S
        OBVIOUS
      <4> HIDE DEF Below
      <4> QED BY <4>1, FS_Subset
    <3> HIDE DEF Below
    <3> QED BY <3>1 DEF FiniteSubsetsOf
  <2>2. \E U \in T : \A V \in T : <<V, U>> \notin StrictSubsetOrdering(S)
    <3> HIDE DEF T
    <3> QED BY <1>1, <2>1, WFMin
  <2>3. PICK x \in S : \A V \in T : <<V, Below(x)>> \notin StrictSubsetOrdering(S)
    BY <2>2
  <2>4. ASSUME NEW y \in S, y < x PROVE FALSE
    <3>0. \A z \in S : z \in Nat
      OBVIOUS
    <3>1. Below(y) \in T /\ Below(y) \subseteq Below(x) /\ Below(y) # Below(x) /\ Below(x) \subseteq S
      <4>1. Below(y) \in T /\ Below(x) \subseteq S
        OBVIOUS
      <4>2. y \in Below(x) /\ y \notin Below(y)
        BY <2>4, <3>0
      <4>3. ASSUME NEW z \in Below(y) PROVE z \in Below(x)
        <5>1. z \in S /\ z < x
          BY <2>4, <3>0
        <5> QED BY <5>1
      <4> QED BY <4>1, <4>2, <4>3
    <3>2. <<Below(y), Below(x)>> \in StrictSubsetOrdering(S)
      BY <3>1 DEF StrictSubsetOrdering
    <3> QED BY <2>3, <3>1, <3>2
  <2> QED BY <2>4
<1>3. \E x \in S : \A y \in S : y <= x
  <2> DEFINE Above(x) == {y \in S : x < y}
             T == {Above(x) : x \in S}
  <2>1. T \subseteq FiniteSubsetsOf(S) /\ T # {}
    <3>1. ASSUME NEW x \in S PROVE Above(x) \in SUBSET S /\ IsFiniteSet(Above(x))
      <4>1. Above(x) \in SUBSET S
        OBVIOUS
      <4> HIDE DEF Above
      <4> QED BY <4>1, FS_Subset
    <3> HIDE DEF Above
    <3> QED BY <3>1 DEF FiniteSubsetsOf
  <2>2. \E U \in T : \A V \in T : <<V, U>> \notin StrictSubsetOrdering(S)
    <3> HIDE DEF T
    <3> QED BY <1>1, <2>1, WFMin
  <2>3. PICK x \in S : \A V \in T : <<V, Above(x)>> \notin StrictSubsetOrdering(S)
    BY <2>2
  <2>4. ASSUME NEW y \in S, x < y PROVE FALSE
    <3>0. \A z \in S : z \in Nat
      OBVIOUS
    <3>1. Above(y) \in T /\ Above(y) \subseteq Above(x) /\ Above(y) # Above(x) /\ Above(x) \subseteq S
      <4>1. Above(y) \in T /\ Above(x) \subseteq S
        OBVIOUS
      <4>2. y \in Above(x) /\ y \notin Above(y)
        BY <2>4, <3>0
      <4>3. ASSUME NEW z \in Above(y) PROVE z \in Above(x)
        <5>1. z \in S /\ x < z
          BY <2>4, <3>0
        <5> QED BY <5>1
      <4> QED BY <4>1, <4>2, <4>3
    <3>2. <<Above(y), Above(x)>> \in StrictSubsetOrdering(S)
      BY <3>1 DEF StrictSubsetOrdering
    <3> QED BY <2>3, <3>1, <3>2
  <2> QED BY <2>4
<1> QED BY <1>2, <1>3

\* The earliest of some numbers is one of them, and none is before it.
LEMMA EarliestFacts ==
  ASSUME NEW S, NEW n \in Nat, S \subseteq 1 .. n, S # {}
  PROVE  Earliest(S) \in S /\ \A k \in S : Earliest(S) <= k
<1>1. S \in SUBSET Nat /\ IsFiniteSet(S)
  <2>1. 1 \in Int /\ n \in Int /\ S \in SUBSET (1 .. n) /\ S \in SUBSET Nat
    OBVIOUS
  <2>2. IsFiniteSet(1 .. n)
    BY <2>1, FS_Interval
  <2> QED BY <2>1, <2>2, FS_Subset
<1>2. \E x \in S : \A y \in S : x <= y
  BY <1>1, Extremes
<1> QED BY <1>2 DEF Earliest

\* Changes are numbered.
LEMMA ChangesFacts ==
  /\ Dirty \in Nat /\ Changes = 1 .. Dirty /\ MaxLog \in Nat /\ Dirty = MaxLog + 1
  /\ MaxCommit \in Nat \ {0} /\ Commits = 1 .. MaxCommit /\ Top = MaxCommit + 2 /\ InitialSources = MaxCommit + 1
BY HistoryAssumption, SizesAssumption DEF Dirty, Changes, Commits, Top, InitialSources

\* There are finitely many.
LEMMA ChangesFinite ==
  ASSUME NEW S, S \subseteq Changes
  PROVE  IsFiniteSet(S)
<1>1. 1 \in Int /\ Dirty \in Int /\ S \in SUBSET (1 .. Dirty)
  BY ChangesFacts
<1>2. IsFiniteSet(1 .. Dirty)
  BY <1>1, FS_Interval
<1> QED BY <1>1, <1>2, FS_Subset

\* The last change is one of them.
LEMMA LastFacts ==
  ASSUME DOMAIN on \subseteq Changes, DOMAIN on # {}
  PROVE  Last \in DOMAIN on /\ \A k \in DOMAIN on : k <= Last
<1>1. DOMAIN on \in SUBSET Nat /\ IsFiniteSet(DOMAIN on)
  BY ChangesFinite, ChangesFacts
<1>2. \E x \in DOMAIN on : \A y \in DOMAIN on : y <= x
  BY <1>1, Extremes
<1> QED BY <1>2 DEF Last

-----------------------------------------------------------------------------
(* Lock files.                                                             *)

\* A configuration, and what it may resolve to.
LEMMA AnswersFacts ==
  ASSUME NEW c \in Choices
  PROVE  /\ c \in Config /\ c # Absent /\ c.src \in {"upstream", "local"} /\ c.pin \in 0 .. MaxCommit
         /\ \A commit \in Answers(c) : commit \in 0 .. MaxCommit /\ (commit = 0 <=> c.src = "local")
<1>1. c \in Config /\ c # Absent
  BY HistoryAssumption, MarkersAssumption
<1>2. c.src \in {"upstream", "local"} /\ c.pin \in 0 .. MaxCommit /\ c.snap \in 0 .. NSnap
  BY <1>1 DEF Config, Sources
<1>3. Resolves[c.snap] \subseteq Commits
  BY <1>2, HistoryAssumption
<1> QED BY <1>1, <1>2, <1>3, ChangesFacts DEF Answers

\* A lock is not one of the markers, nor is a fingerprint.
LEMMA MarkerFacts ==
  /\ Absent \notin Lock /\ Corrupt \notin Lock /\ None \notin Fingerprint
  /\ \A l \in Lock \cup {Absent} : Readable(l) <=> l \in Lock
  /\ \A l \in Lock \cup {Absent} : l # Absent <=> l \in Lock
BY MarkersAssumption DEF Readable

\* The fields of a lock.
LEMMA LockFacts ==
  ASSUME NEW l \in Lock
  PROVE  /\ l.commit \in 0 .. MaxCommit /\ l.import \in 0 .. MaxCommit /\ l.bump \in Nat
         /\ l.fp \in Fingerprint \cup {None}
         /\ l.fp # None => l.fp.src \in {"upstream", "local"}
BY DEF Lock, Fingerprint, Sources

\* A fingerprint's fields.
LEMMA IdentityFacts ==
  ASSUME NEW c \in Config, NEW bumps \in Nat, NEW commit \in 0 .. MaxCommit
  PROVE  /\ Identity(c, bumps, commit) \in Fingerprint
         /\ Identity(c, bumps, commit).src = c.src
         /\ c.src = "upstream" => Identity(c, bumps, commit).id = commit
         /\ c.src = "local" => Identity(c, bumps, commit).id = 0
BY ChangesFacts DEF Identity, Fingerprint, Config, Sources

\* An update writes a sound lock, with a fingerprint.
LEMMA RefreshedFacts ==
  ASSUME NEW l \in Lock \cup {Absent}, NEW c \in Choices, NEW commit \in Answers(c), l # Absent => SoundLock(l)
  PROVE  /\ Refreshed(l, c, commit) \in Lock /\ SoundLock(Refreshed(l, c, commit))
         /\ Refreshed(l, c, commit).fp # None
<1> DEFINE base == GetOrNew(l)
           r == Refreshed(l, c, commit)
<1>1. base \in Lock
  BY MarkerFacts, ChangesFacts DEF GetOrNew, NewLock, Lock
<1>2. /\ c \in Config /\ c.src \in {"upstream", "local"} /\ commit \in 0 .. MaxCommit
      /\ (commit = 0 <=> c.src = "local")
  BY AnswersFacts
<1>3. base.bump \in Nat /\ base.import \in 0 .. MaxCommit /\ base.rh \in ResolutionInputs \cup {None}
  BY <1>1 DEF Lock
<1>4. ResolutionHash(c) \in ResolutionInputs
  BY <1>2 DEF ResolutionHash, ResolutionInputs, Config
<1>5. /\ Identity(c, base.bump, commit) \in Fingerprint
      /\ Identity(c, base.bump, commit).src = c.src
      /\ c.src = "upstream" => Identity(c, base.bump, commit).id = commit
  BY <1>2, <1>3, IdentityFacts
<1>6. /\ r.commit = commit /\ r.import = ImportOf(base, c, commit) /\ r.bump = base.bump
      /\ r.fp = Identity(c, base.bump, commit) /\ ImportOf(base, c, commit) \in 0 .. MaxCommit
  BY <1>2, <1>3, ChangesFacts DEF Refreshed, ImportOf
<1>7. r \in Lock
  BY <1>2, <1>3, <1>4, <1>5, <1>6 DEF Refreshed, Lock
<1>8. r.fp # None
  BY <1>5, <1>6, MarkerFacts
<1>9. SoundLock(r)
  BY <1>2, <1>5, <1>6 DEF SoundLock, ImportOf
<1> QED BY <1>7, <1>8, <1>9

\* So does a bump.
LEMMA BumpedFacts ==
  ASSUME NEW l \in Lock, NEW c \in Config, SoundLock(l)
  PROVE  Bumped(l, c) \in Lock /\ SoundLock(Bumped(l, c)) /\ Bumped(l, c).fp # None
<1>1. l.commit \in 0 .. MaxCommit /\ l.import \in 0 .. MaxCommit /\ l.bump \in Nat /\ l.bump + 1 \in Nat
  BY LockFacts
<1>2. /\ Identity(c, l.bump + 1, l.commit) \in Fingerprint
      /\ Identity(c, l.bump + 1, l.commit).src = c.src
      /\ c.src = "upstream" => Identity(c, l.bump + 1, l.commit).id = l.commit
  BY <1>1, IdentityFacts
<1>3. /\ Bumped(l, c).commit = l.commit /\ Bumped(l, c).import = l.import
      /\ Bumped(l, c).fp = Identity(c, l.bump + 1, l.commit)
  BY DEF Bumped, Lock
<1>4. Bumped(l, c) \in Lock
  BY <1>1, <1>2 DEF Bumped, Lock
<1> QED BY <1>2, <1>3, <1>4, MarkerFacts DEF SoundLock

-----------------------------------------------------------------------------
(* The project between preparations.                                       *)

\* What the project holds.
LEMMA ProjectFacts ==
  ASSUME TypeOK
  PROVE  /\ lockFree \in BOOLEAN /\ size \in Nat /\ size <= MaxLog
         /\ config # Absent => config \in Choices
         /\ lock # Absent => lock \in Lock
         /\ \A i \in 1 .. size : log[i] \in Lock \cup {Absent} /\ (log[i] # Absent => log[i] \in Lock)
         /\ AtHead \in Lock \cup {Absent}
<1>1. size \in 0 .. MaxLog /\ MaxLog \in Nat /\ log \in [1 .. MaxLog -> Lock \cup {Absent}]
  BY HistoryAssumption DEF TypeOK
<1>2. \A i \in 1 .. size : log[i] \in Lock \cup {Absent}
  BY <1>1
<1>3. AtHead \in Lock \cup {Absent}
  BY <1>1 DEF AtHead
<1> QED BY <1>1, <1>2, <1>3 DEF TypeOK

\* The project starts with no preparation under way.
LEMMA InitIInv == Init => IInv
<1> SUFFICES ASSUME Init PROVE IInv
  OBVIOUS
<1>0. /\ size = 0 /\ lockFree \in BOOLEAN /\ config \in Choices /\ pc = "idle" /\ head = "none"
      /\ (lockFree => config.src = "upstream") /\ 1 .. 0 = {} /\ MaxCommit \in Nat \ {0}
  BY ChangesFacts DEF Init
<1>1. lock # Absent => lock \in Lock /\ SoundLock(lock) /\ ~lockFree
  <2>1. CASE lockFree
    BY <2>1 DEF Init
  <2>2. CASE ~lockFree
    <3>0. PICK commit \in Answers(config) : lock \in InitialLocks([s \in 0 .. NSnap |-> commit], config)
      BY <2>2 DEF Init
    <3>1. CASE lock = Absent
      BY <3>1
    <3>2. CASE lock # Absent
      <4>1. /\ config \in Config /\ commit \in 0 .. MaxCommit /\ config.src = "upstream" /\ commit # 0
            /\ config.snap \in 0 .. NSnap
        BY <1>0, <3>0, <3>2, AnswersFacts DEF InitialLocks, Config
      <4>2. Resolve([s \in 0 .. NSnap |-> commit], config) = commit
        BY <1>0, <4>1, <3>0 DEF Resolve, Answers
      <4>3. PICK fp \in {None, Identity(config, 0, commit)} :
              lock = [commit |-> commit, import |-> commit, bump |-> 0, fp |-> fp, rh |-> None]
        BY <3>0, <3>2, <4>1, <4>2 DEF InitialLocks
      <4>4. fp \in Fingerprint \cup {None} /\ (fp # None => fp.id = commit)
        BY <4>1, IdentityFacts
      <4> QED BY <2>2, <4>1, <4>3, <4>4 DEF Lock, SoundLock
    <3> QED BY <3>1, <3>2
  <2> QED BY <2>1, <2>2
<1>2. TypeOK
  <2>1. seen \in [lock : Lock \cup {Absent}, base : Nat, release : Nat]
    BY DEF Init, NoSeen
  <2>2. built \in [1 .. len -> Entry] /\ len \in Nat
    BY <1>0 DEF Init
  <2>3. log \in [1 .. MaxLog -> Lock \cup {Absent}]
    BY DEF Init
  <2>4. MaxLog \in Nat /\ MaxEdits \in Nat /\ MaxFaults \in Nat
    BY HistoryAssumption
  <2> QED BY <1>0, <1>1, <2>1, <2>2, <2>3, <2>4 DEF Init, TypeOK
<1>3. ProjectShape
  BY <1>0, <1>1 DEF ProjectShape, Unprinted
<1>4. ChangesShape /\ ReplayShape /\ TreeShape /\ SeenShape /\ RefusalIsJustified
  BY DEF Init, ChangesShape, ReplayShape, TreeShape, SeenShape, RefusalIsJustified, Replaying, NoSeen
<1> QED BY <1>2, <1>3, <1>4 DEF IInv

\* While no preparation is under way its variables stay.
LEMMA IdleFrame ==
  ASSUME IInv, pc = "idle", UNCHANGED prepared, TypeOK', ProjectShape', SeenShape'
  PROVE  IInv'
<1>1. pc' = "idle" /\ head' = head /\ head # "rebuilt" /\ UNCHANGED <<pos, len, todo>>
  BY DEF prepared, replay, IInv, ChangesShape
<1>2. ~Replaying /\ ~Replaying'
  BY <1>1 DEF Replaying
<1>3. ChangesShape' /\ ReplayShape' /\ TreeShape' /\ RefusalIsJustified'
  BY <1>1, <1>2 DEF IInv, ChangesShape, ReplayShape, TreeShape, RefusalIsJustified
<1> QED BY <1>3 DEF IInv

\* What was seen stays part of the project's history.
LEMMA SeenFrame ==
  ASSUME SeenShape, UNCHANGED <<log, size, seen>>
  PROVE  SeenShape'
BY DEF SeenShape, FoundUpTo, Before

\* The configuration changes.
LEMMA EditIInv == IInv /\ Edit => IInv'
<1> SUFFICES ASSUME IInv, Edit PROVE IInv'
  OBVIOUS
<1>0. pc = "idle" /\ UNCHANGED prepared /\ UNCHANGED <<log, size, seen>> /\ UNCHANGED <<lockFree, lock>>
  BY DEF Edit, prepared
<1>1. TypeOK'
  <2>1. config' \in Choices \cup {Absent}
    BY DEF Edit
  <2>2. edits' \in 0 .. MaxEdits
    BY HistoryAssumption DEF Edit, IInv, TypeOK
  <2> QED BY <1>0, <2>1, <2>2 DEF prepared, replay, IInv, TypeOK
<1>2. ProjectShape'
  BY <1>0 DEF Edit, IInv, ProjectShape, Unprinted
<1> QED BY <1>0, <1>1, <1>2, IdleFrame, SeenFrame DEF IInv

\* The lock file changes, to one that has a fingerprint, or is deleted.
LEMMA LockIInv ==
  ASSUME IInv, pc = "idle", UNCHANGED prepared, UNCHANGED <<lockFree, config, log, size, edits>>,
         lock' \in Lock \cup {Absent},
         lock' # Absent => SoundLock(lock') /\ IF lockFree THEN lock'.commit # 0 ELSE lock'.fp # None
  PROVE  IInv'
<1>1. TypeOK'
  BY DEF prepared, replay, IInv, TypeOK
<1>2. ProjectShape'
  BY DEF IInv, ProjectShape, Unprinted
<1>3. SeenShape'
  BY SeenFrame DEF IInv, prepared
<1> QED BY <1>1, <1>2, <1>3, IdleFrame

\* component update.
LEMMA UpdateIInv == IInv /\ Update => IInv'
<1> SUFFICES ASSUME IInv, Update PROVE IInv'
  OBVIOUS
<1>0. /\ pc = "idle" /\ UNCHANGED prepared /\ UNCHANGED <<lockFree, config, log, size, edits>>
      /\ config \in Choices /\ lock \in Lock \cup {Absent} /\ (lock # Absent => SoundLock(lock))
      /\ (lockFree => config.src = "upstream")
  BY DEF Update, IInv, TypeOK, ProjectShape
<1>1. PICK commit \in Answers(config) :
        lock' = IF lockFree THEN [NewLock EXCEPT !.commit = commit] ELSE Refreshed(lock, config, commit)
  BY DEF Update
<1>2. commit \in 0 .. MaxCommit /\ (commit = 0 <=> config.src = "local")
  BY <1>0, AnswersFacts
<1>3. CASE lockFree
  <2>1. lock' = [commit |-> commit, import |-> 0, bump |-> 0, fp |-> None, rh |-> None]
    BY <1>1, <1>3 DEF NewLock
  <2>2. lock' \in Lock /\ SoundLock(lock') /\ lock'.commit # 0
    BY <1>0, <1>2, <1>3, <2>1, ChangesFacts DEF Lock, SoundLock
  <2> QED BY <1>0, <1>3, <2>2, LockIInv
<1>4. CASE ~lockFree
  BY <1>0, <1>1, <1>4, RefreshedFacts, LockIInv
<1> QED BY <1>3, <1>4

\* component update --bump, and the pruning of locks.
LEMMA BumpPruneIInv == IInv /\ (Bump \/ Prune) => IInv'
<1> SUFFICES ASSUME IInv, Bump \/ Prune PROVE IInv'
  OBVIOUS
<1>0. pc = "idle" /\ UNCHANGED prepared /\ UNCHANGED <<lockFree, config, log, size, edits>>
  BY DEF Bump, Prune
<1>1. CASE Bump
  <2>1. config \in Config /\ lock \in Lock /\ ~lockFree /\ SoundLock(lock) /\ lock' = Bumped(lock, config)
    BY <1>1, AnswersFacts, MarkerFacts DEF Bump, CanBump, IInv, TypeOK, ProjectShape
  <2> QED BY <1>0, <2>1, BumpedFacts, LockIInv
<1>2. CASE Prune
  BY <1>0, <1>2, LockIInv DEF Prune
<1> QED BY <1>1, <1>2

\* The project commits the file.
LEMMA CommitIInv == IInv /\ Commit => IInv'
<1> SUFFICES ASSUME IInv, Commit PROVE IInv'
  OBVIOUS
<1>0. /\ pc = "idle" /\ UNCHANGED prepared /\ UNCHANGED <<lockFree, config, lock, edits, seen>>
      /\ size \in Nat /\ size < MaxLog /\ MaxLog \in Nat /\ log \in [1 .. MaxLog -> Lock \cup {Absent}]
      /\ log' = [log EXCEPT ![size + 1] = lock] /\ size' = size + 1 /\ lock # AtHead
      /\ lock \in Lock \cup {Absent}
  BY HistoryAssumption DEF Commit, prepared, IInv, TypeOK
<1>1. /\ size + 1 \in 1 .. MaxLog /\ log'[size + 1] = lock
      /\ \A i \in 1 .. size : log'[i] = log[i] /\ i \in 1 .. size + 1 /\ i # size + 1
      /\ \A i \in 1 .. size + 1 : i = size + 1 \/ i \in 1 .. size
  BY <1>0
<1>2. TypeOK'
  BY <1>0, <1>1 DEF prepared, replay, IInv, TypeOK
<1>3. ProjectShape'
  <2>1. \A i \in 1 .. size : Unprinted(i)' <=> Unprinted(i)
    <3>1. ASSUME NEW i \in 1 .. size PROVE \A j \in 1 .. i : log'[j] = log[j]
      <4>1. \A j \in 1 .. i : j \in 1 .. size
        BY <1>0
      <4> QED BY <1>1, <4>1
    <3> QED BY <3>1 DEF Unprinted
  <2>2. ~lockFree /\ lock # Absent => (lock.fp = None => Unprinted(size)')
    BY <1>0, <1>1 DEF IInv, ProjectShape, Unprinted
  <2>3. ASSUME NEW i \in 1 .. size + 1
        PROVE  /\ log'[i] # Absent => SoundLock(log'[i])
               /\ log'[i] # IF i = 1 THEN Absent ELSE log'[i - 1]
               /\ ~lockFree /\ log'[i] # Absent => (log'[i].fp = None => Unprinted(i)')
    <3>1. CASE i = size + 1
      <4>1. lock # IF i = 1 THEN Absent ELSE log'[i - 1]
        <5>1. i # 1 => i - 1 = size /\ size \in 1 .. size
          BY <1>0, <3>1
        <5> QED BY <1>0, <1>1, <3>1, <5>1 DEF AtHead
      <4>2. log'[i] = lock /\ (Unprinted(i)' <=> Unprinted(size)')
        BY <1>0, <1>1, <3>1 DEF Unprinted
      <4> QED BY <2>2, <4>1, <4>2 DEF IInv, ProjectShape
    <3>2. CASE i \in 1 .. size
      <4>1. log'[i] = log[i] /\ (i # 1 => i - 1 \in 1 .. size)
        BY <1>0, <1>1, <3>2
      <4>2. i # 1 => log'[i - 1] = log[i - 1]
        BY <1>1, <4>1
      <4>3. /\ log[i] # Absent => SoundLock(log[i])
            /\ log[i] # IF i = 1 THEN Absent ELSE log[i - 1]
            /\ ~lockFree /\ log[i] # Absent => (log[i].fp = None => Unprinted(i))
        BY <3>2 DEF IInv, ProjectShape
      <4> QED BY <2>1, <3>2, <4>1, <4>2, <4>3
    <3> QED BY <1>1, <3>1, <3>2
  <2> QED BY <1>0, <2>2, <2>3 DEF IInv, ProjectShape
<1>4. SeenShape'
  <2>1. ASSUME NEW s \in 1 .. size PROVE FoundUpTo(s)' = FoundUpTo(s)
    <3>1. ASSUME NEW i \in 1 .. s PROVE log'[i] = log[i] /\ Before(i)' = Before(i)
      <4>1. i \in 1 .. size /\ (i # 1 => i - 1 \in 1 .. size)
        BY <1>0, <2>1
      <4> QED BY <1>1, <4>1 DEF Before
    <3> QED BY <3>1 DEF FoundUpTo
  <2> QED BY <1>0, <1>1, <2>1 DEF IInv, SeenShape
<1> QED BY <1>0, <1>2, <1>3, <1>4, IdleFrame

-----------------------------------------------------------------------------
(* Discovery.                                                              *)

\* What is read from the project stays as long as the project does.
LEMMA SameProject ==
  ASSUME UNCHANGED project
  PROVE  /\ AtHead' = AtHead /\ Effective' = Effective /\ HeadLine' = HeadLine
         /\ Discovered' = Discovered /\ (Skipped' <=> Skipped) /\ (Deleted' <=> Deleted)
         /\ CommitChanges' = CommitChanges /\ FingerprintChanges' = FingerprintChanges
         /\ UNCHANGED <<lockFree, config, lock, log, size, edits>>
<1>1. UNCHANGED <<lockFree, config, lock, log, size, edits>>
  BY DEF project
<1>2. AtHead' = AtHead /\ Effective' = Effective /\ (Deleted' <=> Deleted)
  BY <1>1 DEF AtHead, Effective, Deleted
<1>3. HeadLine' = HeadLine /\ (Skipped' <=> Skipped)
  BY <1>1, <1>2 DEF HeadLine, Skipped
<1>4. CommitChanges' = CommitChanges
  BY <1>1 DEF CommitChanges, CommitAt
<1>5. Found' = Found
  BY <1>1 DEF Found, Before
<1>6. CurrentFingerprint' = CurrentFingerprint
  BY <1>1, <1>2 DEF CurrentFingerprint, IdentityHere
<1>7. FingerprintChanges' = FingerprintChanges
  BY <1>1, <1>2, <1>5, <1>6 DEF FingerprintChanges, IsDirty
<1> QED BY <1>1, <1>2, <1>3, <1>4, <1>7 DEF Discovered

\* A preparation leaves the project as it is.
LEMMA ProjectKept ==
  ASSUME IInv, UNCHANGED project
  PROVE  ProjectShape'
BY DEF project, IInv, ProjectShape, Unprinted

\* A preparation that ends before its HEAD is whole.
LEMMA EndFrame ==
  ASSUME IInv, pc # "idle", UNCHANGED <<project, replay, seen>>, pc' \in {"done", "failed"}, head' # "rebuilt",
         TypeOK', RefusalIsJustified'
  PROVE  IInv'
<1>0. UNCHANGED <<lockFree, config, lock, log, size, edits, pos, len, todo, seen>> /\ ~Replaying'
  BY DEF project, replay, Replaying
<1>1. ChangesShape'
  BY <1>0 DEF IInv, ChangesShape
<1>2. ReplayShape' /\ TreeShape' /\ SeenShape'
  BY <1>0, SeenFrame DEF IInv, ReplayShape, TreeShape
<1> QED BY <1>1, <1>2, ProjectKept DEF IInv

\* One that has not begun to replay.
LEMMA EarlyFrame ==
  ASSUME IInv, pc \in {"idle", "discover", "bump"}, UNCHANGED <<project, replay, seen>>,
         pc' \in {"discover", "bump", "collect"}, head' # "rebuilt", TypeOK', ChangesShape'
  PROVE  IInv'
<1>0. UNCHANGED <<log, size, pos, len, todo, seen>> /\ ~Replaying' /\ ~Replaying
  BY DEF project, replay, Replaying, IInv, ChangesShape
<1>1. ReplayShape' /\ TreeShape' /\ SeenShape' /\ RefusalIsJustified'
  BY <1>0, SeenFrame DEF IInv, ReplayShape, TreeShape, RefusalIsJustified
<1> QED BY <1>1, ProjectKept DEF IInv

\* A preparation begins.
LEMMA PrepareIInv ==
  ASSUME IInv, NEW calculation \in Calculations, NEW tag \in Tags, Prepare(calculation, tag)
  PROVE  IInv'
<1>0. /\ pc = "idle" /\ pc' = "discover" /\ head' \in {"none", "cloned"}
      /\ UNCHANGED <<project, on, import, bump, replay, seen, faults>>
      /\ config # Absent /\ IF lockFree THEN Readable(lock) ELSE Validates(config, lock)
  BY DEF Prepare
<1>1. kind' \in {"none", "static", "refused"}
  BY DEF Prepare, BumpKind, Calculations, Tags
<1>2. TypeOK'
  BY <1>0, <1>1 DEF project, replay, IInv, TypeOK
<1>3. ChangesShape'
  BY <1>0 DEF project, ChangesShape, Replaying
<1> QED BY <1>0, <1>2, <1>3, EarlyFrame

\* The upstream commit a preparation is for.
LEMMA EffectiveFacts ==
  ASSUME IInv, pc # "idle"
  PROVE  /\ config \in Choices /\ config # Absent /\ config.src \in {"upstream", "local"}
         /\ Effective \in 0 .. MaxCommit
         /\ config.src = "upstream" => Effective \in Commits /\ Effective = lock.commit /\ lock \in Lock
<1>1. config \in Choices /\ config # Absent /\ config.src \in {"upstream", "local"} /\ config.pin \in 0 .. MaxCommit
  BY AnswersFacts DEF IInv, TypeOK, ChangesShape
<1>2. lock \in Lock \cup {Absent} /\ (lock \in Lock => lock.commit \in 0 .. MaxCommit)
  BY LockFacts DEF IInv, TypeOK
<1>3. config.src = "upstream" => lock \in Lock /\ lock.commit # 0
  BY <1>1, <1>2, MarkerFacts DEF IInv, ChangesShape, ProjectShape, Validates
<1> QED BY <1>1, <1>2, <1>3, MarkerFacts, ChangesFacts DEF Effective

\* The Release tag holds a number, which is what the spec came with and one
\* for each bump.
LEMMA ReleaseFacts ==
  ASSUME IInv, pc # "idle"
  PROVE  BaseRelease \in Nat /\ bump \in Nat /\ Release = BaseRelease + bump /\ Release \in Nat
<1>1. 0 \in 0 .. MaxCommit /\ Effective \in 0 .. MaxCommit /\ config \in Choices
  BY EffectiveFacts, ChangesFacts
<1>2. BaseRelease \in Nat
  BY <1>1, HistoryAssumption DEF BaseRelease
<1>3. bump \in Nat
  BY DEF IInv, TypeOK
<1> QED BY <1>2, <1>3 DEF Release

\* The changes found are numbered, and each names a commit or none.
LEMMA DiscoveredFacts ==
  ASSUME IInv, pc # "idle", ~Skipped, ~lockFree => ~Deleted
  PROVE  /\ DOMAIN Discovered \subseteq Changes /\ \A k \in DOMAIN Discovered : Discovered[k] \in 0 .. MaxCommit
         /\ lockFree => DOMAIN Discovered # {}
         /\ ~lockFree => /\ AtHead \in Lock /\ size \in 1 .. MaxLog /\ AtHead = log[size]
                         /\ \A i \in 1 .. size : log[i] \in Lock
<1>0. /\ size \in Nat /\ size <= MaxLog /\ \A i \in 1 .. size : log[i] \in Lock \cup {Absent}
      /\ \A i \in 1 .. size : log[i] # Absent => log[i] \in Lock
  BY ProjectFacts DEF IInv
<1>1. \A i \in 1 .. size : i \in Changes /\ i # Dirty /\ i \in 1 .. MaxLog
  BY <1>0, ChangesFacts
<1>2. Dirty \in Changes
  BY ChangesFacts
<1>3. CASE lockFree
  <2>1. Discovered = [k \in 1 .. size |-> CommitAt(k)] /\ size # 0
    BY <1>3 DEF Discovered, CommitChanges, Skipped
  <2>2. ASSUME NEW k \in 1 .. size PROVE CommitAt(k) \in 0 .. MaxCommit
    <3>1. CASE log[k] = Absent
      <4>1. k # 1 /\ log[k - 1] # Absent
        BY <3>1 DEF IInv, ProjectShape
      <4>2. k - 1 \in 1 .. size
        BY <1>0, <4>1
      <4> QED BY <1>0, <3>1, <4>1, <4>2, LockFacts DEF CommitAt
    <3>2. CASE log[k] # Absent
      BY <1>0, <3>2, LockFacts DEF CommitAt
    <3> QED BY <3>1, <3>2
  <2>3. 1 \in 1 .. size
    BY <1>0, <2>1
  <2> QED BY <1>1, <1>3, <2>1, <2>2, <2>3
<1>4. CASE ~lockFree
  <2>1. size # 0 /\ AtHead = log[size] /\ size \in 1 .. MaxLog /\ \A i \in 1 .. size : log[i] # Absent
    BY <1>0, <1>4 DEF Skipped, AtHead, Deleted
  <2>2. \A i \in 1 .. size : log[i] \in Lock
    BY <1>0, <2>1
  <2>3. size \in 1 .. size
    BY <1>0, <2>1
  <2>4. DOMAIN FingerprintChanges \subseteq Changes
    BY <1>1, <1>2 DEF FingerprintChanges, Found
  <2>5. \A k \in DOMAIN FingerprintChanges : FingerprintChanges[k] \in 0 .. MaxCommit
    <3>1. \A k \in 1 .. size : log[k].commit \in 0 .. MaxCommit /\ k # Dirty
      BY <1>1, <2>2, LockFacts
    <3> QED BY <3>1, EffectiveFacts DEF FingerprintChanges, Found
  <2> QED BY <1>4, <2>1, <2>2, <2>3, <2>4, <2>5 DEF Discovered
<1> QED BY <1>3, <1>4

\* There may be nothing to represent, or a deleted lock in the way.
LEMMA DiscoverNothingIInv == IInv /\ DiscoverNothing => IInv'
<1> SUFFICES ASSUME IInv, DiscoverNothing PROVE IInv'
  OBVIOUS
<1>0. pc = "discover" /\ pc' = "done" /\ UNCHANGED <<project, kind, head, on, import, bump, replay, seen, faults>>
  BY DEF DiscoverNothing
<1>1. TypeOK' /\ RefusalIsJustified' /\ head' # "rebuilt"
  BY <1>0 DEF project, replay, IInv, TypeOK, RefusalIsJustified, ChangesShape
<1> QED BY <1>0, <1>1, EndFrame

\* A history in which the lock was deleted is refused, and a Release tag that
\* cannot be bumped.
LEMMA RefusedIInv == IInv /\ (DiscoverRefused \/ BumpRefused) => IInv'
<1> SUFFICES ASSUME IInv, DiscoverRefused \/ BumpRefused PROVE IInv'
  OBVIOUS
<1>0. /\ pc \in {"discover", "bump"} /\ pc' = "failed"
      /\ UNCHANGED <<project, kind, head, on, import, bump, replay, seen, faults>>
      /\ (~lockFree /\ Deleted) \/ kind = "refused"
  BY DEF DiscoverRefused, BumpRefused
<1>1. TypeOK' /\ head' # "rebuilt"
  BY <1>0 DEF project, replay, IInv, TypeOK, ChangesShape
<1>2. RefusalIsJustified'
  BY <1>0, SameProject DEF RefusalIsJustified
<1> QED BY <1>0, <1>1, <1>2, EndFrame

\* The changes are found.
LEMMA DiscoverIInv == IInv /\ Discover => IInv'
<1> SUFFICES ASSUME IInv, Discover PROVE IInv'
  OBVIOUS
<1>0. /\ pc = "discover" /\ pc' = "bump" /\ UNCHANGED <<project, kind, head, bump, replay, seen, faults>>
      /\ ~Skipped /\ (~lockFree => ~Deleted) /\ ~FoundNothing
      /\ on' = Discovered /\ import' = IF lockFree THEN 0 ELSE AtHead.import
  BY DEF Discover, Discovered
<1>1. /\ DOMAIN Discovered \subseteq Changes /\ \A k \in DOMAIN Discovered : Discovered[k] \in 0 .. MaxCommit
      /\ lockFree => DOMAIN Discovered # {}
      /\ ~lockFree => AtHead \in Lock
  BY <1>0, DiscoveredFacts
<1>2. DOMAIN Discovered # {}
  BY <1>0, <1>1 DEF FoundNothing, Discovered
<1>3. import' \in 0 .. MaxCommit
  BY <1>0, <1>1, LockFacts, ChangesFacts
<1>4. todo = {} /\ head # "rebuilt"
  BY <1>0 DEF IInv, ReplayShape, ChangesShape, Replaying
<1>5. TypeOK'
  BY <1>0, <1>1, <1>3, <1>4 DEF project, replay, IInv, TypeOK
<1>6. ChangesShape'
  BY <1>0, <1>2, <1>4, SameProject DEF IInv, ChangesShape, Replaying
<1> QED BY <1>0, <1>4, <1>5, <1>6, EarlyFrame

\* The release is bumped, once per change.
LEMMA BumpOnceIInv == IInv /\ (BumpOnce \/ OpenRepository) => IInv'
<1> SUFFICES ASSUME IInv, BumpOnce \/ OpenRepository PROVE IInv'
  OBVIOUS
<1>0. pc = "bump" /\ pc' \in {"bump", "collect"} /\ UNCHANGED <<project, kind, on, import, replay, seen, faults>>
  BY DEF BumpOnce, OpenRepository
<1>1. head' \in {"none", "cloned", "initial", "staged"} /\ bump' \in Nat
  BY <1>0 DEF BumpOnce, OpenRepository, IInv, TypeOK, ChangesShape
<1>2. TypeOK'
  BY <1>0, <1>1 DEF project, replay, IInv, TypeOK
<1>3. ChangesShape'
  BY <1>0, <1>1, SameProject DEF BumpOnce, OpenRepository, BumpedEnough, IInv, ChangesShape, Replaying
<1> QED BY <1>0, <1>1, <1>2, <1>3, EarlyFrame

\* An error ends the preparation.
LEMMA FaultIInv == IInv /\ FaultStep => IInv'
<1> SUFFICES ASSUME IInv, FaultStep PROVE IInv'
  OBVIOUS
<1>0. /\ pc \in {"discover", "bump", "collect", "replay"} /\ pc' = "failed" /\ head' \in {head, "staged"}
      /\ UNCHANGED <<project, kind, on, import, replay, seen>> /\ bump' \in Nat
      /\ faults \in 0 .. MaxFaults /\ faults < MaxFaults /\ faults' = faults + 1 /\ MaxFaults \in Nat
  BY HistoryAssumption DEF FaultStep, BumpFails, PreparationFails, Fault, IInv, TypeOK
<1>1. faults' \in 0 .. MaxFaults /\ faults' # 0 /\ head' # "rebuilt"
  BY <1>0 DEF IInv, ChangesShape
<1>2. TypeOK' /\ RefusalIsJustified'
  BY <1>0, <1>1 DEF project, replay, IInv, TypeOK, RefusalIsJustified
<1> QED BY <1>0, <1>1, <1>2, EndFrame

-----------------------------------------------------------------------------
(* The walk of the upstream history.                                       *)

\* The import commit is known, and the changes are those of the project.
LEMMA CollectFacts ==
  ASSUME IInv, pc = "collect"
  PROVE  /\ on = Discovered /\ DOMAIN on # {} /\ DOMAIN on \subseteq Changes
         /\ ~Skipped /\ (~lockFree => ~Deleted)
         /\ import = IF lockFree THEN 0 ELSE AtHead.import
         /\ Last \in DOMAIN on /\ \A k \in DOMAIN on : k <= Last
         /\ Latest = Discovered[Last]
<1>1. /\ on = Discovered /\ DOMAIN on # {} /\ DOMAIN on \subseteq Changes
      /\ ~Skipped /\ (~lockFree => ~Deleted)
      /\ import = IF lockFree THEN 0 ELSE AtHead.import
  BY DEF IInv, ChangesShape, TypeOK
<1> QED BY <1>1, LastFacts DEF Latest

\* The last change is the dirty one, or the last commit that changed the
\* fingerprint: then HEAD still holds that fingerprint.
LEMMA LastIsCurrent ==
  ASSUME IInv, pc = "collect", ~lockFree
  PROVE  \/ Last = Dirty /\ Latest = Effective /\ IsDirty
         \/ /\ ~IsDirty /\ Last \in 1 .. size /\ Latest = log[Last].commit
            /\ log[Last].fp = AtHead.fp /\ AtHead.fp # None
<1>0. /\ on = FingerprintChanges /\ Last \in DOMAIN on /\ \A k \in DOMAIN on : k <= Last
      /\ Latest = FingerprintChanges[Last] /\ size \in 1 .. MaxLog /\ AtHead = log[size]
      /\ \A i \in 1 .. size : log[i] \in Lock /\ log[i] # Absent
  BY CollectFacts, DiscoveredFacts, MarkerFacts DEF Discovered
<1>1. /\ size \in Nat /\ MaxLog \in Nat /\ size <= MaxLog /\ Dirty = MaxLog + 1
      /\ Found \subseteq 1 .. size /\ Dirty \notin Found
  BY <1>0, ChangesFacts DEF Found
<1>2. DOMAIN on = Found \cup IF IsDirty THEN {Dirty} ELSE {}
  BY <1>0 DEF FingerprintChanges
<1>3. CASE IsDirty
  <2>1. Last = Dirty
    <3>1. Dirty \in DOMAIN on /\ Dirty \in Nat /\ \A k \in Found : k \in Nat /\ ~(Dirty <= k)
      BY <1>1, <1>2, <1>3
    <3>2. Last \notin Found
      BY <1>0, <3>1
    <3> QED BY <1>0, <1>2, <1>3, <3>2
  <2> QED BY <1>0, <1>3, <2>1 DEF FingerprintChanges
<1>4. CASE ~IsDirty
  <2>0. Last \in Found /\ Last \in 1 .. size /\ Last # Dirty /\ \A k \in Found : k <= Last
    BY <1>0, <1>1, <1>2, <1>4
  <2>1. Latest = log[Last].commit
    BY <1>0, <2>0 DEF FingerprintChanges
  <2>2. \A i \in 1 .. size : i > Last => log[i].fp = log[i - 1].fp
    <3>1. ASSUME NEW i \in 1 .. size, i > Last PROVE log[i].fp = log[i - 1].fp
      <4>1. i \notin Found /\ i # 1
        BY <2>0, <3>1
      <4> QED BY <4>1 DEF Found, Before
    <3> QED BY <3>1
  <2>3. log[Last].fp = AtHead.fp
    <3> DEFINE Other == {i \in 1 .. size : i > Last /\ log[i].fp # log[Last].fp}
    <3>1. Other = {}
      <4>1. SUFFICES ASSUME Other # {} PROVE FALSE
        OBVIOUS
      <4>2. Earliest(Other) \in Other /\ \A k \in Other : Earliest(Other) <= k
        <5>1. Other \subseteq 1 .. size
          OBVIOUS
        <5> HIDE DEF Other
        <5> QED BY <1>1, <4>1, <5>1, EarliestFacts
      <4>3. PICK m \in Other : \A k \in Other : m <= k
        BY <4>2
      <4>4. /\ m \in 1 .. size /\ m > Last /\ log[m].fp # log[Last].fp /\ log[m].fp = log[m - 1].fp
            /\ m - 1 \in 1 .. size /\ (m - 1 > Last \/ m - 1 = Last) /\ ~(m <= m - 1)
        <5>1. m \in 1 .. size /\ m > Last /\ log[m].fp # log[Last].fp
          BY <4>3
        <5>2. m \in Nat /\ Last \in Nat /\ Last >= 1 /\ m <= size
          BY <1>1, <2>0, <5>1
        <5>3. m - 1 \in 1 .. size /\ (m - 1 > Last \/ m - 1 = Last) /\ ~(m <= m - 1)
          BY <1>1, <5>1, <5>2
        <5> QED BY <2>2, <5>1, <5>3
      <4>5. m - 1 \notin Other
        BY <4>3, <4>4
      <4> QED BY <4>4, <4>5
    <3>2. size \in 1 .. size /\ (size > Last \/ size = Last)
      BY <1>0, <2>0
    <3> QED BY <1>0, <3>1, <3>2
  <2>4. AtHead.fp # None
    <3>1. SUFFICES ASSUME AtHead.fp = None PROVE FALSE
      OBVIOUS
    <3>2. size \in 1 .. size /\ Unprinted(size)
      BY <1>0, <3>1 DEF IInv, ProjectShape
    <3>3. \A i \in 1 .. size : log[i].fp = None
      BY <1>0, <3>2 DEF Unprinted
    <3>4. Last # 1 => Last - 1 \in 1 .. size
      BY <1>1, <2>0
    <3>5. log[Last].fp = Before(Last)
      BY <2>0, <3>3, <3>4 DEF Before
    <3> QED BY <2>0, <3>5 DEF Found
  <2> QED BY <1>4, <2>0, <2>1, <2>3, <2>4
<1> QED BY <1>3, <1>4

\* An upstream component that is up to date, or not yet committed, was last
\* changed on the commit that is checked out.
LEMMA LatestIsEffective ==
  ASSUME IInv, pc = "collect", ~lockFree, config.src = "upstream"
  PROVE  Latest = Effective
<1>0. /\ config \in Config /\ Effective \in Commits /\ lock \in Lock /\ lock.bump \in Nat /\ Effective \in 0 .. MaxCommit
      /\ Effective # 0
  BY EffectiveFacts, AnswersFacts, LockFacts, ChangesFacts
<1>1. CASE Last = Dirty /\ Latest = Effective
  BY <1>1
<1>2. CASE /\ ~IsDirty /\ Last \in 1 .. size /\ Latest = log[Last].commit
           /\ log[Last].fp = AtHead.fp /\ AtHead.fp # None
  <2>1. CurrentFingerprint = [Identity(config, lock.bump, Effective) EXCEPT !.id = Effective]
    BY <1>0, MarkerFacts DEF CurrentFingerprint, IdentityHere
  <2>2. /\ Identity(config, lock.bump, Effective) \in Fingerprint
        /\ Identity(config, lock.bump, Effective).src = "upstream"
        /\ Identity(config, lock.bump, Effective).id = Effective
    BY <1>0, IdentityFacts
  <2>3. CurrentFingerprint \in Fingerprint /\ CurrentFingerprint.src = "upstream" /\ CurrentFingerprint.id = Effective
    BY <2>1, <2>2, <1>0 DEF Fingerprint
  <2>4. CurrentFingerprint = AtHead.fp
    BY <1>2, <2>3, MarkerFacts DEF IsDirty
  <2>5. log[Last] # Absent
    BY <1>2, CollectFacts, DiscoveredFacts, MarkerFacts
  <2>6. SoundLock(log[Last])
    BY <1>2, <2>5 DEF IInv, ProjectShape
  <2> QED BY <1>2, <2>3, <2>4, <2>6 DEF SoundLock
<1> QED BY <1>1, <1>2, LastIsCurrent

\* In lock-file-free mode the last change is what the file was last committed
\* with: the commit checked out, unless the file was changed since.
LEMMA LatestIsLastNamed ==
  ASSUME IInv, pc = "collect", lockFree
  PROVE  Latest = LastNamed /\ (lock = AtHead => Latest \in {0, Effective})
<1>0. /\ on = CommitChanges /\ DOMAIN on = 1 .. size /\ size \in Nat /\ size \in 1 .. size
      /\ Last \in 1 .. size /\ \A k \in 1 .. size : k <= Last
      /\ Latest = CommitAt(Last)
  <2>1. on = CommitChanges /\ DOMAIN on = 1 .. size
    BY CollectFacts DEF Discovered, CommitChanges
  <2>2. size \in Nat /\ size # 0
    BY CollectFacts, ProjectFacts DEF Skipped, IInv
  <2>3. size \in 1 .. size
    BY <2>2
  <2> QED BY <2>1, <2>2, <2>3, CollectFacts DEF CommitChanges, Discovered
<1>1. Last = size
  <2>1. size <= Last /\ Last <= size /\ Last \in Nat
    BY <1>0
  <2> QED BY <1>0, <2>1
<1>2. lock \in Lock /\ lock # Absent /\ Effective = lock.commit /\ size # 0
  <2>1. config.src = "upstream"
    BY EffectiveFacts DEF IInv, ProjectShape
  <2> QED BY <1>0, <2>1, EffectiveFacts, MarkerFacts
<1>3. CASE log[size] # Absent
  <2>1. (CHOOSE i \in 1 .. size : log[i] # Absent /\ \A j \in i + 1 .. size : log[j] = Absent) = size
    BY <1>0, <1>3
  <2>2. Latest = log[size].commit /\ LastNamed = log[size].commit
    BY <1>0, <1>1, <1>3, <2>1 DEF CommitAt, LastNamed
  <2>3. lock = AtHead => lock = log[size]
    BY <1>2 DEF AtHead
  <2> QED BY <1>2, <2>2, <2>3
<1>4. CASE log[size] = Absent
  <2>1. size - 1 \in 1 .. size /\ log[size - 1] # Absent
    BY <1>0, <1>4, ProjectFacts DEF IInv, ProjectShape
  <2>2. \A j \in size .. size : log[j] = Absent
    BY <1>0, <1>4
  <2>3. (CHOOSE i \in 1 .. size : log[i] # Absent /\ \A j \in i + 1 .. size : log[j] = Absent) = size - 1
    BY <1>0, <1>4, <2>1, <2>2
  <2>4. Latest = log[size - 1].commit /\ LastNamed = log[size - 1].commit
    BY <1>0, <1>1, <1>4, <2>3 DEF CommitAt, LastNamed
  <2>5. lock # AtHead
    BY <1>4, <1>2 DEF AtHead
  <2> QED BY <2>4, <2>5
<1> QED BY <1>3, <1>4

\* The upstream history reaches back from the latest change to the import
\* commit, but for what RefusalIsJustified lists.
LEMMA RefusedRightly ==
  ASSUME IInv, pc = "collect", ~Reaches
  PROVE  \/ config.src = "local" /\ config.pin # 0
         \/ config.src = "local" /\ (AtHead.commit # 0 \/ (lock # Absent /\ lock.commit # 0))
         \/ config.src = "local" /\ \E i \in 1 .. size : SwitchedByBump(log[i])
         \/ config.src = "upstream" /\ ~lockFree /\ AtHead.import \notin {0} \cup Mainline[Effective]
         \/ lockFree /\ lock # AtHead /\ LastNamed \notin Mainline[Effective]
<1>0. config.src \in {"upstream", "local"} /\ import = IF lockFree THEN 0 ELSE AtHead.import
  BY EffectiveFacts, CollectFacts
<1>1. CASE lockFree
  <2>1. Latest # 0 /\ Latest \notin HeadLine
    BY <1>0, <1>1 DEF Reaches
  <2>2. Latest = LastNamed /\ (lock = AtHead => Latest \in {0, Effective})
    BY <1>1, LatestIsLastNamed
  <2>3. config.src = "upstream" /\ Effective \in Commits /\ HeadLine = Mainline[Effective]
    <3>1. config.src = "upstream"
      BY <1>1, EffectiveFacts DEF IInv, ProjectShape
    <3> QED BY <3>1, EffectiveFacts DEF HeadLine
  <2>4. Effective \in Mainline[Effective]
    BY <2>3, MainlineAssumption
  <2> QED BY <1>1, <2>1, <2>2, <2>3, <2>4
<1>2. CASE ~lockFree /\ config.src = "upstream"
  <2>1. SUFFICES ASSUME AtHead.import \in {0} \cup Mainline[Effective] PROVE FALSE
    BY <1>2
  <2>2. Latest = Effective /\ Effective \in Commits /\ HeadLine = Mainline[Effective]
    BY <1>2, LatestIsEffective, EffectiveFacts DEF HeadLine
  <2>3. Effective \in Mainline[Effective] /\ \A d \in Mainline[Effective] : d <= Effective
    BY <2>2, MainlineAssumption
  <2> QED BY <1>0, <1>2, <2>1, <2>2, <2>3 DEF Reaches
<1>3. CASE ~lockFree /\ config.src = "local"
  <2>1. SUFFICES ASSUME config.pin = 0, AtHead.commit = 0, lock = Absent \/ lock.commit = 0,
                        \A i \in 1 .. size : ~SwitchedByBump(log[i])
                 PROVE  FALSE
    BY <1>3
  <2>2. Effective = 0
    BY <2>1 DEF Effective, Readable
  <2>3. ~IsDirty
    BY <2>2 DEF IsDirty, CurrentFingerprint
  <2>4. Last \in 1 .. size /\ Latest = log[Last].commit /\ log[Last].fp = AtHead.fp /\ AtHead.fp # None
    BY <1>3, <2>3, LastIsCurrent
  <2>5. /\ size \in 1 .. size /\ AtHead = log[size] /\ log[size] # Absent /\ log[Last] # Absent
        /\ AtHead.fp.src \in {"upstream", "local"}
    BY <1>3, <2>4, CollectFacts, DiscoveredFacts, MarkerFacts, LockFacts
  <2>6. SoundLock(log[Last]) /\ SoundLock(AtHead)
    BY <2>4, <2>5 DEF IInv, ProjectShape
  <2>7. Latest = 0
    <3>1. CASE AtHead.fp.src = "upstream"
      BY <2>1, <2>4, <2>6, <3>1 DEF SoundLock
    <3>2. CASE AtHead.fp.src = "local"
      BY <2>1, <2>4, <3>2 DEF SwitchedByBump
    <3> QED BY <2>5, <3>1, <3>2
  <2>8. import = 0
    BY <1>0, <1>3, <2>1, <2>6 DEF SoundLock
  <2> QED BY <2>7, <2>8 DEF Reaches
<1> QED BY <1>0, <1>1, <1>2, <1>3

\* A history that does not reach back is refused.
LEMMA CollectRefusedIInv == IInv /\ CollectRefused => IInv'
<1> SUFFICES ASSUME IInv, CollectRefused PROVE IInv'
  OBVIOUS
<1>0. /\ pc = "collect" /\ pc' = "failed" /\ ~Reaches
      /\ UNCHANGED <<project, kind, head, on, import, bump, replay, seen, faults>>
  BY DEF CollectRefused
<1>1. TypeOK' /\ head' # "rebuilt"
  BY <1>0 DEF project, replay, IInv, TypeOK, ChangesShape
<1>2. RefusalIsJustified'
  <2>1. LastNamed' = LastNamed /\ (\A l : SwitchedByBump(l)' <=> SwitchedByBump(l))
    BY <1>0 DEF project, LastNamed, SwitchedByBump
  <2> QED BY <1>0, <2>1, SameProject, RefusedRightly DEF RefusalIsJustified
<1> QED BY <1>0, <1>1, <1>2, EndFrame

\* The next preparation starts anew.
LEMMA LeaveIInv == IInv /\ Leave => IInv'
<1> SUFFICES ASSUME IInv, Leave PROVE IInv'
  OBVIOUS
<1>0. /\ pc' = "idle" /\ kind' = "none" /\ head' = "none" /\ on' = [k \in {} |-> 0] /\ import' = 0 /\ bump' = 0
      /\ pos' = 0 /\ todo' = {} /\ built' = [i \in {} |-> 0] /\ len' = 0 /\ faults' = 0
      /\ UNCHANGED <<lockFree, config, lock, log, size, edits, seen>>
  BY DEF Leave, project
<1>1. TypeOK'
  <2>1. built' \in [1 .. len' -> Entry] /\ len' \in Nat
    <3>1. 1 .. 0 = {}
      OBVIOUS
    <3> QED BY <1>0, <3>1
  <2>2. MaxCommit \in Nat /\ MaxFaults \in Nat
    BY ChangesFacts, HistoryAssumption
  <2> QED BY <1>0, <2>1, <2>2 DEF IInv, TypeOK
<1>2. ProjectShape' /\ SeenShape'
  BY <1>0, ProjectKept, SeenFrame DEF IInv, project
<1>3. ChangesShape' /\ ReplayShape' /\ TreeShape' /\ RefusalIsJustified'
  BY <1>0 DEF ChangesShape, ReplayShape, TreeShape, RefusalIsJustified, Replaying
<1> QED BY <1>1, <1>2, <1>3 DEF IInv
\* A commit that is one of several equivalent ones is not found this way.
LEMMA OnlyOne ==
  ASSUME NEW S, NEW n \in Nat, S \subseteq 1 .. n
  PROVE  Cardinality(S) = 1 <=> \E x : S = {x}
<1>1. 1 \in Int /\ n \in Int /\ S \in SUBSET (1 .. n)
  OBVIOUS
<1>2. IsFiniteSet(S)
  BY <1>1, FS_Interval, FS_Subset
<1> QED BY <1>2, FS_Singleton

\* The changes found, once there are any.
LEMMA OnFacts ==
  ASSUME IInv, pc = "collect" \/ Replaying
  PROVE  /\ pc # "idle" /\ DOMAIN on # {} /\ DOMAIN on \subseteq Changes /\ DOMAIN on = DOMAIN Discovered
         /\ \A k \in DOMAIN on : on[k] \in 0 .. MaxCommit /\ k \in Nat
         /\ Last \in DOMAIN on /\ \A k \in DOMAIN on : k <= Last
         /\ Latest \in 0 .. MaxCommit /\ import \in 0 .. MaxCommit
<1>1. /\ pc # "idle" /\ DOMAIN on # {} /\ DOMAIN on \subseteq Changes /\ DOMAIN on = DOMAIN Discovered
      /\ \A k \in DOMAIN on : on[k] \in 0 .. MaxCommit
      /\ import \in 0 .. MaxCommit
  BY DEF IInv, ChangesShape, TypeOK, Replaying
<1>2. \A k \in DOMAIN on : k \in Nat
  BY <1>1, ChangesFacts
<1> QED BY <1>1, <1>2, LastFacts DEF Latest

\* The upstream commits that are walked: there is one, and the latest change
\* was made on the last of them.
LEMMA PathFacts ==
  ASSUME IInv, pc = "collect" \/ Replaying, Reaches
  PROVE  /\ Path \subseteq 1 .. MaxCommit + 1 /\ Path # {} /\ Top \notin Path
         /\ \A c \in Path : c \in Nat /\ 0 < c /\ c < Top
         /\ Latest # 0 => Latest \in Path
<1>0. /\ config.src \in {"upstream", "local"} /\ (config.src = "upstream" => Effective \in Commits)
      /\ Latest \in 0 .. MaxCommit /\ import \in 0 .. MaxCommit /\ MaxCommit \in Nat
  BY EffectiveFacts, OnFacts, ChangesFacts
<1>1. HeadLine \subseteq 1 .. MaxCommit + 1
  <2>1. CASE config.src = "local"
    BY <1>0, <2>1 DEF HeadLine, InitialSources
  <2>2. CASE config.src = "upstream"
    <3>1. Mainline[Effective] \subseteq Commits
      BY <1>0, <2>2, MainlineAssumption
    <3> QED BY <1>0, <2>2, <3>1, ChangesFacts DEF HeadLine
  <2> QED BY <1>0, <2>1, <2>2
<1>2. Path \subseteq HeadLine
  BY DEF Path
<1>3. \A c \in HeadLine : c \in Nat /\ 0 < c /\ c < Top /\ c # Top
  BY <1>0, <1>1 DEF Top
<1>4. Latest # 0 => Latest \in Path
  <2>1. SUFFICES ASSUME Latest # 0 PROVE Latest \in Path
    OBVIOUS
  <2>2. Latest \in HeadLine /\ Latest <= Latest /\ (import # 0 => Latest >= import)
    BY <1>0, <2>1 DEF Reaches
  <2> QED BY <2>2 DEF Path
<1>5. Path # {}
  <2>1. CASE Latest # 0
    BY <1>4, <2>1
  <2>2. CASE Latest = 0 /\ import # 0
    <3>1. import \in HeadLine /\ import >= import
      BY <1>0, <2>2 DEF Reaches
    <3> QED BY <2>2, <3>1 DEF Path
  <2>3. CASE Latest = 0 /\ import = 0
    <3>1. HeadLine # {}
      BY <1>0, MainlineAssumption DEF HeadLine
    <3> QED BY <2>3, <3>1 DEF Path
  <2> QED BY <2>1, <2>2, <2>3
<1> QED BY <1>1, <1>2, <1>3, <1>4, <1>5

\* A change that was made on the path stays there, and every change names an
\* upstream commit or none.
LEMMA RemappedFacts ==
  ASSUME IInv, pc = "collect" \/ Replaying, Reaches
  PROVE  /\ \A c \in 0 .. MaxCommit : Remapped(c) \in 0 .. MaxCommit
         /\ \A c : c = 0 \/ c \in Path => Remapped(c) = c
         /\ \A c : Equivalents(c) \subseteq 1 .. MaxCommit
<1>0. Path \subseteq 1 .. MaxCommit + 1 /\ MaxCommit \in Nat
  BY PathFacts, ChangesFacts
<1>1. ASSUME NEW c PROVE Equivalents(c) \subseteq 1 .. MaxCommit
  <2>1. \A d \in 1 .. MaxCommit + 1 : d # MaxCommit + 1 => d \in 1 .. MaxCommit
    BY <1>0
  <2> QED BY <1>0, <2>1 DEF Equivalents, InitialSources
<1>2. \A c : c = 0 \/ c \in Path => Remapped(c) = c
  BY DEF Remapped
<1>3. ASSUME NEW c \in 0 .. MaxCommit PROVE Remapped(c) \in 0 .. MaxCommit
  <2>1. CASE c = 0 \/ c \in Path \/ Cardinality(Equivalents(c)) # 1
    BY <2>1 DEF Remapped
  <2>2. CASE ~(c = 0 \/ c \in Path \/ Cardinality(Equivalents(c)) # 1)
    <3>1. Equivalents(c) \subseteq 1 .. MaxCommit /\ Cardinality(Equivalents(c)) = 1
      BY <1>1, <2>2
    <3>2. PICK x : Equivalents(c) = {x}
      BY <1>0, <3>1, OnlyOne
    <3>3. Remapped(c) \in Equivalents(c)
      BY <2>2, <3>2 DEF Remapped
    <3> QED BY <1>0, <3>1, <3>3
  <2> QED BY <2>1, <2>2
<1> QED BY <1>1, <1>2, <1>3

\* Every change has a place, the last one on top.
LEMMA PlaceFacts ==
  ASSUME IInv, Replaying
  PROVE  /\ \A k \in DOMAIN on : Place(k) \in Nat /\ Place(k) # 0 /\ Place(k) <= Top /\ k \in Nat
         /\ Place(Last) = Top /\ Last \in DOMAIN on /\ \A k \in DOMAIN on : k <= Last
         /\ \A c \in Path : c \in Nat /\ 0 < c /\ c < Top
         /\ Path # {} /\ Path \subseteq 1 .. MaxCommit + 1 /\ Top \in Nat
<1>1. \A k \in DOMAIN on : on[k] \in 0 .. MaxCommit /\ k \in Nat
  BY OnFacts
<1>2. Last \in DOMAIN on /\ \A k \in DOMAIN on : k <= Last
  BY OnFacts
<1>3. Reaches
  BY DEF IInv, ChangesShape
<1>4. /\ \A c \in Path : c \in Nat /\ 0 < c /\ c < Top
      /\ Path # {} /\ Path \subseteq 1 .. MaxCommit + 1
  BY <1>3, PathFacts
<1>5. MaxCommit \in Nat /\ Top = MaxCommit + 2
  BY ChangesFacts
<1>6. \A k \in DOMAIN on : Place(k) \in Nat /\ Place(k) # 0 /\ Place(k) <= Top
  BY <1>1, <1>5 DEF Place
<1>7. Place(Last) = Top
  BY DEF Place, Latest
<1> QED BY <1>1, <1>2, <1>4, <1>5, <1>6, <1>7

\* The path and the places stay as long as the changes do.
LEMMA SameChanges ==
  ASSUME UNCHANGED <<project, on, import>>
  PROVE  /\ Last' = Last /\ Latest' = Latest /\ Path' = Path /\ (Reaches' <=> Reaches)
         /\ \A k : Place(k)' = Place(k) /\ (Placed(k)' <=> Placed(k))
         /\ \A c : Equivalents(c)' = Equivalents(c) /\ Remapped(c)' = Remapped(c)
<1>1. Last' = Last /\ Latest' = Latest /\ HeadLine' = HeadLine
  BY SameProject DEF Last, Latest
<1>2. Path' = Path /\ (Reaches' <=> Reaches)
  BY <1>1 DEF Path, Reaches
<1>3. \A k : Place(k)' = Place(k) /\ (Placed(k)' <=> Placed(k))
  BY <1>1, <1>2 DEF Place, Placed
<1>4. \A c : Equivalents(c)' = Equivalents(c)
  BY <1>2 DEF Equivalents
<1>5. ASSUME NEW c PROVE Remapped(c)' = Remapped(c)
  <2> DEFINE One(S) == CHOOSE d \in S : TRUE
             Unmoved(p, S) == c = 0 \/ c \in p \/ Cardinality(S) # 1
             Moved(p, S) == IF Unmoved(p, S) THEN c ELSE One(S)
  <2>1. Remapped(c) = Moved(Path, Equivalents(c)) /\ Remapped(c)' = Moved(Path', Equivalents(c)')
    BY DEF Remapped
  <2>2. Equivalents(c)' = Equivalents(c)
    BY <1>4
  <2> HIDE DEF Moved
  <2> QED BY <1>2, <2>1, <2>2
<1> QED BY <1>1, <1>2, <1>3, <1>4, <1>5
\* The changes are moved to the commits that were cherry-picked, which leaves
\* the latest where it is; the replay begins.
LEMMA CollectAndStageIInv == IInv /\ CollectAndStage => IInv'
<1> SUFFICES ASSUME IInv, CollectAndStage PROVE IInv'
  OBVIOUS
<1>0. /\ pc = "collect" /\ Reaches /\ on' = [k \in DOMAIN on |-> Remapped(on[k])] /\ head' = "staged"
      /\ todo' = DOMAIN on /\ pc' = "replay"
      /\ UNCHANGED <<project, kind, import, bump, pos, built, len, seen, faults>>
  BY DEF CollectAndStage
<1>1. /\ on = Discovered /\ DOMAIN on # {} /\ DOMAIN on \subseteq Changes
      /\ \A k \in DOMAIN on : on[k] \in 0 .. MaxCommit
      /\ Last \in DOMAIN on /\ Latest \in 0 .. MaxCommit
      /\ (kind = "static" => bump = Cardinality(DOMAIN on))
  BY <1>0, OnFacts, CollectFacts DEF IInv, ChangesShape
<1>2. DOMAIN on' = DOMAIN on /\ \A k \in DOMAIN on : on'[k] = Remapped(on[k])
  BY <1>0
<1>3. Last' = Last
  BY <1>2 DEF Last
<1>4. Latest' = Latest
  <2>1. Remapped(Latest) = Latest
    BY <1>0, PathFacts, RemappedFacts
  <2> QED BY <1>1, <1>2, <1>3, <2>1 DEF Latest
<1>5. HeadLine' = HeadLine /\ import' = import
  BY <1>0, SameProject
<1>6. Path' = Path /\ Reaches'
  BY <1>0, <1>4, <1>5 DEF Path, Reaches
<1>7. \A c : Remapped(c)' = Remapped(c)
  <2>1. ASSUME NEW c PROVE Equivalents(c)' = Equivalents(c)
    BY <1>6 DEF Equivalents
  <2>2. ASSUME NEW c PROVE Remapped(c)' = Remapped(c)
    <3> DEFINE One(S) == CHOOSE d \in S : TRUE
               Unmoved(p, S) == c = 0 \/ c \in p \/ Cardinality(S) # 1
               Moved(p, S) == IF Unmoved(p, S) THEN c ELSE One(S)
    <3>1. Remapped(c) = Moved(Path, Equivalents(c)) /\ Remapped(c)' = Moved(Path', Equivalents(c)')
      BY DEF Remapped
    <3>2. Equivalents(c)' = Equivalents(c)
      BY <2>1
    <3> HIDE DEF Moved
    <3> QED BY <1>6, <3>1, <3>2
  <2> QED BY <2>2
<1>8. TypeOK'
  <2>1. \A k \in DOMAIN on' : on'[k] \in 0 .. MaxCommit
    BY <1>0, <1>1, <1>2, RemappedFacts
  <2> QED BY <1>0, <1>1, <1>2, <2>1 DEF project, IInv, TypeOK
<1>9. ChangesShape'
  <2>1. /\ Discovered' = Discovered /\ (Skipped' <=> Skipped) /\ (Deleted' <=> Deleted) /\ AtHead' = AtHead
        /\ UNCHANGED <<lockFree, config, lock>>
    BY <1>0, SameProject
  <2>2. \A k \in DOMAIN on', c \in 0 .. MaxCommit : Discovered'[k] = c => on'[k] = Remapped(c)'
    BY <1>0, <1>1, <1>7, <2>1
  <2> QED BY <1>0, <1>1, <1>2, <1>6, <2>1, <2>2 DEF IInv, ChangesShape, Replaying
<1>10. pos' = 0 /\ len' = 0
  BY <1>0 DEF IInv, ReplayShape, ChangesShape, Replaying
<1>11. ReplayShape'
  <2>1. \A k \in DOMAIN on' : Place(k)' \in Nat
    <3>1. \A k \in DOMAIN on' : on'[k] \in Nat
      BY <1>8, ChangesFacts DEF TypeOK
    <3> QED BY <3>1, ChangesFacts DEF Place
  <2>2. \A c \in Path' : ~(c <= 0)
    BY <1>0, <1>6, PathFacts
  <2>3. \A k \in todo' : Place(k)' >= pos'
    BY <1>0, <1>2, <1>10, <2>1
  <2>4. Replaying' /\ 1 .. 0 = {} /\ DOMAIN on' \ todo' = {}
    BY <1>0, <1>2 DEF Replaying
  <2> QED BY <1>0, <1>10, <2>2, <2>3, <2>4 DEF ReplayShape
<1>12. TreeShape'
  <2>1. Last' \in todo' /\ 1 .. len' = {} /\ head' # "rebuilt"
    BY <1>0, <1>1, <1>3, <1>10
  <2> QED BY <2>1 DEF TreeShape
<1>13. ProjectShape' /\ SeenShape' /\ RefusalIsJustified'
  BY <1>0, ProjectKept, SeenFrame, SameProject DEF IInv, RefusalIsJustified
<1> QED BY <1>8, <1>9, <1>11, <1>12, <1>13 DEF IInv

-----------------------------------------------------------------------------
(* Replay.                                                                 *)

\* What a step of the replay leaves alone.
LEMMA ReplayFrame ==
  ASSUME IInv, pc = "replay", pc' = "replay", UNCHANGED <<project, kind, head, on, import, bump, seen, faults>>,
         TypeOK', ReplayShape', TreeShape'
  PROVE  IInv'
<1>1. ChangesShape'
  <2>1. /\ Discovered' = Discovered /\ (Skipped' <=> Skipped) /\ (Deleted' <=> Deleted) /\ AtHead' = AtHead
        /\ UNCHANGED <<lockFree, config, lock>>
    BY SameProject
  <2>2. (Reaches' <=> Reaches) /\ \A c : Remapped(c)' = Remapped(c)
    BY SameChanges
  <2>3. \A k \in DOMAIN on', c \in 0 .. MaxCommit : Discovered'[k] = c => on'[k] = Remapped(c)'
    BY <2>1, <2>2 DEF IInv, ChangesShape, Replaying
  <2> QED BY <2>1, <2>2, <2>3 DEF IInv, ChangesShape, Replaying
<1> QED BY <1>1, ProjectKept, SeenFrame, SameProject DEF IInv, RefusalIsJustified

\* An entry is added to the history.
LEMMA EmitFacts ==
  ASSUME TypeOK, NEW e \in Entry, Emit(e)
  PROVE  /\ len \in Nat /\ len' = len + 1 /\ built' \in [1 .. len' -> Entry] /\ built'[len + 1] = e
         /\ \A i \in 1 .. len : built'[i] = built[i] /\ i \in 1 .. len + 1 /\ i # len + 1
         /\ \A i \in 1 .. len + 1 : i = len + 1 \/ i \in 1 .. len
         /\ \A i, j \in 1 .. len + 1 : i < j => i \in 1 .. len
         /\ len + 1 \in 1 .. len + 1 /\ (len # 0 => len \in 1 .. len)
         /\ \A i \in 1 .. len : Follows(i) => Follows(i)'
         /\ \A n : n = len + 1 /\ e.kind = "upstream" /\ e.tree = SourcesAt(e.id) => Follows(n)'
         /\ \A n : n = len + 1 /\ e.kind = "synthetic" /\ len # 0 /\ e.tree = built[len].tree /\ Follows(len)
                    => Follows(n)'
<1>0. /\ len \in Nat /\ built \in [1 .. len -> Entry] /\ len' = len + 1
      /\ built' = [i \in 1 .. len + 1 |-> IF i = len + 1 THEN e ELSE built[i]]
  BY DEF TypeOK, Emit
<1>1. /\ built'[len + 1] = e /\ len + 1 \in 1 .. len + 1 /\ (len # 0 => len \in 1 .. len)
      /\ \A i \in 1 .. len : built'[i] = built[i] /\ i \in 1 .. len + 1 /\ i # len + 1
      /\ \A i \in 1 .. len + 1 : i = len + 1 \/ i \in 1 .. len
      /\ \A i, j \in 1 .. len + 1 : i < j => i \in 1 .. len
  BY <1>0
<1>2. built' \in [1 .. len' -> Entry]
  BY <1>0
<1>3. ASSUME NEW i \in 1 .. len, Follows(i) PROVE Follows(i)'
  <2>1. PICK j \in 1 .. i : /\ built[j].kind = "upstream" /\ SourcesAt(built[j].id) = built[i].tree
                            /\ \A m \in j + 1 .. i : built[m].kind = "synthetic"
    BY <1>3 DEF Follows
  <2>2. j \in 1 .. len /\ \A m \in j + 1 .. i : m \in 1 .. len
    BY <1>0, <1>3
  <2>3. /\ built'[j].kind = "upstream" /\ SourcesAt(built'[j].id) = built'[i].tree
        /\ \A m \in j + 1 .. i : built'[m].kind = "synthetic"
    BY <1>1, <1>3, <2>1, <2>2
  <2> QED BY <2>3 DEF Follows
<1>4. ASSUME NEW n, n = len + 1, e.kind = "upstream", e.tree = SourcesAt(e.id) PROVE Follows(n)'
  <2>1. n + 1 .. n = {} /\ n \in 1 .. n
    BY <1>0, <1>4
  <2> QED BY <1>1, <1>4, <2>1 DEF Follows
<1>5. ASSUME NEW n, n = len + 1, e.kind = "synthetic", len # 0, e.tree = built[len].tree, Follows(len)
      PROVE  Follows(n)'
  <2>1. PICK j \in 1 .. len : /\ built[j].kind = "upstream" /\ SourcesAt(built[j].id) = built[len].tree
                              /\ \A m \in j + 1 .. len : built[m].kind = "synthetic"
    BY <1>5 DEF Follows
  <2>2. j \in 1 .. n /\ \A m \in j + 1 .. n : m = len + 1 \/ (m \in j + 1 .. len /\ m \in 1 .. len)
    BY <1>0, <1>5
  <2>3. /\ built'[j].kind = "upstream" /\ SourcesAt(built'[j].id) = built'[n].tree
        /\ \A m \in j + 1 .. n : built'[m].kind = "synthetic"
    BY <1>1, <1>5, <2>1, <2>2
  <2> QED BY <2>2, <2>3 DEF Follows
<1> QED BY <1>0, <1>1, <1>2, <1>3, <1>4, <1>5
\* The order of the history is kept by an entry that comes after all others.
LEMMA EmitOrdered ==
  ASSUME TypeOK, NEW e \in Entry, Emit(e), UNCHANGED <<project, on, import>>,
         \A i, j \in 1 .. len : i < j => Precedes(PlaceKey(built[i]), PlaceKey(built[j])),
         \A i \in 1 .. len : Precedes(PlaceKey(built[i]), PlaceKey(e))
  PROVE  (\A i, j \in 1 .. len : i < j => Precedes(PlaceKey(built[i]), PlaceKey(built[j])))'
<1>1. Latest' = Latest /\ on' = on
  BY SameChanges
<1>2. ASSUME NEW d PROVE PlaceKey(d)' = PlaceKey(d)
  BY <1>1 DEF PlaceKey, Place
<1>3. ASSUME NEW i \in 1 .. len', NEW j \in 1 .. len', i < j
      PROVE  Precedes(PlaceKey(built[i]), PlaceKey(built[j]))'
  <2>1. len' = len + 1 /\ i \in 1 .. len /\ (j = len + 1 \/ j \in 1 .. len) /\ built'[i] = built[i]
    BY <1>3, EmitFacts
  <2>2. PICK b : b = IF j = len + 1 THEN e ELSE built[j]
    OBVIOUS
  <2>3. built'[j] = b
    BY <2>1, <2>2, EmitFacts
  <2>4. PICK a : a = built[i]
    OBVIOUS
  <2>5. PlaceKey(built[i])' = PlaceKey(a) /\ PlaceKey(built[j])' = PlaceKey(b)
    BY <1>1, <2>1, <2>3, <2>4 DEF PlaceKey, Place
  <2>6. Precedes(PlaceKey(a), PlaceKey(b))
    BY <1>3, <2>1, <2>2, <2>4
  <2> QED BY <2>5, <2>6 DEF Precedes
<1> QED BY <1>3

\* What the replay has done so far.
LEMMA ReplayFacts ==
  ASSUME IInv, Replaying
  PROVE  /\ len \in Nat /\ pos \in Nat /\ (pos = 0 <=> len = 0) /\ (pos # 0 => pos \in Path)
         /\ todo \subseteq DOMAIN on
         /\ \A i \in 1 .. len : built[i] \in Entry /\ built[i].kind \in {"upstream", "synthetic"}
         /\ \A i \in 1 .. len : built[i].kind = "upstream" => built[i].id \in Path /\ built[i].id <= pos
         /\ \A i \in 1 .. len :
              built[i].kind = "synthetic" =>
                /\ built[i].id \in DOMAIN on \ todo /\ Placed(built[i].id)
                /\ \/ Place(built[i].id) <= pos
                   \/ Place(built[i].id) = Top /\ Pending = {} /\ NextUpstream = {}
                /\ \A later \in todo : Place(later) = Place(built[i].id) => built[i].id < later
         /\ \A k \in todo : Placed(k) => Place(k) >= pos
<1>1. len \in Nat /\ pos \in 0 .. MaxCommit + 1 /\ todo \subseteq DOMAIN on /\ built \in [1 .. len -> Entry]
  BY DEF IInv, TypeOK
<1>2. \A i \in 1 .. len : built[i] \in Entry /\ built[i].kind \in {"upstream", "synthetic"}
  BY <1>1 DEF Entry
<1>3. pos \in Nat
  BY <1>1, ChangesFacts
<1> QED BY <1>1, <1>2, <1>3 DEF IInv, ReplayShape

\* The next upstream commit is replayed.
LEMMA ReplayUpstreamIInv == IInv /\ ReplayUpstream => IInv'
<1> SUFFICES ASSUME IInv, ReplayUpstream PROVE IInv'
  OBVIOUS
<1> DEFINE c == Earliest(NextUpstream)
           e == [kind |-> "upstream", id |-> c, tree |-> SourcesAt(c)]
<1>0. /\ pc = "replay" /\ Pending = {} /\ NextUpstream # {} /\ Emit(e) /\ pos' = c
      /\ UNCHANGED <<project, pc, kind, head, on, import, bump, todo, seen, faults>>
      /\ Replaying /\ TypeOK
  BY DEF ReplayUpstream, Replaying, IInv
<1>1. /\ \A d \in Path : d \in Nat /\ 0 < d /\ d < Top
      /\ Path \subseteq 1 .. MaxCommit + 1 /\ Place(Last) = Top
      /\ \A k \in DOMAIN on : Place(k) \in Nat /\ Place(k) # 0
      /\ MaxCommit \in Nat /\ Top \in Nat
  BY <1>0, PlaceFacts, ChangesFacts
<1>2. c \in Path /\ c > pos /\ c \in Nat /\ c # 0 /\ pos \in Nat /\ \A d \in NextUpstream : c <= d
  <2>0. NextUpstream \subseteq Path
    BY DEF NextUpstream
  <2>1. NextUpstream \subseteq 1 .. MaxCommit + 1 /\ MaxCommit + 1 \in Nat
    BY <1>1, <2>0
  <2>2. c \in NextUpstream /\ \A d \in NextUpstream : c <= d
    BY <1>0, <2>1, EarliestFacts
  <2>3. pos \in Nat
    BY <1>0, ReplayFacts
  <2> HIDE DEF c
  <2> QED BY <1>1, <2>2, <2>3 DEF NextUpstream
<1> HIDE DEF c
<1>3. e \in Entry
  BY <1>1, <1>2 DEF Entry, SourcesAt, InitialSources, Overlays
<1>4. /\ len' = len + 1 /\ len \in Nat /\ built' \in [1 .. len' -> Entry]
      /\ built'[len + 1] = e /\ len + 1 \in 1 .. len + 1
      /\ \A i \in 1 .. len : built'[i] = built[i] /\ i \in 1 .. len + 1
      /\ \A i \in 1 .. len + 1 : i = len + 1 \/ i \in 1 .. len
      /\ \A i \in 1 .. len : Follows(i) => Follows(i)'
      /\ \A n : n = len + 1 => Follows(n)'
  <2>1. e.kind = "upstream" /\ e.tree = SourcesAt(e.id)
    OBVIOUS
  <2> HIDE DEF e
  <2> QED BY <1>0, <1>3, <2>1, EmitFacts
<1>5. /\ Path' = Path /\ Latest' = Latest /\ Last' = Last /\ on' = on /\ todo' = todo
      /\ \A k : Place(k)' = Place(k) /\ (Placed(k)' <=> Placed(k))
  BY <1>0, SameChanges
<1>6. TypeOK'
  <2>1. pos' \in 0 .. MaxCommit + 1 /\ len' \in Nat
    BY <1>0, <1>1, <1>2, <1>4
  <2> QED BY <1>0, <1>4, <2>1 DEF project, IInv, TypeOK
<1>7. ReplayShape'
  <2>1. pos' # 0 /\ len' # 0 /\ pos' \in Path'
    BY <1>0, <1>2, <1>4, <1>5
  <2>2. \A i \in 1 .. len' : built'[i].kind = "upstream" => built'[i].id \in Path' /\ built'[i].id <= pos'
    <3>1. ASSUME NEW i \in 1 .. len, built[i].kind = "upstream" PROVE built[i].id \in Path /\ built[i].id <= c
      <4>1. built[i].id \in Path /\ built[i].id <= pos
        BY <1>0, <3>1, ReplayFacts
      <4>2. built[i].id \in Nat
        BY <1>1, <4>1
      <4> QED BY <1>2, <4>1, <4>2
    <3>2. e.id \in Path /\ e.id <= c
      BY <1>2
    <3> QED BY <1>0, <1>4, <1>5, <3>1, <3>2
  <2>3. \A d \in Path' : d <= pos' => \E i \in 1 .. len' : built'[i].kind = "upstream" /\ built'[i].id = d
    <3>1. ASSUME NEW d \in Path, d <= c PROVE \E i \in 1 .. len + 1 : built'[i].kind = "upstream" /\ built'[i].id = d
      <4>1. CASE d = c
        <5>1. e.kind = "upstream" /\ e.id = d
          BY <4>1
        <5> QED BY <1>4, <5>1
      <4>2. CASE d # c
        <5>1. d <= pos
          BY <1>1, <1>2, <3>1, <4>2 DEF NextUpstream
        <5>2. PICK i \in 1 .. len : built[i].kind = "upstream" /\ built[i].id = d
          BY <1>0, <5>1 DEF IInv, ReplayShape
        <5> QED BY <1>4, <5>2
      <4> QED BY <4>1, <4>2
    <3> QED BY <1>0, <1>4, <1>5, <3>1
  <2>4. \A i \in 1 .. len' :
          built'[i].kind = "synthetic" =>
            /\ built'[i].id \in DOMAIN on' \ todo' /\ Placed(built[i].id)'
            /\ \/ Place(built[i].id)' <= pos'
               \/ Place(built[i].id)' = Top /\ Pending' = {} /\ NextUpstream' = {}
            /\ \A later \in todo' : Place(later)' = Place(built[i].id)' => built'[i].id < later
    <3>1. ASSUME NEW i \in 1 .. len + 1, built'[i].kind = "synthetic"
          PROVE  /\ built'[i].id \in DOMAIN on' \ todo' /\ Placed(built[i].id)'
                 /\ Place(built[i].id)' <= pos'
                 /\ \A later \in todo' : Place(later)' = Place(built[i].id)' => built'[i].id < later
      <4>1. i \in 1 .. len /\ built'[i] = built[i]
        BY <1>4, <3>1
      <4>2. PICK k : k = built[i].id
        OBVIOUS
      <4>3. /\ k \in DOMAIN on \ todo /\ Placed(k) /\ Place(k) <= pos
            /\ \A later \in todo : Place(later) = Place(k) => k < later
        BY <1>0, <3>1, <4>1, <4>2, ReplayFacts
      <4>4. Place(k) <= c
        BY <1>1, <1>2, <4>3
      <4>5. Place(built[i].id)' = Place(k) /\ (Placed(built[i].id)' <=> Placed(k))
        BY <1>5, <4>1, <4>2 DEF Place, Placed
      <4> QED BY <1>0, <1>5, <4>1, <4>2, <4>3, <4>4, <4>5
    <3> QED BY <1>4, <3>1
  <2>5. \A k \in DOMAIN on' \ todo' : \E i \in 1 .. len' : built'[i].kind = "synthetic" /\ built'[i].id = k
    <3>1. \A k \in DOMAIN on \ todo : \E i \in 1 .. len : built[i].kind = "synthetic" /\ built[i].id = k
      BY <1>0 DEF IInv, ReplayShape
    <3> QED BY <1>4, <1>5, <3>1
  <2>6. \A k \in todo' : Placed(k)' => Place(k)' >= pos'
    <3>1. ASSUME NEW k \in todo, Placed(k) PROVE Place(k) >= c
      <4>1. k \in DOMAIN on /\ Place(k) >= pos /\ Place(k) \in Nat /\ Place(k) # pos
        BY <1>0, <1>1, <3>1, ReplayFacts DEF Pending
      <4>2. CASE Place(k) = Top
        BY <1>1, <1>2, <4>2
      <4>3. CASE Place(k) \in Path
        <5>1. Place(k) \in NextUpstream
          BY <1>2, <4>1, <4>3 DEF NextUpstream
        <5> QED BY <1>2, <4>1, <5>1
      <4> QED BY <3>1, <4>2, <4>3 DEF Placed
    <3> QED BY <1>0, <1>5, <3>1
  <2>7. (\A i, j \in 1 .. len : i < j => Precedes(PlaceKey(built[i]), PlaceKey(built[j])))'
    <3>1. ASSUME NEW i \in 1 .. len PROVE Precedes(PlaceKey(built[i]), PlaceKey(e))
      <4>1. CASE built[i].kind = "upstream"
        <5>1. built[i].id \in Path /\ built[i].id <= pos
          BY <1>0, <4>1, ReplayFacts
        <5>2. built[i].id \in Nat
          BY <1>1, <5>1
        <5>3. built[i].id < c
          BY <1>2, <5>1, <5>2
        <5> QED BY <4>1, <5>3 DEF Precedes, PlaceKey
      <4>2. CASE built[i].kind = "synthetic"
        <5>1. Place(built[i].id) \in Nat /\ Place(built[i].id) <= pos
          BY <1>0, <1>1, <4>2, ReplayFacts
        <5>2. Place(built[i].id) < c
          BY <1>2, <5>1
        <5> QED BY <4>2, <5>2 DEF Precedes, PlaceKey
      <4> QED BY <1>0, <4>1, <4>2, ReplayFacts
    <3>2. \A i, j \in 1 .. len : i < j => Precedes(PlaceKey(built[i]), PlaceKey(built[j]))
      BY <1>0 DEF IInv, ReplayShape
    <3>3. UNCHANGED <<project, on, import>>
      BY <1>0
    <3> HIDE DEF e
    <3> QED BY <1>0, <1>3, <3>1, <3>2, <3>3, EmitOrdered
  <2>8. Replaying'
    BY <1>0 DEF Replaying
  <2> QED BY <2>1, <2>2, <2>3, <2>4, <2>5, <2>6, <2>7, <2>8 DEF ReplayShape
<1>8. TreeShape'
  <2>0. head' # "rebuilt"
    BY <1>0 DEF ReplayOne, IInv, ChangesShape
  <2>1. Last \in todo /\ \A i \in 1 .. len : Follows(i)
    BY <1>0 DEF IInv, TreeShape
  <2>2. \A i \in 1 .. len + 1 : Follows(i)'
    BY <1>4, <2>1
  <2> QED BY <1>4, <1>5, <2>0, <2>1, <2>2 DEF TreeShape
<1> QED BY <1>0, <1>6, <1>7, <1>8, ReplayFrame
\* A change is replayed where it is due: after its upstream commit, or on top
\* once all of them are there.
LEMMA ReplayOneShape ==
  ASSUME IInv, pc = "replay", NEW k \in todo, ReplayOne(k), pos # 0,
         Place(k) = pos \/ (Place(k) = Top /\ Pending = {} /\ NextUpstream = {}),
         \A later \in todo : Place(later) = Place(k) => k <= later
  PROVE  /\ TypeOK' /\ ReplayShape'
         /\ len \in Nat /\ len # 0 /\ len' = len + 1 /\ len + 1 \in 1 .. len + 1
         /\ built'[len + 1].kind = "synthetic" /\ built'[len + 1].tree = TreeOf(k)
         /\ \A i \in 1 .. len : Follows(i) => Follows(i)'
         /\ \A n : n = len + 1 /\ TreeOf(k) = built[len].tree /\ Follows(len) => Follows(n)'
         /\ \A i \in 1 .. len + 1 : i = len + 1 \/ i \in 1 .. len
<1> DEFINE e == [kind |-> "synthetic", id |-> k, tree |-> TreeOf(k)]
<1>0. /\ Emit(e) /\ todo' = todo \ {k} /\ Replaying /\ Replaying' /\ TypeOK
      /\ UNCHANGED <<project, pc, kind, head, on, import, bump, pos, seen, faults>>
  BY DEF ReplayOne, Replaying, IInv
<1>1. /\ \A d \in Path : d \in Nat /\ 0 < d /\ d < Top
      /\ \A j \in DOMAIN on : Place(j) \in Nat /\ Place(j) # 0 /\ j \in Nat
      /\ MaxCommit \in Nat /\ Top \in Nat
  BY <1>0, PlaceFacts, ChangesFacts
<1>2. /\ len \in Nat /\ pos \in Nat /\ len # 0 /\ pos \in Path /\ pos < Top /\ todo \subseteq DOMAIN on
      /\ k \in DOMAIN on /\ k \in Nat /\ Place(k) \in Nat /\ Place(k) >= pos
  <2>1. len \in Nat /\ pos \in Nat /\ len # 0 /\ pos \in Path /\ todo \subseteq DOMAIN on
    BY <1>0, ReplayFacts
  <2>2. pos < Top /\ k \in DOMAIN on /\ k \in Nat /\ Place(k) \in Nat
    BY <1>1, <2>1
  <2> QED BY <1>1, <2>1, <2>2
<1>3. e \in Entry
  <2>1. built[len].tree \in 0 .. MaxCommit
    <3>1. len \in 1 .. len
      BY <1>2
    <3> QED BY <1>0, <3>1, ReplayFacts DEF Entry
  <2>2. TreeOf(k) \in 0 .. MaxCommit
    BY <1>1, <2>1, ChangesFacts DEF TreeOf, Overlays
  <2> QED BY <1>2, <2>2 DEF Entry
<1>4. /\ len' = len + 1 /\ built' \in [1 .. len' -> Entry]
      /\ built'[len + 1] = e /\ len + 1 \in 1 .. len + 1
      /\ \A i \in 1 .. len : built'[i] = built[i] /\ i \in 1 .. len + 1
      /\ \A i \in 1 .. len + 1 : i = len + 1 \/ i \in 1 .. len
      /\ \A i \in 1 .. len : Follows(i) => Follows(i)'
      /\ \A n : n = len + 1 /\ e.tree = built[len].tree /\ Follows(len) => Follows(n)'
  <2>1. e.kind = "synthetic"
    OBVIOUS
  <2> HIDE DEF e
  <2> QED BY <1>0, <1>2, <1>3, <2>1, EmitFacts
<1>5. /\ Path' = Path /\ Latest' = Latest /\ on' = on /\ pos' = pos
      /\ \A j : Place(j)' = Place(j) /\ (Placed(j)' <=> Placed(j))
  BY <1>0, SameChanges
<1>6. TypeOK'
  <2>1. todo' \subseteq DOMAIN on' /\ len' \in Nat
    BY <1>0, <1>2, <1>4
  <2> QED BY <1>0, <1>4, <2>1 DEF project, IInv, TypeOK
<1>7. Pending' \subseteq Pending /\ NextUpstream' = NextUpstream
  BY <1>0, <1>5 DEF Pending, NextUpstream
<1>8. ReplayShape'
  <2>1. pos' # 0 /\ len' # 0 /\ pos' \in Path'
    BY <1>0, <1>2, <1>4, <1>5
  <2>2. \A i \in 1 .. len' : built'[i].kind = "upstream" => built'[i].id \in Path' /\ built'[i].id <= pos'
    <3>1. \A i \in 1 .. len : built[i].kind = "upstream" => built[i].id \in Path /\ built[i].id <= pos
      BY <1>0, ReplayFacts
    <3>2. e.kind # "upstream"
      OBVIOUS
    <3> QED BY <1>4, <1>5, <3>1, <3>2
  <2>3. \A d \in Path' : d <= pos' => \E i \in 1 .. len' : built'[i].kind = "upstream" /\ built'[i].id = d
    <3>1. \A d \in Path : d <= pos => \E i \in 1 .. len : built[i].kind = "upstream" /\ built[i].id = d
      BY <1>0 DEF IInv, ReplayShape
    <3> QED BY <1>4, <1>5, <3>1
  <2>4. \A i \in 1 .. len' :
          built'[i].kind = "synthetic" =>
            /\ built'[i].id \in DOMAIN on' \ todo' /\ Placed(built[i].id)'
            /\ \/ Place(built[i].id)' <= pos'
               \/ Place(built[i].id)' = Top /\ Pending' = {} /\ NextUpstream' = {}
            /\ \A later \in todo' : Place(later)' = Place(built[i].id)' => built'[i].id < later
    <3>1. ASSUME NEW i \in 1 .. len', built'[i].kind = "synthetic", NEW j, j = built'[i].id
          PROVE  /\ j \in DOMAIN on \ todo' /\ Placed(j)
                 /\ Place(j) <= pos \/ (Place(j) = Top /\ Pending' = {} /\ NextUpstream' = {})
                 /\ \A later \in todo' : Place(later) = Place(j) => j < later
      <4>1. CASE i = len + 1
        <5>1. j = k
          BY <1>4, <3>1, <4>1
        <5>2. Placed(k)
          BY <1>2 DEF Placed
        <5>3. \A later \in todo' : Place(later) = Place(k) => k < later
          BY <1>0, <1>1, <1>2
        <5>4. Place(k) <= pos \/ (Place(k) = Top /\ Pending' = {} /\ NextUpstream' = {})
          BY <1>2, <1>7
        <5> QED BY <1>0, <1>2, <5>1, <5>2, <5>3, <5>4
      <4>2. CASE i \in 1 .. len
        <5>1. j = built[i].id /\ built[i].kind = "synthetic"
          BY <1>4, <3>1, <4>2
        <5>2. /\ j \in DOMAIN on \ todo /\ Placed(j)
              /\ Place(j) <= pos \/ (Place(j) = Top /\ Pending = {} /\ NextUpstream = {})
              /\ \A later \in todo : Place(later) = Place(j) => j < later
          BY <1>0, <4>2, <5>1, ReplayFacts
        <5> QED BY <1>0, <1>7, <5>2
      <4> QED BY <1>4, <3>1, <4>1, <4>2
    <3>2. ASSUME NEW i \in 1 .. len', built'[i].kind = "synthetic"
          PROVE  /\ built'[i].id \in DOMAIN on' \ todo' /\ Placed(built[i].id)'
                 /\ \/ Place(built[i].id)' <= pos'
                    \/ Place(built[i].id)' = Top /\ Pending' = {} /\ NextUpstream' = {}
                 /\ \A later \in todo' : Place(later)' = Place(built[i].id)' => built'[i].id < later
      <4>1. PICK j : j = built'[i].id
        OBVIOUS
      <4>2. Place(built[i].id)' = Place(j) /\ (Placed(built[i].id)' <=> Placed(j))
        BY <1>5, <4>1 DEF Place, Placed
      <4> QED BY <1>5, <3>1, <3>2, <4>1, <4>2
    <3> QED BY <3>2
  <2>5. \A j \in DOMAIN on' \ todo' : \E i \in 1 .. len' : built'[i].kind = "synthetic" /\ built'[i].id = j
    <3>1. \A j \in DOMAIN on \ todo : \E i \in 1 .. len : built[i].kind = "synthetic" /\ built[i].id = j
      BY <1>0 DEF IInv, ReplayShape
    <3>2. e.kind = "synthetic" /\ e.id = k
      OBVIOUS
    <3> QED BY <1>0, <1>4, <1>5, <3>1, <3>2
  <2>6. \A j \in todo' : Placed(j)' => Place(j)' >= pos'
    BY <1>0, <1>5, ReplayFacts
  <2>7. (\A i, j \in 1 .. len : i < j => Precedes(PlaceKey(built[i]), PlaceKey(built[j])))'
    <3>1. ASSUME NEW i \in 1 .. len PROVE Precedes(PlaceKey(built[i]), PlaceKey(e))
      <4>1. CASE built[i].kind = "upstream"
        <5>1. built[i].id \in Path /\ built[i].id <= pos
          BY <1>0, <4>1, ReplayFacts
        <5>2. built[i].id \in Nat
          BY <1>1, <5>1
        <5>3. built[i].id < Place(k) \/ built[i].id = Place(k)
          BY <1>2, <5>1, <5>2
        <5> QED BY <4>1, <5>3 DEF Precedes, PlaceKey
      <4>2. CASE built[i].kind = "synthetic"
        <5>1. /\ built[i].id \in DOMAIN on
              /\ Place(built[i].id) = Place(k) => built[i].id < k
              /\ Place(built[i].id) <= pos \/ (Place(built[i].id) = Top /\ Pending = {} /\ NextUpstream = {})
          BY <1>0, <4>2, ReplayFacts
        <5>2. Place(built[i].id) \in Nat
          BY <1>1, <5>1
        <5>3. Place(built[i].id) < Place(k) \/ Place(built[i].id) = Place(k)
          <6>1. CASE Place(built[i].id) <= pos
            BY <1>2, <5>2, <6>1
          <6>2. CASE Place(built[i].id) = Top /\ Pending = {} /\ NextUpstream = {}
            <7>1. Place(k) # pos
              BY <6>2 DEF Pending
            <7> QED BY <6>2, <7>1
          <6> QED BY <5>1, <6>1, <6>2
        <5> QED BY <4>2, <5>1, <5>3 DEF Precedes, PlaceKey
      <4> QED BY <1>0, <4>1, <4>2, ReplayFacts
    <3>2. \A i, j \in 1 .. len : i < j => Precedes(PlaceKey(built[i]), PlaceKey(built[j]))
      BY <1>0 DEF IInv, ReplayShape
    <3>3. UNCHANGED <<project, on, import>>
      BY <1>0
    <3> HIDE DEF e
    <3> QED BY <1>0, <1>3, <3>1, <3>2, <3>3, EmitOrdered
  <2> QED BY <1>0, <2>1, <2>2, <2>3, <2>4, <2>5, <2>6, <2>7 DEF ReplayShape
<1> QED BY <1>2, <1>4, <1>6, <1>8

\* The changes made on an upstream commit follow it; the last one is not
\* among them.
LEMMA ReplayAfterIInv == IInv /\ ReplayAfter => IInv'
<1> SUFFICES ASSUME IInv, ReplayAfter PROVE IInv'
  OBVIOUS
<1> DEFINE k == Earliest(Pending)
<1>0. pc = "replay" /\ Pending # {} /\ ReplayOne(k) /\ Replaying
  BY DEF ReplayAfter, Replaying
<1>1. /\ \A d \in Path : d \in Nat /\ d < Top /\ d # Top
      /\ \A j \in DOMAIN on : Place(j) \in Nat /\ Place(j) # 0
      /\ Place(Last) = Top /\ todo \subseteq DOMAIN on /\ DOMAIN on \subseteq 1 .. Dirty /\ Dirty \in Nat
  <2>1. DOMAIN on \subseteq 1 .. Dirty /\ Dirty \in Nat /\ Top \in Nat
    BY <1>0, OnFacts, ChangesFacts
  <2> QED BY <1>0, <2>1, PlaceFacts, ReplayFacts
<1>2. k \in Pending /\ \A j \in Pending : k <= j
  <2>1. Pending \subseteq todo
    BY DEF Pending
  <2>2. Pending \subseteq 1 .. Dirty
    BY <1>1, <2>1
  <2> QED BY <1>0, <1>1, <2>2, EarliestFacts
<1> HIDE DEF k
<1>3. k \in todo /\ Place(k) = pos /\ pos # 0 /\ \A later \in todo : Place(later) = Place(k) => k <= later
  <2>1. k \in todo /\ Place(k) = pos /\ \A later \in todo : Place(later) = pos => k <= later
    BY <1>2 DEF Pending
  <2> QED BY <1>1, <2>1
<1>4. pos \in Path /\ Place(k) # Top /\ k # Last
  <2>1. pos \in Path
    BY <1>0, <1>3, ReplayFacts
  <2> QED BY <1>1, <1>3, <2>1
<1>5. TypeOK' /\ ReplayShape'
  BY <1>0, <1>3, ReplayOneShape
<1>6. TreeShape'
  <2>0. head' # "rebuilt"
    BY <1>0 DEF ReplayOne, IInv, ChangesShape
  <2>1. Last \in todo /\ \A i \in 1 .. len : Follows(i)
    BY <1>0 DEF IInv, TreeShape
  <2>2. TreeOf(k) = built[len].tree
    <3>1. Last \in {j \in todo : Placed(j)}
      BY <1>1, <2>1 DEF Placed
    <3> QED BY <1>4, <3>1 DEF TreeOf
  <2>3. len \in Nat /\ len # 0 /\ len \in 1 .. len
    BY <1>0, <1>3, ReplayFacts
  <2>4. len' = len + 1 /\ \A i \in 1 .. len + 1 : Follows(i)'
    BY <1>0, <1>3, <2>1, <2>2, <2>3, ReplayOneShape
  <2>5. Last' = Last /\ Last \in todo'
    BY <1>0, <1>4, <2>1, SameChanges DEF ReplayOne
  <2> QED BY <2>0, <2>4, <2>5 DEF TreeShape
<1> QED BY <1>0, <1>5, <1>6, ReplayFrame DEF ReplayOne

\* The others go on top; the overlays come with the last.
LEMMA ReplayOnTopIInv == IInv /\ ReplayOnTop => IInv'
<1> SUFFICES ASSUME IInv, ReplayOnTop PROVE IInv'
  OBVIOUS
<1> DEFINE k == Earliest(OnTop)
<1>0. pc = "replay" /\ Pending = {} /\ NextUpstream = {} /\ OnTop # {} /\ ReplayOne(k) /\ Replaying
  BY DEF ReplayOnTop, Replaying
<1>1. /\ \A d \in Path : d \in Nat /\ 0 < d /\ d # Top
      /\ \A j \in DOMAIN on : Place(j) \in Nat /\ j \in Nat /\ j <= Last
      /\ Last \in DOMAIN on /\ Path # {}
      /\ Place(Last) = Top /\ todo \subseteq DOMAIN on /\ DOMAIN on \subseteq 1 .. Dirty /\ Dirty \in Nat
  <2>1. DOMAIN on \subseteq 1 .. Dirty /\ Dirty \in Nat /\ Top \in Nat
    BY <1>0, OnFacts, ChangesFacts
  <2>2. \A d \in Path : d \in Nat /\ 0 < d /\ d < Top
    BY <1>0, PlaceFacts
  <2>3. \A d \in Path : d # Top
    BY <2>1, <2>2
  <2> QED BY <1>0, <2>1, <2>2, <2>3, PlaceFacts, ReplayFacts
<1>2. k \in OnTop /\ \A j \in OnTop : k <= j
  <2>1. OnTop \subseteq todo
    BY DEF OnTop
  <2>2. OnTop \subseteq 1 .. Dirty
    BY <1>1, <2>1
  <2> QED BY <1>0, <1>1, <2>2, EarliestFacts
<1> HIDE DEF k
<1>3. k \in todo /\ Place(k) = Top /\ \A later \in todo : Place(later) = Place(k) => k <= later
  BY <1>2 DEF OnTop
<1>4. pos # 0
  BY <1>0, <1>1 DEF NextUpstream
<1>5. TypeOK' /\ ReplayShape'
  BY <1>0, <1>3, <1>4, ReplayOneShape
<1>6. TreeShape'
  <2>0. head' # "rebuilt"
    BY <1>0 DEF ReplayOne, IInv, ChangesShape
  <2>1. Last \in todo /\ \A i \in 1 .. len : Follows(i)
    BY <1>0 DEF IInv, TreeShape
  <2>2. len \in Nat /\ len # 0 /\ len \in 1 .. len
    BY <1>0, <1>4, ReplayFacts
  <2>3. Last' = Last /\ todo' = todo \ {k}
    BY <1>0, SameChanges DEF ReplayOne
  <2>4. Last \in {j \in todo : Placed(j)}
    BY <1>1, <2>1 DEF Placed
  <2>5. CASE k # Last
    <3>1. TreeOf(k) = built[len].tree
      BY <2>4, <2>5 DEF TreeOf
    <3>2. len' = len + 1 /\ \A i \in 1 .. len + 1 : Follows(i)'
      BY <1>0, <1>3, <1>4, <2>1, <2>2, <3>1, ReplayOneShape
    <3> QED BY <2>0, <2>1, <2>3, <2>5, <3>2 DEF TreeShape
  <2>6. CASE k = Last
    <3>1. \A j \in OnTop : j = Last
      <4>1. ASSUME NEW j \in OnTop PROVE j = Last
        <5>1. j \in DOMAIN on
          BY <1>1 DEF OnTop
        <5>2. j <= Last /\ Last <= j /\ j \in Nat /\ Last \in Nat
          BY <1>1, <1>2, <2>6, <5>1
        <5> QED BY <5>2
      <4> QED BY <4>1
    <3>2. {j \in todo : Placed(j)} = {Last}
      <4>1. ASSUME NEW j \in todo, Placed(j) PROVE j = Last
        <5>1. CASE Place(j) = Top
          BY <3>1, <5>1 DEF OnTop
        <5>2. CASE Place(j) \in Path
          <6>1. Place(j) >= pos /\ Place(j) \in Nat /\ pos \in Nat /\ Place(j) # pos
            BY <1>0, <1>1, <4>1, ReplayFacts DEF Pending
          <6>2. Place(j) \in NextUpstream
            BY <5>2, <6>1 DEF NextUpstream
          <6> QED BY <1>0, <6>2
        <5> QED BY <4>1, <5>1, <5>2 DEF Placed
      <4> QED BY <2>4, <4>1
    <3>3. TreeOf(k) = Overlays
      BY <2>6, <3>2 DEF TreeOf
    <3>4. /\ len' = len + 1 /\ len + 1 \in 1 .. len + 1 /\ built'[len + 1].tree = Overlays
          /\ \A i \in 1 .. len : Follows(i)'
          /\ \A i \in 1 .. len + 1 : i = len + 1 \/ i \in 1 .. len
      BY <1>0, <1>3, <1>4, <2>1, <2>2, <3>3, ReplayOneShape
    <3>5. Pending' = {} /\ NextUpstream' = {} /\ OnTop' = {}
      <4>1. /\ Path' = Path /\ pos' = pos /\ \A j : Place(j)' = Place(j)
        BY <1>0, SameChanges DEF ReplayOne
      <4> QED BY <1>0, <2>3, <2>6, <3>1, <4>1 DEF Pending, NextUpstream, OnTop
    <3>6. len' > 0 /\ built'[len'].tree = Overlays /\ \A i \in 1 .. len' : i # len' => Follows(i)'
      BY <2>2, <3>4
    <3> QED BY <2>3, <2>6, <3>5, <3>6 DEF TreeShape
  <2> QED BY <2>5, <2>6
<1> QED BY <1>0, <1>5, <1>6, ReplayFrame DEF ReplayOne
\* HEAD moves to the whole history.
LEMMA UpdateHeadIInv == IInv /\ UpdateHead => IInv'
<1> SUFFICES ASSUME IInv, UpdateHead PROVE IInv'
  OBVIOUS
<1>0. /\ pc = "replay" /\ Pending = {} /\ NextUpstream = {} /\ OnTop = {} /\ head' = "rebuilt" /\ pc' = "done"
      /\ UNCHANGED <<project, kind, on, import, bump, replay, faults>> /\ Replaying /\ Replaying'
      /\ UNCHANGED <<lockFree, config, lock, log, size, edits, pos, todo, built, len>>
      /\ seen' = IF ~lockFree /\ kind = "static" /\ Dirty \notin DOMAIN on
                 THEN [lock |-> AtHead, base |-> BaseRelease, release |-> Release] ELSE seen
  BY DEF UpdateHead, Replaying, project, replay
<1>1. /\ Path' = Path /\ Latest' = Latest /\ Last' = Last /\ (Reaches' <=> Reaches)
      /\ \A k : Place(k)' = Place(k) /\ (Placed(k)' <=> Placed(k))
      /\ \A c : Remapped(c)' = Remapped(c)
  BY <1>0, SameChanges
<1>2. /\ Discovered' = Discovered /\ (Skipped' <=> Skipped) /\ (Deleted' <=> Deleted) /\ AtHead' = AtHead
  BY <1>0, SameProject
<1>3. TypeOK'
  <2>1. seen' \in [lock : Lock \cup {Absent}, base : Nat, release : Nat]
    BY <1>0, ProjectFacts, ReleaseFacts DEF IInv, TypeOK
  <2> QED BY <1>0, <2>1 DEF project, replay, IInv, TypeOK
<1>4. ChangesShape'
  <2>1. \A k \in DOMAIN on', c \in 0 .. MaxCommit : Discovered'[k] = c => on'[k] = Remapped(c)'
    BY <1>0, <1>1, <1>2 DEF IInv, ChangesShape
  <2> QED BY <1>0, <1>1, <1>2, <2>1 DEF IInv, ChangesShape
<1>5. ReplayShape'
  <2>1. (Pending' = {} <=> Pending = {}) /\ (NextUpstream' = {} <=> NextUpstream = {})
    BY <1>0, <1>1 DEF Pending, NextUpstream
  <2> QED BY <1>0, <1>1, <2>1 DEF IInv, ReplayShape, Place, Placed, PlaceKey, Precedes
<1>6. TreeShape'
  <2>1. Last \notin todo
    BY <1>0, PlaceFacts DEF OnTop
  <2>2. len > 0 /\ built[len].tree = Overlays /\ \A i \in 1 .. len : i # len => Follows(i)
    BY <1>0, <2>1 DEF IInv, TreeShape
  <2>3. \A i : Follows(i)' <=> Follows(i)
    BY <1>0 DEF Follows
  <2>4. Pending' = {} /\ NextUpstream' = {} /\ OnTop' = {}
    BY <1>0, <1>1 DEF Pending, NextUpstream, OnTop
  <2> QED BY <1>0, <1>1, <2>1, <2>2, <2>3, <2>4 DEF TreeShape
<1>7. SeenShape'
  <2>1. CASE ~(~lockFree /\ kind = "static" /\ Dirty \notin DOMAIN on)
    BY <1>0, <2>1, SeenFrame DEF IInv
  <2>2. CASE ~lockFree /\ kind = "static" /\ Dirty \notin DOMAIN on
    <3>1. bump = Cardinality(DOMAIN on) /\ DOMAIN on = DOMAIN FingerprintChanges /\ ~Skipped /\ ~Deleted
      BY <1>0, <2>2 DEF IInv, ChangesShape, Discovered
    <3>2. DOMAIN on = FoundUpTo(size)
      BY <2>2, <3>1 DEF FingerprintChanges, Found, FoundUpTo
    <3>3. size \in 1 .. size /\ AtHead = log[size]
      <4>1. size \in Nat /\ size # 0
        BY <2>2, <3>1, ProjectFacts DEF IInv, Skipped, AtHead
      <4> QED BY <4>1 DEF AtHead
    <3>4. \A s : FoundUpTo(s)' = FoundUpTo(s)
      BY <1>0 DEF FoundUpTo, Before
    <3>5. PICK n : n = size
      OBVIOUS
    <3>6. /\ seen'.lock = log'[n] /\ n \in 1 .. size'
          /\ seen'.release = seen'.base + Cardinality(FoundUpTo(n)')
      BY <1>0, <2>2, <3>1, <3>2, <3>3, <3>4, <3>5, ReleaseFacts
    <3> QED BY <3>6 DEF SeenShape
  <2> QED BY <2>1, <2>2
<1>8. RefusalIsJustified'
  BY <1>0 DEF RefusalIsJustified
<1> QED BY <1>0, <1>3, <1>4, <1>5, <1>6, <1>7, <1>8, ProjectKept DEF IInv

-----------------------------------------------------------------------------
(* The theorems.                                                           *)

\* Nothing happens.
LEMMA StutterIInv == IInv /\ UNCHANGED vars => IInv'
<1> SUFFICES ASSUME IInv, UNCHANGED vars PROVE IInv'
  OBVIOUS
<1>0. /\ UNCHANGED project /\ UNCHANGED <<project, on, import>>
      /\ UNCHANGED <<lockFree, config, lock, log, size, pc, kind, head, on, import, bump,
                     pos, todo, built, len, seen, edits, faults>>
  BY DEF vars, project
<1>1. /\ Path' = Path /\ Latest' = Latest /\ Last' = Last /\ (Reaches' <=> Reaches)
      /\ \A k : Place(k)' = Place(k) /\ (Placed(k)' <=> Placed(k))
      /\ \A c : Remapped(c)' = Remapped(c)
  BY <1>0, SameChanges
<1>2. /\ Discovered' = Discovered /\ (Skipped' <=> Skipped) /\ (Deleted' <=> Deleted) /\ AtHead' = AtHead
      /\ HeadLine' = HeadLine /\ Effective' = Effective
  BY <1>0, SameProject
<1>3. TypeOK'
  BY <1>0 DEF IInv, TypeOK
<1>4. ChangesShape'
  <2>1. Replaying' <=> Replaying
    BY <1>0 DEF Replaying
  <2>2. Replaying => \A k \in DOMAIN on', c \in 0 .. MaxCommit : Discovered'[k] = c => on'[k] = Remapped(c)'
    BY <1>0, <1>1, <1>2 DEF IInv, ChangesShape
  <2> QED BY <1>0, <1>1, <1>2, <2>1, <2>2 DEF IInv, ChangesShape
<1>5. Pending' = Pending /\ NextUpstream' = NextUpstream /\ OnTop' = OnTop /\ \A i : Follows(i)' <=> Follows(i)
  BY <1>0, <1>1 DEF Pending, NextUpstream, OnTop, Follows
<1>6. ReplayShape'
  BY <1>0, <1>1, <1>5 DEF IInv, ReplayShape, Replaying, Place, Placed, PlaceKey, Precedes
<1>7. TreeShape'
  BY <1>0, <1>1, <1>5 DEF IInv, TreeShape, Replaying
<1>8. RefusalIsJustified'
  BY <1>0, <1>1, <1>2 DEF IInv, RefusalIsJustified, SwitchedByBump, LastNamed
<1> QED BY <1>0, <1>3, <1>4, <1>6, <1>7, <1>8, ProjectKept, SeenFrame DEF IInv

\* Every step keeps the invariant.
LEMMA NextIInv == IInv /\ [Next]_vars => IInv'
<1> SUFFICES ASSUME IInv, [Next]_vars PROVE IInv'
  OBVIOUS
<1>1. CASE ProjectStep
  BY <1>1, EditIInv, UpdateIInv, BumpPruneIInv, CommitIInv DEF ProjectStep
<1>2. CASE \E calculation \in Calculations, tag \in Tags : Prepare(calculation, tag)
  BY <1>2, PrepareIInv
<1>3. CASE PrepareStep
  <2>1. CASE DiscoverNothing \/ DiscoverRefused \/ Discover \/ BumpRefused \/ BumpOnce \/ OpenRepository
    BY <2>1, DiscoverNothingIInv, RefusedIInv, DiscoverIInv, BumpOnceIInv
  <2>2. CASE CollectRefused \/ CollectAndStage \/ Leave
    BY <2>2, CollectRefusedIInv, CollectAndStageIInv, LeaveIInv
  <2>3. CASE ReplayUpstream \/ ReplayAfter \/ ReplayOnTop \/ UpdateHead
    BY <2>3, ReplayUpstreamIInv, ReplayAfterIInv, ReplayOnTopIInv, UpdateHeadIInv
  <2> QED BY <1>3, <2>1, <2>2, <2>3 DEF PrepareStep
<1>4. CASE FaultStep
  BY <1>4, FaultIInv
<1>5. CASE UNCHANGED vars
  BY <1>5, StutterIInv
<1> QED BY <1>1, <1>2, <1>3, <1>4, <1>5 DEF Next

\* IInv holds throughout.
THEOREM Invariance == Spec => []IInv
BY InitIInv, NextIInv, PTL DEF Spec

\* The variables stay in the sets of values they stand for.
THEOREM TypeCorrect == Spec => []TypeOK
<1>1. IInv => TypeOK
  BY DEF IInv
<1> QED BY <1>1, Invariance, PTL

\* Without a fault a preparation fails only where it must (trySyntheticHistory,
\* collectUpstreamCommits, tryBumpStaticRelease).
THEOREM RefusalsJustified == Spec => []RefusalIsJustified
<1>1. IInv => RefusalIsJustified
  BY DEF IInv
<1> QED BY <1>1, Invariance, PTL

\* HEAD holds the prepared sources; below it the commits of an upstream
\* component are as upstream left them, and those of a local component never
\* were without the overlays (initSourcesRepo, replayInterleaved).
THEOREM OverlaysAtTheEnd == Spec => []OverlaysComeLast
<1>1. IInv => OverlaysComeLast
  <2> SUFFICES ASSUME IInv, head = "rebuilt"
               PROVE  /\ built[len].tree = Overlays
                      /\ config.src = "local" => \A i \in 1 .. len : built[i].tree = Overlays
                      /\ config.src = "upstream" =>
                           \A i \in 1 .. len - 1 : \E j \in 1 .. i :
                             /\ built[j].kind = "upstream" /\ built[j].id = built[i].tree
                             /\ \A m \in j + 1 .. i : built[m].kind = "synthetic"
    BY DEF OverlaysComeLast
  <2>1. Replaying
    BY DEF Replaying
  <2>2. len > 0 /\ built[len].tree = Overlays /\ \A i \in 1 .. len : i # len => Follows(i)
    BY <2>1 DEF IInv, TreeShape
  <2>3. len \in Nat /\ \A i \in 1 .. len : built[i].kind = "upstream" => built[i].id \in HeadLine
    BY <2>1, ReplayFacts DEF Path
  <2>4. ASSUME config.src = "local", NEW i \in 1 .. len, i # len PROVE built[i].tree = Overlays
    <3>1. PICK j \in 1 .. i : built[j].kind = "upstream" /\ SourcesAt(built[j].id) = built[i].tree
      BY <2>2, <2>4 DEF Follows
    <3>2. j \in 1 .. len
      BY <2>3, <2>4
    <3>3. built[j].id = InitialSources
      BY <2>3, <2>4, <3>1, <3>2 DEF HeadLine
    <3> QED BY <3>1, <3>3 DEF SourcesAt
  <2>5. ASSUME config.src = "upstream", NEW i \in 1 .. len - 1
        PROVE  \E j \in 1 .. i :
                 /\ built[j].kind = "upstream" /\ built[j].id = built[i].tree
                 /\ \A m \in j + 1 .. i : built[m].kind = "synthetic"
    <3>1. i \in 1 .. len /\ i # len
      BY <2>3, <2>5
    <3>2. PICK j \in 1 .. i : /\ built[j].kind = "upstream" /\ SourcesAt(built[j].id) = built[i].tree
                              /\ \A m \in j + 1 .. i : built[m].kind = "synthetic"
      BY <2>2, <3>1 DEF Follows
    <3>3. j \in 1 .. len /\ built[j].id \in HeadLine
      BY <2>3, <3>1, <3>2
    <3>4. built[j].id # InitialSources
      <4>1. pc = "done"
        BY DEF IInv, ChangesShape
      <4>2. Effective \in Commits /\ MaxCommit \in Nat
        BY <2>5, <4>1, EffectiveFacts, ChangesFacts
      <4>3. HeadLine \subseteq Commits
        BY <2>5, <4>2, MainlineAssumption DEF HeadLine
      <4> QED BY <3>3, <4>2, <4>3 DEF InitialSources, Commits
    <3> QED BY <3>2, <3>4 DEF SourcesAt
  <2> QED BY <2>2, <2>4, <2>5
<1> QED BY <1>1, Invariance, PTL

\* A change is placed where it belongs.
LEMMA HomeFacts ==
  ASSUME IInv, Replaying, NEW k \in DOMAIN on
  PROVE  /\ Home(k) = IF Placed(k) THEN Place(k) ELSE Nowhere
         /\ Home(k) # Nowhere <=> Placed(k)
<1>0. /\ Reaches /\ ~Skipped /\ (~lockFree => ~Deleted) /\ DOMAIN on = DOMAIN Discovered /\ pc # "idle"
      /\ \A j \in DOMAIN on, d \in 0 .. MaxCommit : Discovered[j] = d => on[j] = Remapped(d)
  BY DEF IInv, ChangesShape, Replaying
<1>1. PICK c \in 0 .. MaxCommit : Discovered[k] = c
  BY <1>0, DiscoveredFacts
<1>2. on[k] = Remapped(c)
  BY <1>0, <1>1
<1>3. /\ Path \subseteq 1 .. MaxCommit + 1 /\ 0 \notin Path /\ Top \notin Path /\ (Latest # 0 => Latest \in Path)
      /\ Top # 0 /\ Place(k) # 0 /\ MaxCommit \in Nat
  <2>1. /\ Path \subseteq 1 .. MaxCommit + 1 /\ Top \notin Path /\ (Latest # 0 => Latest \in Path)
        /\ \A d \in Path : d \in Nat /\ 0 < d
    BY <1>0, PathFacts
  <2>2. MaxCommit \in Nat /\ Top = MaxCommit + 2
    BY ChangesFacts
  <2>3. 0 \notin Path /\ Top # 0
    BY <2>1, <2>2
  <2> QED BY <2>1, <2>2, <2>3, PlaceFacts
<1>4. Equivalents(c) \subseteq 1 .. MaxCommit /\ Equivalents(c) \subseteq Path
  BY <1>0, RemappedFacts DEF Equivalents
<1> DEFINE Same(d) == IF d \in Path THEN {d} ELSE Equivalents(d)
           HomeOf(d) == IF d = 0 \/ Same(d) = {Latest} THEN Top
                        ELSE IF Cardinality(Same(d)) = 1 THEN CHOOSE x \in Same(d) : TRUE ELSE Nowhere
           same == Same(c)
<1>5. Home(k) = IF c = 0 \/ same = {Latest} THEN Top
                ELSE IF Cardinality(same) = 1 THEN CHOOSE d \in same : TRUE ELSE Nowhere
  <2>1. Home(k) = HomeOf(Discovered[k])
    BY DEF Home, Discovered
  <2>2. HomeOf(Discovered[k]) = HomeOf(c)
    <3> HIDE DEF HomeOf
    <3> QED BY <1>1
  <2> QED BY <2>1, <2>2
<1>6. Home(k) = IF Placed(k) THEN Place(k) ELSE Nowhere
  <2>1. CASE c = 0
    <3>1. on[k] = 0
      BY <1>0, <1>2, <2>1, RemappedFacts
    <3> QED BY <1>5, <2>1, <3>1 DEF Place, Placed
  <2>2. CASE c # 0 /\ c \in Path
    <3>1. on[k] = c /\ same = {c}
      BY <1>0, <1>2, <2>2, RemappedFacts
    <3>2. Cardinality(same) = 1 /\ (CHOOSE d \in same : TRUE) = c
      BY <3>1, FS_Singleton
    <3>3. Home(k) = IF c = Latest THEN Top ELSE c
      <4>1. same = {Latest} <=> c = Latest
        BY <3>1
      <4> HIDE DEF same
      <4> QED BY <1>5, <2>2, <3>2, <4>1
    <3> QED BY <2>2, <3>1, <3>3 DEF Place, Placed
  <2>3. CASE c # 0 /\ c \notin Path /\ Cardinality(Equivalents(c)) # 1
    <3>1. on[k] = c /\ same = Equivalents(c)
      BY <1>2, <2>3 DEF Remapped
    <3>2. same # {Latest}
      BY <2>3, <3>1, FS_Singleton
    <3>3. Home(k) = Nowhere
      <4>1. Cardinality(same) # 1
        BY <2>3, <3>1
      <4> HIDE DEF same
      <4> QED BY <1>5, <2>3, <3>2, <4>1
    <3>4. c # Latest /\ c # Top
      <4>1. c # Top
        BY <1>3 DEF Top
      <4> QED BY <1>3, <2>3, <4>1
    <3>5. ~Placed(k)
      BY <2>3, <3>1, <3>4 DEF Placed, Place
    <3> QED BY <3>3, <3>5
  <2>4. CASE c # 0 /\ c \notin Path /\ Cardinality(Equivalents(c)) = 1
    <3>1. PICK x : Equivalents(c) = {x}
      BY <1>3, <1>4, <2>4, OnlyOne
    <3>2. x \in Path /\ x # 0
      BY <1>3, <1>4, <3>1
    <3>3. same = {x} /\ (CHOOSE d \in same : TRUE) = x /\ Cardinality(same) = 1
      BY <2>4, <3>1
    <3>4. on[k] = x
      BY <1>2, <2>4, <3>1 DEF Remapped
    <3>5. Home(k) = IF x = Latest THEN Top ELSE x
      <4>1. same = {Latest} <=> x = Latest
        BY <3>3
      <4> HIDE DEF same
      <4> QED BY <1>5, <2>4, <3>3, <4>1
    <3> QED BY <3>2, <3>4, <3>5 DEF Place, Placed
  <2> QED BY <2>1, <2>2, <2>3, <2>4
<1> QED BY <1>3, <1>6 DEF Nowhere

\* HEAD only ever moves to a whole history: the upstream commits between the
\* import commit and the locked one, and each change once, where it belongs
\* (buildInterleavedSequence, remapEquivalentUpstreamChanges, updateHead).
THEOREM HistoryComplete == Spec => []HistoryIsComplete
<1>1. IInv => HistoryIsComplete
  <2> SUFFICES ASSUME IInv, head = "rebuilt"
               PROVE  /\ Replayed("upstream") = Path
                      /\ Replayed("synthetic") = {k \in DOMAIN on : Home(k) # Nowhere}
                      /\ \A i, j \in 1 .. len : i < j => Precedes(Key(built[i]), Key(built[j]))
    BY DEF HistoryIsComplete
  <2>0. Replaying
    BY DEF Replaying
  <2>1. Pending = {} /\ NextUpstream = {} /\ OnTop = {}
    BY <2>0 DEF IInv, TreeShape
  <2>2. Replayed("upstream") = Path
    <3>1. ASSUME NEW c \in Path PROVE \E i \in 1 .. len : built[i].kind = "upstream" /\ built[i].id = c
      <4>1. c <= pos
        <5>1. c \in Nat /\ pos \in Nat /\ ~(c > pos)
          BY <2>0, <2>1, <3>1, PlaceFacts, ReplayFacts DEF NextUpstream
        <5> QED BY <5>1
      <4> QED BY <2>0, <4>1 DEF IInv, ReplayShape
    <3>2. \A i \in 1 .. len : built[i].kind = "upstream" => built[i].id \in Path
      BY <2>0, ReplayFacts
    <3> QED BY <3>1, <3>2 DEF Replayed
  <2>3. Replayed("synthetic") = {k \in DOMAIN on : Home(k) # Nowhere}
    <3>1. ASSUME NEW k \in DOMAIN on, Placed(k)
          PROVE  \E i \in 1 .. len : built[i].kind = "synthetic" /\ built[i].id = k
      <4>1. k \notin todo
        <5>1. SUFFICES ASSUME k \in todo PROVE FALSE
          OBVIOUS
        <5>2. Place(k) # Top /\ Place(k) # pos
          BY <2>1, <5>1 DEF OnTop, Pending
        <5>3. Place(k) \in Path /\ Place(k) >= pos /\ Place(k) \in Nat /\ pos \in Nat
          BY <2>0, <3>1, <5>1, <5>2, PlaceFacts, ReplayFacts DEF Placed
        <5>4. Place(k) \in NextUpstream
          BY <5>2, <5>3 DEF NextUpstream
        <5> QED BY <2>1, <5>4
      <4> QED BY <2>0, <3>1, <4>1 DEF IInv, ReplayShape
    <3>2. ASSUME NEW i \in 1 .. len, built[i].kind = "synthetic"
          PROVE  built[i].id \in DOMAIN on /\ Placed(built[i].id)
      BY <2>0, <3>2, ReplayFacts
    <3>3. \A k \in DOMAIN on : Home(k) # Nowhere <=> Placed(k)
      BY <2>0, HomeFacts
    <3> QED BY <3>1, <3>2, <3>3 DEF Replayed
  <2>4. ASSUME NEW i \in 1 .. len, NEW j \in 1 .. len, i < j
        PROVE  Precedes(Key(built[i]), Key(built[j]))
    <3>1. ASSUME NEW m \in 1 .. len PROVE Key(built[m]) = PlaceKey(built[m])
      <4>1. CASE built[m].kind = "upstream"
        BY <4>1 DEF Key, PlaceKey
      <4>2. CASE built[m].kind = "synthetic"
        <5>1. built[m].id \in DOMAIN on /\ Placed(built[m].id)
          BY <2>0, <4>2, ReplayFacts
        <5>2. Home(built[m].id) = Place(built[m].id)
          BY <2>0, <5>1, HomeFacts
        <5> QED BY <4>2, <5>2 DEF Key, PlaceKey
      <4> QED BY <2>0, <4>1, <4>2, ReplayFacts
    <3>2. Precedes(PlaceKey(built[i]), PlaceKey(built[j]))
      BY <2>0, <2>4 DEF IInv, ReplayShape
    <3> QED BY <3>1, <3>2
  <2> QED BY <2>2, <2>3, <2>4
<1> QED BY <1>1, Invariance, PTL

\* What a preparation with uncommitted changes represents is what it will
\* represent once the lock is committed (FindFingerprintChanges,
\* BuildDirtyChange, computeCurrentFingerprint).
THEOREM DirtyPreview == Spec => []DirtyPreviewsCommit
<1>1. IInv => DirtyPreviewsCommit
  <2> SUFFICES ASSUME IInv, pc = "bump", ~lockFree, config.src = "upstream",
                      lock.fp = Identity(config, lock.bump, lock.commit)
               PROVE  IF lock.fp = AtHead.fp THEN Dirty \notin DOMAIN on
                      ELSE Dirty \in DOMAIN on /\ on[Dirty] = lock.commit
    BY DEF DirtyPreviewsCommit
  <2>1. on = FingerprintChanges /\ DOMAIN on # {} /\ ~Skipped /\ ~Deleted
    BY DEF IInv, ChangesShape, Discovered
  <2>2. /\ size \in 1 .. MaxLog /\ AtHead = log[size] /\ MaxLog \in Nat /\ Dirty = MaxLog + 1
        /\ \A i \in 1 .. size : log[i] \in Lock /\ log[i] # Absent
    BY <2>1, DiscoveredFacts, ChangesFacts, MarkerFacts
  <2>3. /\ config \in Config /\ lock \in Lock /\ Effective = lock.commit /\ Effective \in 0 .. MaxCommit
        /\ Effective # 0 /\ lock.bump \in Nat
    BY EffectiveFacts, AnswersFacts, LockFacts, ChangesFacts
  <2>4. /\ lock.fp \in Fingerprint /\ lock.fp.id = Effective
    BY <2>3, IdentityFacts
  <2>5. CurrentFingerprint = lock.fp
    <3>1. CurrentFingerprint = [lock.fp EXCEPT !.id = Effective]
      BY <2>3, MarkerFacts DEF CurrentFingerprint, IdentityHere
    <3> QED BY <2>4, <3>1 DEF Fingerprint
  <2>6. Dirty \notin Found
    BY <2>2 DEF Found
  <2>7. CASE lock.fp = AtHead.fp
    <3>1. ~IsDirty
      BY <2>5, <2>7 DEF IsDirty
    <3> QED BY <2>1, <2>6, <2>7, <3>1 DEF FingerprintChanges
  <2>8. CASE lock.fp # AtHead.fp
    <3>1. AtHead.fp # None
      <4>1. SUFFICES ASSUME AtHead.fp = None PROVE FALSE
        OBVIOUS
      <4>2. size \in Nat /\ size \in 1 .. size
        BY <2>2
      <4>3. \A i \in 1 .. size : log[i].fp = None
        BY <2>2, <4>1, <4>2 DEF IInv, ProjectShape, Unprinted
      <4>4. Found = {}
        <5>1. ASSUME NEW i \in 1 .. size PROVE log[i].fp = Before(i)
          <6>1. i # 1 => i - 1 \in 1 .. size
            BY <4>2
          <6> QED BY <4>3, <6>1 DEF Before
        <5> QED BY <5>1 DEF Found
      <4>5. ~IsDirty
        BY <4>1 DEF IsDirty
      <4> QED BY <2>1, <4>4, <4>5 DEF FingerprintChanges
    <3>2. IsDirty
      BY <2>4, <2>5, <2>8, <3>1, MarkerFacts DEF IsDirty
    <3> QED BY <2>1, <2>3, <2>8, <3>2 DEF FingerprintChanges
  <2> QED BY <2>7, <2>8
<1> QED BY <1>1, Invariance, PTL

-----------------------------------------------------------------------------
(* The release does not fall.                                              *)

\* As the history grows there are as many changes or more, and more if the
\* fingerprint is another.
LEMMA GrowingFacts ==
  ASSUME TypeOK, NEW n, n = size, NEW s \in 1 .. n
  PROVE  /\ Cardinality(FoundUpTo(s)) \in Nat /\ Cardinality(FoundUpTo(n)) \in Nat
         /\ Cardinality(FoundUpTo(s)) <= Cardinality(FoundUpTo(n))
         /\ log[s].fp # log[n].fp => Cardinality(FoundUpTo(s)) < Cardinality(FoundUpTo(n))
<1>0. n \in Nat /\ s \in Nat /\ s <= n /\ 1 <= s
  BY ProjectFacts
<1>1. FoundUpTo(s) \in SUBSET FoundUpTo(n)
  <2>1. \A i \in 1 .. s : i \in 1 .. n
    BY <1>0
  <2> QED BY <2>1 DEF FoundUpTo
<1>2. IsFiniteSet(FoundUpTo(n))
  <2>1. FoundUpTo(n) \in SUBSET (1 .. n) /\ 1 \in Int /\ n \in Int
    BY <1>0 DEF FoundUpTo
  <2>2. IsFiniteSet(1 .. n)
    BY <2>1, FS_Interval
  <2> QED BY <2>1, <2>2, FS_Subset
<1>3. /\ Cardinality(FoundUpTo(s)) <= Cardinality(FoundUpTo(n)) /\ IsFiniteSet(FoundUpTo(s))
      /\ Cardinality(FoundUpTo(n)) = Cardinality(FoundUpTo(s)) => FoundUpTo(n) = FoundUpTo(s)
  BY <1>1, <1>2, FS_Subset
<1>4. Cardinality(FoundUpTo(s)) \in Nat /\ Cardinality(FoundUpTo(n)) \in Nat
  BY <1>2, <1>3, FS_CardinalityType
<1>5. ASSUME log[s].fp # log[n].fp PROVE FoundUpTo(n) # FoundUpTo(s)
  <2> DEFINE Other == {i \in 1 .. n : i > s /\ log[i].fp # log[s].fp}
  <2>1. n \in Other
    <3>1. n > s /\ n \in 1 .. n
      BY <1>0, <1>5
    <3> QED BY <1>5, <3>1
  <2>2. Earliest(Other) \in Other /\ \A k \in Other : Earliest(Other) <= k
    <3>1. Other \subseteq 1 .. n
      OBVIOUS
    <3> HIDE DEF Other
    <3> QED BY <1>0, <2>1, <3>1, EarliestFacts
  <2>3. PICK m \in Other : \A k \in Other : m <= k
    BY <2>2
  <2>4. m \in 1 .. n /\ m > s /\ log[m].fp # log[s].fp /\ m \in Nat /\ m <= n
    BY <1>0, <2>3
  <2>5. m # 1 /\ m - 1 \in 1 .. n /\ (m - 1 > s \/ m - 1 = s) /\ ~(m <= m - 1)
    BY <1>0, <2>4
  <2>6. log[m - 1].fp = log[s].fp
    BY <2>3, <2>5
  <2>7. m \in FoundUpTo(n)
    BY <2>4, <2>5, <2>6 DEF FoundUpTo, Before
  <2>8. m \notin FoundUpTo(s)
    BY <1>0, <2>4 DEF FoundUpTo
  <2> QED BY <2>7, <2>8
<1> QED BY <1>3, <1>4, <1>5

\* As the project's history grows a static release does not fall unless the
\* spec came with a lower one, and rises whenever "component changed" calls the
\* component changed (tryBumpStaticRelease, classifyComponent).
THEOREM ReleaseMonotone == Spec => ReleaseRises
<1> DEFINE Rises == seen' # seen /\ seen.lock # Absent /\ seen'.base >= seen.base =>
                      /\ seen'.release >= seen.release
                      /\ ChangeType(seen.lock, seen'.lock) = "changed" => seen'.release > seen.release
<1>1. IInv /\ IInv' /\ [Next]_vars => [Rises]_vars
  <2> SUFFICES ASSUME IInv, [Next]_vars, seen' # seen, seen.lock # Absent, seen'.base >= seen.base
               PROVE  /\ seen'.release >= seen.release
                      /\ ChangeType(seen.lock, seen'.lock) = "changed" => seen'.release > seen.release
    OBVIOUS
  <2>1. UpdateHead
    BY DEF Next, ProjectStep, PrepareStep, FaultStep, vars, prepared, Edit, Update, Bump, Prune, Commit, Prepare,
           DiscoverNothing, DiscoverRefused, Discover, BumpRefused, BumpOnce, OpenRepository, CollectRefused,
           CollectAndStage, ReplayUpstream, ReplayAfter, ReplayOnTop, ReplayOne, Leave, BumpFails, PreparationFails
  <2>2. /\ ~lockFree /\ kind = "static" /\ Dirty \notin DOMAIN on
        /\ seen' = [lock |-> AtHead, base |-> BaseRelease, release |-> Release]
        /\ Replaying
    BY <2>1 DEF UpdateHead, Replaying
  <2>3. bump = Cardinality(DOMAIN on) /\ DOMAIN on = DOMAIN FingerprintChanges
    BY <2>1, <2>2 DEF UpdateHead, IInv, ChangesShape, Discovered
  <2>4. DOMAIN on = FoundUpTo(size)
    BY <2>2, <2>3 DEF FingerprintChanges, Found, FoundUpTo
  <2>5. PICK s \in 1 .. size : seen.lock = log[s] /\ seen.release = seen.base + Cardinality(FoundUpTo(s))
    BY DEF IInv, SeenShape
  <2>6. PICK n : n = size
    OBVIOUS
  <2>7. AtHead = log[n]
    BY <2>5, <2>6, ProjectFacts DEF AtHead, IInv
  <2>8. /\ seen.base \in Nat /\ seen'.base \in Nat
        /\ seen'.release = seen'.base + Cardinality(FoundUpTo(n))
    <3>1. seen \in [lock : Lock \cup {Absent}, base : Nat, release : Nat]
      BY DEF IInv, TypeOK
    <3>2. pc # "idle"
      BY <2>1 DEF UpdateHead
    <3> QED BY <2>2, <2>3, <2>4, <2>6, <3>1, <3>2, ReleaseFacts
  <2>9. /\ Cardinality(FoundUpTo(s)) \in Nat /\ Cardinality(FoundUpTo(n)) \in Nat
        /\ Cardinality(FoundUpTo(s)) <= Cardinality(FoundUpTo(n))
        /\ log[s].fp # log[n].fp => Cardinality(FoundUpTo(s)) < Cardinality(FoundUpTo(n))
    BY <2>5, <2>6, GrowingFacts DEF IInv
  <2>10. ChangeType(seen.lock, seen'.lock) = "changed" => log[s].fp # log[n].fp
    BY <2>2, <2>5, <2>7 DEF ChangeType
  <2>11. ASSUME NEW a \in Nat, NEW b \in Nat, NEW k \in Nat, NEW l \in Nat, b >= a, k <= l
         PROVE  b + l >= a + k /\ (k < l => b + l > a + k)
    BY <2>11
  <2> QED BY <2>5, <2>8, <2>9, <2>10, <2>11
<1> QED BY <1>1, Invariance, PTL DEF Spec, ReleaseRises

=============================================================================
