------------------------------ MODULE LockData ------------------------------
(***************************************************************************)
(* The data of per-component lock files (internal/lockfile), of component  *)
(* configuration as far as locking depends on it, and the pure functions   *)
(* the update command and the resolver compute from them.                  *)
(*                                                                         *)
(* Upstream commits are numbered in the order they were pushed; 0 stands   *)
(* for the empty string. A hash is modelled by the values it hashes.       *)
(***************************************************************************)
EXTENDS Naturals, FiniteSets

CONSTANTS
  NComp,      \* number of component names
  NSnap,      \* number of snapshot timestamps; 0 is "no snapshot"
  MaxCommit,  \* number of upstream commits
  Inputs,     \* values of everything else that is fingerprinted: overlays,
              \* build options, release version, and a local spec's content
  Absent,     \* no such file, no such component
  Corrupt,    \* a lock file that does not parse (torn write, bad version)
  None        \* a hash field that is empty

ASSUME SizesAssumption ==
  /\ NComp \in Nat \ {0}
  /\ NSnap \in Nat
  /\ MaxCommit \in Nat \ {0}

Comps == 1 .. NComp
Commits == 1 .. MaxCommit
Sources == {"upstream", "local"}

\* snap and pin are the resolution inputs; pin is fingerprinted too, the
\* snapshot is not (fingerprint:"-" in projectconfig/distro.go).
Config ==
  [src : Sources, snap : 0 .. NSnap, pin : 0 .. MaxCommit, inputs : Inputs]

Fingerprint ==
  [src : Sources, pin : 0 .. MaxCommit, inputs : Inputs, bump : Nat,
   id : 0 .. MaxCommit]

ResolutionInputs == [snap : 0 .. NSnap, pin : 0 .. MaxCommit]

Lock ==
  [commit : 0 .. MaxCommit, import : 0 .. MaxCommit, bump : Nat,
   fp : Fingerprint \cup {None}, rh : ResolutionInputs \cup {None}]

\* Upstream's first commit is all there is to begin with.
FirstCommits == [s \in 0 .. NSnap |-> 1]

ASSUME MarkersAssumption ==
  /\ Absent # Corrupt
  /\ {Absent, Corrupt} \cap (Config \cup Lock) = {}
  /\ None \notin Fingerprint \cup ResolutionInputs

Readable(l) == l \notin {Absent, Corrupt}

-----------------------------------------------------------------------------
(* Hashes.                                                                 *)

\* fingerprint.ComputeResolutionHash: snapshot and pin stand for all inputs.
ResolutionHashOfEverything(cfg) == cfg
ResolutionHashWithoutPin(cfg) == [snap |-> cfg.snap, pin |-> 0]
ResolutionHash(cfg) == [snap |-> cfg.snap, pin |-> cfg.pin]

\* fingerprint.ComputeIdentity. A local component's identity is the hash of
\* its spec directory, which is part of inputs here.
Identity(cfg, bump, commit) ==
  [src |-> cfg.src, pin |-> cfg.pin, inputs |-> cfg.inputs, bump |-> bump,
   id |-> IF cfg.src = "upstream" THEN commit ELSE 0]

-----------------------------------------------------------------------------
(* Upstream: at[s] is the commit snapshot s resolves to now, at[0] the     *)
(* branch head. Back-dated commits move what a snapshot resolves to.       *)

\* A pin wins over a snapshot, a snapshot over the head.
Resolve(at, cfg) == IF cfg.pin # 0 THEN cfg.pin ELSE at[cfg.snap]

\* The resolution inputs once resolved to this commit: what a snapshot or
\* the head resolves to only ever grows, one commit at a time, from 1.
ResolvedOnce(at, rh, commit) ==
  IF rh.pin # 0 THEN commit = rh.pin ELSE commit \in 1 .. at[rh.snap]

-----------------------------------------------------------------------------
(* The resolver's freshness check.                                         *)

TracksHead(cfg) == cfg.snap = 0 /\ cfg.pin = 0

\* The lock's commit is the answer to the present resolution inputs. Local
\* components, components that follow the head, and locks without the hash
\* never qualify. A lock without a commit has no identity to compare.
ResolutionFresh(cfg, l) ==
  /\ cfg.src = "upstream"
  /\ Readable(l)
  /\ ~TracksHead(cfg)
  /\ l.rh = ResolutionHash(cfg)
  /\ l.commit # 0

\* FreshnessCurrent: nothing to do.
Current(cfg, l) ==
  ResolutionFresh(cfg, l) /\ l.fp = Identity(cfg, l.bump, l.commit)

\* FreshnessStale but not ResolutionStale: the commit can be reused.
Reusable(cfg, l) ==
  /\ ResolutionFresh(cfg, l)
  /\ l.fp # None
  /\ l.fp # Identity(cfg, l.bump, l.commit)

-----------------------------------------------------------------------------
(* What update, and update --bump, write.                                  *)

NewLock == [commit |-> 0, import |-> 0, bump |-> 0, fp |-> None, rh |-> None]

\* Store.GetOrNew. A component whose file does not parse failed before its
\* lock is asked for.
GetOrNew(l) == IF Readable(l) THEN l ELSE NewLock

\* The import commit is seeded once, and dropped for local components.
ImportOf(base, cfg, commit) ==
  IF cfg.src # "upstream" THEN 0
  ELSE IF base.import = 0 THEN commit ELSE base.import

\* updateResolutionHash leaves the field of a local component alone.
Refreshed(l, cfg, commit) ==
  LET base == GetOrNew(l)
  IN [commit |-> commit,
      import |-> ImportOf(base, cfg, commit),
      bump   |-> base.bump,
      fp     |-> Identity(cfg, base.bump, commit),
      rh     |-> IF cfg.src = "upstream" THEN ResolutionHash(cfg) ELSE base.rh]

Bumped(l, cfg) ==
  [l EXCEPT !.bump = l.bump + 1, !.fp = Identity(cfg, l.bump + 1, l.commit)]

\* bump refuses a file it cannot read, and an upstream lock with no commit.
CanBump(l, cfg) ==
  /\ Readable(l)
  /\ cfg.src = "upstream" => l.commit # 0

\* No lock yet, or one written before the hashes existed: no resolution hash,
\* and possibly no fingerprint.
InitialLocks(at, cfg) ==
  {Absent} \cup
  IF cfg = Absent \/ cfg.src = "local" THEN {}
  ELSE LET commit == Resolve(at, cfg)
       IN {[commit |-> commit, import |-> commit, bump |-> 0, fp |-> fp, rh |-> None] :
             fp \in {None, Identity(cfg, 0, commit)}}

-----------------------------------------------------------------------------
(* What the consumers of a lock (render, build, ...) insist on.            *)

\* ValidateUpstreamCommit, applied to every component that is not local.
Validates(cfg, l) ==
  cfg.src # "local" =>
    /\ Readable(l)
    /\ l.commit # 0
    /\ cfg.pin # 0 => l.commit = cfg.pin

-----------------------------------------------------------------------------
(* What a lock is worth.                                                   *)

\* The commit a component with this configuration may be locked to.
Answer(at, cfg, commit) ==
  IF cfg.src = "upstream"
  THEN ResolvedOnce(at, ResolutionHash(cfg), commit)
  ELSE commit = 0

\* The commit is an answer to what the resolution hash hashes; it and the
\* import commit come and go together.
Sound(at, l) ==
  /\ l.commit = 0 => l.import = 0
  /\ l.rh # None /\ l.commit # 0 =>
       ResolvedOnce(at, l.rh, l.commit) /\ l.import # 0

\* The lock is what the configuration calls for.
IsSettled(cfg, l) ==
  /\ Readable(l)
  /\ l.fp = Identity(cfg, l.bump, l.commit)
  /\ Validates(cfg, l)
  /\ cfg.src = "upstream" => l.rh = ResolutionHash(cfg) /\ l.import # 0
  /\ cfg.src = "local" => l.commit = 0 /\ l.import = 0
=============================================================================
