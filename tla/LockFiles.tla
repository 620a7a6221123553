----------------------------- MODULE LockFiles ------------------------------
(***************************************************************************)
(* The abstract life of the lock files in a project's repository: what any *)
(* number of runs of "component update" may do to them, whatever order     *)
(* their steps take and wherever they fail, are interrupted or killed.     *)
(***************************************************************************)
EXTENDS LockData

VARIABLES
  config,  \* the configuration of each component, Absent if there is none
  at,      \* what upstream's head and snapshots resolve to
  lock     \* the lock file of each component

fileVars == <<config, at, lock>>

FilesInit ==
  /\ config \in [Comps -> Config \cup {Absent}]
  /\ at = FirstCommits
  /\ \A c \in Comps : lock[c] \in InitialLocks(at, config[c])

\* A lock is refreshed for the present configuration, with a commit that its
\* resolution inputs resolved to, now or earlier. A file that does not parse
\* is never replaced: its import commit and bump count would be lost.
Refresh(c) ==
  /\ config[c] # Absent
  /\ lock[c] # Corrupt
  /\ \E commit \in 0 .. MaxCommit :
       /\ Answer(at, config[c], commit)
       /\ lock' = [lock EXCEPT ![c] = Refreshed(lock[c], config[c], commit)]
  /\ UNCHANGED <<config, at>>

Bump(c) ==
  /\ config[c] # Absent
  /\ CanBump(lock[c], config[c])
  /\ lock' = [lock EXCEPT ![c] = Bumped(lock[c], config[c])]
  /\ UNCHANGED <<config, at>>

\* A write is torn: the file is truncated in place, then written.
Tear(c) ==
  /\ config[c] # Absent
  /\ lock[c] # Corrupt
  /\ lock' = [lock EXCEPT ![c] = Corrupt]
  /\ UNCHANGED <<config, at>>

Prune(c) ==
  /\ config[c] = Absent
  /\ lock[c] # Absent
  /\ lock' = [lock EXCEPT ![c] = Absent]
  /\ UNCHANGED <<config, at>>

\* The user removes a lock file that does not parse.
Discard(c) ==
  /\ lock[c] = Corrupt
  /\ lock' = [lock EXCEPT ![c] = Absent]
  /\ UNCHANGED <<config, at>>

Edit(c) ==
  /\ config' \in [Comps -> Config \cup {Absent}]
  /\ \A d \in Comps \ {c} : config'[d] = config[d]
  /\ UNCHANGED <<at, lock>>

UpstreamMoves(s) ==
  /\ at[s] < MaxCommit
  /\ at' = [at EXCEPT ![s] = at[s] + 1]
  /\ UNCHANGED <<config, lock>>

FilesNext ==
  \/ \E c \in Comps :
       Refresh(c) \/ Bump(c) \/ Tear(c) \/ Prune(c) \/ Discard(c) \/ Edit(c)
  \/ \E s \in 0 .. NSnap : UpstreamMoves(s)

FilesSpec == FilesInit /\ [][FilesNext]_fileVars
=============================================================================
