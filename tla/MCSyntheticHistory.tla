------------------------ MODULE MCSyntheticHistory ------------------------
(***************************************************************************)
(* Upstream's main line is 1, 2; a branch leaves it after 1 and holds 3, a *)
(* cherry-pick of 2, and 4. The first snapshot is on the main line, where  *)
(* it may move back, the second on the branch. The release in the spec     *)
(* rises along the main line and is lower on the branch.                   *)
(***************************************************************************)
EXTENDS SyntheticHistory

MCMainline == [c \in Commits |-> IF c <= 2 THEN 1 .. c ELSE {1} \cup 3 .. c]
MCAuthored == [c \in Commits |-> IF c = 3 THEN 2 ELSE c]
MCResolves == [s \in 0 .. NSnap |-> IF s = 2 THEN {4} ELSE {1, 2}]

Upstream(snap, inputs) ==
  [src |-> "upstream", snap |-> snap, pin |-> 0, inputs |-> inputs]
Local(pin) == [src |-> "local", snap |-> 1, pin |-> pin, inputs |-> 1]
MCChoices == {Upstream(1, 1), Upstream(2, 2), Local(0), Local(2)}
MCSpecRelease == [cfg \in MCChoices |->
  [c \in 0 .. MaxCommit |-> IF c = 0 THEN 4 ELSE <<1, 5, 2, 3>>[c]]]
=============================================================================
