---------------------------- MODULE MCLockUpdate ----------------------------
(***************************************************************************)
(* Two components on a snapshot. The user moves the first between the two  *)
(* snapshots, the head, a pin and a local spec, edits its other inputs and *)
(* removes and restores both.                                              *)
(***************************************************************************)
EXTENDS LockUpdate

Upstream(snap, pin, inputs) ==
  [src |-> "upstream", snap |-> snap, pin |-> pin, inputs |-> inputs]
Local == [src |-> "local", snap |-> 1, pin |-> 0, inputs |-> 1]

MCInitial == [c \in Comps |-> Upstream(1, 0, 1)]
MCChoices == [c \in Comps |->
  IF c = 1
  THEN {Upstream(1, 0, 1), Upstream(1, 0, 2), Upstream(0, 0, 1),
        Upstream(2, 0, 1), Upstream(1, 2, 1), Local}
  ELSE {Upstream(1, 0, 1)}]
=============================================================================
