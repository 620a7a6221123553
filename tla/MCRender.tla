------------------------------ MODULE MCRender ------------------------------
(***************************************************************************)
(* Two components. The first is one of two trees that share a file, a      *)
(* broken overlay, or no component at all; the second is steady, renders   *)
(* to one file and asks mock for its release number.                       *)
(***************************************************************************)
EXTENDS Render

MCChoices == [c \in Comps |->
  IF c = 1 THEN {{"spec", "patch"}, {"spec"}, Broken, Absent} ELSE {{"spec"}}]
=============================================================================
