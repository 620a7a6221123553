----------------------------- MODULE TaskBatch -----------------------------
(***************************************************************************)
(* What parmap.Map promises its callers (render, update, and               *)
(* refresh-upstream-commit): every item ends with exactly one outcome, no  *)
(* more than Limit items are worked on at once, an item is reported as     *)
(* cancelled only after the context is done, and Map returns when, and     *)
(* only when, every item has its outcome.                                  *)
(***************************************************************************)
EXTENDS Naturals, FiniteSets

CONSTANTS
  Items,    \* the items of the input slice
  Limit     \* the number of workers allowed at once

VARIABLES
  running,  \* the items whose worker function is executing
  outcome,  \* what the result slice says of each item
  done,     \* the context is done
  returned  \* Map has returned

batchVars == <<running, outcome, done, returned>>

BatchInit ==
  /\ running = {}
  /\ outcome = [i \in Items |-> "none"]
  /\ done = FALSE
  /\ returned = FALSE

\* The caller's context ends: Ctrl-C, or a deadline.
Cancel ==
  /\ ~done
  /\ done' = TRUE
  /\ UNCHANGED <<running, outcome, returned>>

\* A worker is invoked, before the context is done and below the limit.
Start(i) ==
  /\ ~done
  /\ i \notin running
  /\ outcome[i] = "none"
  /\ Cardinality(running) < Limit
  /\ running' = running \cup {i}
  /\ UNCHANGED <<outcome, done, returned>>

\* The worker returns its value.
Finish(i) ==
  /\ i \in running
  /\ running' = running \ {i}
  /\ outcome' = [outcome EXCEPT ![i] = "value"]
  /\ UNCHANGED <<done, returned>>

\* An item that never started is given up.
GiveUp(i) ==
  /\ done
  /\ i \notin running
  /\ outcome[i] = "none"
  /\ outcome' = [outcome EXCEPT ![i] = "cancelled"]
  /\ UNCHANGED <<running, done, returned>>

Return ==
  /\ ~returned
  /\ \A i \in Items : outcome[i] # "none"
  /\ returned' = TRUE
  /\ UNCHANGED <<running, outcome, done>>

BatchNext ==
  \/ Cancel
  \/ Return
  \/ \E i \in Items : Start(i) \/ Finish(i) \/ GiveUp(i)

BatchSpec == BatchInit /\ [][BatchNext]_batchVars
=============================================================================
