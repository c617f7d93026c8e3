------------------------------ MODULE BestPath ------------------------------
(***************************************************************************)
(* What path selection promises: a table of the latest measurement of each *)
(* path and, at every moment, the first path with the least measurement.   *)
(* A measurement and the choice it leads to are one step here; the         *)
(* receiver takes several (PathSelection).                                 *)
(***************************************************************************)
EXTENDS PathDelay

VARIABLES
  est,    \* the latest measurement of each path
  best    \* the path in use for repath

Init ==
  /\ est = [p \in Paths |-> UNMEASURED]
  /\ best = 0

(* A measurement arrives for path p.                                       *)
Measure(p, d) ==
  /\ est' = [est EXCEPT ![p] = d]
  /\ best' = FirstMin(est')

Next == \E p \in Paths, d \in Delays : Measure(p, d)

Spec == Init /\ [][Next]_<<est, best>>
=============================================================================
