---------------------------- MODULE TakingTurns ----------------------------
(***************************************************************************)
(* Who takes turns on a message's way out: the routes of the dispatch      *)
(* queue, and the targets of the balancer.                                 *)
(***************************************************************************)
EXTENDS QueueRotation, Balancer

\* Everyone who takes turns gets them, in an order that changes meanwhile: no
\* route of the queue is passed for ever (next_route), every target of the
\* balancer gets its share, and what is reported of a selection is what it did
\* (compute_selection).
TurnsAreShared == NoRouteStarves /\ EachItsShare /\ DiagnosisAgrees
=============================================================================
