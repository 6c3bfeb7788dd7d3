--------------------------- MODULE QueueRotation ---------------------------
(***************************************************************************)
(* The queue of dispatcher/queue.rs on its own, under any sequence of      *)
(* enqueue and dequeue calls without back-off, and how long its rotation   *)
(* lets a route wait.                                                      *)
(***************************************************************************)
EXTENDS DispatchQueue

VARIABLES
  skipped,     (* history: how often the rotation has passed a route that   *)
               (* had a message of the priority it served                   *)
  level        (* history: that priority; another one ends the count, and   *)
               (* so does a rotation that starts again                      *)

rotationVars == <<queueVars, skipped, level>>

RotationInit ==
  /\ QueueInit
  /\ skipped = [r \in Routes |-> 0]
  /\ level \in Levels

\* A message comes, again if it has left the queue before.
Arrive(m) ==
  /\ ~Queued(m)
  /\ Enqueue(m)
  /\ UNCHANGED <<waiting, skipped, level>>

\* The last route has nothing left of the priority that is served: it has no
\* place among the eligible ones, and the rotation starts at the first of them.
LosesPlace(l) == lastRoute # NoRoute /\ ~HeadDue(lastRoute, l)

Serve(m) ==
  /\ Dequeue(m)
  /\ level' = LevelOf[m]
  /\ LET past == IF LevelOf[m] # level \/ LosesPlace(LevelOf[m]) THEN [r \in Routes |-> 0] ELSE skipped IN
     skipped' = [r \in Routes |->
       IF r = RouteOf[m] THEN 0
       ELSE IF HeadDue(r, LevelOf[m]) THEN past[r] + 1 ELSE past[r]]

RotationNext == \E m \in Msgs : Arrive(m) \/ Serve(m)

RotationSpec == RotationInit /\ [][RotationNext]_rotationVars

\* While one priority is served and the rotation keeps its place it is fair,
\* although removing an emptied route resets it to the first one: each route
\* ahead of r can do that once before it goes behind r.  A route that keeps
\* messages of other priorities stays where it is, and can make it start again
\* as often as it has none of this one when the next is chosen.
NoRouteStarves ==
  LET n == Cardinality(Routes) IN \A r \in Routes : skipped[r] <= (n * (n - 1)) \div 2
=============================================================================
