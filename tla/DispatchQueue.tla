--------------------------- MODULE DispatchQueue ---------------------------
(***************************************************************************)
(* dispatcher/queue.rs: envelopes wait in one lane per route (the channel  *)
(* of the message) and priority; dequeue takes the smallest priority that  *)
(* is due anywhere and rotates among the routes that have it.  Every       *)
(* operation holds the queue's mutex, so each is one step.                 *)
(*                                                                         *)
(* Time appears only through `waiting`: the messages whose next_attempt_at *)
(* lies in the future.                                                     *)
(***************************************************************************)
EXTENDS Naturals, Sequences, FiniteSets, SequencesExt

CONSTANTS
  Msgs,        (* the messages                                              *)
  Routes,      (* the channels they are for                                 *)
  Levels,      (* priorities, smaller is more urgent                        *)
  NoRoute,     (* last_route_key is None                                    *)
  RouteOf,     (* DispatchMessage.channel, by message                       *)
  LevelOf      (* DispatchMessage.priority, by message                      *)

ASSUME QueueAssumption ==
  /\ IsFiniteSet(Msgs) /\ IsFiniteSet(Routes)
  /\ Levels \subseteq 0 .. 255
  /\ NoRoute \notin Routes
  /\ RouteOf \in [Msgs -> Routes]
  /\ LevelOf \in [Msgs -> Levels]

VARIABLES
  lanes,       (* the VecDeque of every route and priority                  *)
  routes,      (* the keys of the IndexMap of routes, in insertion order    *)
  lastRoute,   (* last_route_key                                            *)
  waiting      (* the messages that are not due yet                         *)

queueVars == <<lanes, routes, lastRoute, waiting>>

QueueTypeOK ==
  /\ lanes \in [Routes -> [Levels -> Seq(Msgs)]]
  /\ routes \in Seq(Routes)
  /\ lastRoute \in Routes \cup {NoRoute}
  /\ waiting \subseteq Msgs

QueueInit ==
  /\ lanes = [r \in Routes |-> [l \in Levels |-> <<>>]]
  /\ routes = <<>>
  /\ lastRoute = NoRoute
  /\ waiting = {}

Queued(m) == m \in Range(lanes[RouteOf[m]][LevelOf[m]])
QueueIsEmpty == \A r \in Routes, l \in Levels : lanes[r][l] = <<>>

\* Mutant: no entry for a new route.
EnqueueOldRoute(m) ==
  /\ lanes' = [lanes EXCEPT ![RouteOf[m]][LevelOf[m]] = Append(@, m)]
  /\ UNCHANGED <<routes, lastRoute>>

\* enqueue: to the back of the message's lane; a new route goes last.
Enqueue(m) ==
  /\ lanes' = [lanes EXCEPT ![RouteOf[m]][LevelOf[m]] = Append(@, m)]
  /\ routes' = IF Contains(routes, RouteOf[m]) THEN routes ELSE Append(routes, RouteOf[m])
  /\ UNCHANGED lastRoute

\* Only the front of a lane is looked at: a waiting message holds up those
\* behind it.
HeadDue(r, l) == lanes[r][l] # <<>> /\ Head(lanes[r][l]) \notin waiting
DueLevels == {l \in Levels : \E r \in Range(routes) : HeadDue(r, l)}

GlobalLevel == CHOOSE l \in DueLevels : \A k \in DueLevels : l <= k

\* The places in `routes` of the routes that have it.
EligibleRoutes == {i \in DOMAIN routes : HeadDue(routes[i], GlobalLevel)}

\* Mutant: the last route again.
SameAgain(eligible, last) ==
  LET same == {i \in eligible : routes[i] = last} IN
  Min(IF same # {} THEN same ELSE eligible)

\* select_next_route: the one after the last route, cyclically.
NextRoute(eligible, last) ==
  LET after == {i \in eligible : \E j \in eligible : routes[j] = last /\ j < i} IN
  Min(IF after # {} THEN after ELSE eligible)

\* The lane without its first message, and the maps without empty entries.
PopFrom(i, l) ==
  LET r == routes[i]
      rest == [lanes[r] EXCEPT ![l] = Tail(@)]
  IN
  /\ lanes' = [lanes EXCEPT ![r] = rest]
  /\ IF \A k \in Levels : rest[k] = <<>>
     THEN routes' = RemoveAt(routes, i) /\ lastRoute' = NoRoute
     ELSE routes' = routes /\ lastRoute' = r

\* dequeue finds m.
Dequeue(m) ==
  LET i == NextRoute(EligibleRoutes, lastRoute) IN
  /\ DueLevels # {}
  /\ m = Head(lanes[routes[i]][GlobalLevel])
  /\ PopFrom(i, GlobalLevel)
  /\ UNCHANGED waiting

\* dequeue finds nothing: every front message is waiting, or there is none.
NothingDue == DueLevels = {}

\* next_attempt_at of m has come.
Elapse(m) ==
  /\ m \in waiting
  /\ waiting' = waiting \ {m}
  /\ UNCHANGED <<lanes, routes, lastRoute>>

=============================================================================
