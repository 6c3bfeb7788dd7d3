--------------------------- MODULE OutboundProofs ---------------------------
(***************************************************************************)
(* Theorems about what a message passes on its way out, with their proofs: *)
(* the dispatcher, for every set of messages, channels and priorities,     *)
(* every retry policy and every choice of the threads that drain the       *)
(* queue; the rotation of the queue, for every set of messages, routes and *)
(* priorities; the balancer, for every set of threads that dispatch and of *)
(* targets; the bounded channel, for every set of senders and every        *)
(* capacity; and the circuit breaker used by one caller at a time, for     *)
(* every set of callers, thresholds and time-out.                          *)
(***************************************************************************)
EXTENDS Dispatcher, TakingTurns, BoundedChannel, CircuitBreaker,
        SequenceLemmas, FiniteSetTheorems, FunctionTheorems

-----------------------------------------------------------------------------
(* The queue.                                                               *)

\* The lanes `ls` hold the messages of Q, each once, in its route's lane for
\* its priority.
Holds(ls, Q) ==
  \A r \in Routes, l \in Levels :
    /\ \A i \in 1 .. Len(ls[r][l]) :
         ls[r][l][i] \in Q /\ RouteOf[ls[r][l][i]] = r /\ LevelOf[ls[r][l][i]] = l
    /\ \A i, j \in 1 .. Len(ls[r][l]) : ls[r][l][i] = ls[r][l][j] => i = j
    /\ \A m \in Q : RouteOf[m] = r /\ LevelOf[m] = l => \E i \in 1 .. Len(ls[r][l]) : ls[r][l][i] = m

\* enqueue of a message that is not queued.
LEMMA EnqueueHolds ==
  ASSUME QueueTypeOK, NEW Q, Q \subseteq Msgs, Holds(lanes, Q), NEW m \in Msgs \ Q, Enqueue(m)
  PROVE  /\ lanes' \in [Routes -> [Levels -> Seq(Msgs)]] /\ routes' \in Seq(Routes)
         /\ Holds(lanes', Q \cup {m})
<1>1. /\ lanes \in [Routes -> [Levels -> Seq(Msgs)]] /\ routes \in Seq(Routes)
      /\ RouteOf[m] \in Routes /\ LevelOf[m] \in Levels
  BY QueueAssumption DEF QueueTypeOK
<1>2. \A r \in Routes, l \in Levels :
        lanes'[r][l] = IF r = RouteOf[m] /\ l = LevelOf[m] THEN Append(lanes[r][l], m) ELSE lanes[r][l]
  BY <1>1 DEF Enqueue
<1>3. lanes' \in [Routes -> [Levels -> Seq(Msgs)]]
  <2>1. Append(lanes[RouteOf[m]][LevelOf[m]], m) \in Seq(Msgs)
    BY <1>1, AppendProperties
  <2>2. QED
    BY <1>1, <2>1 DEF Enqueue
<1>4. routes' \in Seq(Routes)
  <2>1. Append(routes, RouteOf[m]) \in Seq(Routes)
    BY <1>1, AppendProperties
  <2>2. QED
    BY <1>1, <2>1 DEF Enqueue
<1>5. ASSUME NEW r \in Routes, NEW l \in Levels
      PROVE  /\ \A i \in 1 .. Len(lanes'[r][l]) : /\ lanes'[r][l][i] \in Q \cup {m}
                                                  /\ RouteOf[lanes'[r][l][i]] = r
                                                  /\ LevelOf[lanes'[r][l][i]] = l
             /\ \A i, j \in 1 .. Len(lanes'[r][l]) : lanes'[r][l][i] = lanes'[r][l][j] => i = j
             /\ \A n \in Q \cup {m} : RouteOf[n] = r /\ LevelOf[n] = l =>
                  \E i \in 1 .. Len(lanes'[r][l]) : lanes'[r][l][i] = n
  <2> DEFINE s == lanes[r][l]
  <2>1. s \in Seq(Msgs) /\ Len(s) \in Nat
    BY <1>1, LenProperties
  <2>2. /\ \A i \in 1 .. Len(s) : s[i] \in Q /\ RouteOf[s[i]] = r /\ LevelOf[s[i]] = l
        /\ \A i, j \in 1 .. Len(s) : s[i] = s[j] => i = j
        /\ \A n \in Q : RouteOf[n] = r /\ LevelOf[n] = l => \E i \in 1 .. Len(s) : s[i] = n
    BY DEF Holds
  <2>3. CASE ~(r = RouteOf[m] /\ l = LevelOf[m])
    BY <1>2, <2>2, <2>3
  <2>4. CASE r = RouteOf[m] /\ l = LevelOf[m]
    <3> DEFINE u == Append(s, m)
    <3>1. /\ Len(u) = Len(s) + 1 /\ u[Len(s) + 1] = m
          /\ \A i \in 1 .. Len(s) : u[i] = s[i]
      BY <2>1, AppendProperties
    <3>2. lanes'[r][l] = u
      BY <1>2, <2>4
    <3> HIDE DEF u, s
    <3>3. QED
      BY <2>1, <2>2, <2>4, <3>1, <3>2
  <2>5. QED
    BY <2>3, <2>4
<1>6. Holds(lanes', Q \cup {m})
  BY <1>5 DEF Holds
<1>7. QED
  BY <1>3, <1>4, <1>6

\* Where dequeue looks: at the front of a lane that is due.
LEMMA NextRouteIsDue ==
  ASSUME QueueTypeOK, DueLevels # {}
  PROVE  /\ NextRoute(EligibleRoutes, lastRoute) \in 1 .. Len(routes)
         /\ GlobalLevel \in Levels
         /\ HeadDue(routes[NextRoute(EligibleRoutes, lastRoute)], GlobalLevel)
<1>1. GlobalLevel \in DueLevels
  <2>1. DueLevels \subseteq Nat
    <3>1. DueLevels \subseteq Levels
      BY DEF DueLevels
    <3>2. QED
      BY <3>1, QueueAssumption
  <2>2. \E l \in DueLevels : \A k \in DueLevels : l <= k
    BY <2>1, LeastOf
  <2>3. QED
    BY <2>2 DEF GlobalLevel
<1>2. routes \in Seq(Routes) /\ DOMAIN routes = 1 .. Len(routes) /\ Len(routes) \in Nat
  BY LenProperties DEF QueueTypeOK
<1>3. EligibleRoutes # {} /\ EligibleRoutes \subseteq 1 .. Len(routes)
  <2>1. PICK r \in Range(routes) : HeadDue(r, GlobalLevel)
    BY <1>1 DEF DueLevels
  <2>2. PICK i \in DOMAIN routes : routes[i] = r
    BY DEF Range
  <2>3. QED
    BY <1>2, <2>1, <2>2 DEF EligibleRoutes
<1>4. NextRoute(EligibleRoutes, lastRoute) \in EligibleRoutes
  <2> DEFINE after == {i \in EligibleRoutes : \E j \in EligibleRoutes : routes[j] = lastRoute /\ j < i}
             S == IF after # {} THEN after ELSE EligibleRoutes
  <2>1. S # {} /\ S \subseteq EligibleRoutes /\ S \subseteq Nat
    <3>1. after \subseteq EligibleRoutes /\ EligibleRoutes \subseteq Nat
      BY <1>2, <1>3
    <3> HIDE DEF after
    <3>2. QED
      BY <1>3, <3>1
  <2>2. Min(S) \in S
    <3> HIDE DEF S
    <3>1. QED
      BY <2>1, LeastOf
  <2>3. NextRoute(EligibleRoutes, lastRoute) = Min(S)
    BY DEF NextRoute
  <2>4. QED
    BY <2>1, <2>2, <2>3
<1>5. QED
  BY <1>1, <1>3, <1>4 DEF EligibleRoutes, DueLevels

\* dequeue gives a queued message and takes exactly that one.
LEMMA DequeueHolds ==
  ASSUME QueueTypeOK, NEW Q, Q \subseteq Msgs, Holds(lanes, Q), NEW m \in Msgs, Dequeue(m)
  PROVE  /\ QueueTypeOK'
         /\ m \in Q /\ m \notin waiting /\ waiting' = waiting
         /\ Holds(lanes', Q \ {m})
<1> DEFINE p == NextRoute(EligibleRoutes, lastRoute)
           r == routes[p]
           l == GlobalLevel
           s == lanes[r][l]
<1>1. DueLevels # {} /\ m = Head(s) /\ PopFrom(p, l) /\ waiting' = waiting
  BY DEF Dequeue
<1>2. p \in 1 .. Len(routes) /\ l \in Levels /\ s # <<>> /\ m \notin waiting
  BY <1>1, NextRouteIsDue DEF HeadDue
<1> HIDE DEF p, l
<1>3. r \in Routes /\ routes \in Seq(Routes) /\ lanes \in [Routes -> [Levels -> Seq(Msgs)]]
      /\ Len(routes) \in Nat
  BY <1>2, ElementOfSeq, LenProperties DEF QueueTypeOK
<1> HIDE DEF r
<1>4. s \in Seq(Msgs) /\ Len(s) \in Nat \ {0} /\ m = s[1]
  BY <1>1, <1>2, <1>3, EmptySeq
<1>5. /\ Tail(s) \in Seq(Msgs) /\ Len(Tail(s)) = Len(s) - 1
      /\ \A i \in 1 .. Len(Tail(s)) : Tail(s)[i] = s[i + 1]
  BY <1>2, <1>4, HeadTailProperties
<1>6. lanes' = [lanes EXCEPT ![r] = [lanes[r] EXCEPT ![l] = Tail(s)]]
  BY <1>1 DEF PopFrom, r
<1>7. \A q \in Routes, k \in Levels :
        lanes'[q][k] = IF q = r /\ k = l THEN Tail(s) ELSE lanes[q][k]
  BY <1>2, <1>3, <1>6
<1>8. QueueTypeOK'
  <2>1. lanes' \in [Routes -> [Levels -> Seq(Msgs)]]
    BY <1>2, <1>3, <1>5, <1>6
  <2>2. routes' \in Seq(Routes) /\ lastRoute' \in Routes \cup {NoRoute}
    <3>1. RemoveAt(routes, p) \in Seq(Routes)
      <4>1. \A i \in 1 .. Len(routes) : routes[i] \in Routes
        BY <1>3, ElementOfSeq
      <4>2. SubSeq(routes, 1, p - 1) \in Seq(Routes)
        BY <1>2, <1>3, <4>1, SubSeqProperties
      <4>3. SubSeq(routes, p + 1, Len(routes)) \in Seq(Routes)
        BY <1>2, <1>3, <4>1, SubSeqProperties
      <4>4. QED
        BY <4>2, <4>3, ConcatProperties DEF RemoveAt
    <3>2. (routes' = RemoveAt(routes, p) /\ lastRoute' = NoRoute) \/ (routes' = routes /\ lastRoute' = r)
      BY <1>1 DEF PopFrom, r
    <3>3. QED
      BY <1>3, <3>1, <3>2
  <2>3. QED
    BY <1>1, <2>1, <2>2 DEF QueueTypeOK
<1>9. /\ \A i \in 1 .. Len(s) : s[i] \in Q /\ RouteOf[s[i]] = r /\ LevelOf[s[i]] = l
      /\ \A i, j \in 1 .. Len(s) : s[i] = s[j] => i = j
      /\ \A n \in Q : RouteOf[n] = r /\ LevelOf[n] = l => \E i \in 1 .. Len(s) : s[i] = n
  BY <1>2, <1>3 DEF Holds
<1>10. m \in Q /\ RouteOf[m] = r /\ LevelOf[m] = l
  BY <1>4, <1>9
<1>11. ASSUME NEW q \in Routes, NEW k \in Levels
       PROVE  /\ \A i \in 1 .. Len(lanes'[q][k]) : /\ lanes'[q][k][i] \in Q \ {m}
                                                   /\ RouteOf[lanes'[q][k][i]] = q
                                                   /\ LevelOf[lanes'[q][k][i]] = k
              /\ \A i, j \in 1 .. Len(lanes'[q][k]) : lanes'[q][k][i] = lanes'[q][k][j] => i = j
              /\ \A n \in Q \ {m} : RouteOf[n] = q /\ LevelOf[n] = k =>
                   \E i \in 1 .. Len(lanes'[q][k]) : lanes'[q][k][i] = n
  <2>1. CASE ~(q = r /\ k = l)
    <3>1. lanes'[q][k] = lanes[q][k]
      BY <1>7, <2>1
    <3>2. /\ \A i \in 1 .. Len(lanes[q][k]) : /\ lanes[q][k][i] \in Q
                                              /\ RouteOf[lanes[q][k][i]] = q
                                              /\ LevelOf[lanes[q][k][i]] = k
          /\ \A i, j \in 1 .. Len(lanes[q][k]) : lanes[q][k][i] = lanes[q][k][j] => i = j
          /\ \A n \in Q : RouteOf[n] = q /\ LevelOf[n] = k =>
               \E i \in 1 .. Len(lanes[q][k]) : lanes[q][k][i] = n
      BY DEF Holds
    <3>3. QED
      BY <1>10, <2>1, <3>1, <3>2
  <2>2. CASE q = r /\ k = l
    <3> DEFINE u == Tail(s)
    <3>1. lanes'[q][k] = u
      BY <1>7, <2>2
    <3>2. /\ Len(u) = Len(s) - 1 /\ Len(s) \in Nat \ {0}
          /\ \A i \in 1 .. Len(u) : u[i] = s[i + 1] /\ i + 1 \in 1 .. Len(s) /\ i + 1 # 1
      BY <1>4, <1>5
    <3> HIDE DEF u, s
    <3>3. \A i \in 1 .. Len(u) : u[i] \in Q \ {m} /\ RouteOf[u[i]] = r /\ LevelOf[u[i]] = l
      BY <1>4, <1>9, <3>2
    <3>4. ASSUME NEW i \in 1 .. Len(u), NEW j \in 1 .. Len(u), u[i] = u[j] PROVE i = j
      <4>1. s[i + 1] = s[j + 1] /\ i + 1 \in 1 .. Len(s) /\ j + 1 \in 1 .. Len(s)
        BY <3>2, <3>4
      <4>2. i + 1 = j + 1
        BY <1>9, <4>1
      <4> QED
        BY <4>2
    <3>5. ASSUME NEW n \in Q \ {m}, RouteOf[n] = r, LevelOf[n] = l
          PROVE  \E i \in 1 .. Len(u) : u[i] = n
      <4>1. PICK i \in 1 .. Len(s) : s[i] = n
        BY <1>9, <3>5
      <4>2. i # 1
        BY <1>4, <3>5, <4>1
      <4>3. i - 1 \in 1 .. Len(u) /\ u[i - 1] = s[(i - 1) + 1] /\ (i - 1) + 1 = i
        BY <3>2, <4>1, <4>2
      <4>4. QED
        BY <4>1, <4>3
    <3>6. QED
      BY <2>2, <3>1, <3>3, <3>4, <3>5
  <2>3. QED
    BY <2>1, <2>2
<1>12. Holds(lanes', Q \ {m})
  BY <1>11 DEF Holds
<1>13. QED
  BY <1>1, <1>2, <1>8, <1>10, <1>12

-----------------------------------------------------------------------------
(* A message is in one place.                                               *)

InQueue == {m \in Msgs : fate[m] = "queued"}
Carrying == {"run", "select", "send", "record", "retry"}

\* A message that was taken is in the hand of one thread between its dequeue
\* and the end of drain_one.
HandsHold ==
  /\ \A t \in Threads : hand[t] # NoMsg <=> pc[t] \in Carrying
  /\ \A t \in Threads : hand[t] # NoMsg => fate[hand[t]] = "taken"
  /\ \A t, u \in Threads : hand[t] = hand[u] /\ hand[t] # NoMsg => t = u
  /\ \A m \in Msgs : fate[m] = "taken" => \E t \in Threads : hand[t] = m

\* Every send but the one in hand has been paid for with a retry.
SendsBounded ==
  /\ \A m \in Msgs : /\ sends[m] <= retries[m] + 1
                     /\ fate[m] \in {"new", "queued"} => sends[m] <= retries[m]
  /\ \A t \in Threads : pc[t] \in {"run", "select", "send"} => sends[hand[t]] <= retries[hand[t]]

\* The inductive invariant behind OnePlace.
Inv == /\ TypeOK /\ Holds(lanes, InQueue) /\ waiting \subseteq InQueue
       /\ HandsHold /\ SendsBounded

LEMMA InitInv == Init => Inv
<1> SUFFICES ASSUME Init PROVE Inv
  OBVIOUS
<1> USE DispatcherAssumption, QueueAssumption DEF Init, QueueInit
<1>1. TypeOK
  <2>1. QueueTypeOK
    BY EmptySeq DEF QueueTypeOK
  <2>2. QED
    BY <2>1 DEF TypeOK, States, Places
<1>2. InQueue = {} /\ waiting \subseteq InQueue
  BY DEF InQueue
<1>3. Holds(lanes, {})
  BY EmptySeq DEF Holds
<1>4. HandsHold
  BY DEF HandsHold, Carrying
<1>5. SendsBounded
  BY DEF SendsBounded
<1>6. QED
  BY <1>1, <1>2, <1>3, <1>4, <1>5 DEF Inv

\* A message comes into the queue: a new one, by any thread or over the bus.
LEMMA ArrivalInv ==
  ASSUME Inv, NEW m \in Msgs, Produce(m) \/ ReceiveOutbound(m)
  PROVE  Inv'
<1> USE DispatcherAssumption DEF Become, Goto, Step, threadVars, controlVars
<1>1. /\ fate[m] = "new" /\ Enqueue(m) /\ fate' = [fate EXCEPT ![m] = "queued"]
      /\ waiting' = waiting /\ hand' = hand /\ retries' = retries /\ sends' = sends
      /\ UNCHANGED <<state, diagnostic, result, command, commands>>
  BY DEF Produce, ReceiveOutbound
<1>2. /\ QueueTypeOK /\ Holds(lanes, InQueue) /\ waiting \subseteq InQueue
      /\ HandsHold /\ SendsBounded
      /\ pc \in [Threads -> Places] /\ fate \in [Msgs -> {"new", "queued", "taken", "sent", "failed"}]
  BY DEF Inv, TypeOK
<1>3. pc' \in [Threads -> Places] /\ \A t \in Threads : pc'[t] = pc[t] \/ (pc'[t] = "entry" /\ pc[t] = "idle")
  BY <1>2 DEF Produce, ReceiveOutbound, Places
<1>4. m \in Msgs \ InQueue /\ InQueue \subseteq Msgs /\ InQueue' = InQueue \cup {m}
  BY <1>1, <1>2 DEF InQueue
<1>5. /\ lanes' \in [Routes -> [Levels -> Seq(Msgs)]] /\ routes' \in Seq(Routes)
      /\ Holds(lanes', InQueue \cup {m})
  BY <1>1, <1>2, <1>4, EnqueueHolds
<1>6. TypeOK'
  <2>1. lastRoute' = lastRoute
    BY <1>1 DEF Enqueue
  <2>2. QED
    BY <1>1, <1>2, <1>3, <1>5, <2>1 DEF Inv, TypeOK, QueueTypeOK
<1>7. HandsHold'
  BY <1>1, <1>2, <1>3 DEF HandsHold, Carrying
<1>8. SendsBounded'
  BY <1>1, <1>2, <1>3 DEF SendsBounded
<1>9. QED
  BY <1>1, <1>2, <1>4, <1>5, <1>6, <1>7, <1>8 DEF Inv

\* drain_one takes a message, or finds nothing due.
LEMMA TakeInv ==
  ASSUME Inv, NEW t \in Threads, Take(t)
  PROVE  Inv'
<1> USE DispatcherAssumption DEF Become, Goto, Return, controlVars
<1>1. /\ QueueTypeOK /\ Holds(lanes, InQueue) /\ waiting \subseteq InQueue
      /\ HandsHold /\ SendsBounded
      /\ pc \in [Threads -> Places] /\ fate \in [Msgs -> {"new", "queued", "taken", "sent", "failed"}]
      /\ hand \in [Threads -> Msgs \cup {NoMsg}]
  BY DEF Inv, TypeOK
<1>2. /\ pc[t] = "take" /\ retries' = retries /\ sends' = sends
      /\ UNCHANGED <<state, diagnostic, result, command, commands>>
  BY DEF Take
<1>3. CASE NothingDue /\ Return(t, FALSE) /\ UNCHANGED <<queueVars, hand, fate>>
  <2>1. pc' \in [Threads -> Places] /\ pc'[t] \in {"idle", "top", "finish"}
        /\ \A u \in Threads \ {t} : pc'[u] = pc[u]
    BY <1>1, <1>2, <1>3 DEF Places
  <2>2. TypeOK'
    BY <1>1, <1>2, <1>3, <2>1 DEF Inv, TypeOK, QueueTypeOK, queueVars
  <2>3. HandsHold' /\ SendsBounded'
    BY <1>1, <1>2, <1>3, <2>1 DEF HandsHold, SendsBounded, Carrying
  <2>4. QED
    BY <1>1, <1>3, <2>2, <2>3 DEF Inv, InQueue, queueVars
<1>4. ASSUME NEW m \in Msgs, Dequeue(m), hand' = [hand EXCEPT ![t] = m],
             fate' = [fate EXCEPT ![m] = "taken"], pc' = [pc EXCEPT ![t] = "run"]
      PROVE  Inv'
  <2>1. InQueue \subseteq Msgs
    BY DEF InQueue
  <2>2. /\ QueueTypeOK' /\ m \in InQueue /\ m \notin waiting /\ waiting' = waiting
        /\ Holds(lanes', InQueue \ {m})
    BY <1>1, <1>4, <2>1, DequeueHolds
  <2>3. InQueue' = InQueue \ {m} /\ fate[m] = "queued"
    BY <1>1, <1>4, <2>2 DEF InQueue
  <2>4. TypeOK'
    BY <1>1, <1>2, <1>4, <2>2 DEF Inv, TypeOK, Places
  <2>5. HandsHold'
    BY <1>1, <1>2, <1>4, <2>3 DEF HandsHold, Carrying
  <2>6. SendsBounded'
    BY <1>1, <1>2, <1>4, <2>3 DEF SendsBounded
  <2>7. QED
    BY <1>1, <2>2, <2>3, <2>4, <2>5, <2>6 DEF Inv
<1>5. QED
  BY <1>3, <1>4 DEF Take

\* A failed dispatch goes back into the queue or is given up.
LEMMA RetryInv ==
  ASSUME Inv, NEW t \in Threads, Retry(t)
  PROVE  Inv'
<1> USE DispatcherAssumption DEF Become, Goto, Return, controlVars
<1>1. /\ QueueTypeOK /\ Holds(lanes, InQueue) /\ waiting \subseteq InQueue
      /\ HandsHold /\ SendsBounded
      /\ pc \in [Threads -> Places] /\ fate \in [Msgs -> {"new", "queued", "taken", "sent", "failed"}]
      /\ hand \in [Threads -> Msgs \cup {NoMsg}]
      /\ retries \in [Msgs -> Nat] /\ sends \in [Msgs -> Nat] /\ \A m \in Msgs : retries[m] <= MaxRetries[m]
  BY DEF Inv, TypeOK
<1>2. /\ pc[t] = "retry" /\ sends' = sends /\ hand' = [hand EXCEPT ![t] = NoMsg] /\ Return(t, TRUE)
      /\ UNCHANGED <<state, diagnostic, result, command, commands>>
  BY DEF Retry
<1>3. /\ pc' \in [Threads -> Places] /\ pc'[t] \in {"idle", "top", "entry"}
      /\ \A u \in Threads \ {t} : pc'[u] = pc[u]
  BY <1>1, <1>2 DEF Places
<1>4. PICK m \in Msgs : m = hand[t] /\ fate[m] = "taken"
  BY <1>1, <1>2 DEF HandsHold, Carrying
<1>5. CASE /\ retries[m] < MaxRetries[m]
           /\ retries' = [retries EXCEPT ![m] = @ + 1]
           /\ waiting' = IF BacksOff[m] THEN waiting \cup {m} ELSE waiting
           /\ Enqueue(m) /\ fate' = [fate EXCEPT ![m] = "queued"]
  <2>1. m \in Msgs \ InQueue /\ InQueue \subseteq Msgs /\ InQueue' = InQueue \cup {m}
    BY <1>1, <1>4, <1>5 DEF InQueue
  <2>2. /\ lanes' \in [Routes -> [Levels -> Seq(Msgs)]] /\ routes' \in Seq(Routes)
        /\ Holds(lanes', InQueue \cup {m})
    BY <1>1, <1>5, <2>1, EnqueueHolds
  <2>3. lastRoute' = lastRoute /\ waiting' \subseteq InQueue'
    BY <1>1, <1>5, <2>1 DEF Enqueue
  <2>4. retries' \in [Msgs -> Nat] /\ \A n \in Msgs : retries'[n] <= MaxRetries[n]
    BY <1>1, <1>5
  <2>5. TypeOK'
    <3>1. QueueTypeOK'
      BY <1>1, <2>1, <2>2, <2>3 DEF QueueTypeOK
    <3>2. QED
      BY <1>1, <1>2, <1>3, <1>5, <2>4, <3>1 DEF Inv, TypeOK
  <2>6. HandsHold'
    BY <1>1, <1>2, <1>3, <1>4, <1>5 DEF HandsHold, Carrying
  <2>7. SendsBounded'
    BY <1>1, <1>2, <1>3, <1>4, <1>5 DEF SendsBounded, HandsHold, Carrying
  <2>8. QED
    BY <2>1, <2>2, <2>3, <2>5, <2>6, <2>7 DEF Inv
<1>6. CASE fate' = [fate EXCEPT ![m] = "failed"] /\ UNCHANGED <<queueVars, retries>>
  <2>1. InQueue' = InQueue
    BY <1>1, <1>4, <1>6 DEF InQueue
  <2>2. TypeOK'
    BY <1>1, <1>2, <1>3, <1>6 DEF Inv, TypeOK, QueueTypeOK, queueVars
  <2>3. HandsHold'
    BY <1>1, <1>2, <1>3, <1>4, <1>6 DEF HandsHold, Carrying
  <2>4. SendsBounded'
    BY <1>1, <1>2, <1>3, <1>4, <1>6 DEF SendsBounded
  <2>5. QED
    BY <1>1, <1>6, <2>1, <2>2, <2>3, <2>4 DEF Inv, queueVars
<1>7. QED
  BY <1>4, <1>5, <1>6 DEF Retry

\* Between the dequeue and the retry: the message stays in the thread's hand,
\* and a channel is given it once.
LEMMA DispatchInv ==
  ASSUME Inv, NEW t \in Threads,
         CheckState(t) \/ SetRunning(t) \/ SelectTarget(t) \/ SendMessage(t) \/ Record(t)
  PROVE  Inv'
<1> USE DispatcherAssumption DEF Become, Goto, Step, Return, controlVars, messageVars, queueVars
<1>1. /\ QueueTypeOK /\ Holds(lanes, InQueue) /\ waiting \subseteq InQueue
      /\ HandsHold /\ SendsBounded
      /\ pc \in [Threads -> Places] /\ fate \in [Msgs -> {"new", "queued", "taken", "sent", "failed"}]
      /\ hand \in [Threads -> Msgs \cup {NoMsg}]
      /\ result \in [Threads -> FailureStages \cup {"None"}]
      /\ retries \in [Msgs -> Nat] /\ sends \in [Msgs -> Nat]
  BY DEF Inv, TypeOK
<1>2. /\ lanes' = lanes /\ routes' = routes /\ lastRoute' = lastRoute /\ waiting' = waiting
      /\ retries' = retries /\ UNCHANGED <<command, commands>>
  BY DEF CheckState, SetRunning, SelectTarget, SendMessage, Record
<1>3. QueueTypeOK'
  BY <1>1, <1>2 DEF QueueTypeOK
<1>4. CASE CheckState(t) \/ SetRunning(t) \/ SelectTarget(t)
  <2>1. hand' = hand /\ fate' = fate /\ sends' = sends /\ result' = result
    BY <1>4 DEF CheckState, SetRunning, SelectTarget
  <2>2. pc' \in [Threads -> Places] /\ \A u \in Threads \ {t} : pc'[u] = pc[u]
    BY <1>1, <1>4 DEF CheckState, SetRunning, SelectTarget, Places
  <2>3. \/ pc[t] = "entry" /\ pc'[t] \in {"idle", "top", "finish", "take"}
        \/ pc[t] \in {"run", "select"} /\ pc'[t] \in {"select", "send"}
    BY <1>1, <1>4 DEF CheckState, SetRunning, SelectTarget
  <2>4. state' \in States /\ diagnostic' \in FailureStages \cup {"None"}
    BY <1>4 DEF Inv, TypeOK, CheckState, SetRunning, SelectTarget, States, FailureStages
  <2>5. TypeOK'
    BY <1>1, <1>2, <1>3, <2>1, <2>2, <2>4 DEF Inv, TypeOK
  <2>6. HandsHold' /\ SendsBounded'
    BY <1>1, <1>2, <2>1, <2>2, <2>3 DEF HandsHold, SendsBounded, Carrying
  <2>7. QED
    BY <1>1, <1>2, <2>1, <2>5, <2>6 DEF Inv, InQueue
<1>5. CASE SendMessage(t)
  <2>1. /\ hand' = hand /\ fate' = fate /\ state' = state /\ diagnostic' = diagnostic
        /\ pc[t] = "send" /\ pc' = [pc EXCEPT ![t] = "record"]
        /\ result' \in [Threads -> FailureStages \cup {"None"}]
    BY <1>1, <1>5 DEF SendMessage, FailureStages
  <2>2. PICK m \in Msgs : m = hand[t] /\ fate[m] = "taken"
    BY <1>1, <2>1 DEF HandsHold, Carrying
  <2>3. sends' = sends \/ sends' = [sends EXCEPT ![m] = @ + 1]
    BY <1>5, <2>2 DEF SendMessage
  <2>4. TypeOK'
    BY <1>1, <1>2, <1>3, <2>1, <2>2, <2>3 DEF Inv, TypeOK, Places
  <2>5. HandsHold'
    BY <1>1, <2>1 DEF HandsHold, Carrying
  <2>6. SendsBounded'
    BY <1>1, <1>2, <2>1, <2>2, <2>3 DEF SendsBounded, HandsHold, Carrying
  <2>7. QED
    BY <1>1, <1>2, <2>1, <2>4, <2>5, <2>6 DEF Inv, InQueue
<1>6. CASE Record(t)
  <2>1. /\ sends' = sends /\ result' = result /\ state' = state /\ pc[t] = "record"
        /\ diagnostic' \in FailureStages \cup {"None"}
    BY <1>1, <1>6 DEF Record
  <2>2. PICK m \in Msgs : m = hand[t] /\ fate[m] = "taken"
    BY <1>1, <2>1 DEF HandsHold, Carrying
  <2>3. CASE Return(t, TRUE) /\ fate' = [fate EXCEPT ![m] = "sent"] /\ hand' = [hand EXCEPT ![t] = NoMsg]
    <3>1. pc' \in [Threads -> Places] /\ pc'[t] \in {"idle", "top", "entry"}
          /\ \A u \in Threads \ {t} : pc'[u] = pc[u]
      BY <1>1, <2>3 DEF Places
    <3>2. InQueue' = InQueue
      BY <1>1, <2>2, <2>3 DEF InQueue
    <3>3. TypeOK'
      BY <1>1, <1>2, <1>3, <2>1, <2>3, <3>1 DEF Inv, TypeOK
    <3>4. HandsHold'
      BY <1>1, <2>2, <2>3, <3>1 DEF HandsHold, Carrying
    <3>5. SendsBounded'
      BY <1>1, <1>2, <2>1, <2>2, <2>3, <3>1 DEF SendsBounded
    <3>6. QED
      BY <1>1, <1>2, <3>2, <3>3, <3>4, <3>5 DEF Inv
  <2>4. CASE pc' = [pc EXCEPT ![t] = "retry"] /\ fate' = fate /\ hand' = hand
    <3>1. TypeOK'
      BY <1>1, <1>2, <1>3, <2>1, <2>4 DEF Inv, TypeOK, Places
    <3>2. HandsHold' /\ SendsBounded'
      BY <1>1, <1>2, <2>1, <2>4 DEF HandsHold, SendsBounded, Carrying
    <3>3. QED
      BY <1>1, <1>2, <2>4, <3>1, <3>2 DEF Inv, InQueue
  <2>5. QED
    BY <1>6, <2>2, <2>3, <2>4 DEF Record
<1>7. QED
  BY <1>4, <1>5, <1>6

\* Launches, the scheduler's loop, control commands, the end of a drain and
\* the end of a back-off touch no message.
LEMMA ControlInv ==
  ASSUME Inv,
         \/ \E t \in Threads : Launch(t)
         \/ SchedulerTop \/ SchedulerLook \/ SchedulerAgain \/ DrainEnds
         \/ \E c \in Commands : Control(c)
         \/ \E m \in Msgs : BackoffEnds(m)
         \/ UNCHANGED vars
  PROVE  Inv'
<1> USE DispatcherAssumption DEF Goto, Step, threadVars, controlVars, messageVars, queueVars
<1>1. /\ QueueTypeOK /\ Holds(lanes, InQueue) /\ waiting \subseteq InQueue
      /\ HandsHold /\ SendsBounded /\ pc \in [Threads -> Places]
  BY DEF Inv, TypeOK
<1>2. /\ lanes' = lanes /\ routes' = routes /\ lastRoute' = lastRoute /\ waiting' \subseteq waiting
      /\ retries' = retries /\ fate' = fate /\ sends' = sends /\ hand' = hand /\ result' = result
      /\ diagnostic' = diagnostic
  BY DEF Launch, SchedulerTop, SchedulerLook, SchedulerAgain, DrainEnds, Control, BackoffEnds,
         Elapse, vars
<1>3. /\ state' \in States /\ command' \in Commands \cup {"None"} /\ commands' \in 0 .. MaxCommands
  <2>1. CASE \E c \in Commands : Control(c)
    BY <2>1 DEF Inv, TypeOK, Control, States, Commands
  <2>2. CASE ~ \E c \in Commands : Control(c)
    BY <2>2 DEF Inv, TypeOK, Launch, SchedulerTop, SchedulerLook, SchedulerAgain, DrainEnds,
       BackoffEnds, vars, States
  <2>3. QED
    BY <2>1, <2>2
<1>4. /\ pc' \in [Threads -> Places]
      /\ \A u \in Threads : pc'[u] = pc[u] \/ (pc[u] \notin Carrying /\ pc'[u] \notin Carrying)
  BY <1>1 DEF Launch, SchedulerTop, SchedulerLook, SchedulerAgain, DrainEnds, Control, BackoffEnds,
     vars, Places, Carrying
<1>5. TypeOK'
  BY <1>1, <1>2, <1>3, <1>4 DEF Inv, TypeOK, QueueTypeOK
<1>6. HandsHold' /\ SendsBounded'
  BY <1>1, <1>2, <1>4 DEF HandsHold, SendsBounded, Carrying
<1>7. QED
  BY <1>1, <1>2, <1>5, <1>6 DEF Inv, InQueue

LEMMA StepInv == Inv /\ [Next]_vars => Inv'
BY ArrivalInv, TakeInv, RetryInv, DispatchInv, ControlInv DEF Next, ThreadStep, DrainOne

LEMMA InvHolds == Spec => []Inv
BY InitInv, StepInv, PTL DEF Spec

\* Every field of the dispatcher and its queue stays in its range, the retry
\* counts in max_retries.
THEOREM TypeCorrectness == Spec => []TypeOK
BY InvHolds, PTL DEF Inv

\* A message is queued once, or in the hand of one thread, or done: drain_one
\* called by the loops and by a drain at once loses none and doubles none, and
\* no channel is given one more than max_retries + 1 times.
THEOREM EveryMessageHasOnePlace == Spec => []OnePlace
<1>1. Inv => OnePlace
  <2> SUFFICES ASSUME Inv, NEW m \in Msgs
               PROVE  /\ Copies(m) = IF fate[m] = "queued" THEN 1 ELSE 0
                      /\ Cardinality({t \in Threads : hand[t] = m}) = IF fate[m] = "taken" THEN 1 ELSE 0
                      /\ m \in waiting => fate[m] = "queued"
                      /\ sends[m] <= MaxRetries[m] + 1
    BY DEF OnePlace
  <2> DEFINE s == lanes[RouteOf[m]][LevelOf[m]]
             places == {i \in DOMAIN s : s[i] = m}
             hands == {t \in Threads : hand[t] = m}
  <2>1. \A x : Cardinality({x}) = 1
    BY FS_Singleton
  <2>2. Cardinality({}) = 0
    BY FS_EmptySet
  <2>3. RouteOf[m] \in Routes /\ LevelOf[m] \in Levels /\ m # NoMsg
    BY QueueAssumption, DispatcherAssumption
  <2>4. DOMAIN s = 1 .. Len(s)
    BY <2>3, LenProperties DEF Inv, TypeOK, QueueTypeOK
  <2>5. /\ \A i \in 1 .. Len(s) : s[i] \in InQueue
        /\ \A i, j \in 1 .. Len(s) : s[i] = s[j] => i = j
        /\ m \in InQueue => \E i \in 1 .. Len(s) : s[i] = m
    BY <2>3 DEF Inv, Holds
  <2>6. Copies(m) = IF fate[m] = "queued" THEN 1 ELSE 0
    <3>1. CASE fate[m] = "queued"
      <4>1. PICK i \in 1 .. Len(s) : s[i] = m
        BY <2>5, <3>1 DEF InQueue
      <4>2. places = {i}
        BY <2>4, <2>5, <4>1
      <4>3. QED
        BY <2>1, <3>1, <4>2 DEF Copies
    <3>2. CASE fate[m] # "queued"
      <4>1. places = {}
        BY <2>4, <2>5, <3>2 DEF InQueue
      <4>2. QED
        BY <2>2, <3>2, <4>1 DEF Copies
    <3>3. QED
      BY <3>1, <3>2
  <2>7. Cardinality(hands) = IF fate[m] = "taken" THEN 1 ELSE 0
    <3>1. CASE fate[m] = "taken"
      <4>1. PICK t \in Threads : hand[t] = m
        BY <3>1 DEF Inv, HandsHold
      <4>2. hands = {t}
        BY <2>3, <4>1 DEF Inv, HandsHold
      <4>3. QED
        BY <2>1, <3>1, <4>2
    <3>2. CASE fate[m] # "taken"
      <4>1. hands = {}
        BY <2>3, <3>2 DEF Inv, HandsHold
      <4>2. QED
        BY <2>2, <3>2, <4>1
    <3>3. QED
      BY <3>1, <3>2
  <2>8. m \in waiting => fate[m] = "queued"
    BY DEF Inv, InQueue
  <2>9. sends[m] <= MaxRetries[m] + 1
    BY DispatcherAssumption DEF Inv, TypeOK, SendsBounded
  <2>10. QED
    BY <2>6, <2>7, <2>8, <2>9
<1>2. QED
  BY <1>1, InvHolds, PTL

-----------------------------------------------------------------------------
(* The rotation of the queue, for every set of messages, routes and         *)
(* priorities.                                                              *)

\* Twice how often a route at place p may still be passed, of n routes, when the
\* one served last is at place c, or at none when c is 0.
PassesLeft(n, p, c) == IF c < p THEN 2 * (p - 1 - c) + (p - 1) * (p - 2) ELSE 2 * (n - c) + p * (p - 1)

LEMMA PassesBound ==
  ASSUME NEW n \in Nat, NEW p \in 1 .. n, NEW c \in 0 .. n
  PROVE  PassesLeft(n, p, c) \in Nat /\ PassesLeft(n, p, c) <= n * (n - 1)
<1> DEFINE q == p - 1
           d == n - p
<1>1. q \in Nat /\ d \in Nat /\ p = q + 1 /\ n = q + 1 + d
  OBVIOUS
<1>2. /\ (p - 1) * (p - 2) = q * q - q /\ p * (p - 1) = q * q + q
      /\ n * (n - 1) = q * q + q + 2 * (q * d) + d * d + d
      /\ q * q \in Nat /\ q * d \in Nat /\ d * d \in Nat /\ q * q >= q /\ d * d >= d
  <2> HIDE DEF q, d
  <2>1. (p - 1) * (p - 2) = q * q - q /\ p * (p - 1) = q * q + q
    BY <1>1
  <2>2. n * (n - 1) = q * q + q + 2 * (q * d) + d * d + d
    BY <1>1
  <2>3. q * q \in Nat /\ q * d \in Nat /\ d * d \in Nat /\ q * q >= q /\ d * d >= d
    BY <1>1
  <2> QED
    BY <2>1, <2>2, <2>3
<1> HIDE DEF q, d
<1> DEFINE qq == q * q
           qd == q * d
           dd == d * d
<1>3. CASE c < p
  <2>1. PassesLeft(n, p, c) = 2 * (p - 1 - c) + (qq - q)
    BY <1>2, <1>3 DEF PassesLeft
  <2> HIDE DEF qq, qd, dd
  <2> QED
    BY <1>1, <1>2, <1>3, <2>1 DEF qq, qd, dd
<1>4. CASE ~(c < p)
  <2>1. PassesLeft(n, p, c) = 2 * (n - c) + (qq + q)
    BY <1>2, <1>4 DEF PassesLeft
  <2>2. n * (n - 1) = qq + q + 2 * qd + dd + d /\ qq \in Nat /\ qd \in Nat /\ dd \in Nat /\ dd >= d
    BY <1>2
  <2> HIDE DEF qq, qd, dd
  <2>3. n - c <= d
    BY <1>1, <1>4
  <2>4. 2 * (n - c) <= dd + d /\ 2 * (n - c) \in Nat
    BY <1>1, <2>2, <2>3
  <2> QED
    BY <1>1, <2>1, <2>2, <2>4
<1> QED
  BY <1>3, <1>4

\* What serving the route at place i takes off.
LEMMA PassesFall ==
  ASSUME NEW n \in Nat, NEW p \in 1 .. n, NEW c \in 0 .. n, NEW i \in 1 .. n, i # p,
         IF c < p THEN c < i /\ i < p ELSE c < i \/ i < p
  PROVE  /\ PassesLeft(n, p, i) + 2 <= PassesLeft(n, p, c)
         /\ PassesLeft(n, IF i < p THEN p - 1 ELSE p, 0) + 2 <= PassesLeft(n, p, c)
<1> DEFINE q == p - 1
           qq == q * q
<1>1. q \in Nat /\ p = q + 1 /\ qq \in Nat
  OBVIOUS
<1>2. /\ (p - 1) * (p - 2) = qq - q /\ p * (p - 1) = qq + q
      /\ (p - 2) * (p - 3) = qq - 3 * q + 2
  OBVIOUS
<1>3. /\ \A k \in 0 .. n : PassesLeft(n, p, k) = IF k < p THEN 2 * (p - 1 - k) + (qq - q) ELSE 2 * (n - k) + (qq + q)
      /\ p > 1 => PassesLeft(n, p - 1, 0) = 2 * (p - 2) + (qq - 3 * q + 2)
      /\ PassesLeft(n, p, 0) = 2 * (p - 1) + (qq - q)
  <2>1. ASSUME p > 1 PROVE PassesLeft(n, p - 1, 0) = 2 * (p - 2) + (qq - 3 * q + 2)
    BY <1>2, <2>1 DEF PassesLeft
  <2> QED
    BY <1>2, <2>1 DEF PassesLeft
<1> HIDE DEF q, qq
<1> QED
  BY <1>1, <1>3

\* A sequence without its member at place i.
LEMMA RemovedAt ==
  ASSUME NEW T, NEW s \in Seq(T), NEW i \in 1 .. Len(s)
  PROVE  /\ RemoveAt(s, i) \in Seq(T) /\ Len(RemoveAt(s, i)) = Len(s) - 1
         /\ \A j \in 1 .. Len(s) - 1 : RemoveAt(s, i)[j] = IF j < i THEN s[j] ELSE s[j + 1]
<1> DEFINE a == SubSeq(s, 1, i - 1)
           b == SubSeq(s, i + 1, Len(s))
<1>1. Len(s) \in Nat /\ \A j \in 1 .. Len(s) : s[j] \in T
  OBVIOUS
<1>2. a \in Seq(T) /\ Len(a) = i - 1 /\ \A j \in 1 .. i - 1 : a[j] = s[j]
  BY <1>1, SubSeqProperties
<1>3. b \in Seq(T) /\ Len(b) = Len(s) - i /\ \A j \in 1 .. Len(s) - i : b[j] = s[i + j]
  BY <1>1, SubSeqProperties
<1>4. RemoveAt(s, i) = a \o b
  BY DEF RemoveAt
<1> HIDE DEF a, b
<1>5. /\ a \o b \in Seq(T) /\ Len(a \o b) = Len(a) + Len(b)
      /\ \A j \in 1 .. Len(a) + Len(b) : (a \o b)[j] = IF j <= Len(a) THEN a[j] ELSE b[j - Len(a)]
  BY <1>2, <1>3, ConcatProperties
<1>6. ASSUME NEW j \in 1 .. Len(s) - 1 PROVE (a \o b)[j] = IF j < i THEN s[j] ELSE s[j + 1]
  <2>1. CASE j < i
    BY <1>1, <1>2, <1>3, <1>5, <2>1
  <2>2. CASE ~(j < i)
    <3>1. j - (i - 1) \in 1 .. Len(s) - i /\ i + (j - (i - 1)) = j + 1
      BY <1>1, <2>2
    <3>2. b[j - (i - 1)] = s[j + 1]
      BY <1>3, <3>1
    <3> QED
      BY <1>1, <1>2, <1>3, <1>5, <2>2, <3>2
  <2> QED
    BY <2>1, <2>2
<1>7. Len(a \o b) = Len(s) - 1
  BY <1>1, <1>2, <1>3, <1>5
<1> DEFINE c == a \o b
<1>8. c \in Seq(T) /\ Len(c) = Len(s) - 1 /\ RemoveAt(s, i) = c
  BY <1>4, <1>5, <1>7
<1>9. \A j \in 1 .. Len(s) - 1 : c[j] = IF j < i THEN s[j] ELSE s[j + 1]
  BY <1>6
<1> HIDE DEF c
<1> QED
  BY <1>8, <1>9

\* Where the rotation stands: the place of the last route, or 0.
Standing(c) ==
  \/ c = 0 /\ lastRoute = NoRoute
  \/ c \in 1 .. Len(routes) /\ routes[c] = lastRoute

\* The route that is served comes after the last one and before any other that
\* is eligible, as far as the last one has its place among them.
LEMMA NextInTurn ==
  ASSUME QueueTypeOK, IsInjective(routes), DueLevels # {},
         NEW c \in 0 .. Len(routes),
         IF HeadDue(lastRoute, GlobalLevel) THEN Standing(c) ELSE c = 0,
         NEW p \in EligibleRoutes, p # NextRoute(EligibleRoutes, lastRoute)
  PROVE  LET i == NextRoute(EligibleRoutes, lastRoute) IN
         IF c < p THEN c < i /\ i < p ELSE c < i \/ i < p
<1> DEFINE E == EligibleRoutes
           i == NextRoute(E, lastRoute)
           after == {k \in E : \E j \in E : routes[j] = lastRoute /\ j < k}
           S == IF after # {} THEN after ELSE E
<1>1. routes \in Seq(Routes) /\ DOMAIN routes = 1 .. Len(routes) /\ Len(routes) \in Nat
      /\ NoRoute \notin Routes /\ \A j \in 1 .. Len(routes) : routes[j] \in Routes
  BY QueueAssumption, LenProperties, ElementOfSeq DEF QueueTypeOK
<1>2. E \subseteq 1 .. Len(routes) /\ E # {} /\ \A j \in E : HeadDue(routes[j], GlobalLevel)
  BY <1>1 DEF EligibleRoutes
<1>3. S \in SUBSET Nat /\ S # {} /\ i = Min(S)
  <2>1. S \subseteq E /\ S # {}
    BY <1>2
  <2>2. i = Min(S)
    BY DEF NextRoute
  <2> HIDE DEF S, E, i
  <2> QED
    BY <1>1, <1>2, <2>1, <2>2
<1>4. i \in S /\ \A j \in S : i <= j
  <2> HIDE DEF S, i
  <2> QED
    BY <1>3, LeastOf
<1>5. \A j \in E : routes[j] = lastRoute => j = c /\ c \in E
  <2>1. CASE ~HeadDue(lastRoute, GlobalLevel)
    BY <1>2, <2>1
  <2>2. CASE c = 0 /\ lastRoute = NoRoute
    BY <1>1, <1>2, <2>2
  <2>3. CASE c \in 1 .. Len(routes) /\ routes[c] = lastRoute
    <3>1. \A j \in E : routes[j] = lastRoute => j = c
      BY <1>1, <1>2, <2>3 DEF IsInjective
    <3> QED
      BY <1>1, <1>2, <2>3, <3>1
  <2> QED
    BY <1>1, <2>1, <2>2, <2>3 DEF Standing
<1>6. c # 0 => c \in E /\ routes[c] = lastRoute
  <2>1. c # 0 => c \in 1 .. Len(routes) /\ routes[c] = lastRoute /\ HeadDue(lastRoute, GlobalLevel)
    BY DEF Standing
  <2> QED
    BY <1>1, <2>1 DEF EligibleRoutes
<1>7. after = {k \in E : c # 0 /\ c < k}
  BY <1>1, <1>2, <1>5, <1>6
<1> HIDE DEF after, E, i
<1>10. p \in E /\ p # i
  BY DEF E, i
<1>8. CASE c < p
  <2>1. p \in S
    BY <1>1, <1>7, <1>8, <1>10
  <2>2. i \in E /\ i <= p /\ (c # 0 => c < i)
    <3>1. c # 0 => after # {}
      BY <1>7, <1>8, <1>10
    <3> QED
      BY <1>4, <1>7, <2>1, <3>1
  <2>3. c < i /\ i < p
    BY <1>1, <1>2, <1>10, <2>2
  <2> QED
    BY <1>8, <2>3 DEF i, E
<1>9. CASE ~(c < p)
  <2>1. c < i \/ i < p
    <3>1. CASE after # {}
      BY <1>4, <1>7, <3>1
    <3>2. CASE after = {}
      <4>1. i \in E /\ i <= p
        BY <1>4, <1>10, <3>2
      <4> QED
        BY <1>1, <1>2, <1>10, <4>1
    <3> QED
      BY <3>1, <3>2
  <2> QED
    BY <1>9, <2>1 DEF i, E
<1> QED
  BY <1>8, <1>9

\* How often a route has been passed and how often it may still be are together
\* never more than its turn allows, whichever route was served last.
RotationInv ==
  /\ QueueTypeOK /\ waiting = {}
  /\ \E Q \in SUBSET Msgs : Holds(lanes, Q)
  /\ IsInjective(routes)
  /\ \A r \in Routes, l \in Levels : lanes[r][l] # <<>> => r \in Range(routes)
  /\ lastRoute # NoRoute => lastRoute \in Range(routes)
  /\ level \in Levels /\ skipped \in [Routes -> Nat]
  /\ \A r \in Routes : skipped[r] > 0 => lanes[r][level] # <<>>
  /\ LET n == Cardinality(Routes) IN
     \A p \in 1 .. Len(routes), c \in 0 .. Len(routes) :
       Standing(c) => 2 * skipped[routes[p]] + PassesLeft(n, p, c) <= n * (n - 1)

\* There are no more places than routes.
LEMMA PlacesOfRoutes ==
  ASSUME NEW rs \in Seq(Routes), IsInjective(rs)
  PROVE  /\ Cardinality(Routes) \in Nat /\ Len(rs) \in 0 .. Cardinality(Routes)
         /\ DOMAIN rs = 1 .. Len(rs) /\ \A j \in 1 .. Len(rs) : rs[j] \in Routes
<1>1. DOMAIN rs = 1 .. Len(rs) /\ Len(rs) \in Nat /\ \A j \in 1 .. Len(rs) : rs[j] \in Routes
  BY LenProperties, ElementOfSeq
<1>2. IsFiniteSet(Routes) /\ Cardinality(Routes) \in Nat
  BY QueueAssumption, FS_CardinalityType
<1>3. IsFiniteSet(Range(rs)) /\ Cardinality(Range(rs)) = Len(rs) /\ Range(rs) \subseteq Routes
  BY <1>1, OnceLength DEF Range
<1> QED
  BY <1>1, <1>2, <1>3, FS_Subset

LEMMA RotationInitInv == RotationInit => RotationInv
<1> SUFFICES ASSUME RotationInit PROVE RotationInv
  OBVIOUS
<1>1. /\ lanes = [r \in Routes |-> [l \in Levels |-> <<>>]] /\ routes = <<>> /\ lastRoute = NoRoute /\ waiting = {}
      /\ skipped = [r \in Routes |-> 0] /\ level \in Levels
  BY DEF RotationInit, QueueInit
<1>2. QueueTypeOK
  BY <1>1 DEF QueueTypeOK
<1>3. {} \in SUBSET Msgs /\ Holds(lanes, {})
  BY <1>1 DEF Holds
<1>4. IsInjective(routes) /\ Len(routes) = 0
  BY <1>1 DEF IsInjective
<1> QED
  BY <1>1, <1>2, <1>3, <1>4 DEF RotationInv

\* A message that comes moves no place, and a route that comes has none passed.
LEMMA ArriveKeepsTurns ==
  ASSUME RotationInv, NEW m \in Msgs, Arrive(m)
  PROVE  RotationInv'
<1> DEFINE n == Cardinality(Routes)
<1>1. /\ ~Queued(m) /\ Enqueue(m) /\ UNCHANGED <<waiting, skipped, level, lastRoute>>
  BY DEF Arrive, Enqueue
<1>2. /\ QueueTypeOK /\ waiting = {} /\ IsInjective(routes)
      /\ \A r \in Routes, l \in Levels : lanes[r][l] # <<>> => r \in Range(routes)
      /\ lastRoute # NoRoute => lastRoute \in Range(routes)
      /\ level \in Levels /\ skipped \in [Routes -> Nat]
      /\ \A r \in Routes : skipped[r] > 0 => lanes[r][level] # <<>>
      /\ RouteOf[m] \in Routes /\ LevelOf[m] \in Levels
      /\ lanes \in [Routes -> [Levels -> Seq(Msgs)]] /\ routes \in Seq(Routes)
      /\ lastRoute \in Routes \cup {NoRoute} /\ NoRoute \notin Routes
  BY QueueAssumption DEF RotationInv, QueueTypeOK
<1>3. PICK Q \in SUBSET Msgs : Holds(lanes, Q)
  BY DEF RotationInv
<1>4. m \notin Q
  <2> SUFFICES ASSUME m \in Q PROVE FALSE
    OBVIOUS
  <2>1. PICK i \in 1 .. Len(lanes[RouteOf[m]][LevelOf[m]]) : lanes[RouteOf[m]][LevelOf[m]][i] = m
    <3>1. \A r \in Routes, l \in Levels : \A q \in Q :
            RouteOf[q] = r /\ LevelOf[q] = l => \E i \in 1 .. Len(lanes[r][l]) : lanes[r][l][i] = q
      BY <1>3 DEF Holds
    <3>2. RouteOf[m] \in Routes /\ LevelOf[m] \in Levels
      BY <1>2
    <3>3. \A q \in Q : RouteOf[q] = RouteOf[m] /\ LevelOf[q] = LevelOf[m] =>
            \E i \in 1 .. Len(lanes[RouteOf[m]][LevelOf[m]]) : lanes[RouteOf[m]][LevelOf[m]][i] = q
      BY <3>1, <3>2
    <3> QED
      BY <3>3
  <2>2. DOMAIN lanes[RouteOf[m]][LevelOf[m]] = 1 .. Len(lanes[RouteOf[m]][LevelOf[m]])
    BY <1>2, LenProperties
  <2> QED
    BY <1>1, <2>1, <2>2 DEF Queued, Range
<1>5. /\ lanes' \in [Routes -> [Levels -> Seq(Msgs)]] /\ routes' \in Seq(Routes)
      /\ Holds(lanes', Q \cup {m}) /\ Q \cup {m} \in SUBSET Msgs
  BY <1>1, <1>2, <1>3, <1>4, EnqueueHolds
<1>6. QueueTypeOK'
  BY <1>1, <1>2, <1>5 DEF QueueTypeOK
<1>7. \A r \in Routes, l \in Levels : lanes'[r][l] # <<>> => lanes[r][l] # <<>> \/ r = RouteOf[m]
  BY <1>1, <1>2 DEF Enqueue
<1>8. \A r \in Routes, l \in Levels : lanes[r][l] # <<>> => lanes'[r][l] # <<>>
  <2>1. Append(lanes[RouteOf[m]][LevelOf[m]], m) # <<>>
    <3>1. lanes[RouteOf[m]][LevelOf[m]] \in Seq(Msgs)
      BY <1>2
    <3> QED
      BY <3>1, AppendProperties
  <2> QED
    BY <1>1, <1>2, <2>1 DEF Enqueue
<1>9. /\ IsInjective(routes') /\ RouteOf[m] \in Range(routes') /\ Range(routes) \subseteq Range(routes')
      /\ Len(routes) <= Len(routes') /\ Len(routes) \in Nat /\ Len(routes') \in Nat
      /\ \A p \in 1 .. Len(routes) : routes'[p] = routes[p]
      /\ \A p \in 1 .. Len(routes') : p \notin 1 .. Len(routes) => routes'[p] \notin Range(routes)
  <2>1. Contains(routes, RouteOf[m]) <=> RouteOf[m] \in Range(routes)
    <3>1. DOMAIN routes = 1 .. Len(routes)
      BY <1>2, LenProperties
    <3> QED
      BY <3>1 DEF Contains, Range
  <2>2. CASE Contains(routes, RouteOf[m])
    BY <1>1, <1>2, <2>1, <2>2, LenProperties DEF Enqueue
  <2>3. CASE ~Contains(routes, RouteOf[m])
    <3>1. routes' = Append(routes, RouteOf[m])
      BY <1>1, <2>3 DEF Enqueue
    <3>2. /\ Len(routes') = Len(routes) + 1 /\ Len(routes) \in Nat
          /\ \A p \in 1 .. Len(routes) : routes'[p] = routes[p]
          /\ routes'[Len(routes) + 1] = RouteOf[m]
      BY <1>2, <3>1, AppendProperties
    <3>3. Range(routes') = Range(routes) \cup {RouteOf[m]} /\ IsInjective(routes')
      BY <1>2, <2>1, <2>3, <3>1, AppendRange, AppendOnce
    <3>4. \A p \in 1 .. Len(routes') : p \notin 1 .. Len(routes) => p = Len(routes) + 1
      BY <3>2
    <3> QED
      BY <2>1, <2>3, <3>2, <3>3, <3>4
  <2> QED
    BY <2>2, <2>3
<1>10. n \in Nat /\ Len(routes') <= n /\ \A j \in 1 .. Len(routes') : routes'[j] \in Routes
  BY <1>5, <1>9, PlacesOfRoutes
<1>11. \A c \in 0 .. Len(routes') : Standing(c)' => c \in 0 .. Len(routes) /\ Standing(c)
  <2>1. Range(routes) = {routes[j] : j \in 1 .. Len(routes)}
    BY <1>2, LenProperties DEF Range
  <2>2. ASSUME NEW c \in 1 .. Len(routes'), routes'[c] = lastRoute PROVE c \in 1 .. Len(routes)
    <3>1. lastRoute \in Range(routes)
      BY <1>2, <1>10, <2>2
    <3> QED
      BY <1>9, <2>2, <3>1
  <2> QED
    BY <1>1, <1>9, <2>2 DEF Standing
<1>12. ASSUME NEW p \in 1 .. Len(routes'), NEW c \in 0 .. Len(routes'), Standing(c)'
       PROVE  2 * skipped[routes'[p]] + PassesLeft(n, p, c) <= n * (n - 1)
  <2>1. c \in 0 .. Len(routes) /\ Standing(c)
    BY <1>11, <1>12
  <2>2. CASE p \in 1 .. Len(routes)
    <3>1. routes'[p] = routes[p]
      BY <1>9, <2>2
    <3>2. 2 * skipped[routes[p]] + PassesLeft(n, p, c) <= n * (n - 1)
      BY <2>1, <2>2 DEF RotationInv
    <3> QED
      BY <3>1, <3>2
  <2>3. CASE p \notin 1 .. Len(routes)
    <3>1. skipped[routes'[p]] = 0
      BY <1>2, <1>9, <1>10, <2>3
    <3>2. p \in 1 .. n /\ c \in 0 .. n
      BY <1>9, <1>10
    <3>3. PassesLeft(n, p, c) \in Nat /\ PassesLeft(n, p, c) <= n * (n - 1)
      BY <1>10, <3>2, PassesBound
    <3> QED
      BY <3>1, <3>3
  <2> QED
    BY <2>2, <2>3
<1>13. /\ \A r \in Routes, l \in Levels : lanes'[r][l] # <<>> => r \in Range(routes')
       /\ lastRoute' # NoRoute => lastRoute' \in Range(routes')
       /\ \A r \in Routes : skipped[r] > 0 => lanes'[r][level] # <<>>
  BY <1>1, <1>2, <1>7, <1>8, <1>9
<1> QED
  BY <1>1, <1>2, <1>5, <1>6, <1>9, <1>12, <1>13 DEF RotationInv

\* Serving a route brings every other one that waits nearer to its turn.
LEMMA ServeKeepsTurns ==
  ASSUME RotationInv, NEW m \in Msgs, Serve(m)
  PROVE  RotationInv'
<1> DEFINE n == Cardinality(Routes)
           i == NextRoute(EligibleRoutes, lastRoute)
           l == GlobalLevel
           past == IF LevelOf[m] # level \/ LosesPlace(LevelOf[m]) THEN [r \in Routes |-> 0] ELSE skipped
<1>1. /\ Dequeue(m) /\ level' = LevelOf[m]
      /\ skipped' = [r \in Routes |->
           IF r = RouteOf[m] THEN 0 ELSE IF HeadDue(r, LevelOf[m]) THEN past[r] + 1 ELSE past[r]]
      /\ DueLevels # {} /\ m = Head(lanes[routes[i]][l]) /\ PopFrom(i, l) /\ waiting' = waiting
  BY DEF Serve, Dequeue
<1>2. /\ QueueTypeOK /\ waiting = {} /\ IsInjective(routes)
      /\ \A r \in Routes, k \in Levels : lanes[r][k] # <<>> => r \in Range(routes)
      /\ lastRoute # NoRoute => lastRoute \in Range(routes)
      /\ level \in Levels /\ skipped \in [Routes -> Nat]
      /\ \A r \in Routes : skipped[r] > 0 => lanes[r][level] # <<>>
      /\ lanes \in [Routes -> [Levels -> Seq(Msgs)]] /\ routes \in Seq(Routes)
      /\ lastRoute \in Routes \cup {NoRoute} /\ NoRoute \notin Routes
  BY QueueAssumption DEF RotationInv, QueueTypeOK
<1>3. PICK Q \in SUBSET Msgs : Holds(lanes, Q)
  BY DEF RotationInv
<1>4. /\ i \in 1 .. Len(routes) /\ l \in Levels /\ HeadDue(routes[i], l)
      /\ n \in Nat /\ Len(routes) \in 0 .. n
      /\ DOMAIN routes = 1 .. Len(routes) /\ \A j \in 1 .. Len(routes) : routes[j] \in Routes
  BY <1>1, <1>2, NextRouteIsDue, PlacesOfRoutes
<1>5. RouteOf[m] = routes[i] /\ LevelOf[m] = l
  <2>1. lanes[routes[i]][l] \in Seq(Msgs) /\ lanes[routes[i]][l] # <<>> /\ routes[i] \in Routes
    BY <1>2, <1>4 DEF HeadDue
  <2> HIDE DEF i, l
  <2>2. m = lanes[routes[i]][l][1] /\ 1 \in 1 .. Len(lanes[routes[i]][l])
    BY <1>1, <2>1, EmptySeq
  <2>3. \A r \in Routes, k \in Levels : \A j \in 1 .. Len(lanes[r][k]) :
          RouteOf[lanes[r][k][j]] = r /\ LevelOf[lanes[r][k][j]] = k
    BY <1>3 DEF Holds
  <2> QED
    BY <1>4, <2>1, <2>2, <2>3
<1>6. QueueTypeOK' /\ Holds(lanes', Q \ {m}) /\ Q \ {m} \in SUBSET Msgs /\ waiting' = {}
  BY <1>1, <1>2, <1>3, DequeueHolds
<1> DEFINE e == IF lastRoute = NoRoute \/ ~HeadDue(lastRoute, l) THEN 0
                ELSE CHOOSE j \in 1 .. Len(routes) : routes[j] = lastRoute
<1>7. /\ e \in 0 .. Len(routes) /\ IF HeadDue(lastRoute, l) THEN Standing(e) ELSE e = 0
      /\ ~LosesPlace(l) => Standing(e)
  <2> HIDE DEF i, l
  <2>1. CASE lastRoute = NoRoute \/ ~HeadDue(lastRoute, l)
    BY <1>4, <2>1 DEF Standing, LosesPlace
  <2>2. CASE ~(lastRoute = NoRoute \/ ~HeadDue(lastRoute, l))
    <3>1. \E j \in 1 .. Len(routes) : routes[j] = lastRoute
      BY <1>2, <1>4, <2>2 DEF Range
    <3>2. e \in 1 .. Len(routes) /\ routes[e] = lastRoute
      BY <2>2, <3>1
    <3> QED
      BY <2>2, <3>2 DEF Standing
  <2> QED
    BY <2>1, <2>2
<1> HIDE DEF e
<1>8. \A r \in Routes : past[r] \in Nat /\ (past[r] > 0 => lanes[r][l] # <<>>)
  <2> HIDE DEF l, i
  <2> QED
    BY <1>2, <1>5
<1>9. \A r \in Routes : HeadDue(r, l) <=> lanes[r][l] # <<>>
  BY <1>2 DEF HeadDue
<1>10. \A p \in 1 .. Len(routes) : 2 * past[routes[p]] + PassesLeft(n, p, e) <= n * (n - 1)
  <2> TAKE p \in 1 .. Len(routes)
  <2>0. p \in 1 .. n /\ e \in 0 .. n
    BY <1>4, <1>7
  <2> HIDE DEF l, i
  <2>1. CASE LevelOf[m] # level \/ LosesPlace(LevelOf[m])
    <3>1. past[routes[p]] = 0
      BY <1>4, <2>1
    <3>2. PassesLeft(n, p, e) \in Nat /\ PassesLeft(n, p, e) <= n * (n - 1)
      BY <1>4, <2>0, PassesBound
    <3> HIDE DEF n, past
    <3> QED
      BY <3>1, <3>2
  <2>2. CASE ~(LevelOf[m] # level \/ LosesPlace(LevelOf[m]))
    <3>1. past = skipped /\ Standing(e)
      BY <1>5, <1>7, <2>2
    <3> QED
      BY <1>7, <3>1 DEF RotationInv
  <2> QED
    BY <2>1, <2>2
<1> HIDE DEF past
<1>11. /\ skipped' \in [Routes -> Nat] /\ level' = l
       /\ \A r \in Routes : skipped'[r] = IF r = routes[i] THEN 0
                                       ELSE IF lanes[r][l] # <<>> THEN past[r] + 1 ELSE 0
  <2> HIDE DEF l, i
  <2>1. \A r \in Routes : skipped'[r] = IF r = routes[i] THEN 0 ELSE IF HeadDue(r, l) THEN past[r] + 1 ELSE past[r]
    BY <1>1, <1>5
  <2>2. \A r \in Routes : ~HeadDue(r, l) => past[r] = 0
    BY <1>8, <1>9
  <2>3. DOMAIN skipped' = Routes /\ skipped' = [r \in Routes |-> skipped'[r]]
    BY <1>1
  <2> QED
    BY <1>1, <1>5, <1>8, <1>9, <2>1, <2>2, <2>3
\* What a place p other than the one served has left.
<1>12. ASSUME NEW p \in 1 .. Len(routes), p # i
       PROVE  /\ 2 * skipped'[routes[p]] + PassesLeft(n, p, i) <= n * (n - 1)
              /\ 2 * skipped'[routes[p]] + PassesLeft(n, IF i < p THEN p - 1 ELSE p, 0) <= n * (n - 1)
  <2>0. p \in 1 .. n /\ e \in 0 .. n /\ i \in 1 .. n /\ routes[p] \in Routes /\ n \in Nat /\ Len(routes) \in Nat
    BY <1>4, <1>7
  <2>1. routes[p] # routes[i]
    BY <1>2, <1>4, <1>12 DEF IsInjective
  <2>2. past[routes[p]] \in Nat /\ 2 * past[routes[p]] + PassesLeft(n, p, e) <= n * (n - 1)
    BY <1>8, <1>10, <2>0
  <2>3. CASE lanes[routes[p]][l] # <<>>
    <3>1. p \in EligibleRoutes
      BY <1>4, <1>9, <2>0, <2>3 DEF EligibleRoutes
    <3>2. IF e < p THEN e < i /\ i < p ELSE e < i \/ i < p
      BY <1>1, <1>2, <1>7, <1>12, <3>1, NextInTurn
    <3> HIDE DEF i, l
    <3>3. /\ PassesLeft(n, p, i) + 2 <= PassesLeft(n, p, e)
          /\ PassesLeft(n, IF i < p THEN p - 1 ELSE p, 0) + 2 <= PassesLeft(n, p, e)
      <4> HIDE DEF n
      <4> QED
        BY <1>12, <2>0, <3>2, PassesFall
    <3>4. skipped'[routes[p]] = past[routes[p]] + 1
      BY <1>11, <2>0, <2>1, <2>3
    <3>5. IF i < p THEN p - 1 \in 1 .. n ELSE p \in 1 .. n
      BY <1>4, <2>0
    <3>6. /\ PassesLeft(n, p, i) \in Nat /\ PassesLeft(n, p, e) \in Nat
          /\ PassesLeft(n, IF i < p THEN p - 1 ELSE p, 0) \in Nat
      <4>1. \A q \in 1 .. n, c \in 0 .. n : PassesLeft(n, q, c) \in Nat
        <5> HIDE DEF n
        <5> QED
          BY <2>0, PassesBound
      <4> QED
        BY <2>0, <3>5, <4>1
    <3>7. n * (n - 1) \in Int
      BY <2>0
    <3> DEFINE k == n * (n - 1)
               x == PassesLeft(n, p, e)
               y == PassesLeft(n, p, i)
               z == PassesLeft(n, IF i < p THEN p - 1 ELSE p, 0)
               o == past[routes[p]]
    <3>8. /\ o \in Nat /\ x \in Nat /\ y \in Nat /\ z \in Nat /\ k \in Int
          /\ 2 * o + x <= k /\ y + 2 <= x /\ z + 2 <= x
      BY <2>2, <3>3, <3>6, <3>7
    <3> HIDE DEF k, x, y, z, o
    <3>9. 2 * (o + 1) + y <= k /\ 2 * (o + 1) + z <= k
      BY <3>8
    <3> QED
      BY <3>4, <3>9 DEF k, y, z, o
  <2>4. CASE lanes[routes[p]][l] = <<>>
    <3>1. skipped'[routes[p]] = 0
      BY <1>11, <2>0, <2>1, <2>4
    <3>2. IF i < p THEN p - 1 \in 1 .. n ELSE p \in 1 .. n
      BY <1>4, <2>0
    <3>3. \A q \in 1 .. n, c \in 0 .. n : PassesLeft(n, q, c) \in Nat /\ PassesLeft(n, q, c) <= n * (n - 1)
      <4> HIDE DEF n
      <4> QED
        BY <2>0, PassesBound
    <3>4. /\ PassesLeft(n, p, i) \in Nat /\ PassesLeft(n, p, i) <= n * (n - 1)
          /\ PassesLeft(n, IF i < p THEN p - 1 ELSE p, 0) \in Nat
          /\ PassesLeft(n, IF i < p THEN p - 1 ELSE p, 0) <= n * (n - 1)
      <4> HIDE DEF n, i
      <4> QED
        BY <2>0, <3>2, <3>3
    <3> HIDE DEF n, i
    <3> QED
      BY <3>1, <3>4
  <2> QED
    BY <2>3, <2>4
<1> DEFINE Fits(rs) ==
      \A p \in 1 .. Len(rs), c \in 0 .. Len(rs) :
        Standing(c)' => 2 * skipped'[rs[p]] + PassesLeft(n, p, c) <= n * (n - 1)
<1>13. lanes' = [lanes EXCEPT ![routes[i]] = [lanes[routes[i]] EXCEPT ![l] = Tail(@)]]
  BY <1>1 DEF PopFrom
<1>14. \A r \in Routes \ {routes[i]} : lanes'[r] = lanes[r]
  <2> HIDE DEF i, l
  <2> QED
    BY <1>2, <1>13
<1>15. \A r \in Routes, k \in Levels : lanes'[r][k] # <<>> => r \in Range(routes)
  <2> HIDE DEF l, i
  <2> QED
    BY <1>2, <1>4, <1>14 DEF Range
<1>16. \A r \in Routes : skipped'[r] > 0 => lanes'[r][level'] # <<>>
  <2> HIDE DEF l, i
  <2> QED
    BY <1>11, <1>14
<1>17. CASE routes' = routes /\ lastRoute' = routes[i]
  <2> HIDE DEF l
  <2>1. Fits(routes')
    <3> SUFFICES ASSUME NEW p \in 1 .. Len(routes), NEW c \in 0 .. Len(routes), Standing(c)'
                 PROVE  2 * skipped'[routes[p]] + PassesLeft(n, p, c) <= n * (n - 1)
      BY <1>17
    <3>1. c = i
      <4> HIDE DEF i
      <4> QED
        BY <1>2, <1>4, <1>17 DEF Standing, IsInjective
    <3>2. CASE p # i
      BY <1>12, <3>1, <3>2
    <3>3. CASE p = i
      <4>1. skipped'[routes[p]] = 0 /\ p \in 1 .. n /\ c \in 0 .. n /\ n \in Nat
        BY <1>4, <1>11, <3>3
      <4> HIDE DEF n, i
      <4>2. PassesLeft(n, p, c) \in Nat /\ PassesLeft(n, p, c) <= n * (n - 1)
        BY <4>1, PassesBound
      <4> QED
        BY <4>1, <4>2
    <3> QED
      BY <3>2, <3>3
  <2>2. lastRoute' \in Range(routes') /\ IsInjective(routes')
    BY <1>2, <1>4, <1>17 DEF Range
  <2> HIDE DEF i
  <2> QED
    BY <1>4, <1>6, <1>11, <1>15, <1>16, <1>17, <2>1, <2>2 DEF RotationInv
<1>18. CASE routes' = RemoveAt(routes, i) /\ lastRoute' = NoRoute /\ \A k \in Levels : lanes'[routes[i]][k] = <<>>
  <2> HIDE DEF l, i
  <2>1. /\ routes' \in Seq(Routes) /\ Len(routes') = Len(routes) - 1 /\ Len(routes) \in Nat
        /\ \A j \in 1 .. Len(routes) - 1 : routes'[j] = IF j < i THEN routes[j] ELSE routes[j + 1]
    <3>1. routes \in Seq(Routes) /\ i \in 1 .. Len(routes) /\ Len(routes) \in Nat
      BY <1>2, <1>4
    <3>2. /\ RemoveAt(routes, i) \in Seq(Routes) /\ Len(RemoveAt(routes, i)) = Len(routes) - 1
          /\ \A j \in 1 .. Len(routes) - 1 : RemoveAt(routes, i)[j] = IF j < i THEN routes[j] ELSE routes[j + 1]
      BY <3>1, RemovedAt
    <3> QED
      BY <1>18, <3>1, <3>2
  <2>2. DOMAIN routes' = 1 .. Len(routes) - 1
    BY <2>1, LenProperties
  <2>3. IsInjective(routes')
    <3> SUFFICES ASSUME NEW j \in 1 .. Len(routes) - 1, NEW k \in 1 .. Len(routes) - 1, routes'[j] = routes'[k]
                 PROVE  j = k
      BY <2>2 DEF IsInjective
    <3> DEFINE a == IF j < i THEN j ELSE j + 1
               b == IF k < i THEN k ELSE k + 1
    <3>1. a \in 1 .. Len(routes) /\ b \in 1 .. Len(routes) /\ routes[a] = routes[b]
      BY <1>4, <2>1
    <3>2. a = b
      <4> HIDE DEF a, b
      <4> QED
        BY <1>2, <1>4, <3>1 DEF IsInjective
    <3> QED
      BY <1>4, <3>2
  <2>4. ASSUME NEW r \in Range(routes), r # routes[i] PROVE r \in Range(routes')
    <3>1. PICK p \in 1 .. Len(routes) : routes[p] = r
      BY <1>4, <2>4 DEF Range
    <3>2. p # i
      BY <2>4, <3>1
    <3>3. CASE p < i
      <4>1. p \in 1 .. Len(routes) - 1 /\ routes'[p] = r
        BY <1>4, <2>1, <3>1, <3>3
      <4> QED
        BY <2>2, <4>1 DEF Range
    <3>4. CASE p > i
      <4>1. p - 1 \in 1 .. Len(routes) - 1 /\ routes'[p - 1] = routes[(p - 1) + 1] /\ (p - 1) + 1 = p
        BY <1>4, <2>1, <3>4
      <4>2. routes'[p - 1] = r
        BY <3>1, <4>1
      <4> QED
        BY <2>2, <4>1, <4>2 DEF Range
    <3> QED
      BY <1>4, <3>2, <3>3, <3>4
  <2>5. \A r \in Routes, k \in Levels : lanes'[r][k] # <<>> => r \in Range(routes')
    BY <1>15, <1>18, <2>4
  <2>6. Fits(routes')
    <3> SUFFICES ASSUME NEW j \in 1 .. Len(routes'), NEW c \in 0 .. Len(routes'), Standing(c)'
                 PROVE  2 * skipped'[routes'[j]] + PassesLeft(n, j, c) <= n * (n - 1)
      OBVIOUS
    <3>1. c = 0
      <4>1. c \in 1 .. Len(routes') => routes'[c] \in Routes
        BY <2>1
      <4> QED
        BY <1>2, <1>18, <4>1 DEF Standing
    <3> DEFINE p == IF j < i THEN j ELSE j + 1
    <3>2. p \in 1 .. Len(routes) /\ p # i /\ routes'[j] = routes[p] /\ j = IF i < p THEN p - 1 ELSE p
      BY <1>4, <2>1
    <3> HIDE DEF p
    <3>3. 2 * skipped'[routes[p]] + PassesLeft(n, IF i < p THEN p - 1 ELSE p, 0) <= n * (n - 1)
      BY <1>12, <3>2
    <3>4. (IF i < p THEN p - 1 ELSE p) = j
      BY <3>2
    <3> QED
      BY <3>1, <3>2, <3>3, <3>4
  <2> QED
    BY <1>4, <1>6, <1>11, <1>16, <1>18, <2>3, <2>5, <2>6 DEF RotationInv
<1>19. \/ routes' = routes /\ lastRoute' = routes[i]
       \/ routes' = RemoveAt(routes, i) /\ lastRoute' = NoRoute /\ \A k \in Levels : lanes'[routes[i]][k] = <<>>
  <2> DEFINE rest == [lanes[routes[i]] EXCEPT ![l] = Tail(@)]
  <2>1. /\ lanes' = [lanes EXCEPT ![routes[i]] = rest]
        /\ IF \A k \in Levels : rest[k] = <<>>
           THEN routes' = RemoveAt(routes, i) /\ lastRoute' = NoRoute
           ELSE routes' = routes /\ lastRoute' = routes[i]
    BY <1>1 DEF PopFrom
  <2>2. lanes'[routes[i]] = rest
    <3> HIDE DEF rest, i, l
    <3> QED
      BY <1>2, <1>4, <2>1
  <2> HIDE DEF rest, i, l
  <2> QED
    BY <2>1, <2>2
<1> QED
  BY <1>17, <1>18, <1>19

\* While one priority is served and the rotation keeps its place, no route that
\* has a message of it is passed more than n(n - 1)/2 times for n routes
\* (select_next_route, dequeue).
THEOREM NoRouteStarvesEver == RotationSpec => []NoRouteStarves
<1>1. RotationInv /\ [RotationNext]_rotationVars => RotationInv'
  <2> SUFFICES ASSUME RotationInv, [RotationNext]_rotationVars PROVE RotationInv'
    OBVIOUS
  <2>1. CASE RotationNext
    BY <2>1, ArriveKeepsTurns, ServeKeepsTurns DEF RotationNext
  <2>2. CASE UNCHANGED rotationVars
    BY <2>2 DEF RotationInv, rotationVars, queueVars, QueueTypeOK, Standing
  <2> QED
    BY <2>1, <2>2
<1>2. RotationInv => NoRouteStarves
  <2> SUFFICES ASSUME RotationInv, NEW r \in Routes
               PROVE  skipped[r] <= (Cardinality(Routes) * (Cardinality(Routes) - 1)) \div 2
    BY DEF NoRouteStarves
  <2> DEFINE n == Cardinality(Routes)
  <2>1. /\ routes \in Seq(Routes) /\ IsInjective(routes) /\ skipped[r] \in Nat /\ level \in Levels
        /\ skipped[r] > 0 => r \in Range(routes)
        /\ lastRoute # NoRoute => lastRoute \in Range(routes)
    BY DEF RotationInv, QueueTypeOK
  <2>2. n \in Nat /\ Len(routes) \in 0 .. n /\ DOMAIN routes = 1 .. Len(routes)
    BY <2>1, PlacesOfRoutes
  <2>3. \E c \in 0 .. Len(routes) : Standing(c)
    BY <2>1, <2>2 DEF Standing, Range
  <2>4. CASE skipped[r] > 0
    <3>1. PICK p \in 1 .. Len(routes) : routes[p] = r
      BY <2>1, <2>2, <2>4 DEF Range
    <3>2. PICK c \in 0 .. Len(routes) : Standing(c)
      BY <2>3
    <3>3. 2 * skipped[r] + PassesLeft(n, p, c) <= n * (n - 1)
      BY <3>1, <3>2 DEF RotationInv
    <3>4. p \in 1 .. n /\ c \in 0 .. n
      BY <2>2
    <3> HIDE DEF n
    <3>5. PassesLeft(n, p, c) \in Nat
      BY <2>2, <3>4, PassesBound
    <3> DEFINE k == n * (n - 1)
    <3>6. k \in Int /\ 2 * skipped[r] <= k
      BY <2>1, <2>2, <3>3, <3>5
    <3> HIDE DEF k
    <3>7. skipped[r] <= k \div 2
      BY <2>1, <3>6
    <3> QED
      BY <3>7 DEF k, n
  <2>5. CASE skipped[r] = 0
    <3>1. n * (n - 1) \in Nat
      <4> HIDE DEF n
      <4>1. n = 0 \/ n - 1 \in Nat
        BY <2>2
      <4> QED
        BY <2>2, <4>1
    <3> DEFINE k == n * (n - 1)
    <3> HIDE DEF k
    <3>2. 0 <= k \div 2
      BY <3>1 DEF k
    <3> QED
      BY <2>5, <3>2 DEF k
  <2> QED
    BY <2>1, <2>4, <2>5
<1> QED
  BY <1>1, <1>2, RotationInitInv, PTL DEF RotationSpec

-----------------------------------------------------------------------------
(* The balancer, for every set of threads that dispatch through it.         *)

TargetRec == [id : Ids, status : {"available", "busy", "offline"}, active : Nat]

\* What a thread has in hand is a record with the fields of Idle.
HandFields == {"pc", "key", "seen", "cands", "eligible", "miss", "target", "ok"}

HandsOK == DOMAIN inHand = Dispatchers /\ \A th \in Dispatchers : DOMAIN inHand[th] = HandFields

\* The dispatches that have counted a target's load and are not finished.
Owners(id) == {th \in Dispatchers : inHand[th].target = id /\ inHand[th].pc \in {"send", "record", "done"}}

\* LoadHasAnOwner place by place, with the types it needs.
LoadInv ==
  /\ targets \in Seq(TargetRec)
  /\ HandsOK
  /\ \A i \in 1 .. Len(targets) : targets[i].active <= Cardinality(Owners(targets[i].id))

LEMMA OwnersCount ==
  ASSUME IsFiniteSet(Dispatchers), NEW id
  PROVE  IsFiniteSet(Owners(id)) /\ Cardinality(Owners(id)) \in Nat
BY FS_Subset, FS_CardinalityType DEF Owners

LEMMA TargetAt ==
  ASSUME LoadInv
  PROVE  /\ Len(targets) \in Nat /\ DOMAIN targets = 1 .. Len(targets)
         /\ \A i \in 1 .. Len(targets) : targets[i] \in TargetRec
BY DEF LoadInv

LEMMA BalancerInitInv ==
  ASSUME IsFiniteSet(Dispatchers), Start \in Seq(Ids), BalancerInit
  PROVE  LoadInv
<1>1. targets = [i \in 1 .. Len(Start) |-> [id |-> Start[i], status |-> "available", active |-> 0]]
  BY DEF BalancerInit
<1>2. Len(Start) \in Nat /\ \A i \in 1 .. Len(Start) : Start[i] \in Ids
  OBVIOUS
<1>3. \A i \in 1 .. Len(Start) : targets[i] \in TargetRec /\ targets[i].active = 0
  BY <1>1, <1>2 DEF TargetRec
<1>4. targets \in Seq(TargetRec) /\ Len(targets) = Len(Start)
  BY <1>1, <1>2, <1>3
<1>5. HandsOK
  BY DEF BalancerInit, HandsOK, HandFields, Idle
<1> QED
  BY <1>2, <1>3, <1>4, <1>5, OwnersCount DEF LoadInv

\* A step that leaves the targets alone and takes no owner away.
LEMMA LoadStays ==
  ASSUME IsFiniteSet(Dispatchers), LoadInv, HandsOK', UNCHANGED targets,
         \A id \in Ids : Owners(id) \subseteq Owners(id)'
  PROVE  LoadInv'
<1>1. ASSUME NEW i \in 1 .. Len(targets)
      PROVE  targets[i].active <= Cardinality(Owners(targets[i].id)')
  <2> targets[i] \in TargetRec
    BY DEF LoadInv
  <2>1. targets[i].id \in Ids /\ targets[i].active \in Nat
    BY DEF TargetRec
  <2> DEFINE id == targets[i].id
             old == Owners(id)
             new == Owners(id)'
  <2>2. IsFiniteSet(new) /\ IsFiniteSet(old) /\ old \subseteq new
    BY <2>1, OwnersCount, FS_Subset DEF Owners
  <2>3. Cardinality(old) <= Cardinality(new) /\ Cardinality(old) \in Nat /\ Cardinality(new) \in Nat
    BY <2>2, FS_Subset, FS_CardinalityType
  <2>4. targets[i].active <= Cardinality(old)
    BY DEF LoadInv
  <2> HIDE DEF old, new
  <2>5. targets[i].active <= Cardinality(new)
    BY <2>1, <2>3, <2>4
  <2> QED
    BY <2>5 DEF new
<1> QED
  BY <1>1 DEF LoadInv

\* A step that leaves the threads alone, and each target's load as it was or 0.
LEMMA LoadKept ==
  ASSUME IsFiniteSet(Dispatchers), LoadInv, UNCHANGED inHand, targets' \in Seq(TargetRec),
         \A j \in 1 .. Len(targets') :
            \/ targets'[j].active = 0
            \/ \E i \in 1 .. Len(targets) : targets[i].id = targets'[j].id /\ targets[i].active = targets'[j].active
  PROVE  LoadInv'
<1>1. HandsOK' /\ \A id : Owners(id)' = Owners(id)
  BY DEF LoadInv, HandsOK, Owners
<1>2. ASSUME NEW j \in 1 .. Len(targets')
      PROVE  targets'[j].active <= Cardinality(Owners(targets'[j].id))
  <2>1. CASE targets'[j].active = 0
    BY <2>1, OwnersCount
  <2>2. CASE \E i \in 1 .. Len(targets) : targets[i].id = targets'[j].id /\ targets[i].active = targets'[j].active
    BY <2>2 DEF LoadInv
  <2> QED
    BY <2>1, <2>2
<1>3. \A j \in 1 .. Len(targets') : Owners(targets[j].id)' = Owners(targets'[j].id)
  BY DEF Owners
<1> QED
  BY <1>1, <1>2, <1>3 DEF LoadInv

\* A step of a thread that leaves the targets alone: it starts or it has
\* counted nothing yet, or it goes on with the target it has counted.
LEMMA LoadCarried ==
  ASSUME IsFiniteSet(Dispatchers), LoadInv, UNCHANGED targets, NEW th \in Dispatchers, HandsOK',
         \A u \in Dispatchers \ {th} : inHand'[u] = inHand[u],
         \/ inHand[th].pc \notin {"send", "record", "done"}
         \/ inHand'[th].pc \in {"send", "record", "done"} /\ inHand'[th].target = inHand[th].target
  PROVE  LoadInv'
<1>1. \A id \in Ids : Owners(id) \subseteq Owners(id)'
  BY DEF Owners
<1> QED
  BY <1>1, LoadStays

LEMMA DispatchKeepsLoad ==
  ASSUME IsFiniteSet(Dispatchers), LoadInv, NEW th \in Dispatchers, Dispatch(th)
  PROVE  LoadInv'
<1> DEFINE Moves == HandsOK' /\ \A u \in Dispatchers \ {th} : inHand'[u] = inHand[u]
<1> DOMAIN inHand = Dispatchers /\ \A u \in Dispatchers : DOMAIN inHand[u] = HandFields
  BY DEF LoadInv, HandsOK
<1>1. CASE \E key \in Keys \cup {NoKey} : Refresh(th, key)
  <2>1. Moves /\ inHand[th].pc = "idle" /\ UNCHANGED targets
    BY <1>1 DEF Refresh, At, Idle, HandsOK, HandFields
  <2> QED
    BY <2>1, LoadCarried
<1>2. CASE CopyTargets(th)
  <2>1. Moves /\ inHand[th].pc = "copy" /\ UNCHANGED targets
    BY <1>2 DEF CopyTargets, At, HandsOK, HandFields
  <2> QED
    BY <2>1, LoadCarried
<1>3. CASE Filter(th)
  <2>1. PICK cands, eligible, miss :
          inHand' = [inHand EXCEPT ![th].pc = "pick", ![th].seen = <<>>, ![th].cands = cands,
                           ![th].eligible = eligible, ![th].miss = miss]
    BY <1>3 DEF Filter
  <2>2. Moves
    BY <2>1 DEF HandsOK, HandFields
  <2>3. inHand[th].pc = "filter" /\ UNCHANGED targets
    BY <1>3 DEF Filter, At
  <2> QED
    BY <2>2, <2>3, LoadCarried
<1>4. CASE Pick(th)
  <2>1. Moves /\ inHand[th].pc = "pick" /\ UNCHANGED targets
    BY <1>4 DEF Pick, At, Idle, HandsOK, HandFields
  <2> QED
    BY <2>1, LoadCarried
<1>5. CASE Send(th)
  <2>1. Moves /\ inHand'[th].pc \in {"record", "done"} /\ inHand'[th].target = inHand[th].target /\ UNCHANGED targets
    BY <1>5 DEF Send, HandsOK, HandFields
  <2> QED
    BY <2>1, LoadCarried
<1>6. CASE RecordOutcome(th)
  <2>1. Moves /\ inHand'[th].pc = "done" /\ inHand'[th].target = inHand[th].target /\ UNCHANGED targets
    BY <1>6 DEF RecordOutcome, Go, HandsOK, HandFields
  <2> QED
    BY <2>1, LoadCarried
<1>7. CASE Count(th)
  <2>1. /\ Moves /\ inHand[th].pc = "count"
        /\ inHand'[th].pc = "send" /\ inHand'[th].target = inHand[th].target
    BY <1>7 DEF Count, At, Go, HandsOK, HandFields
  <2>2. targets' = [i \in 1 .. Len(targets) |->
                      IF targets[i].id = inHand[th].target THEN [targets[i] EXCEPT !.active = @ + 1] ELSE targets[i]]
    BY TargetAt, <1>7 DEF Count, SetLoad, LoadInv, TargetRec
  <2>3. targets' \in Seq(TargetRec) /\ Len(targets') = Len(targets)
    BY <2>2, TargetAt DEF LoadInv, TargetRec
  <2>4. \A i \in 1 .. Len(targets) : targets'[i].id = targets[i].id
    BY <2>2, TargetAt DEF TargetRec
  <2>5. ASSUME NEW i \in 1 .. Len(targets) PROVE targets'[i].active <= Cardinality(Owners(targets[i].id)')
    <3> DEFINE id == targets[i].id
               old == Owners(id)
               new == Owners(id)'
    <3>1. /\ targets[i].active \in Nat /\ targets[i].active <= Cardinality(old)
          /\ targets'[i].active = IF id = inHand[th].target THEN targets[i].active + 1 ELSE targets[i].active
      BY <2>2, TargetAt DEF LoadInv, TargetRec
    <3>2. th \notin old /\ \A u : u \in new <=> u \in old \/ (u = th /\ id = inHand[th].target)
      BY <2>1, <2>4 DEF Owners
    <3>3. IsFiniteSet(old) /\ Cardinality(old) \in Nat
      BY OwnersCount
    <3> HIDE DEF old, new, id
    <3>4. (id = inHand[th].target => new = old \cup {th}) /\ (id # inHand[th].target => new = old)
      BY <3>2
    <3>5. Cardinality(new) = IF id = inHand[th].target THEN Cardinality(old) + 1 ELSE Cardinality(old)
      BY <3>2, <3>3, <3>4, FS_AddElement
    <3>6. targets'[i].active <= Cardinality(new)
      BY <3>1, <3>3, <3>5
    <3> QED
      BY <3>6 DEF new, id
  <2> QED
    BY <2>1, <2>3, <2>4, <2>5 DEF LoadInv, Owners
<1>8. CASE Finish(th)
  <2>1. Moves /\ inHand'[th].pc = "idle"
    BY <1>8 DEF Finish, Idle, HandsOK, HandFields
  <2>2. targets' = [i \in 1 .. Len(targets) |->
                      IF targets[i].id = inHand[th].target
                      THEN [targets[i] EXCEPT !.active = IF @ = 0 THEN 0 ELSE @ - 1] ELSE targets[i]]
    BY TargetAt, <1>8 DEF Finish, SetLoad, LoadInv, TargetRec
  <2>3. targets' \in Seq(TargetRec) /\ Len(targets') = Len(targets)
    <3>1. \A i \in 1 .. Len(targets) :
            (IF targets[i].active = 0 THEN 0 ELSE targets[i].active - 1) \in Nat
      BY TargetAt DEF TargetRec
    <3>2. \A i \in 1 .. Len(targets) : targets'[i] \in TargetRec
      BY <2>2, <3>1, TargetAt DEF TargetRec
    <3> QED
      BY <2>2, <3>2, TargetAt
  <2>4. \A i \in 1 .. Len(targets) : targets'[i].id = targets[i].id
    BY <2>2, TargetAt DEF TargetRec
  <2>5. ASSUME NEW i \in 1 .. Len(targets) PROVE targets'[i].active <= Cardinality(Owners(targets[i].id)')
    <3> DEFINE id == targets[i].id
               old == Owners(id)
               new == Owners(id)'
    <3>1. /\ targets[i].active \in Nat /\ targets[i].active <= Cardinality(old)
          /\ id = inHand[th].target =>
               targets'[i].active = IF targets[i].active = 0 THEN 0 ELSE targets[i].active - 1
          /\ id # inHand[th].target => targets'[i].active = targets[i].active
      BY <2>2, TargetAt DEF LoadInv, TargetRec
    <3>0. \A u : u \in new <=> u \in old /\ u # th
      BY <2>1, <2>4 DEF Owners
    <3>2. new = old \ {th} /\ (id # inHand[th].target => th \notin old)
      BY <3>0 DEF Owners
    <3>3. IsFiniteSet(old) /\ Cardinality(old) \in Nat /\ Cardinality(new) \in Nat
      BY <3>2, OwnersCount, FS_RemoveElement, FS_CardinalityType
    <3> HIDE DEF old, new, id
    <3>4. Cardinality(new) = IF th \in old THEN Cardinality(old) - 1 ELSE Cardinality(old)
      BY <3>2, <3>3, FS_RemoveElement
    <3>5. targets'[i].active <= Cardinality(new)
      BY <3>1, <3>2, <3>3, <3>4
    <3> QED
      BY <3>5 DEF new, id
  <2> QED
    BY <2>1, <2>3, <2>4, <2>5 DEF LoadInv, Owners
<1> QED
  BY <1>1, <1>2, <1>3, <1>4, <1>5, <1>6, <1>7, <1>8 DEF Dispatch

LEMMA OutsideKeepsLoad ==
  ASSUME IsFiniteSet(Dispatchers), LoadInv, NEW id \in Ids, Outside(id)
  PROVE  LoadInv'
<1> DEFINE new == [id |-> id, status |-> "available", active |-> 0]
<1>0. new \in TargetRec /\ new.active = 0
  BY DEF TargetRec
<1>1. CASE AddTarget(id)
  <2>1. UNCHANGED inHand
    BY <1>1 DEF AddTarget, Command
  <2>2. CASE targets' = Append(targets, new)
    <3> HIDE DEF new
    <3>1. /\ targets' \in Seq(TargetRec) /\ Len(targets') = Len(targets) + 1
          /\ \A j \in 1 .. Len(targets) : targets'[j] = targets[j]
          /\ targets'[Len(targets) + 1] = new
      BY <1>0, <2>2, AppendProperties DEF LoadInv
    <3>2. \A j \in 1 .. Len(targets') : j \in 1 .. Len(targets) \/ targets'[j].active = 0
      BY <1>0, <3>1, TargetAt
    <3> QED
      BY <2>1, <3>1, <3>2, LoadKept
  <2>3. CASE targets' = [i \in 1 .. Len(targets) |-> IF targets[i].id = id THEN new ELSE targets[i]]
    <3> HIDE DEF new
    <3>1. targets' \in Seq(TargetRec) /\ Len(targets') = Len(targets)
      BY <1>0, <2>3, TargetAt
    <3>2. \A j \in 1 .. Len(targets) : targets'[j].active = 0 \/ targets'[j] = targets[j]
      BY <1>0, <2>3
    <3> QED
      BY <2>1, <3>1, <3>2, LoadKept
  <2> QED
    BY <1>1, <2>2, <2>3, TargetAt DEF AddTarget
<1>2. CASE RemoveTarget(id)
  <2> DEFINE stay == {t \in Range(targets) : t.id # id}
  <2>1. targets' = KeepOnly(targets, stay) /\ UNCHANGED inHand
    BY <1>2 DEF RemoveTarget, Command
  <2>2. targets \in Seq(TargetRec)
    BY DEF LoadInv
  <2>3. targets' \in Seq(TargetRec) /\ Range(targets') = Range(targets) \cap stay
    BY <2>1, <2>2, KeepRange
  <2>4. \A j \in 1 .. Len(targets') : \E i \in 1 .. Len(targets) : targets[i] = targets'[j]
    <3>0. DOMAIN targets' = 1 .. Len(targets')
      BY <2>3
    <3>1. ASSUME NEW j \in 1 .. Len(targets') PROVE targets'[j] \in Range(targets)
      <4>1. targets'[j] \in Range(targets')
        BY <3>0 DEF Range
      <4> QED
        BY <2>3, <4>1
    <3> QED
      BY <3>1, TargetAt DEF Range
  <2> QED
    BY <2>1, <2>3, <2>4, LoadKept
<1>3. ASSUME NEW status \in {"available", "busy", "offline"}, SetStatus(id, status)
      PROVE  LoadInv'
  <2>1. targets' = [i \in 1 .. Len(targets) |->
                      IF targets[i].id = id THEN [targets[i] EXCEPT !.status = status] ELSE targets[i]]
    BY <1>3, TargetAt DEF SetStatus
  <2>2. UNCHANGED inHand
    BY <1>3 DEF SetStatus, Command
  <2>3. \A i \in 1 .. Len(targets) : targets'[i] \in TargetRec
    BY <2>1, TargetAt DEF TargetRec
  <2>4. \A i \in 1 .. Len(targets) : targets'[i].id = targets[i].id /\ targets'[i].active = targets[i].active
    BY <2>1, TargetAt DEF TargetRec
  <2>5. targets' \in Seq(TargetRec) /\ Len(targets') = Len(targets)
    BY <2>1, <2>3, TargetAt
  <2> QED
    BY <2>2, <2>4, <2>5, LoadKept
<1>4. CASE ResetLoad(id)
  <2>1. targets' = [i \in 1 .. Len(targets) |->
                      IF targets[i].id = id THEN [targets[i] EXCEPT !.active = 0] ELSE targets[i]]
    BY <1>4, TargetAt DEF ResetLoad, SetLoad, TargetRec
  <2>2. UNCHANGED inHand
    BY <1>4 DEF ResetLoad, Command
  <2>3. \A i \in 1 .. Len(targets) : targets'[i] \in TargetRec
    BY <2>1, TargetAt DEF TargetRec
  <2>4. \A i \in 1 .. Len(targets) : targets'[i].active = 0 \/ targets'[i] = targets[i]
    BY <2>1, TargetAt DEF TargetRec
  <2>5. targets' \in Seq(TargetRec) /\ Len(targets') = Len(targets)
    BY <2>1, <2>3, TargetAt
  <2> QED
    BY <2>2, <2>4, <2>5, LoadKept
<1>5. CASE UNCHANGED <<targets, inHand>>
  BY <1>5, LoadKept DEF LoadInv
<1> QED
  BY <1>1, <1>2, <1>3, <1>4, <1>5 DEF Outside, RemoveHealth, Heartbeat, CoolDown, HeartbeatAges, Fault, Repair

\* dispatch takes the load off again that it has counted, under every
\* interleaving of the threads, whatever the send came to and whoever adds,
\* removes or resets the target meanwhile (before_send, update_load, add_target,
\* remove_target): no count stays behind without its dispatch.
THEOREM NoLoadIsLeftBehind ==
  ASSUME IsFiniteSet(Dispatchers), Start \in Seq(Ids)
  PROVE  BalancerSpec => []LoadHasAnOwner
<1>1. BalancerInit => LoadInv
  BY BalancerInitInv
<1>2. LoadInv /\ [BalancerNext]_balancerVars => LoadInv'
  <2>1. LoadInv /\ BalancerNext => LoadInv'
    BY DispatchKeepsLoad, OutsideKeepsLoad DEF BalancerNext
  <2>2. LoadInv /\ UNCHANGED balancerVars => LoadInv'
    BY LoadKept DEF balancerVars, LoadInv
  <2> QED
    BY <2>1, <2>2
<1>3. LoadInv => LoadHasAnOwner
  BY TargetAt DEF LoadInv, LoadHasAnOwner, Range, Owners
<1> QED
  BY <1>1, <1>2, <1>3, PTL DEF BalancerSpec

\* A health record has the fields of NewHealth.
HealthFields == {"healthy", "fails", "succs", "circuit", "cooled", "beat"}
HealthOK(h) == \A i \in DOMAIN h : DOMAIN h[i] = HealthFields

\* The dispatches that can still bring a send to a target.
Coming(id) ==
  {th \in Dispatchers :
     \/ inHand[th].pc = "pick" /\ \E t \in Range(inHand[th].cands) : t.id = id
     \/ inHand[th].pc \in {"count", "send"} /\ inHand[th].target = id}

ShedTypes ==
  /\ DOMAIN late = Ids /\ \A id \in Ids : late[id] \in Nat
  /\ HealthOK(health)
  /\ cursor \in Nat
  /\ \A th \in Dispatchers :
       /\ inHand[th].pc \in {"copy", "filter", "pick"} => inHand[th].key \in Keys \cup {NoKey}
       /\ inHand[th].pc = "filter" => inHand[th].seen \in Seq(TargetRec)
       /\ inHand[th].pc = "pick" => inHand[th].cands \in Seq(TargetRec)

\* The sends to a target whose circuit is open and has not cooled down, those
\* that were and those that can still be, are not all of the threads': the one
\* that opened it has sent before.
Sheds ==
  \A id \in Ids :
    IF Shut(health, id) THEN late[id] + Cardinality(Coming(id)) < Cardinality(Dispatchers)
    ELSE late[id] = 0

LEMMA ComingCount ==
  ASSUME IsFiniteSet(Dispatchers), NEW id
  PROVE  IsFiniteSet(Coming(id)) /\ Cardinality(Coming(id)) \in Nat /\ Cardinality(Dispatchers) \in Nat
BY FS_Subset, FS_CardinalityType DEF Coming

\* Refreshing opens no circuit.
LEMMA RefreshOpensNone ==
  ASSUME HealthOK(health)
  PROVE  HealthOK(RefreshTargets) /\ \A id : Shut(RefreshTargets, id) => Shut(health, id)
<1>1. CASE ~Enabled
  BY <1>1 DEF RefreshTargets
<1>2. CASE Enabled
  <2> DEFINE new == [id \in DOMAIN health \cup Present |->
                       IF id \in Present THEN Refreshed(EntryMut(id)) ELSE health[id]]
  <2>1. RefreshTargets = new
    BY <1>2 DEF RefreshTargets
  <2>2. \A id : DOMAIN EntryMut(id) = HealthFields
    BY DEF HealthOK, EntryMut, NewHealth, HealthFields
  <2>3. ASSUME NEW id
        PROVE  /\ DOMAIN Refreshed(EntryMut(id)) = HealthFields
               /\ Refreshed(EntryMut(id)).circuit = "open" /\ ~Refreshed(EntryMut(id)).cooled =>
                    EntryMut(id).circuit = "open" /\ ~EntryMut(id).cooled
    <3> DEFINE h == EntryMut(id)
    <3>1. DOMAIN h = HealthFields
      BY <2>2
    <3> HIDE DEF h
    <3>2. /\ DOMAIN Refreshed(h) = HealthFields
          /\ Refreshed(h).circuit = "open" /\ ~Refreshed(h).cooled => h.circuit = "open" /\ ~h.cooled
      <4> DEFINE g == IF h.circuit = "open" /\ h.cooled /\ config.failures > 0
                      THEN [h EXCEPT !.circuit = "half_open", !.cooled = FALSE, !.succs = 0] ELSE h
      <4>1. /\ DOMAIN g = HealthFields
            /\ g.circuit = "open" /\ ~g.cooled => h.circuit = "open" /\ ~h.cooled
        BY <3>1 DEF HealthFields
      <4>2. Refreshed(h) = [g EXCEPT !.healthy = @ /\ ~HeartbeatExpired(g)]
        BY DEF Refreshed
      <4> HIDE DEF g
      <4>3. /\ DOMAIN Refreshed(h) = HealthFields
            /\ Refreshed(h).circuit = g.circuit /\ Refreshed(h).cooled = g.cooled
        BY <4>1, <4>2 DEF HealthFields
      <4> QED
        BY <4>1, <4>3
    <3> QED
      BY <3>2 DEF h
  <2>4. \A id \in DOMAIN new :
          /\ DOMAIN new[id] = HealthFields
          /\ new[id].circuit = "open" /\ ~new[id].cooled =>
               id \in DOMAIN health /\ health[id].circuit = "open" /\ ~health[id].cooled
    BY <2>3 DEF EntryMut, NewHealth, HealthOK
  <2> QED
    BY <2>1, <2>4 DEF HealthOK, Shut
<1> QED
  BY <1>1, <1>2

\* A target whose circuit is open and has not cooled down is no candidate.
LEMMA ShutIsNoCandidate ==
  ASSUME NEW ts \in Seq(TargetRec), NEW h
  PROVE  /\ Candidates(ts, h) \in Seq(TargetRec)
         /\ \A id : Shut(h, id) => \A t \in Range(Candidates(ts, h)) : t.id # id
<1> DEFINE On(is) == {t \in Range(ts) : IsHealthy(h, t.id) /\ HealthOf(h, t.id).circuit = is}
<1>1. Available(ts) \in Seq(TargetRec)
  BY KeepRange DEF Available
<1>2. ASSUME NEW is
      PROVE  /\ Circuits(ts, h, is) \in Seq(TargetRec)
             /\ \A t \in Range(Circuits(ts, h, is)) : HealthOf(h, t.id).circuit = is
  <2>1. Circuits(ts, h, is) = KeepOnly(Available(ts), On(is))
    BY DEF Circuits
  <2>2. Circuits(ts, h, is) \in Seq(TargetRec) /\ Range(Circuits(ts, h, is)) \subseteq On(is)
    BY <1>1, <2>1, KeepRange
  <2> QED
    BY <2>2
<1>3. \A id : Shut(h, id) => HealthOf(h, id).circuit = "open"
  BY DEF Shut, HealthOf
<1>4. \/ Candidates(ts, h) = Circuits(ts, h, "closed")
      \/ Candidates(ts, h) = Circuits(ts, h, "half_open")
  BY DEF Candidates
<1> QED
  BY <1>2, <1>3, <1>4

\* The wheel holds candidates, and something if there are any.
LEMMA WheelTurns ==
  ASSUME Weight \in [Ids -> Nat], NEW cands \in Seq(TargetRec), cands # <<>>
  PROVE  Wheel(cands) \in Seq(Range(cands)) \ {<<>>}
<1>1. Len(cands) \in Nat /\ Len(cands) > 0 /\ DOMAIN cands = 1 .. Len(cands)
      /\ \A i \in 1 .. Len(cands) : cands[i] \in TargetRec
  OBVIOUS
<1>2. cands \in Seq(Range(cands))
  BY <1>1 DEF Range
<1>8. CASE config.strategy = "weighted"
  <2> DEFINE many(i) == IF Weight[cands[i].id] = 0 THEN 1 ELSE Weight[cands[i].id]
             repeated == [i \in DOMAIN cands |-> [j \in 1 .. many(i) |-> cands[i]]]
  <2>1. \A i \in 1 .. Len(cands) : many(i) \in Nat /\ many(i) >= 1
    BY <1>1 DEF TargetRec
  <2> HIDE DEF many
  <2>2. ASSUME NEW i \in 1 .. Len(cands)
        PROVE  [j \in 1 .. many(i) |-> cands[i]] \in Seq(Range(cands)) \ {<<>>}
    <3>1. cands[i] \in Range(cands)
      BY <1>1 DEF Range
    <3>2. [j \in 1 .. many(i) |-> cands[i]] \in Seq(Range(cands))
          /\ Len([j \in 1 .. many(i) |-> cands[i]]) = many(i)
      BY <2>1, <3>1
    <3>3. [j \in 1 .. many(i) |-> cands[i]] # <<>>
      BY <2>1, <3>2
    <3> QED
      BY <3>2, <3>3
  <2>3. repeated \in Seq(Seq(Range(cands)) \ {<<>>}) /\ repeated # <<>>
    <3>1. repeated \in Seq(Seq(Range(cands)) \ {<<>>}) /\ Len(repeated) = Len(cands)
      BY <1>1, <2>2
    <3> QED
      BY <1>1, <3>1
  <2>4. Wheel(cands) = FlattenSeq(repeated)
    BY <1>8 DEF Wheel, Expanded, many
  <2> HIDE DEF repeated
  <2> QED
    BY <2>3, <2>4, FlattenFull
<1>9. CASE config.strategy # "weighted"
  BY <1>1, <1>2, <1>9 DEF Wheel
<1> QED
  BY <1>8, <1>9

\* A choice is one of the candidates, where there are any and no key is missing.
LEMMA ChosenIsCandidate ==
  ASSUME Weight \in [Ids -> Nat], Hash \in [Keys -> Nat], cursor \in Nat, NEW th,
         inHand[th].cands \in Seq(TargetRec), inHand[th].key \in Keys \cup {NoKey},
         inHand[th].cands # <<>>, config.strategy = "hashing" => inHand[th].key # NoKey
  PROVE  \E t \in Range(inHand[th].cands) : t.id = Chosen(th)
<1> DEFINE cands == inHand[th].cands
           index == IF config.strategy = "least_connections" THEN LeastConnections(cands)
                    ELSE IF config.strategy = "hashing" THEN (Hash[inHand[th].key] % Len(cands)) + 1
                    ELSE RoundRobinIndex(cursor, Len(Wheel(cands)))
<1>1. /\ Chosen(th) = Wheel(cands)[index].id
      /\ cands # <<>> /\ (config.strategy = "hashing" => inHand[th].key # NoKey)
  BY DEF Chosen
<1>2. Len(cands) \in Nat /\ Len(cands) > 0 /\ DOMAIN cands = 1 .. Len(cands)
      /\ \A i \in 1 .. Len(cands) : cands[i] \in TargetRec
  BY <1>1
<1>3. cands \in Seq(Range(cands))
  BY <1>2 DEF Range
<1> DEFINE Fits == Wheel(cands) \in Seq(Range(cands)) /\ index \in 1 .. Len(Wheel(cands))
<1>4. Fits => \E t \in Range(cands) : t.id = Chosen(th)
  <2> HIDE DEF index, cands
  <2>1. Fits => Wheel(cands)[index] \in Range(cands)
    OBVIOUS
  <2> QED
    BY <1>1, <2>1
<1> HIDE DEF cands
<1>5. ASSUME config.strategy = "least_connections" PROVE Fits
  <2>1. Wheel(cands) = cands /\ index = LeastConnections(cands)
    BY <1>5 DEF Wheel
  <2>2. LeastConnections(cands) \in 1 .. Len(cands)
    <3> DEFINE Loads == {cands[i].active : i \in 1 .. Len(cands)}
               Least(i) == /\ \A j \in DOMAIN cands : cands[i].active <= cands[j].active
                           /\ \A j \in 1 .. i - 1 : cands[i].active < cands[j].active
    <3> HIDE DEF index, Least
    <3>0. \A i \in 1 .. Len(cands) : cands[i].active \in Nat
      <4>1. \A t \in TargetRec : t.active \in Nat
        BY DEF TargetRec
      <4> QED
        BY <1>2, <4>1
    <3>11. 1 \in 1 .. Len(cands)
      BY <1>2
    <3>1. Loads \in SUBSET Nat /\ Loads # {} /\ \A i \in 1 .. Len(cands) : cands[i].active \in Nat
      BY ONLY <3>0, <3>11
    <3>2. PICK low \in Loads : \A n \in Loads : low <= n
      BY <3>1, LeastExists
    <3> DEFINE Spots == {i \in 1 .. Len(cands) : cands[i].active = low}
    <3>3. Spots \in SUBSET Nat /\ Spots # {}
      BY <3>2
    <3>4. PICK p \in Spots : \A n \in Spots : p <= n
      <4> HIDE DEF Spots
      <4> QED
        BY <3>3, LeastExists
    <3>5. p \in 1 .. Len(cands) /\ cands[p].active = low
      BY <3>4
    <3>6. \A j \in 1 .. Len(cands) : low <= cands[j].active
      BY <3>2
    <3>7. ASSUME NEW j \in 1 .. p - 1 PROVE cands[p].active < cands[j].active
      <4>1. j \in 1 .. Len(cands) /\ j \notin Spots
        BY <1>2, <3>4, <3>5
      <4>2. cands[j].active # low /\ cands[j].active \in Nat /\ low \in Nat /\ low <= cands[j].active
        BY <3>1, <3>2, <3>6, <4>1
      <4> QED
        BY <3>5, <4>2
    <3>8. Least(p) /\ p \in DOMAIN cands
      BY <1>2, <3>5, <3>6, <3>7 DEF Least
    <3>9. LeastConnections(cands) = CHOOSE i \in DOMAIN cands : Least(i)
      BY DEF LeastConnections, Least
    <3>10. LeastConnections(cands) \in DOMAIN cands
      BY <3>8, <3>9
    <3> QED
      BY <1>2, <3>10
  <2> QED
    BY <1>2, <1>3, <2>1, <2>2
<1>6. ASSUME config.strategy = "hashing" PROVE Fits
  <2>1. Wheel(cands) = cands /\ index = (Hash[inHand[th].key] % Len(cands)) + 1
    BY <1>6 DEF Wheel
  <2>2. Hash[inHand[th].key] \in Nat
    BY <1>1, <1>6
  <2>3. index \in 1 .. Len(cands)
    BY <1>2, <2>1, <2>2
  <2> QED
    BY <1>3, <2>1, <2>3
<1>7. ASSUME config.strategy \notin {"least_connections", "hashing"} PROVE Fits
  <2>1. Wheel(cands) \in Seq(Range(cands)) \ {<<>>}
    BY <1>1, WheelTurns DEF cands
  <2> DEFINE w == Wheel(cands)
  <2>2. index = (cursor % Len(w)) + 1
    BY <1>7 DEF RoundRobinIndex
  <2>3. w \in Seq(Range(cands)) /\ Len(w) \in Nat /\ Len(w) > 0
    BY <2>1
  <2> HIDE DEF w
  <2>4. index \in 1 .. Len(w)
    <3> HIDE DEF index
    <3> QED
      BY <2>2, <2>3
  <2> QED
    BY <2>3, <2>4 DEF w
<1> QED
  <2>1. Fits
    <3> HIDE DEF Fits
    <3> QED
      BY <1>5, <1>6, <1>7
  <2> QED
    BY <1>4, <2>1 DEF cands

\* The bound again after a step that opens no circuit and brings no send to a
\* target whose circuit is open.
LEMMA ShedsOn ==
  ASSUME IsFiniteSet(Dispatchers), ShedTypes, Sheds, ShedTypes',
         \A id \in Ids : IF Shut(health', id)
                         THEN /\ Shut(health, id) /\ Coming(id)' \subseteq Coming(id)
                              /\ late'[id] = late[id]
                         ELSE late'[id] = 0
  PROVE  Sheds'
<1>1. ASSUME NEW id \in Ids, Shut(health', id)
      PROVE  late'[id] + Cardinality(Coming(id)') < Cardinality(Dispatchers)
  <2> DEFINE before == Coming(id)
             after == Coming(id)'
  <2>1. late[id] + Cardinality(before) < Cardinality(Dispatchers) /\ late[id] \in Nat /\ late'[id] = late[id]
    BY <1>1 DEF Sheds, ShedTypes
  <2>2. IsFiniteSet(before) /\ Cardinality(before) \in Nat /\ Cardinality(Dispatchers) \in Nat /\ after \subseteq before
    BY <1>1, ComingCount
  <2>3. Cardinality(after) \in Nat /\ Cardinality(after) <= Cardinality(before)
    BY <2>2, FS_Subset, FS_CardinalityType
  <2> HIDE DEF before, after
  <2>4. late'[id] + Cardinality(after) < Cardinality(Dispatchers)
    BY <2>1, <2>2, <2>3
  <2> QED
    BY <2>4 DEF after
<1> QED
  BY <1>1 DEF Sheds

\* KeepLate, and what it comes to where no circuit opens.
LEMMA LateKept ==
  ASSUME ShedTypes, KeepLate
  PROVE  /\ DOMAIN late' = Ids /\ \A id \in Ids : late'[id] \in Nat
         /\ \A id \in Ids : late'[id] = IF Shut(health', id) THEN late[id] ELSE 0
BY DEF ShedTypes, KeepLate

LEMMA LateSame ==
  ASSUME ShedTypes, Sheds, UNCHANGED late, \A id \in Ids : Shut(health', id) <=> Shut(health, id)
  PROVE  /\ DOMAIN late' = Ids /\ \A id \in Ids : late'[id] \in Nat
         /\ \A id \in Ids : late'[id] = IF Shut(health', id) THEN late[id] ELSE 0
BY DEF ShedTypes, Sheds

\* A step of one thread, and what it has in hand after it.
LEMMA ThreadSheds ==
  ASSUME IsFiniteSet(Dispatchers), ShedTypes, Sheds, NEW th \in Dispatchers,
         \A u \in Dispatchers \ {th} : inHand'[u] = inHand[u],
         HealthOK(health'), cursor' \in Nat, DOMAIN late' = Ids, \A id \in Ids : late'[id] \in Nat,
         /\ inHand'[th].pc \in {"copy", "filter", "pick"} => inHand'[th].key \in Keys \cup {NoKey}
         /\ inHand'[th].pc = "filter" => inHand'[th].seen \in Seq(TargetRec)
         /\ inHand'[th].pc = "pick" => inHand'[th].cands \in Seq(TargetRec),
         \A id \in Ids : late'[id] = IF Shut(health', id) THEN late[id] ELSE 0,
         \A id \in Ids : Shut(health', id) => Shut(health, id) /\ (th \in Coming(id)' => th \in Coming(id))
  PROVE  ShedTypes' /\ Sheds'
<1>1. ShedTypes'
  <2>1. \A u \in Dispatchers :
          /\ inHand'[u].pc \in {"copy", "filter", "pick"} => inHand'[u].key \in Keys \cup {NoKey}
          /\ inHand'[u].pc = "filter" => inHand'[u].seen \in Seq(TargetRec)
          /\ inHand'[u].pc = "pick" => inHand'[u].cands \in Seq(TargetRec)
    <3> TAKE u \in Dispatchers
    <3>1. CASE u = th
      BY <3>1
    <3>2. CASE u # th
      BY <3>2 DEF ShedTypes
    <3> QED
      BY <3>1, <3>2
  <2> QED
    BY <2>1 DEF ShedTypes
<1>2. \A id \in Ids : Shut(health', id) => Coming(id)' \subseteq Coming(id)
  <2> TAKE id \in Ids
  <2>1. \A u \in Dispatchers \ {th} : u \in Coming(id)' => u \in Coming(id)
    BY DEF Coming
  <2>2. Coming(id)' \subseteq Dispatchers
    BY DEF Coming
  <2> QED
    BY <2>1, <2>2
<1> QED
  BY <1>1, <1>2, ShedsOn

LEMMA DispatchSheds ==
  ASSUME IsFiniteSet(Dispatchers), Weight \in [Ids -> Nat], Hash \in [Keys -> Nat],
         LoadInv, ShedTypes, Sheds, NEW th \in Dispatchers, Dispatch(th)
  PROVE  ShedTypes' /\ Sheds'
<1> DOMAIN inHand = Dispatchers /\ \A u \in Dispatchers : DOMAIN inHand[u] = HandFields
  BY DEF LoadInv, HandsOK
<1> DEFINE Others == \A u \in Dispatchers \ {th} : inHand'[u] = inHand[u]
<1>0. HealthOK(health) /\ cursor \in Nat
  BY DEF ShedTypes
<1>1. ASSUME NEW key \in Keys \cup {NoKey}, Refresh(th, key) PROVE ShedTypes' /\ Sheds'
  <2>1. Others /\ inHand'[th].pc = "copy" /\ inHand'[th].key = key /\ UNCHANGED cursor
    BY <1>1 DEF Refresh, Idle
  <2>2. health' = RefreshTargets /\ KeepLate
    BY <1>1 DEF Refresh
  <2>3. \A id \in Ids : th \notin Coming(id)'
    BY <2>1 DEF Coming
  <2> QED
    BY <1>0, <2>1, <2>2, <2>3, RefreshOpensNone, LateKept, ThreadSheds
<1>2. CASE CopyTargets(th)
  <2>1. /\ Others /\ inHand[th].pc = "copy" /\ UNCHANGED <<cursor, health, late>>
        /\ inHand'[th].pc = "filter" /\ inHand'[th].seen = targets /\ inHand'[th].key = inHand[th].key
    BY <1>2 DEF CopyTargets, At, HandFields
  <2>2. \A id \in Ids : th \notin Coming(id)'
    BY <2>1 DEF Coming
  <2>3. inHand'[th].key \in Keys \cup {NoKey} /\ inHand'[th].seen \in Seq(TargetRec)
    BY <2>1 DEF ShedTypes, LoadInv
  <2> QED
    BY <1>0, <2>1, <2>2, <2>3, LateSame, ThreadSheds
<1>3. CASE Filter(th)
  <2> DEFINE ts == inHand[th].seen
  <2>1. PICK eligible, miss :
          inHand' = [inHand EXCEPT ![th].pc = "pick", ![th].seen = <<>>, ![th].cands = Candidates(ts, health'),
                           ![th].eligible = eligible, ![th].miss = miss]
    BY <1>3 DEF Filter
  <2>2. /\ Others /\ inHand'[th].pc = "pick" /\ inHand'[th].key = inHand[th].key
        /\ inHand'[th].cands = Candidates(ts, health')
    BY <2>1 DEF HandFields
  <2>3. /\ inHand[th].pc = "filter" /\ UNCHANGED cursor /\ KeepLate
        /\ health' = RefreshTargets \/ health' = health
    BY <1>3 DEF Filter, At
  <2>4. ts \in Seq(TargetRec) /\ inHand[th].key \in Keys \cup {NoKey}
    BY <2>3 DEF ShedTypes
  <2>5. /\ inHand'[th].cands \in Seq(TargetRec)
        /\ \A id : Shut(health', id) => \A t \in Range(inHand'[th].cands) : t.id # id
    BY <2>2, <2>4, ShutIsNoCandidate
  <2>6. \A id \in Ids : Shut(health', id) => th \notin Coming(id)'
    BY <2>2, <2>5 DEF Coming
  <2>7. HealthOK(health') /\ \A id : Shut(health', id) => Shut(health, id)
    BY <1>0, <2>3, RefreshOpensNone
  <2> HIDE DEF ts
  <2> QED
    BY <1>0, <2>2, <2>3, <2>4, <2>5, <2>6, <2>7, LateKept, ThreadSheds
<1>4. CASE Pick(th)
  <2>1. inHand[th].pc = "pick" /\ UNCHANGED <<health, late>>
    BY <1>4 DEF Pick, At
  <2>2. inHand[th].cands \in Seq(TargetRec) /\ inHand[th].key \in Keys \cup {NoKey}
    BY <2>1 DEF ShedTypes
  <2>3. CASE Chosen(th) = NoTarget
    <3>1. Others /\ inHand'[th].pc = "idle" /\ UNCHANGED cursor
      BY <1>4, <2>3 DEF Pick, Idle
    <3>2. \A id \in Ids : th \notin Coming(id)'
      BY <3>1 DEF Coming
    <3> QED
      BY <1>0, <2>1, <3>1, <3>2, LateSame, ThreadSheds
  <2>4. CASE Chosen(th) # NoTarget
    <3>1. Others /\ inHand'[th].pc = "count" /\ inHand'[th].target = Chosen(th)
      BY <1>4, <2>4 DEF Pick, Idle
    <3>2. cursor' \in Nat
      <4>1. CASE UNCHANGED cursor
        BY <1>0, <4>1
      <4>2. CASE cursor' = RoundRobinIndex(cursor, Len(Wheel(inHand[th].cands)))
        <5>0. inHand[th].cands # <<>>
          BY <2>4 DEF Chosen
        <5>1. Len(Wheel(inHand[th].cands)) \in Nat \ {0}
          <6>1. Wheel(inHand[th].cands) \in Seq(Range(inHand[th].cands)) \ {<<>>}
            BY <2>2, <5>0, WheelTurns
          <6> QED
            BY <6>1
        <5> HIDE DEF Others
        <5>2. \A n \in Nat, k \in Nat \ {0} : (n % k) + 1 \in Nat
          OBVIOUS
        <5> QED
          BY <1>0, <4>2, <5>1, <5>2 DEF RoundRobinIndex
      <4> QED
        BY <1>4, <2>4, <4>1, <4>2 DEF Pick
    <3>3. \E t \in Range(inHand[th].cands) : t.id = Chosen(th)
      <4>1. inHand[th].cands # <<>> /\ (config.strategy = "hashing" => inHand[th].key # NoKey)
        BY <2>4 DEF Chosen
      <4> QED
        BY <1>0, <2>2, <4>1, ChosenIsCandidate
    <3>4. \A id \in Ids : th \in Coming(id)' => th \in Coming(id)
      BY <2>1, <3>1, <3>3 DEF Coming
    <3> QED
      BY <1>0, <2>1, <3>1, <3>2, <3>4, LateSame, ThreadSheds
  <2> QED
    BY <2>3, <2>4
<1>5. CASE Count(th)
  <2>1. /\ Others /\ inHand[th].pc = "count" /\ UNCHANGED <<health, late, cursor>>
        /\ inHand'[th].pc = "send" /\ inHand'[th].target = inHand[th].target
    BY <1>5 DEF Count, At, Go, HandFields
  <2>2. \A id \in Ids : th \in Coming(id)' => th \in Coming(id)
    BY <2>1 DEF Coming
  <2> QED
    BY <1>0, <2>1, <2>2, LateSame, ThreadSheds
<1>6. CASE Send(th)
  <2>1. /\ Others /\ inHand[th].pc = "send" /\ UNCHANGED <<health, cursor>>
        /\ inHand'[th].pc \in {"record", "done"}
    BY <1>6 DEF Send, At, HandFields
  <2>2. \A id \in Ids : \/ late'[id] = late[id]
                        \/ /\ id = inHand[th].target /\ Shut(health, id)
                           /\ late'[id] = Upto(late[id] + 1, Cardinality(Dispatchers))
    BY <1>6 DEF Send, ShedTypes
  <2>3. DOMAIN late' = Ids
    BY <1>6 DEF Send, ShedTypes
  <2>4. \A id \in Ids : /\ late'[id] \in Nat /\ late'[id] <= late[id] + 1
                        /\ late'[id] # late[id] => id = inHand[th].target /\ Shut(health, id)
    <3>1. Cardinality(Dispatchers) \in Nat /\ \A id \in Ids : late[id] \in Nat
      BY FS_CardinalityType DEF ShedTypes
    <3>2. \A n \in Nat, cap \in Nat : Upto(n + 1, cap) \in Nat /\ Upto(n + 1, cap) <= n + 1
      BY DEF Upto
    <3> QED
      BY <2>2, <3>1, <3>2
  <2>5. ShedTypes'
    <3>1. \A u \in Dispatchers :
            /\ inHand'[u].pc \in {"copy", "filter", "pick"} => inHand'[u].key \in Keys \cup {NoKey}
            /\ inHand'[u].pc = "filter" => inHand'[u].seen \in Seq(TargetRec)
            /\ inHand'[u].pc = "pick" => inHand'[u].cands \in Seq(TargetRec)
      BY <2>1 DEF ShedTypes
    <3> QED
      BY <1>0, <2>1, <2>3, <2>4, <3>1 DEF ShedTypes
  <2>6. ASSUME NEW id \in Ids, Shut(health, id)
        PROVE  late'[id] + Cardinality(Coming(id)') < Cardinality(Dispatchers)
    <3> DEFINE before == Coming(id)
               after == Coming(id)'
    <3>1. \A u : u \in after <=> u \in before /\ u # th
      BY <2>1 DEF Coming
    <3>2. after = before \ {th}
      BY <3>1
    <3>3. th \in before <=> id = inHand[th].target
      BY <2>1 DEF Coming
    <3>4. IsFiniteSet(before) /\ Cardinality(before) \in Nat /\ Cardinality(Dispatchers) \in Nat
      BY ComingCount
    <3>5. late[id] + Cardinality(before) < Cardinality(Dispatchers) /\ late[id] \in Nat
      BY <2>6 DEF Sheds, ShedTypes
    <3>6. late'[id] \in Nat /\ late'[id] <= late[id] + 1 /\ (late'[id] # late[id] => th \in before)
      BY <2>4, <3>3
    <3> HIDE DEF before, after
    <3>7. Cardinality(after) = IF th \in before THEN Cardinality(before) - 1 ELSE Cardinality(before)
      BY <3>2, <3>4, FS_RemoveElement
    <3>8. late'[id] + Cardinality(after) < Cardinality(Dispatchers)
      BY <3>4, <3>5, <3>6, <3>7
    <3> QED
      BY <3>8 DEF after
  <2>7. \A id \in Ids : ~Shut(health, id) => late'[id] = 0
    BY <2>4 DEF Sheds
  <2>8. Sheds'
    BY <2>1, <2>6, <2>7 DEF Sheds
  <2> QED
    BY <2>5, <2>8
<1>7. CASE RecordOutcome(th)
  <2> DEFINE mine == inHand[th].target
             h == EntryMut(mine)
             new == IF inHand[th].ok THEN Succeeded(h) ELSE Failed(h)
  <2>1. /\ Others /\ inHand[th].pc = "record" /\ inHand'[th].pc = "done" /\ UNCHANGED cursor /\ KeepLate
        /\ health' = [i \in DOMAIN health \cup {mine} |-> IF i = mine THEN new ELSE health[i]]
    BY <1>7 DEF RecordOutcome, At, Go, SetHealth, HandFields
  <2>2. DOMAIN new = HealthFields
    <3>1. DOMAIN h = HealthFields
      BY <1>0 DEF HealthOK, EntryMut, NewHealth, HealthFields
    <3> HIDE DEF h
    <3>2. DOMAIN Succeeded(h) = HealthFields /\ DOMAIN Failed(h) = HealthFields
      BY <3>1 DEF Succeeded, Failed, OpenCircuit, CloseCircuit
    <3> QED
      BY <3>2
  <2> HIDE DEF new
  <2>3. HealthOK(health')
    BY <1>0, <2>1, <2>2 DEF HealthOK
  <2>4. \A id \in Ids : id # mine => (Shut(health', id) <=> Shut(health, id))
    BY <2>1 DEF Shut
  <2>5. /\ DOMAIN late' = Ids /\ \A id \in Ids : late'[id] \in Nat
        /\ \A id \in Ids : late'[id] = IF Shut(health', id) THEN late[id] ELSE 0
    BY <2>1, LateKept
  <2>6. ShedTypes'
    <3>1. \A u \in Dispatchers :
            /\ inHand'[u].pc \in {"copy", "filter", "pick"} => inHand'[u].key \in Keys \cup {NoKey}
            /\ inHand'[u].pc = "filter" => inHand'[u].seen \in Seq(TargetRec)
            /\ inHand'[u].pc = "pick" => inHand'[u].cands \in Seq(TargetRec)
      BY <2>1 DEF ShedTypes
    <3> QED
      BY <1>0, <2>1, <2>3, <2>5, <3>1 DEF ShedTypes
  <2>7. ASSUME NEW id \in Ids, Shut(health', id)
        PROVE  late'[id] + Cardinality(Coming(id)') < Cardinality(Dispatchers)
    <3> DEFINE before == Coming(id)
               after == Coming(id)'
    <3>1. \A u : u \in after <=> u \in before
      BY <2>1 DEF Coming
    <3>2. after = before /\ th \notin before /\ before \subseteq Dispatchers
      BY <2>1, <3>1 DEF Coming
    <3>3. IsFiniteSet(before) /\ Cardinality(before) \in Nat /\ Cardinality(Dispatchers) \in Nat
      BY ComingCount
    <3>4. late'[id] = late[id] /\ late[id] \in Nat
      BY <2>5, <2>7 DEF ShedTypes
    <3>5. /\ Shut(health, id) => late[id] + Cardinality(before) < Cardinality(Dispatchers)
          /\ ~Shut(health, id) => late[id] = 0
      BY DEF Sheds
    <3> HIDE DEF before, after
    <3>6. Cardinality(before) < Cardinality(Dispatchers)
      BY <3>2, <3>3, FS_Subset
    <3>7. late'[id] + Cardinality(after) < Cardinality(Dispatchers)
      BY <3>2, <3>3, <3>4, <3>5, <3>6
    <3> QED
      BY <3>7 DEF after
  <2>8. Sheds'
    BY <2>5, <2>7 DEF Sheds
  <2> QED
    BY <2>6, <2>8
<1>8. CASE Finish(th)
  <2>1. Others /\ inHand'[th].pc = "idle" /\ UNCHANGED <<health, late, cursor>>
    BY <1>8 DEF Finish, Idle
  <2>2. \A id \in Ids : th \notin Coming(id)'
    BY <2>1 DEF Coming
  <2> QED
    BY <1>0, <2>1, <2>2, LateSame, ThreadSheds
<1> QED
  BY <1>1, <1>2, <1>3, <1>4, <1>5, <1>6, <1>7, <1>8 DEF Dispatch

\* A step that leaves the threads alone and keeps account of the sends.
LEMMA OutsideKept ==
  ASSUME IsFiniteSet(Dispatchers), ShedTypes, Sheds, UNCHANGED inHand,
         HealthOK(health'), cursor' \in Nat,
         \A id \in Ids : Shut(health', id) => Shut(health, id),
         KeepLate \/ (UNCHANGED late /\ \A id \in Ids : Shut(health, id) => Shut(health', id))
  PROVE  ShedTypes' /\ Sheds'
<1>1. /\ DOMAIN late' = Ids /\ \A id \in Ids : late'[id] \in Nat
      /\ \A id \in Ids : late'[id] = IF Shut(health', id) THEN late[id] ELSE 0
  BY LateKept, LateSame
<1>2. ShedTypes'
  BY <1>1 DEF ShedTypes
<1>3. \A id : Coming(id)' = Coming(id)
  BY DEF Coming
<1> QED
  BY <1>1, <1>2, <1>3, ShedsOn

\* A record that is written as its fields stay, and its circuit as it is.
LEMMA RecordKept ==
  ASSUME HealthOK(health), NEW id, NEW h, DOMAIN h = HealthFields, SetHealth(id, h),
         h.circuit = EntryMut(id).circuit, h.cooled = EntryMut(id).cooled
  PROVE  HealthOK(health') /\ \A i : Shut(health', i) <=> Shut(health, i)
<1>1. health' = [i \in DOMAIN health \cup {id} |-> IF i = id THEN h ELSE health[i]]
  BY DEF SetHealth
<1>2. HealthOK(health')
  BY <1>1 DEF HealthOK
<1>3. \A i : i # id => (Shut(health', i) <=> Shut(health, i))
  BY <1>1 DEF Shut
<1>4. Shut(health', id) <=> h.circuit = "open" /\ ~h.cooled
  BY <1>1 DEF Shut
<1>5. Shut(health, id) <=> EntryMut(id).circuit = "open" /\ ~EntryMut(id).cooled
  BY DEF Shut, EntryMut, NewHealth
<1> QED
  BY <1>2, <1>3, <1>4, <1>5

LEMMA OutsideSheds ==
  ASSUME IsFiniteSet(Dispatchers), LoadInv, ShedTypes, Sheds, NEW id \in Ids, Outside(id)
  PROVE  ShedTypes' /\ Sheds'
<1>0. HealthOK(health) /\ cursor \in Nat
  BY DEF ShedTypes
<1>1. DOMAIN EntryMut(id) = HealthFields
  BY <1>0 DEF HealthOK, EntryMut, NewHealth, HealthFields
<1>2. CASE AddTarget(id)
  <2>1. UNCHANGED <<inHand, cursor, late>>
    BY <1>2 DEF AddTarget, Command
  <2>2. HealthOK(health') /\ \A i : Shut(health', i) <=> Shut(health, i)
    <3>1. CASE UNCHANGED health
      BY <1>0, <3>1
    <3>2. CASE SetHealth(id, EntryMut(id))
      BY <1>0, <1>1, <3>2, RecordKept
    <3> QED
      BY <1>2, <3>1, <3>2 DEF AddTarget
  <2> QED
    BY <1>0, <2>1, <2>2, OutsideKept
<1>3. CASE RemoveTarget(id)
  <2>1. UNCHANGED <<inHand, health, late>>
    BY <1>3 DEF RemoveTarget, Command
  <2>2. cursor' \in Nat
    <3>1. targets' \in Seq(TargetRec)
      BY <1>3, KeepRange DEF RemoveTarget, LoadInv
    <3>2. cursor' = Upto(cursor, Len(targets')) /\ Len(targets') \in Nat
      BY <1>3, <3>1 DEF RemoveTarget
    <3> QED
      BY <1>0, <3>2 DEF Upto
  <2> QED
    BY <1>0, <2>1, <2>2, OutsideKept
<1>4. CASE RemoveHealth(id)
  <2>1. UNCHANGED <<inHand, cursor>> /\ KeepLate /\ health' = [i \in DOMAIN health \ {id} |-> health[i]]
    BY <1>4 DEF RemoveHealth
  <2>2. HealthOK(health') /\ \A i : Shut(health', i) => Shut(health, i)
    BY <1>0, <2>1 DEF HealthOK, Shut
  <2> QED
    BY <1>0, <2>1, <2>2, OutsideKept
<1>5. CASE ResetLoad(id) \/ \E status \in {"available", "busy", "offline"} : SetStatus(id, status)
  <2>1. UNCHANGED <<inHand, health, cursor, late>>
    BY <1>5 DEF ResetLoad, SetStatus, Command
  <2> QED
    BY <1>0, <2>1, OutsideKept
<1>6. ASSUME NEW beatOk \in BOOLEAN, Heartbeat(id, beatOk) PROVE ShedTypes' /\ Sheds'
  <2>1. UNCHANGED <<inHand, cursor>> /\ KeepLate /\ SetHealth(id, Beaten(EntryMut(id), beatOk))
    BY <1>6 DEF Heartbeat
  <2> DEFINE h == EntryMut(id)
             g == Beaten(h, beatOk)
  <2>2. DOMAIN h = HealthFields
    BY <1>1
  <2> HIDE DEF h
  <2>3. DOMAIN g = HealthFields /\ g.circuit = h.circuit /\ g.cooled = h.cooled
    BY <2>2 DEF Beaten, HealthFields
  <2> HIDE DEF g
  <2>4. HealthOK(health') /\ \A i : Shut(health', i) <=> Shut(health, i)
    BY <1>0, <2>1, <2>3, RecordKept DEF g, h
  <2> QED
    BY <1>0, <2>1, <2>4, OutsideKept
<1>7. CASE CoolDown(id)
  <2>1. UNCHANGED <<inHand, cursor>> /\ KeepLate /\ health' = [health EXCEPT ![id].cooled = TRUE]
    BY <1>7 DEF CoolDown
  <2>2. HealthOK(health')
    BY <1>0, <2>1 DEF HealthOK
  <2>3. \A i : Shut(health', i) => Shut(health, i)
    BY <1>0, <2>1 DEF HealthOK, HealthFields, Shut
  <2> QED
    BY <1>0, <2>1, <2>2, <2>3, OutsideKept
<1>8. CASE HeartbeatAges(id)
  <2>1. UNCHANGED <<inHand, cursor, late>> /\ health' = [health EXCEPT ![id].beat = "stale"]
    BY <1>8 DEF HeartbeatAges
  <2>2. HealthOK(health')
    BY <1>0, <2>1 DEF HealthOK
  <2>3. \A i : Shut(health', i) <=> Shut(health, i)
    BY <1>0, <2>1 DEF HealthOK, HealthFields, Shut
  <2> QED
    BY <1>0, <2>1, <2>2, <2>3, OutsideKept
<1>9. CASE Repair(id) \/ \E answer \in {"error", "gone"} : Fault(id, answer)
  <2>1. UNCHANGED <<inHand, health, cursor, late>>
    BY <1>9 DEF Repair, Fault
  <2> QED
    BY <1>0, <2>1, OutsideKept
<1> QED
  BY <1>2, <1>3, <1>4, <1>5, <1>6, <1>7, <1>8, <1>9 DEF Outside

\* The invariant of the balancer's steps, up to a choice and after it.
ShedInv == LoadInv /\ ShedTypes /\ Sheds

LEMMA ShedInitInv ==
  ASSUME IsFiniteSet(Dispatchers), Start \in Seq(Ids), BalancerInit
  PROVE  ShedInv
<1>1. LoadInv
  BY BalancerInitInv
<1>2. HealthOK(health) /\ \A id : ~Shut(health, id)
  <2>1. health = [id \in Range(Start) |-> NewHealth] \/ health = <<>>
    BY DEF BalancerInit
  <2>2. DOMAIN NewHealth = HealthFields /\ NewHealth.circuit = "closed"
    BY DEF NewHealth, HealthFields
  <2>3. DOMAIN <<>> = {}
    OBVIOUS
  <2> QED
    BY <2>1, <2>2, <2>3 DEF HealthOK, Shut
<1>3. late = [id \in Ids |-> 0] /\ cursor = 0 /\ \A th \in Dispatchers : inHand[th].pc = "idle"
  BY DEF BalancerInit, Idle
<1>4. ShedTypes
  BY <1>2, <1>3 DEF ShedTypes
<1>5. Sheds
  BY <1>2, <1>3 DEF Sheds
<1> QED
  BY <1>1, <1>4, <1>5 DEF ShedInv

LEMMA ShedStepInv ==
  ASSUME IsFiniteSet(Dispatchers), Weight \in [Ids -> Nat], Hash \in [Keys -> Nat],
         ShedInv, [BalancerNext]_balancerVars
  PROVE  ShedInv'
<1> USE DEF ShedInv
<1>1. CASE BalancerNext
  BY <1>1, DispatchKeepsLoad, OutsideKeepsLoad, DispatchSheds, OutsideSheds DEF BalancerNext
<1>2. CASE UNCHANGED balancerVars
  <2>1. LoadInv'
    BY <1>2, LoadKept DEF balancerVars, LoadInv
  <2>2. UNCHANGED <<inHand, health, cursor, late>>
    BY <1>2 DEF balancerVars
  <2>3. HealthOK(health') /\ cursor' \in Nat
    BY <2>2 DEF ShedTypes
  <2> QED
    BY <2>1, <2>2, <2>3, OutsideKept
<1> QED
  BY <1>1, <1>2

\* Once a circuit is open and until its cool-down is over, at most as many sends
\* reach the target as there are other threads that dispatch, however stale
\* the copies they choose from, whatever the strategy, and whoever adds and
\* removes targets meanwhile (select_target, compute_selection,
\* record_target_failure).
THEOREM OpenCircuitsShed ==
  ASSUME IsFiniteSet(Dispatchers), Dispatchers # {}, Start \in Seq(Ids),
         Weight \in [Ids -> Nat], Hash \in [Keys -> Nat]
  PROVE  BalancerSpec => []OpenCircuitSheds
<1>1. BalancerInit => ShedInv
  BY ShedInitInv
<1>2. ShedInv /\ [BalancerNext]_balancerVars => ShedInv'
  BY ShedStepInv
<1>3. ShedInv => OpenCircuitSheds
  <2> SUFFICES ASSUME ShedInv, NEW id \in Ids PROVE late[id] < Cardinality(Dispatchers)
    BY DEF OpenCircuitSheds
  <2>1. Cardinality(Dispatchers) \in Nat /\ Cardinality(Coming(id)) \in Nat
    BY ComingCount, FS_CardinalityType
  <2>3. Cardinality(Dispatchers) # 0
    BY FS_EmptySet
  <2>2. late[id] \in Nat
    BY DEF ShedInv, ShedTypes
  <2> QED
    BY <2>1, <2>2, <2>3 DEF ShedInv, Sheds
<1> QED
  BY <1>1, <1>2, <1>3, PTL DEF BalancerSpec

-----------------------------------------------------------------------------
(* The bounded channel.                                                     *)

\* A thread inside send has begun at least one.
HandIsFull == \A t \in Senders : at[t] # "out" => sent[t] >= 1

ChannelInv == ChannelTypeOK /\ HandIsFull

\* What a thread inside send holds is a message.
LEMMA InHandIsMessage ==
  ASSUME ChannelAssumption, ChannelInv, NEW t \in Senders, at[t] # "out"
  PROVE  InHand(t) \in Messages
<1>1. sent[t] \in 0 .. MaxMessages /\ sent[t] >= 1
  BY DEF ChannelInv, ChannelTypeOK, HandIsFull
<1>2. sent[t] \in 1 .. MaxMessages
  BY <1>1 DEF ChannelAssumption
<1> QED
  BY <1>2 DEF InHand, Messages

LEMMA ChannelInitInv ==
  ASSUME ChannelAssumption, ChannelInit
  PROVE  ChannelInv
  BY DEF ChannelInit, ChannelInv, ChannelTypeOK, HandIsFull, ChannelAssumption

\* Taking the first message off a queue leaves a queue.
LEMMA HeadAndTail ==
  ASSUME NEW S, NEW q \in Seq(S), q # <<>>
  PROVE  Head(q) \in S /\ Tail(q) \in Seq(S) /\ Len(Tail(q)) = Len(q) - 1
  OBVIOUS

LEMMA AppendOfMessage ==
  ASSUME NEW S, NEW q \in Seq(S), NEW m \in S
  PROVE  Append(q, m) \in Seq(S) /\ Len(Append(q, m)) = Len(q) + 1
  OBVIOUS

LEMMA ChannelStepInv ==
  ASSUME ChannelAssumption, ChannelInv, [ChannelNext]_chanVars
  PROVE  ChannelInv'
<1> USE DEF ChannelInv
<1>1. ASSUME NEW t \in Senders, BeginSend(t)
      PROVE  ChannelInv'
  <2>1. sent[t] + 1 \in 0 .. MaxMessages
    BY <1>1 DEF BeginSend, ChannelTypeOK, ChannelAssumption
  <2>2. ChannelTypeOK'
    BY <1>1, <2>1 DEF BeginSend, MoveTo, ChannelTypeOK
  <2>3. HandIsFull'
    BY <1>1 DEF BeginSend, MoveTo, ChannelTypeOK, HandIsFull
  <2> QED
    BY <2>2, <2>3
<1>2. ASSUME NEW t \in Senders, CheckLength(t)
      PROVE  ChannelInv'
  <2>1. InHand(t) \in Messages
    BY <1>2, InHandIsMessage DEF CheckLength
  <2>a. lost' \in Seq(Messages)
    <3>1. lost' = lost \/ lost' = Append(lost, InHand(t))
      BY <1>2 DEF CheckLength
    <3>2. lost \in Seq(Messages) /\ Append(lost, InHand(t)) \in Seq(Messages)
      BY <2>1, AppendOfMessage DEF ChannelTypeOK
    <3> QED
      BY <3>1, <3>2
  <2>b. at' \in [Senders -> {"out", "check", "evict", "count", "push"}]
    BY <1>2 DEF CheckLength, MoveTo, ChannelTypeOK
  <2>2. ChannelTypeOK'
    BY <1>2, <2>a, <2>b DEF CheckLength, ChannelTypeOK
  <2>3. HandIsFull'
    BY <1>2 DEF CheckLength, MoveTo, ChannelTypeOK, HandIsFull
  <2> QED
    BY <2>2, <2>3
<1>3. ASSUME NEW t \in Senders, Evict(t)
      PROVE  ChannelInv'
  <2>1. queue # <<>> => Head(queue) \in Messages /\ Tail(queue) \in Seq(Messages)
    BY HeadAndTail DEF ChannelTypeOK
  <2>a. lost' \in Seq(Messages) /\ queue' \in Seq(Messages)
    <3>1. \/ UNCHANGED <<queue, lost>>
          \/ queue # <<>> /\ queue' = Tail(queue) /\ lost' = Append(lost, Head(queue))
      BY <1>3 DEF Evict
    <3>2. lost \in Seq(Messages) /\ queue \in Seq(Messages)
      BY DEF ChannelTypeOK
    <3>3. queue # <<>> => Append(lost, Head(queue)) \in Seq(Messages)
      BY <2>1, <3>2, AppendOfMessage
    <3> QED
      BY <3>1, <3>2, <3>3, <2>1
  <2>b. at' \in [Senders -> {"out", "check", "evict", "count", "push"}]
    BY <1>3 DEF Evict, MoveTo, ChannelTypeOK
  <2>2. ChannelTypeOK'
    BY <1>3, <2>a, <2>b DEF Evict, ChannelTypeOK
  <2>3. HandIsFull'
    BY <1>3 DEF Evict, MoveTo, ChannelTypeOK, HandIsFull
  <2> QED
    BY <2>2, <2>3
<1>4. ASSUME NEW t \in Senders, RecordDrop(t)
      PROVE  ChannelInv'
  BY <1>4 DEF RecordDrop, MoveTo, ChannelTypeOK, HandIsFull
<1>5. ASSUME NEW t \in Senders, Push(t)
      PROVE  ChannelInv'
  <2>1. InHand(t) \in Messages
    BY <1>5, InHandIsMessage DEF Push
  <2>2. ChannelTypeOK'
    BY <1>5, <2>1 DEF Push, MoveTo, ChannelTypeOK
  <2>3. HandIsFull'
    BY <1>5 DEF Push, MoveTo, ChannelTypeOK, HandIsFull
  <2> QED
    BY <2>2, <2>3
<1>6. ASSUME Receive
      PROVE  ChannelInv'
  <2>1. Head(queue) \in Messages /\ Tail(queue) \in Seq(Messages)
    BY <1>6, HeadAndTail DEF Receive, ChannelTypeOK
  <2> QED
    BY <1>6, <2>1 DEF Receive, ChannelTypeOK, HandIsFull
<1>7. ASSUME UNCHANGED chanVars
      PROVE  ChannelInv'
  BY <1>7 DEF chanVars, ChannelTypeOK, HandIsFull
<1> QED
  BY <1>1, <1>2, <1>3, <1>4, <1>5, <1>6, <1>7 DEF ChannelNext, SendStep

\* Every reachable state of the channel is well typed: in particular the
\* position and the count of every thread's sends stay in their ranges.
THEOREM ChannelTypeCorrectness == ASSUME ChannelAssumption PROVE ChannelSpec => []ChannelTypeOK
<1>1. ChannelInit => ChannelInv
  BY ChannelInitInv
<1>2. ChannelInv /\ [ChannelNext]_chanVars => ChannelInv'
  BY ChannelStepInv
<1>3. ChannelInv => ChannelTypeOK
  BY DEF ChannelInv
<1> QED
  BY <1>1, <1>2, <1>3, PTL DEF ChannelSpec

LEMMA ChannelInvHolds == ASSUME ChannelAssumption PROVE ChannelSpec => []ChannelInv
<1>1. ChannelInit => ChannelInv
  BY ChannelInitInv
<1>2. ChannelInv /\ [ChannelNext]_chanVars => ChannelInv'
  BY ChannelStepInv
<1> QED
  BY <1>1, <1>2, PTL DEF ChannelSpec

-----------------------------------------------------------------------------
(* The bound on the queue: counting the threads that will still push.       *)

\* A set of threads is finite, and smaller than Threads if one is missing.
LEMMA ThreadCount ==
  ASSUME ChannelAssumption, NEW P, P \subseteq Senders
  PROVE  /\ IsFiniteSet(P)
         /\ Cardinality(P) \in Nat /\ Cardinality(Senders) \in Nat
         /\ Cardinality(P) <= Cardinality(Senders)
         /\ \A t \in Senders \ P : Cardinality(P \cup {t}) = Cardinality(P) + 1
         /\ \A t \in P : Cardinality(P \ {t}) = Cardinality(P) - 1
  BY FS_Subset, FS_CardinalityType, FS_AddElement, FS_RemoveElement DEF ChannelAssumption

LEMMA OvershootStep ==
  ASSUME ChannelAssumption, ChannelInv, OvershootBound, [ChannelNext]_chanVars
  PROVE  OvershootBound'
<1>a. Capacity \in Nat \ {0} /\ Len(queue) \in Nat
  BY DEF ChannelAssumption, ChannelInv, ChannelTypeOK
<1>b. Pushing \subseteq Senders /\ Pushing' \subseteq Senders
  BY DEF Pushing
<1>c. /\ Cardinality(Pushing) \in Nat /\ Cardinality(Senders) \in Nat
      /\ Cardinality(Pushing') \in Nat
      /\ Cardinality(Pushing) <= Cardinality(Senders)
      /\ Cardinality(Pushing') <= Cardinality(Senders)
  BY <1>b, ThreadCount
\* A step that changes neither.
<1>s. ASSUME UNCHANGED queue, Pushing' = Pushing
      PROVE  OvershootBound'
  BY <1>s DEF OvershootBound
<1>1. ASSUME NEW t \in Senders, BeginSend(t)
      PROVE  OvershootBound'
  <2>1. Pushing' = Pushing
    BY <1>1 DEF BeginSend, MoveTo, Pushing, ChannelInv, ChannelTypeOK
  <2> QED
    BY <1>1, <2>1, <1>s DEF BeginSend
<1>2. ASSUME NEW t \in Senders, CheckLength(t)
      PROVE  OvershootBound'
  <2>1. CASE Len(queue) < Capacity
    <3>1. UNCHANGED queue
      BY <1>2 DEF CheckLength
    <3> QED
      BY <2>1, <3>1, <1>a, <1>c DEF OvershootBound
  <2>2. CASE ~(Len(queue) < Capacity)
    <3>1. Pushing' = Pushing
      BY <1>2, <2>2, <1>a DEF CheckLength, MoveTo, Pushing, ChannelInv, ChannelTypeOK
    <3> QED
      BY <1>2, <3>1, <1>s DEF CheckLength
  <2> QED
    BY <2>1, <2>2
<1>3. ASSUME NEW t \in Senders, Evict(t)
      PROVE  OvershootBound'
  <2>1. CASE queue = <<>>
    <3>1. queue' = <<>> /\ Len(queue') = 0
      BY <1>3, <2>1 DEF Evict
    <3> QED
      BY <3>1, <1>a, <1>c DEF OvershootBound
  <2>2. CASE queue # <<>>
    <3>1. queue' = Tail(queue) /\ at' = [at EXCEPT ![t] = "count"] /\ at[t] = "evict"
      BY <1>3, <2>2 DEF Evict, MoveTo
    <3>2. Pushing' = Pushing
      BY <3>1 DEF Pushing, ChannelInv, ChannelTypeOK
    <3>3. Len(queue') = Len(queue) - 1
      BY <3>1, <2>2, HeadAndTail DEF ChannelInv, ChannelTypeOK
    <3> QED
      BY <3>2, <3>3, <1>a, <1>c DEF OvershootBound
  <2> QED
    BY <2>1, <2>2
<1>4. ASSUME NEW t \in Senders, RecordDrop(t)
      PROVE  OvershootBound'
  <2>1. Pushing' = Pushing
    BY <1>4 DEF RecordDrop, MoveTo, Pushing, ChannelInv, ChannelTypeOK
  <2> QED
    BY <1>4, <2>1, <1>s DEF RecordDrop
<1>5. ASSUME NEW t \in Senders, Push(t)
      PROVE  OvershootBound'
  <2>1. t \in Pushing /\ Pushing' = Pushing \ {t}
    BY <1>5 DEF Push, MoveTo, Pushing, ChannelInv, ChannelTypeOK
  <2>2. Cardinality(Pushing') = Cardinality(Pushing) - 1
    BY <2>1, <1>b, ThreadCount
  <2>3. Len(queue') = Len(queue) + 1
    BY <1>5, InHandIsMessage DEF Push, ChannelInv, ChannelTypeOK
  <2> QED
    BY <2>2, <2>3, <1>a, <1>c DEF OvershootBound
<1>6. ASSUME Receive
      PROVE  OvershootBound'
  <2>1. Pushing' = Pushing
    BY <1>6 DEF Receive, Pushing
  <2>2. Len(queue') = Len(queue) - 1
    BY <1>6, HeadAndTail DEF Receive, ChannelInv, ChannelTypeOK
  <2> QED
    BY <2>1, <2>2, <1>a, <1>c DEF OvershootBound
<1>7. ASSUME UNCHANGED chanVars
      PROVE  OvershootBound'
  <2>1. Pushing' = Pushing /\ UNCHANGED queue
    BY <1>7 DEF chanVars, Pushing
  <2> QED
    BY <2>1, <1>s
<1> QED
  BY <1>1, <1>2, <1>3, <1>4, <1>5, <1>6, <1>7 DEF ChannelNext, SendStep

\* The length test and the send are separate calls, so the channel can exceed
\* the strategy's capacity, but by one message per further thread at most:
\* the bound that says how many senders the extra slot of
\* bounded_channel_full covers.
THEOREM OvershootIsBounded == ASSUME ChannelAssumption PROVE ChannelSpec => []OvershootBound
<1>1. ASSUME ChannelInit
      PROVE  OvershootBound
  <2>1. Pushing = {} /\ Len(queue) = 0
    BY <1>1 DEF ChannelInit, Pushing
  <2>2. Cardinality(Pushing) = 0
    BY <2>1, FS_EmptySet
  <2>3. Cardinality(Senders) \in Nat
    BY FS_CardinalityType DEF ChannelAssumption
  <2> QED
    BY <2>1, <2>2, <2>3 DEF OvershootBound, ChannelAssumption
<1>2. ChannelInv /\ OvershootBound /\ [ChannelNext]_chanVars => OvershootBound'
  BY OvershootStep
<1> QED
  BY <1>1, <1>2, ChannelInvHolds, PTL DEF ChannelSpec

\* A channel shared by at most two threads never makes a sender wait, whether
\* anybody receives or not: the case the comment on bounded_channel is right
\* about.
THEOREM TwoSendersAreFree == ASSUME ChannelAssumption PROVE ChannelSpec => []TwoSendersNeverBlock
<1>1. ASSUME ChannelInv, OvershootBound
      PROVE  TwoSendersNeverBlock
  <2> SUFFICES ASSUME Cardinality(Senders) <= 2, NEW t \in Pushing
               PROVE  Len(queue) < Capacity + 1
    BY DEF TwoSendersNeverBlock, NeverBlocks
  <2>1. Pushing \subseteq Senders
    BY DEF Pushing
  <2>2. Cardinality(Pushing) \in Nat /\ IsFiniteSet(Pushing)
    BY <2>1, ThreadCount
  <2>3. Cardinality(Pushing) # 0
    BY <2>2, FS_EmptySet
  <2>4. Capacity \in Nat /\ Len(queue) \in Nat /\ Cardinality(Senders) \in Nat
    BY <1>1, FS_CardinalityType DEF ChannelAssumption, ChannelInv, ChannelTypeOK
  <2> QED
    BY <1>1, <2>2, <2>3, <2>4 DEF OvershootBound
<1> QED
  BY <1>1, ChannelInvHolds, OvershootIsBounded, PTL

-----------------------------------------------------------------------------
(* The drop counter.                                                        *)

LEMMA DropStep ==
  ASSUME ChannelAssumption, ChannelInv, DropsAreCounted, [ChannelNext]_chanVars
  PROVE  DropsAreCounted'
<1>a. dropped \in Nat /\ Len(lost) \in Nat
  BY DEF ChannelInv, ChannelTypeOK
<1>b. Counting \subseteq Senders
  BY DEF Counting
<1>c. Cardinality(Counting) \in Nat
  BY <1>b, ThreadCount
\* A drop: one more message is lost, and its sender is about to count it.
<1>d. ASSUME NEW t \in Senders, NEW m \in Messages,
             at[t] # "count", at' = [at EXCEPT ![t] = "count"],
             lost' = Append(lost, m), UNCHANGED dropped
      PROVE  DropsAreCounted'
  <2>1. t \notin Counting /\ Counting' = Counting \cup {t}
    BY <1>d DEF Counting, ChannelInv, ChannelTypeOK
  <2>2. Cardinality(Counting') = Cardinality(Counting) + 1
    BY <2>1, <1>b, ThreadCount
  <2>3. Len(lost') = Len(lost) + 1
    BY <1>d DEF ChannelInv, ChannelTypeOK
  <2> QED
    BY <1>d, <2>2, <2>3, <1>a, <1>c DEF DropsAreCounted
\* A step that drops and counts nothing.
<1>s. ASSUME UNCHANGED <<lost, dropped>>, Counting' = Counting
      PROVE  DropsAreCounted'
  BY <1>s DEF DropsAreCounted
<1>1. ASSUME NEW t \in Senders, BeginSend(t)
      PROVE  DropsAreCounted'
  <2>1. Counting' = Counting
    BY <1>1 DEF BeginSend, MoveTo, Counting, ChannelInv, ChannelTypeOK
  <2> QED
    BY <1>1, <2>1, <1>s DEF BeginSend
<1>2. ASSUME NEW t \in Senders, CheckLength(t)
      PROVE  DropsAreCounted'
  <2>1. InHand(t) \in Messages /\ at[t] = "check" /\ UNCHANGED dropped
    BY <1>2, InHandIsMessage DEF CheckLength
  <2>2. CASE lost' = Append(lost, InHand(t)) /\ MoveTo(t, "count")
    BY <2>1, <2>2, <1>d DEF MoveTo
  <2>3. CASE UNCHANGED lost /\ (MoveTo(t, "push") \/ MoveTo(t, "evict"))
    <3>1. Counting' = Counting
      BY <2>1, <2>3 DEF MoveTo, Counting, ChannelInv, ChannelTypeOK
    <3> QED
      BY <2>1, <2>3, <3>1, <1>s
  <2> QED
    BY <1>2, <2>2, <2>3 DEF CheckLength
<1>3. ASSUME NEW t \in Senders, Evict(t)
      PROVE  DropsAreCounted'
  <2>1. at[t] = "evict" /\ UNCHANGED dropped
    BY <1>3 DEF Evict
  <2>2. CASE queue # <<>> /\ lost' = Append(lost, Head(queue)) /\ MoveTo(t, "count")
    <3>1. Head(queue) \in Messages
      BY <2>2, HeadAndTail DEF ChannelInv, ChannelTypeOK
    <3> QED
      BY <2>1, <2>2, <3>1, <1>d DEF MoveTo
  <2>3. CASE UNCHANGED lost /\ MoveTo(t, "push")
    <3>1. Counting' = Counting
      BY <2>1, <2>3 DEF MoveTo, Counting, ChannelInv, ChannelTypeOK
    <3> QED
      BY <2>1, <2>3, <3>1, <1>s
  <2> QED
    BY <1>3, <2>2, <2>3 DEF Evict
<1>4. ASSUME NEW t \in Senders, RecordDrop(t)
      PROVE  DropsAreCounted'
  <2>1. t \in Counting /\ Counting' = Counting \ {t}
    BY <1>4 DEF RecordDrop, MoveTo, Counting, ChannelInv, ChannelTypeOK
  <2>2. Cardinality(Counting') = Cardinality(Counting) - 1
    BY <2>1, <1>b, ThreadCount
  <2> QED
    BY <1>4, <2>2, <1>a, <1>c DEF RecordDrop, DropsAreCounted
<1>5. ASSUME NEW t \in Senders, Push(t)
      PROVE  DropsAreCounted'
  <2>1. Counting' = Counting
    BY <1>5 DEF Push, MoveTo, Counting, ChannelInv, ChannelTypeOK
  <2> QED
    BY <1>5, <2>1, <1>s DEF Push
<1>6. ASSUME Receive
      PROVE  DropsAreCounted'
  BY <1>6, <1>s DEF Receive, Counting
<1>7. ASSUME UNCHANGED chanVars
      PROVE  DropsAreCounted'
  BY <1>7, <1>s DEF chanVars, Counting
<1> QED
  BY <1>1, <1>2, <1>3, <1>4, <1>5, <1>6, <1>7 DEF ChannelNext, SendStep

\* No interleaving of senders loses an increment of dropped_total, and no
\* message is dropped without one.
THEOREM DropCounterIsExact == ASSUME ChannelAssumption PROVE ChannelSpec => []DropsAreCounted
<1>1. ASSUME ChannelInit
      PROVE  DropsAreCounted
  <2>1. Counting = {} /\ Len(lost) = 0 /\ dropped = 0
    BY <1>1 DEF ChannelInit, Counting
  <2> QED
    BY <2>1, FS_EmptySet DEF DropsAreCounted
<1>2. ChannelInv /\ DropsAreCounted /\ [ChannelNext]_chanVars => DropsAreCounted'
  BY DropStep
<1> QED
  BY <1>1, <1>2, ChannelInvHolds, PTL DEF ChannelSpec

-----------------------------------------------------------------------------
(* Where a message is: counting its places in a sequence.                   *)

PlacesIn(s, m) == {i \in DOMAIN s : s[i] = m}

LEMMA PlacesCount ==
  ASSUME NEW S, NEW s \in Seq(S), NEW m
  PROVE  IsFiniteSet(PlacesIn(s, m)) /\ Cardinality(PlacesIn(s, m)) \in Nat
<1>1. IsFiniteSet(1 .. Len(s)) /\ DOMAIN s = 1 .. Len(s)
  BY FS_Interval
<1> QED
  BY <1>1, FS_Subset, FS_CardinalityType DEF PlacesIn

LEMMA PlacesAppend ==
  ASSUME NEW S, NEW s \in Seq(S), NEW x \in S, NEW m
  PROVE  Cardinality(PlacesIn(Append(s, x), m)) = Cardinality(PlacesIn(s, m)) + (IF x = m THEN 1 ELSE 0)
<1> DEFINE n == Len(s)
<1>1. /\ n \in Nat /\ DOMAIN s = 1 .. n /\ DOMAIN Append(s, x) = 1 .. n + 1
      /\ Append(s, x)[n + 1] = x /\ \A i \in 1 .. n : Append(s, x)[i] = s[i]
  BY AppendProperties
<1> HIDE DEF n
<1>2. IsFiniteSet(PlacesIn(s, m)) /\ Cardinality(PlacesIn(s, m)) \in Nat
  BY PlacesCount
<1>3. CASE x = m
  <2>1. PlacesIn(Append(s, x), m) = PlacesIn(s, m) \cup {n + 1} /\ n + 1 \notin PlacesIn(s, m)
    BY <1>1, <1>3 DEF PlacesIn
  <2> QED
    BY <1>2, <1>3, <2>1, FS_AddElement
<1>4. CASE x # m
  <2>1. PlacesIn(Append(s, x), m) = PlacesIn(s, m)
    BY <1>1, <1>4 DEF PlacesIn
  <2> QED
    BY <1>2, <1>4, <2>1
<1> QED
  BY <1>3, <1>4

\* The places in the tail are those in the sequence, moved up by one.
LEMMA PlacesTail ==
  ASSUME NEW S, NEW s \in Seq(S), s # <<>>, NEW m
  PROVE  Cardinality(PlacesIn(s, m)) = Cardinality(PlacesIn(Tail(s), m)) + (IF Head(s) = m THEN 1 ELSE 0)
<1> DEFINE n == Len(s)
           P == PlacesIn(Tail(s), m)
           Q == PlacesIn(s, m)
           f == [i \in P |-> i + 1]
<1>1. /\ n \in Nat \ {0} /\ DOMAIN s = 1 .. n /\ Head(s) = s[1] /\ Tail(s) \in Seq(S)
      /\ DOMAIN Tail(s) = 1 .. n - 1 /\ \A i \in 1 .. n - 1 : Tail(s)[i] = s[i + 1]
  BY HeadTailProperties, EmptySeq
<1>2. IsFiniteSet(P) /\ Cardinality(P) \in Nat /\ IsFiniteSet(Q) /\ Cardinality(Q) \in Nat
  BY <1>1, PlacesCount
<1> HIDE DEF n
<1>3. P = {i \in 1 .. n - 1 : s[i + 1] = m} /\ Q = {i \in 1 .. n : s[i] = m}
  BY <1>1 DEF PlacesIn
<1> HIDE DEF P, Q
<1>4. f \in Bijection(P, Q \ {1})
  <2>1. \A i \in P : i \in Nat /\ i + 1 \in Q \ {1}
    BY <1>1, <1>3
  <2>2. f \in [P -> Q \ {1}]
    BY <2>1
  <2>3. \A i, j \in P : f[i] = f[j] => i = j
    BY <2>1
  <2>4. \A k \in Q \ {1} : k - 1 \in P /\ f[k - 1] = k
    BY <1>1, <1>3
  <2> QED
    BY <2>2, <2>3, <2>4, Fun_IsBij
<1>5. Cardinality(Q \ {1}) = Cardinality(P)
  BY <1>2, <1>4, FS_Bijection DEF ExistsBijection
<1>6. CASE Head(s) = m
  <2>1. 1 \in Q
    BY <1>1, <1>3, <1>6
  <2>2. Cardinality(Q \ {1}) = Cardinality(Q) - 1
    BY <1>2, <2>1, FS_RemoveElement
  <2>3. Cardinality(Q) = Cardinality(P) + 1
    BY <1>2, <1>5, <2>2
  <2> QED
    BY <1>6, <2>3 DEF P, Q
<1>7. CASE Head(s) # m
  <2>1. Q \ {1} = Q
    BY <1>1, <1>3, <1>7
  <2>2. Cardinality(Q \ {1}) = Cardinality(Q)
    BY <2>1
  <2>3. Cardinality(Q) = Cardinality(P) + 0
    BY <1>2, <1>5, <2>2
  <2> QED
    BY <1>7, <2>3 DEF P, Q
<1> QED
  BY <1>6, <1>7

\* What a thread has in hand it holds once.
Held(m) == {t \in Senders : Holding(t) /\ InHand(t) = m}

LEMMA HeldCount ==
  ASSUME ChannelInv, NEW m \in Messages
  PROVE  Cardinality(Held(m)) = IF Holding(m[1]) /\ sent[m[1]] = m[2] THEN 1 ELSE 0
<1>1. m[1] \in Senders /\ m = <<m[1], m[2]>>
  BY DEF Messages
<1>2. \A t \in Senders : InHand(t) = m <=> t = m[1] /\ sent[t] = m[2]
  BY <1>1 DEF InHand
<1>3. CASE Holding(m[1]) /\ sent[m[1]] = m[2]
  <2>1. Held(m) = {m[1]}
    BY <1>1, <1>2, <1>3 DEF Held
  <2> QED
    BY <1>3, <2>1, FS_Singleton
<1>4. CASE ~(Holding(m[1]) /\ sent[m[1]] = m[2])
  <2>1. Held(m) = {}
    BY <1>2, <1>4 DEF Held
  <2> QED
    BY <1>4, <2>1, FS_EmptySet
<1> QED
  BY <1>3, <1>4

\* Only a Sliding sender evicts.
OnlySlidingEvicts == \A t \in Senders : at[t] = "evict" => strategy = "sliding"

PlaceInv == ChannelInv /\ OnlySlidingEvicts /\ NothingLostUnseen

\* The count of one message, before and after a step.
LEMMA CopiesCount ==
  ASSUME ChannelInv, NEW m \in Messages
  PROVE  /\ Instances(m) = Cardinality(PlacesIn(queue, m)) + Cardinality(PlacesIn(taken, m))
                          + Cardinality(PlacesIn(lost, m))
                          + (IF Holding(m[1]) /\ sent[m[1]] = m[2] THEN 1 ELSE 0)
         /\ Cardinality(PlacesIn(queue, m)) \in Nat /\ Cardinality(PlacesIn(taken, m)) \in Nat
         /\ Cardinality(PlacesIn(lost, m)) \in Nat
<1>1. Instances(m) = Cardinality(PlacesIn(queue, m)) + Cardinality(PlacesIn(taken, m))
                    + Cardinality(PlacesIn(lost, m)) + Cardinality(Held(m))
  BY DEF Instances, PlacesIn, Held
<1> QED
  BY <1>1, HeldCount, PlacesCount DEF ChannelInv, ChannelTypeOK

LEMMA CopiesCountNext ==
  ASSUME ChannelInv', NEW m \in Messages
  PROVE  /\ Instances(m)' = Cardinality(PlacesIn(queue', m)) + Cardinality(PlacesIn(taken', m))
                          + Cardinality(PlacesIn(lost', m))
                          + (IF Holding(m[1])' /\ sent'[m[1]] = m[2] THEN 1 ELSE 0)
         /\ Cardinality(PlacesIn(queue', m)) \in Nat /\ Cardinality(PlacesIn(taken', m)) \in Nat
         /\ Cardinality(PlacesIn(lost', m)) \in Nat
<1>1. Instances(m)' = Cardinality(PlacesIn(queue', m)) + Cardinality(PlacesIn(taken', m))
                    + Cardinality(PlacesIn(lost', m)) + Cardinality(Held(m)')
  BY DEF Instances, PlacesIn, Held
<1>2. m[1] \in Senders /\ m = <<m[1], m[2]>>
  BY DEF Messages
<1>3. \A t \in Senders : InHand(t)' = m <=> t = m[1] /\ sent'[t] = m[2]
  BY <1>2 DEF InHand
<1>4. Cardinality(Held(m)') = IF Holding(m[1])' /\ sent'[m[1]] = m[2] THEN 1 ELSE 0
  <2>1. CASE Holding(m[1])' /\ sent'[m[1]] = m[2]
    <3>1. Held(m)' = {m[1]}
      BY <1>2, <1>3, <2>1 DEF Held
    <3> QED
      BY <2>1, <3>1, FS_Singleton
  <2>2. CASE ~(Holding(m[1])' /\ sent'[m[1]] = m[2])
    <3>1. Held(m)' = {}
      BY <1>3, <2>2 DEF Held
    <3> QED
      BY <2>2, <3>1, FS_EmptySet
  <2> QED
    BY <2>1, <2>2
<1>5. queue' \in Seq(Messages) /\ taken' \in Seq(Messages) /\ lost' \in Seq(Messages)
  BY DEF ChannelInv, ChannelTypeOK
<1> QED
  BY <1>1, <1>4, <1>5, PlacesCount

\* A step that moves a message, or none, keeps the count.
LEMMA PlaceStep ==
  ASSUME ChannelAssumption, PlaceInv, [ChannelNext]_chanVars
  PROVE  PlaceInv'
<1>1. ChannelInv /\ ChannelInv' /\ OnlySlidingEvicts /\ NothingLostUnseen
  BY ChannelStepInv DEF PlaceInv
<1>2. /\ queue \in Seq(Messages) /\ lost \in Seq(Messages) /\ taken \in Seq(Messages)
      /\ at \in [Senders -> {"out", "check", "evict", "count", "push"}]
      /\ sent \in [Senders -> 0 .. MaxMessages] /\ MaxMessages \in Nat
      /\ strategy \in {"dropping", "sliding"}
  BY <1>1 DEF ChannelInv, ChannelTypeOK, ChannelAssumption
<1>3. OnlySlidingEvicts'
  BY <1>1, <1>2 DEF ChannelNext, SendStep, chanVars, OnlySlidingEvicts,
       BeginSend, CheckLength, Evict, RecordDrop, Push, Receive, MoveTo
<1>4. SUFFICES ASSUME NEW m \in Messages
               PROVE  Instances(m)' = IF m[2] <= sent'[m[1]] THEN 1 ELSE 0
  BY <1>1, <1>3 DEF PlaceInv, NothingLostUnseen
<1> DEFINE Q == Cardinality(PlacesIn(queue, m))
           T == Cardinality(PlacesIn(taken, m))
           L == Cardinality(PlacesIn(lost, m))
           H == IF Holding(m[1]) /\ sent[m[1]] = m[2] THEN 1 ELSE 0
           NQ == Cardinality(PlacesIn(queue', m))
           NT == Cardinality(PlacesIn(taken', m))
           NL == Cardinality(PlacesIn(lost', m))
           NH == IF Holding(m[1])' /\ sent'[m[1]] = m[2] THEN 1 ELSE 0
<1>5. /\ Instances(m) = Q + T + L + H /\ Q \in Nat /\ T \in Nat /\ L \in Nat
      /\ Instances(m)' = NQ + NT + NL + NH /\ NQ \in Nat /\ NT \in Nat /\ NL \in Nat
      /\ Instances(m) = IF m[2] <= sent[m[1]] THEN 1 ELSE 0
  BY <1>1, CopiesCount, CopiesCountNext DEF NothingLostUnseen
<1>6. m[1] \in Senders /\ m[2] \in 1 .. MaxMessages /\ m = <<m[1], m[2]>>
  BY DEF Messages
\* A step that begins no send only has to keep the count.
<1>7. ASSUME sent' = sent, NQ + NT + NL + NH = Q + T + L + H
      PROVE  Instances(m)' = IF m[2] <= sent'[m[1]] THEN 1 ELSE 0
  <2> HIDE DEF Q, T, L, H, NQ, NT, NL, NH
  <2> QED
    BY <1>5, <1>7
<1>8. ASSUME NEW t \in Senders, InHand(t) = m
      PROVE  t = m[1] /\ sent[t] = m[2]
  BY <1>6, <1>8 DEF InHand
<1>9. ASSUME NEW t \in Senders, InHand(t) # m
      PROVE  t # m[1] \/ sent[t] # m[2]
  BY <1>6, <1>9 DEF InHand
<1>10. CASE \E t \in Senders : BeginSend(t)
  <2>1. PICK t \in Senders : BeginSend(t)
    BY <1>10
  <2>2. /\ at[t] = "out" /\ sent' = [sent EXCEPT ![t] = @ + 1] /\ at' = [at EXCEPT ![t] = "check"]
        /\ queue' = queue /\ taken' = taken /\ lost' = lost /\ strategy' = strategy
    BY <2>1 DEF BeginSend, MoveTo
  <2>3. NQ = Q /\ NT = T /\ NL = L
    BY <2>2
  <2>4. CASE m[1] # t
    <3>1. sent'[m[1]] = sent[m[1]] /\ (Holding(m[1])' <=> Holding(m[1]))
      BY <1>2, <1>6, <2>2, <2>4 DEF Holding
    <3>2. NH = H
      BY <3>1
    <3> HIDE DEF Q, T, L, H, NQ, NT, NL, NH
    <3> QED
      BY <1>5, <2>3, <3>1, <3>2
  <2>5. CASE m[1] = t
    <3>1. /\ sent[t] \in Nat /\ sent'[m[1]] = sent[m[1]] + 1 /\ sent[m[1]] \in Nat /\ m[2] \in Nat
          /\ ~Holding(m[1]) /\ Holding(m[1])'
      BY <1>2, <1>6, <2>2, <2>5 DEF Holding
    <3>2. H = 0 /\ NH = IF sent[m[1]] + 1 = m[2] THEN 1 ELSE 0
      BY <3>1
    <3> HIDE DEF Q, T, L, H, NQ, NT, NL, NH
    <3> QED
      BY <1>5, <2>3, <3>1, <3>2
  <2> QED
    BY <2>4, <2>5
<1>11. CASE \E t \in Senders : CheckLength(t)
  <2>1. PICK t \in Senders : CheckLength(t)
    BY <1>11
  <2>2. /\ at[t] = "check" /\ queue' = queue /\ sent' = sent /\ taken' = taken /\ strategy' = strategy
    BY <2>1 DEF CheckLength
  <2>3. CASE strategy = "dropping" /\ lost' = Append(lost, InHand(t)) /\ MoveTo(t, "count")
    <3>1. InHand(t) \in Messages
      BY <1>1, <2>2, InHandIsMessage
    <3>2. NL = L + IF InHand(t) = m THEN 1 ELSE 0
      BY <1>2, <2>3, <3>1, PlacesAppend
    <3>3. CASE InHand(t) = m
      <4>1. Holding(m[1]) /\ ~Holding(m[1])' /\ sent[m[1]] = m[2]
        BY <1>2, <1>6, <1>8, <2>2, <2>3, <3>3 DEF Holding, MoveTo
      <4>2. H = 1 /\ NH = 0 /\ NL = L + 1 /\ NQ = Q /\ NT = T
        BY <2>2, <3>2, <3>3, <4>1
      <4> HIDE DEF Q, T, L, H, NQ, NT, NL, NH
      <4>3. NQ + NT + NL + NH = Q + T + L + H
        BY <1>5, <4>2
      <4> QED
        BY <1>7, <2>2, <4>3
    <3>4. CASE InHand(t) # m
      <4>1. (Holding(m[1])' /\ sent'[m[1]] = m[2]) <=> (Holding(m[1]) /\ sent[m[1]] = m[2])
        BY <1>2, <1>6, <1>9, <2>2, <2>3, <3>4 DEF Holding, MoveTo
      <4>2. H = NH /\ NL = L + 0 /\ NQ = Q /\ NT = T
        BY <2>2, <3>2, <3>4, <4>1
      <4> HIDE DEF Q, T, L, H, NQ, NT, NL, NH
      <4>3. NQ + NT + NL + NH = Q + T + L + H
        BY <1>5, <4>2
      <4> QED
        BY <1>7, <2>2, <4>3
    <3> QED
      BY <3>3, <3>4
  <2>4. CASE lost' = lost /\ (MoveTo(t, "push") \/ MoveTo(t, "evict"))
    <3>1. Holding(m[1])' <=> Holding(m[1])
      BY <1>2, <1>6, <2>2, <2>4 DEF Holding, MoveTo
    <3>2. NQ + NT + NL + NH = Q + T + L + H
      BY <2>2, <2>4, <3>1
    <3> QED
      BY <1>7, <2>2, <3>2
  <2> QED
    BY <2>1, <2>3, <2>4 DEF CheckLength
<1>12. CASE \E t \in Senders : Evict(t)
  <2>1. PICK t \in Senders : Evict(t)
    BY <1>12
  <2>2. /\ at[t] = "evict" /\ sent' = sent /\ taken' = taken /\ strategy' = strategy
    BY <2>1 DEF Evict
  <2>3. strategy = "sliding"
    BY <1>1, <2>2 DEF OnlySlidingEvicts
  <2>4. Holding(m[1])' <=> Holding(m[1])
    BY <1>2, <1>6, <2>1, <2>2, <2>3 DEF Holding, Evict, MoveTo
  <2>5. CASE queue # <<>> /\ lost' = Append(lost, Head(queue)) /\ queue' = Tail(queue)
    <3>1. Head(queue) \in Messages
      BY <1>2, <2>5, HeadAndTail
    <3>2. /\ NL = L + IF Head(queue) = m THEN 1 ELSE 0
          /\ Q = NQ + IF Head(queue) = m THEN 1 ELSE 0
      BY <1>2, <2>5, <3>1, PlacesAppend, PlacesTail
    <3>3. NT = T /\ NH = H
      BY <2>2, <2>4
    <3> HIDE DEF Q, T, L, H, NQ, NT, NL, NH
    <3>4. NQ + NT + NL + NH = Q + T + L + H
      BY <1>5, <3>2, <3>3
    <3> QED
      BY <1>7, <2>2, <3>4
  <2>6. CASE UNCHANGED <<queue, lost>>
    <3>1. NQ + NT + NL + NH = Q + T + L + H
      BY <2>2, <2>4, <2>6
    <3> QED
      BY <1>7, <2>2, <3>1
  <2> QED
    BY <2>1, <2>5, <2>6 DEF Evict
<1>13. CASE \E t \in Senders : RecordDrop(t)
  <2>1. PICK t \in Senders : RecordDrop(t)
    BY <1>13
  <2>2. /\ at[t] = "count" /\ queue' = queue /\ sent' = sent /\ taken' = taken /\ lost' = lost
        /\ strategy' = strategy
    BY <2>1 DEF RecordDrop
  <2>3. Holding(m[1])' <=> Holding(m[1])
    BY <1>2, <1>6, <2>1, <2>2 DEF Holding, RecordDrop, MoveTo
  <2>4. NQ + NT + NL + NH = Q + T + L + H
    BY <2>2, <2>3
  <2> QED
    BY <1>7, <2>2, <2>4
<1>14. CASE \E t \in Senders : Push(t)
  <2>1. PICK t \in Senders : Push(t)
    BY <1>14
  <2>2. /\ at[t] = "push" /\ at' = [at EXCEPT ![t] = "out"] /\ queue' = Append(queue, InHand(t))
        /\ sent' = sent /\ taken' = taken /\ lost' = lost /\ strategy' = strategy
    BY <2>1 DEF Push, MoveTo
  <2>3. InHand(t) \in Messages
    BY <1>1, <2>2, InHandIsMessage
  <2>4. NQ = Q + IF InHand(t) = m THEN 1 ELSE 0
    BY <1>2, <2>2, <2>3, PlacesAppend
  <2>5. CASE InHand(t) = m
    <3>1. Holding(m[1]) /\ ~Holding(m[1])' /\ sent[m[1]] = m[2]
      BY <1>2, <1>6, <1>8, <2>2, <2>5 DEF Holding
    <3>2. H = 1 /\ NH = 0 /\ NL = L /\ NQ = Q + 1 /\ NT = T
      BY <2>2, <2>4, <2>5, <3>1
    <3> HIDE DEF Q, T, L, H, NQ, NT, NL, NH
    <3>3. NQ + NT + NL + NH = Q + T + L + H
      BY <1>5, <3>2
    <3> QED
      BY <1>7, <2>2, <3>3
  <2>6. CASE InHand(t) # m
    <3>1. (Holding(m[1])' /\ sent'[m[1]] = m[2]) <=> (Holding(m[1]) /\ sent[m[1]] = m[2])
      BY <1>2, <1>6, <1>9, <2>2, <2>6 DEF Holding
    <3>2. H = NH /\ NL = L /\ NQ = Q + 0 /\ NT = T
      BY <2>2, <2>4, <2>6, <3>1
    <3> HIDE DEF Q, T, L, H, NQ, NT, NL, NH
    <3>3. NQ + NT + NL + NH = Q + T + L + H
      BY <1>5, <3>2
    <3> QED
      BY <1>7, <2>2, <3>3
  <2> QED
    BY <2>5, <2>6
<1>15. CASE Receive
  <2>1. /\ queue # <<>> /\ taken' = Append(taken, Head(queue)) /\ queue' = Tail(queue)
        /\ at' = at /\ sent' = sent /\ lost' = lost /\ strategy' = strategy
    BY <1>15 DEF Receive
  <2>2. Head(queue) \in Messages
    BY <1>2, <2>1, HeadAndTail
  <2>3. /\ NT = T + IF Head(queue) = m THEN 1 ELSE 0
        /\ Q = NQ + IF Head(queue) = m THEN 1 ELSE 0
    BY <1>2, <2>1, <2>2, PlacesAppend, PlacesTail
  <2>4. NL = L /\ NH = H
    BY <2>1 DEF Holding
  <2> HIDE DEF Q, T, L, H, NQ, NT, NL, NH
  <2>5. NQ + NT + NL + NH = Q + T + L + H
    BY <1>5, <2>3, <2>4
  <2> QED
    BY <1>7, <2>1, <2>5
<1>16. CASE UNCHANGED chanVars
  <2>1. /\ queue' = queue /\ taken' = taken /\ at' = at /\ sent' = sent /\ lost' = lost
        /\ strategy' = strategy
    BY <1>16 DEF chanVars
  <2>2. NQ + NT + NL + NH = Q + T + L + H
    BY <2>1 DEF Holding
  <2> QED
    BY <1>7, <2>1, <2>2
<1> QED
  BY <1>10, <1>11, <1>12, <1>13, <1>14, <1>15, <1>16 DEF ChannelNext, SendStep

\* Whatever the threads that share the sender do, and whoever receives, a
\* message whose send has begun is with its sender, queued, received once or
\* dropped, and nowhere else (BoundedSender::send, BoundedReceiver).
THEOREM EveryMessageIsSomewhere == ASSUME ChannelAssumption PROVE ChannelSpec => []NothingLostUnseen
<1>1. ASSUME ChannelInit
      PROVE  PlaceInv
  <2>1. ChannelInv /\ OnlySlidingEvicts
    BY <1>1, ChannelInitInv DEF ChannelInit, OnlySlidingEvicts
  <2>2. NothingLostUnseen
    <3> SUFFICES ASSUME NEW m \in Messages
                 PROVE  Instances(m) = IF m[2] <= sent[m[1]] THEN 1 ELSE 0
      BY DEF NothingLostUnseen
    <3>1. /\ m[1] \in Senders /\ m[2] \in Nat \ {0} /\ sent[m[1]] = 0 /\ at[m[1]] = "out"
      BY <1>1 DEF ChannelInit, Messages
    <3>2. PlacesIn(queue, m) = {} /\ PlacesIn(taken, m) = {} /\ PlacesIn(lost, m) = {}
      BY <1>1 DEF ChannelInit, PlacesIn
    <3>3. Instances(m) = 0 + 0 + 0 + (IF Holding(m[1]) /\ sent[m[1]] = m[2] THEN 1 ELSE 0)
      BY <2>1, <3>2, CopiesCount, FS_EmptySet
    <3>4. ~(m[2] <= sent[m[1]]) /\ sent[m[1]] # m[2]
      BY <3>1
    <3> QED
      BY <3>3, <3>4
  <2> QED
    BY <2>1, <2>2 DEF PlaceInv
<1>2. PlaceInv /\ [ChannelNext]_chanVars => PlaceInv'
  BY PlaceStep
<1>3. PlaceInv => NothingLostUnseen
  BY DEF PlaceInv
<1> QED
  BY <1>1, <1>2, <1>3, PTL DEF ChannelSpec

-----------------------------------------------------------------------------
(* The breaker, used by one caller at a time.                               *)

\* Between becoming Open and setting tripped_at_ms.
Stamping == {"stamp", "trip_stamp", "forget", "stamp_again"}

BreakerTypes ==
  /\ circuit \in {"Closed", "Open", "HalfOpen"}
  /\ age \in 0 .. Never /\ openFor \in 0 .. Never
  /\ stage \in [Callers -> Stages]

\* tripped_at_ms is not older than the Open state, but while it is being set;
\* so a timeout that has run out has run since the breaker opened.
BreakerInv ==
  /\ BreakerTypes
  /\ OneAtATime
  /\ circuit = "Open" /\ (\A t \in Callers : stage[t] \notin Stamping) => age = Never \/ age <= openFor
  /\ circuit = "Open" => \A t \in Callers : stage[t] = "half_open" => openFor > Timeout

LEMMA BreakerInitInv == ASSUME Timeout \in Nat PROVE BreakerInit => BreakerInv
  BY DEF BreakerInit, BreakerInv, BreakerTypes, OneAtATime, Stages, Never, Stamping

\* What a step of a caller does to the places and to the others.
LEMMA CallerMoves ==
  ASSUME NEW t \in Callers, NEW from, NEW to, BreakerInv, OneAtATime', Passes(t, from, to), to \in Stages
  PROVE  /\ stage' \in [Callers -> Stages] /\ stage[t] = from /\ stage'[t] = to
         /\ \A u \in Callers \ {t} : stage'[u] = stage[u]
         /\ from # "idle" \/ to # "idle" => \A u \in Callers \ {t} : stage[u] = "idle"
  BY DEF Passes, BreakerInv, BreakerTypes, OneAtATime

\* A step that changes neither the state nor the clock, and is not about the
\* time-out.
LEMMA OrdinaryStep ==
  ASSUME NEW t \in Callers, NEW from, NEW to, BreakerInv, OneAtATime', Passes(t, from, to),
         to \in Stages \ {"half_open"}, from \notin Stamping \/ to \in Stamping,
         UNCHANGED <<circuit, age, openFor>>
  PROVE  BreakerInv' /\ Cooldown
<1>1. /\ stage' \in [Callers -> Stages] /\ stage[t] = from /\ stage'[t] = to
      /\ \A u \in Callers \ {t} : stage'[u] = stage[u]
  BY CallerMoves
<1>2. BreakerTypes'
  BY <1>1 DEF BreakerInv, BreakerTypes, Never, Callers
<1>3. (\A u \in Callers : stage'[u] \notin Stamping) => \A u \in Callers : stage[u] \notin Stamping
  BY <1>1 DEF Stamping
<1>4. \A u \in Callers : stage'[u] = "half_open" => stage[u] = "half_open"
  BY <1>1
<1> QED
  BY <1>2, <1>3, <1>4 DEF BreakerInv, Cooldown, Stamping, Never, Callers

\* A transition to Open, by a caller that sets tripped_at_ms next if it took
\* place.
LEMMA OpeningStep ==
  ASSUME Timeout \in Nat, NEW t \in Callers, NEW from, NEW to, BreakerInv, OneAtATime', Passes(t, from, to),
         to \in Stages \ {"half_open"}, from \notin Stamping,
         ValidTransition(circuit, "Open") => to \in Stamping,
         Transition("Open"), UNCHANGED age
  PROVE  BreakerInv' /\ Cooldown
<1>1. CASE ValidTransition(circuit, "Open")
  <2>1. circuit' = "Open" /\ openFor' = 0
    BY <1>1 DEF Transition
  <2>2. to \in Stamping
    BY <1>1
  <2>3. /\ stage' \in [Callers -> Stages] /\ stage'[t] = to
        /\ \A u \in Callers \ {t} : stage'[u] = stage[u]
        /\ \A u \in Callers \ {t} : stage[u] = "idle"
    BY <2>2, CallerMoves DEF Stamping
  <2>4. BreakerTypes'
    BY <2>1, <2>3 DEF BreakerInv, BreakerTypes, Never, Callers
  <2>5. \A u \in Callers : stage'[u] # "half_open"
    BY <2>2, <2>3 DEF Stamping
  <2> QED
    BY <2>1, <2>2, <2>3, <2>4, <2>5 DEF BreakerInv, Cooldown, Callers
<1>2. CASE ~ValidTransition(circuit, "Open")
  BY <1>2, OrdinaryStep DEF Transition
<1> QED
  BY <1>1, <1>2

\* A step after which the breaker is not Open.
LEMMA LeavingStep ==
  ASSUME NEW t \in Callers, NEW from, NEW to, BreakerInv, OneAtATime', Passes(t, from, to), to \in Stages,
         circuit' \in {"Closed", "HalfOpen"}, UNCHANGED <<age, openFor>>
  PROVE  BreakerInv'
<1>1. /\ stage' \in [Callers -> Stages] /\ stage[t] = from
  BY CallerMoves
<1>2. BreakerTypes'
  BY <1>1 DEF BreakerInv, BreakerTypes, Never, Callers
<1> QED
  BY <1>1, <1>2 DEF BreakerInv

\* The transition to HalfOpen is made where the time-out has run out.
LEMMA HalfOpens ==
  ASSUME Timeout \in Nat, NEW t \in Callers, BreakerInv, OneAtATime', CheckTimeout(t) \/ ToHalfOpen(t)
  PROVE  BreakerInv' /\ Cooldown
<1>1. CASE CheckTimeout(t) /\ age # Never /\ age > Timeout
  <2>1. Passes(t, "timeout", "half_open") /\ UNCHANGED <<circuit, age, openFor>>
    BY <1>1 DEF CheckTimeout, Quiet
  <2>2. /\ stage' \in [Callers -> Stages] /\ stage[t] = "timeout" /\ stage'[t] = "half_open"
        /\ \A u \in Callers \ {t} : stage'[u] = stage[u]
        /\ \A u \in Callers \ {t} : stage[u] = "idle"
    BY <2>1, CallerMoves DEF Stages
  <2>3. \A u \in Callers : stage[u] \notin Stamping /\ stage'[u] \notin Stamping
    BY <2>2 DEF Stamping
  <2>4. circuit = "Open" => openFor > Timeout
    BY <1>1, <2>3 DEF BreakerInv, BreakerTypes, Never
  <2>5. BreakerTypes'
    BY <2>1, <2>2 DEF BreakerInv, BreakerTypes, Never, Callers
  <2> QED
    BY <2>1, <2>3, <2>4, <2>5 DEF BreakerInv, Cooldown, Never, Callers
<1>2. CASE CheckTimeout(t) /\ ~(age # Never /\ age > Timeout)
  <2>1. Passes(t, "timeout", "allow") /\ UNCHANGED <<circuit, age, openFor>>
    BY <1>2 DEF CheckTimeout, Quiet
  <2> QED
    BY <2>1, OrdinaryStep DEF Stages, Stamping
<1>3. CASE ToHalfOpen(t) /\ circuit = "Open"
  <2>1. ValidTransition(circuit, "HalfOpen")
    BY <1>3 DEF ValidTransition
  <2>2. Passes(t, "half_open", "clear") /\ circuit' = "HalfOpen" /\ UNCHANGED <<age, openFor>>
    BY <1>3, <2>1 DEF ToHalfOpen, Transition
  <2>3. stage[t] = "half_open"
    BY <2>2 DEF Passes
  <2>4. BreakerInv'
    BY <2>2, LeavingStep DEF Stages
  <2> QED
    BY <1>3, <2>3, <2>4 DEF BreakerInv, Cooldown
<1>4. CASE ToHalfOpen(t) /\ circuit # "Open"
  <2>1. ~ValidTransition(circuit, "HalfOpen")
    BY <1>4 DEF ValidTransition
  <2>2. Passes(t, "half_open", "allow") /\ UNCHANGED <<circuit, age, openFor>>
    BY <1>4, <2>1 DEF ToHalfOpen, Transition
  <2> QED
    BY <2>2, OrdinaryStep DEF Stages, Stamping
<1> QED
  BY <1>1, <1>2, <1>3, <1>4

\* The copy a caller has of the state is a state.
SeenOK == seen \in [Clients -> {"Closed", "Open", "HalfOpen"}]

LEMMA SeenStep == ASSUME BreakerTypes, SeenOK, [BreakerNext]_breakerVars PROVE SeenOK'
<1> USE DEF BreakerTypes, SeenOK
<1>1. CASE UNCHANGED seen
  BY <1>1
<1>2. ASSUME NEW t \in Clients, seen' = [seen EXCEPT ![t] = circuit] PROVE SeenOK'
  BY <1>2
<1>3. CASE BreakerNext
  BY <1>1, <1>2, <1>3
     DEF BreakerNext, Calls, ManualCall, World, Execute, SetCounter, Enter, CheckTimeout, ToHalfOpen,
         ClearSuccesses, AllowsRequest, Call, FailureSeen, CountFailure, TestThreshold, ToOpen,
         Reopen, Forget, SuccessSeen, CountSuccess, ToClosed, ResetFailures, ResetSuccesses, Stamp,
         TripTest, Trip, ResetState, Tick, Heal, ReadState
<1> QED
  BY <1>1, <1>3 DEF breakerVars

LEMMA BreakerStep ==
  ASSUME Timeout \in Nat, BreakerInv, SeenOK, [BreakerNext /\ OneAtATime']_breakerVars
  PROVE  BreakerInv' /\ [Cooldown]_breakerVars
<1> USE DEF Quiet
<1>1. Clients \subseteq Callers /\ Manual \in Callers
  BY DEF Callers
<1>2. CASE UNCHANGED breakerVars
  BY <1>2 DEF breakerVars, BreakerInv, BreakerTypes, OneAtATime
<1> SUFFICES ASSUME BreakerNext, OneAtATime' PROVE BreakerInv' /\ Cooldown
  BY <1>2
<1>3. ASSUME NEW t \in Clients, Execute(t) PROVE BreakerInv' /\ Cooldown
  <2> t \in Callers
    BY <1>1
  <2>1. CASE Enter(t)
    <3>1. \E to \in {"timeout", "allow"} : Passes(t, "idle", to)
      BY <2>1 DEF Enter, ReadState
    <3>2. UNCHANGED <<circuit, age, openFor>>
      BY <2>1 DEF Enter, ReadState
    <3> QED
      BY <3>1, <3>2, OrdinaryStep DEF Stages, Stamping
  <2>2. CASE CheckTimeout(t) \/ ToHalfOpen(t)
    BY <2>2, HalfOpens
  <2>3. CASE ClearSuccesses(t)
    BY <2>3, OrdinaryStep DEF ClearSuccesses, Stages, Stamping
  <2>4. CASE AllowsRequest(t)
    BY <2>4, OrdinaryStep DEF AllowsRequest, Stages, Stamping
  <2>5. CASE Call(t)
    BY <2>5, OrdinaryStep DEF Call, Stages, Stamping
  <2>6. CASE FailureSeen(t)
    <3>1. Passes(t, "failed", "count") /\ UNCHANGED <<circuit, age, openFor>>
      BY <2>6 DEF FailureSeen, ReadState
    <3> QED
      BY <3>1, OrdinaryStep DEF Stages, Stamping
  <2>7. CASE CountFailure(t)
    <3>1. UNCHANGED <<circuit, age, openFor>>
      BY <2>7 DEF CountFailure
    <3>2. seen[t] \in {"Closed", "Open", "HalfOpen"}
      BY DEF SeenOK
    <3>3. \E to \in {"test", "reopen", "idle"} : Passes(t, "count", to)
      BY <2>7, <3>2 DEF CountFailure
    <3> QED
      BY <3>1, <3>3, OrdinaryStep DEF Stages, Stamping
  <2>8. CASE TestThreshold(t)
    BY <2>8, OrdinaryStep DEF TestThreshold, Stages, Stamping
  <2>9. CASE ToOpen(t)
    BY <2>9, OpeningStep DEF ToOpen, Stages, Stamping
  <2>10. CASE Reopen(t)
    BY <2>10, OpeningStep DEF Reopen, Stages, Stamping
  <2>11. CASE Forget(t)
    BY <2>11, OrdinaryStep DEF Forget, Stages, Stamping
  <2>12. CASE SuccessSeen(t)
    <3>1. UNCHANGED <<circuit, age, openFor>> /\ circuit \in {"Closed", "Open", "HalfOpen"}
      BY <2>12 DEF SuccessSeen, ReadState, BreakerInv, BreakerTypes
    <3>2. \E to \in {"reset_failures", "count_success", "idle"} : Passes(t, "succeeded", to)
      BY <2>12, <3>1 DEF SuccessSeen, ReadState
    <3> QED
      BY <3>1, <3>2, OrdinaryStep DEF Stages, Stamping
  <2>13. CASE CountSuccess(t)
    BY <2>13, OrdinaryStep DEF CountSuccess, Stages, Stamping
  <2>14. CASE ToClosed(t)
    <3>1. UNCHANGED age
      BY <2>14 DEF ToClosed
    <3>2. CASE circuit = "HalfOpen"
      <4>1. Passes(t, "close", "closed1") /\ circuit' = "Closed" /\ UNCHANGED openFor
        BY <2>14, <3>2 DEF ToClosed, Transition, ValidTransition
      <4> QED
        BY <3>1, <3>2, <4>1, LeavingStep DEF Stages, Cooldown
    <3>3. CASE circuit # "HalfOpen"
      <4>1. ~ValidTransition(circuit, "Closed")
        BY <3>3 DEF ValidTransition
      <4>2. Passes(t, "close", "idle") /\ UNCHANGED <<circuit, openFor>>
        BY <2>14, <4>1 DEF ToClosed, Transition
      <4> QED
        BY <3>1, <4>2, OrdinaryStep DEF Stages, Stamping
    <3> QED
      BY <3>2, <3>3
  <2> QED
    BY <1>3, <2>1, <2>2, <2>3, <2>4, <2>5, <2>6, <2>7, <2>8, <2>9, <2>10, <2>11, <2>12, <2>13, <2>14
       DEF Execute
<1>4. ASSUME NEW t \in Callers, SetCounter(t) PROVE BreakerInv' /\ Cooldown
  <2>1. CASE ResetFailures(t)
    BY <2>1, OrdinaryStep DEF ResetFailures, Stages, Stamping
  <2>2. CASE ResetSuccesses(t)
    BY <2>2, OrdinaryStep DEF ResetSuccesses, Stages, Stamping
  <2>3. CASE Stamp(t)
    <3>1. PICK from \in Stamping : Passes(t, from, "idle")
      BY <2>3 DEF Stamp, Stamping
    <3>2. age' = 0 /\ UNCHANGED <<circuit, openFor>>
      BY <2>3 DEF Stamp
    <3>3. /\ stage' \in [Callers -> Stages] /\ stage'[t] = "idle"
          /\ \A u \in Callers \ {t} : stage'[u] = stage[u]
      BY <3>1, CallerMoves DEF Stages
    <3>4. BreakerTypes'
      BY <3>2, <3>3 DEF BreakerInv, BreakerTypes, Never, Callers
    <3> QED
      BY <3>2, <3>3, <3>4 DEF BreakerInv, BreakerTypes, Cooldown, Never, Callers
  <2> QED
    BY <1>4, <2>1, <2>2, <2>3 DEF SetCounter
<1>5. CASE ManualCall
  <2>1. CASE TripTest
    BY <1>1, <2>1, OrdinaryStep DEF TripTest, Stages, Stamping
  <2>2. CASE Trip
    BY <1>1, <2>2, OpeningStep DEF Trip, Stages, Stamping
  <2>3. CASE ResetState
    BY <1>1, <2>3, LeavingStep DEF ResetState, Stages, Cooldown
  <2> QED
    BY <1>1, <1>4, <1>5, <2>1, <2>2, <2>3 DEF ManualCall
<1>6. CASE Heal
  BY <1>6 DEF Heal, BreakerInv, BreakerTypes, OneAtATime, Cooldown
<1>7. CASE Tick
  <2>1. UNCHANGED <<circuit, stage>>
    BY <1>7 DEF Tick
  <2>2. /\ age' = IF age = Never THEN age ELSE Capped(age + 1, Timeout + 1)
        /\ openFor' = IF openFor = Never THEN openFor ELSE Capped(openFor + 1, Timeout + 1)
    BY <1>7 DEF Tick
  <2>3. age \in 0 .. Never /\ openFor \in 0 .. Never
    BY DEF BreakerInv, BreakerTypes
  <2>4. /\ age' \in 0 .. Never /\ openFor' \in 0 .. Never
        /\ openFor > Timeout => openFor' > Timeout
        /\ age = Never \/ age <= openFor => age' = Never \/ age' <= openFor'
    BY <2>2, <2>3 DEF Capped, Never
  <2> QED
    BY <2>1, <2>4 DEF BreakerInv, BreakerTypes, OneAtATime, Cooldown, Never, Callers
<1> QED
  BY <1>1, <1>3, <1>4, <1>5, <1>6, <1>7 DEF BreakerNext, Calls, World

\* The comment on timeout_ms of circuit_breaker.rs: with one caller at a time,
\* trips and resets by hand included, the breaker stays Open that long before
\* it becomes HalfOpen (transition_to, check_timeout).
THEOREM OpenForItsTimeout == ASSUME Timeout \in Nat PROVE AloneSpec => [][Cooldown]_breakerVars
<1>1. BreakerInit => BreakerInv /\ SeenOK
  BY BreakerInitInv DEF BreakerInit, SeenOK
<1>2. BreakerInv /\ SeenOK /\ [BreakerNext /\ OneAtATime']_breakerVars => BreakerInv' /\ SeenOK' /\ [Cooldown]_breakerVars
  BY BreakerStep, SeenStep DEF BreakerInv
<1> QED
  BY <1>1, <1>2, PTL DEF AloneSpec

-----------------------------------------------------------------------------
(* The shares of the wheel.                                                 *)

Many(id) == IF Weight[id] = 0 THEN 1 ELSE Weight[id]
IdsOf(ts) == [i \in DOMAIN ts |-> ts[i].id]
Blocks(list) == [i \in DOMAIN list |-> [j \in 1 .. Many(list[i]) |-> list[i]]]

\* The ids the cursor goes round, for candidates with the ids of `list`.
Ring(list) == IF config.strategy = "weighted" THEN FlattenSeq(Blocks(list)) ELSE list

\* One more id is a block of its own at the end.
LEMMA BlocksAppend ==
  ASSUME Weight \in [Ids -> Nat], NEW list \in Seq(Ids), NEW x \in Ids
  PROVE  LET block == [j \in 1 .. Many(x) |-> x] IN
         /\ Many(x) \in Nat \ {0} /\ block \in Seq(Ids) /\ Len(block) = Many(x)
         /\ Blocks(list) \in Seq(Seq(Ids))
         /\ FlattenSeq(Blocks(list)) \in Seq(Ids)
         /\ FlattenSeq(Blocks(Append(list, x))) = FlattenSeq(Blocks(list)) \o block
<1> DEFINE block(y) == [j \in 1 .. Many(y) |-> y]
           more == Append(list, x)
<1>1. \A y \in Ids : Many(y) \in Nat \ {0} /\ block(y) \in Seq(Ids) /\ Len(block(y)) = Many(y)
  <2> TAKE y \in Ids
  <2>1. Many(y) \in Nat \ {0}
    BY DEF Many
  <2> DEFINE n == Many(y)
  <2> HIDE DEF n
  <2>2. [j \in 1 .. n |-> y] \in Seq(Ids) /\ Len([j \in 1 .. n |-> y]) = n
    BY <2>1 DEF n
  <2> QED
    BY <2>1, <2>2 DEF n
<1>2. /\ DOMAIN list = 1 .. Len(list) /\ Len(list) \in Nat /\ \A i \in 1 .. Len(list) : list[i] \in Ids
      /\ DOMAIN more = 1 .. Len(list) + 1 /\ more[Len(list) + 1] = x
      /\ \A i \in 1 .. Len(list) : more[i] = list[i]
  BY AppendProperties, LenProperties
<1> HIDE DEF block, more
<1>3. /\ Blocks(list) = [i \in 1 .. Len(list) |-> block(list[i])]
      /\ Blocks(more) = [i \in 1 .. Len(list) + 1 |-> block(more[i])]
  BY <1>2 DEF Blocks, block
<1>4. Blocks(list) \in Seq(Seq(Ids)) /\ Len(Blocks(list)) = Len(list)
  BY <1>1, <1>2, <1>3
<1>5. Blocks(more) = Append(Blocks(list), block(x))
  <2> DEFINE p == Blocks(list)
             q == Blocks(more)
  <2>3. /\ block(x) \in Seq(Ids) /\ p \in Seq(Seq(Ids)) /\ Len(p) = Len(list) /\ Len(list) \in Nat
        /\ p = [i \in 1 .. Len(list) |-> block(list[i])]
        /\ q = [i \in 1 .. Len(list) + 1 |-> block(more[i])]
    BY <1>1, <1>2, <1>3, <1>4
  <2>4. \A i \in 1 .. Len(list) + 1 : block(more[i]) \in Seq(Ids)
    <3>1. \A i \in 1 .. Len(list) + 1 : more[i] \in Ids
      <4>1. \A i \in 1 .. Len(list) + 1 : i \in 1 .. Len(list) \/ i = Len(list) + 1
        BY <1>2
      <4> QED
        BY <1>2, <4>1
    <3> QED
      BY <1>1, <3>1
  <2> HIDE DEF p, q
  <2>5. q \in Seq(Seq(Ids)) /\ Len(q) = Len(list) + 1
    BY <2>3, <2>4
  <2>6. \A i \in 1 .. Len(p) : q[i] = p[i]
    BY <1>2, <2>3
  <2>1. /\ block(x) \in Seq(Ids) /\ p \in Seq(Seq(Ids)) /\ Len(p) = Len(list)
        /\ q \in Seq(Seq(Ids)) /\ Len(q) = Len(p) + 1 /\ q[Len(p) + 1] = block(x)
        /\ \A i \in 1 .. Len(p) : q[i] = p[i]
    BY <1>2, <2>3, <2>5, <2>6
  <2> HIDE DEF p, q
  <2>2. q = Append(p, block(x))
    BY <2>1, AppendIs
  <2> QED
    BY <2>2 DEF p, q
<1>6. block(x) \in Seq(Ids)
  BY <1>1
<1>7. /\ FlattenSeq(Blocks(list)) \in Seq(Ids)
      /\ FlattenSeq(Append(Blocks(list), block(x))) = FlattenSeq(Blocks(list)) \o block(x)
  BY <1>4, <1>6, FlattenAppend
<1> QED
  BY <1>1, <1>4, <1>5, <1>7 DEF block, more

\* Each id has its weight of places, if it is there once.
LEMMA BlocksShare ==
  ASSUME Weight \in [Ids -> Nat]
  PROVE  \A list \in Seq(Ids) :
           /\ FlattenSeq(Blocks(list)) \in Seq(Ids)
           /\ IsInjective(list) => \A id \in Ids :
                /\ IsFiniteSet(PlacesIn(FlattenSeq(Blocks(list)), id))
                /\ Cardinality(PlacesIn(FlattenSeq(Blocks(list)), id)) <= Many(id)
<1> DEFINE F(list) == FlattenSeq(Blocks(list))
           Shared(list) == IsInjective(list) => \A id \in Ids :
             /\ IsFiniteSet(PlacesIn(F(list), id)) /\ Cardinality(PlacesIn(F(list), id)) <= Many(id)
             /\ id \notin Range(list) => PlacesIn(F(list), id) = {}
           Good == {list \in Seq(Ids) : F(list) \in Seq(Ids) /\ Shared(list)}
<1>0. \A id \in Ids : Many(id) \in Nat \ {0}
  BY DEF Many
<1>1. <<>> \in Good
  <2>1. Blocks(<<>>) = <<>>
    BY DEF Blocks
  <2>2. F(<<>>) = <<>>
    BY <2>1 DEF FlattenSeq
  <2>3. \A id \in Ids : PlacesIn(<<>>, id) = {}
    BY DEF PlacesIn
  <2>4. IsFiniteSet({}) /\ Cardinality({}) = 0
    BY FS_EmptySet
  <2> HIDE DEF F
  <2>5. Shared(<<>>)
    BY <1>0, <2>2, <2>3, <2>4
  <2>6. <<>> \in Seq(Ids)
    OBVIOUS
  <2> HIDE DEF Shared
  <2> QED
    BY <2>2, <2>5, <2>6
<1>2. ASSUME NEW list \in Seq(Ids) \cap Good, NEW x \in Ids PROVE Append(list, x) \in Good
  <2> DEFINE more == Append(list, x)
             block == [j \in 1 .. Many(x) |-> x]
             s == F(list)
             t == F(more)
  <2>1. /\ Many(x) \in Nat \ {0} /\ block \in Seq(Ids) /\ Len(block) = Many(x)
        /\ s \in Seq(Ids) /\ t = s \o block
    BY BlocksAppend
  <2>2. \A j \in 1 .. Many(x) : block[j] = x
    OBVIOUS
  <2>3. more \in Seq(Ids) /\ Range(more) = Range(list) \cup {x}
        /\ (IsInjective(more) <=> IsInjective(list) /\ x \notin Range(list))
    BY AppendRange, AppendOnce
  <2>4. Shared(list)
    OBVIOUS
  <2> HIDE DEF F, block
  <2>5. /\ t \in Seq(Ids) /\ Len(t) = Len(s) + Many(x) /\ Len(s) \in Nat
        /\ \A k \in 1 .. Len(s) : t[k] = s[k]
        /\ \A k \in 1 .. Len(t) : k \notin 1 .. Len(s) => t[k] = x
        /\ DOMAIN s = 1 .. Len(s) /\ DOMAIN t = 1 .. Len(t)
    <3>0. Len(s) \in Nat /\ Many(x) \in Nat
      BY <2>1
    <3>1. /\ s \o block \in Seq(Ids) /\ Len(s \o block) = Len(s) + Many(x)
          /\ \A k \in 1 .. Len(s) + Len(block) : (s \o block)[k] = IF k <= Len(s) THEN s[k] ELSE block[k - Len(s)]
      BY <2>1, ConcatProperties
    <3> HIDE DEF s, t
    <3>2. \A k \in 1 .. Len(t) : k \notin 1 .. Len(s) => t[k] = x
      <4> SUFFICES ASSUME NEW k \in 1 .. Len(t), k \notin 1 .. Len(s) PROVE t[k] = x
        OBVIOUS
      <4>1. k - Len(s) \in 1 .. Many(x) /\ ~(k <= Len(s)) /\ k \in 1 .. Len(s) + Len(block)
        BY <2>1, <3>0, <3>1
      <4> QED
        BY <2>1, <2>2, <3>1, <4>1
    <3>3. \A k \in 1 .. Len(s) : t[k] = s[k]
      BY <2>1, <3>0, <3>1
    <3> QED
      BY <2>1, <3>0, <3>1, <3>2, <3>3
  <2> HIDE DEF s, t, more
  <2>6. ASSUME IsInjective(more), NEW id \in Ids
        PROVE  /\ IsFiniteSet(PlacesIn(t, id)) /\ Cardinality(PlacesIn(t, id)) <= Many(id)
               /\ id \notin Range(more) => PlacesIn(t, id) = {}
    <3>1. /\ IsFiniteSet(PlacesIn(s, id)) /\ Cardinality(PlacesIn(s, id)) <= Many(id)
          /\ id \notin Range(list) => PlacesIn(s, id) = {}
      BY <2>3, <2>4, <2>6 DEF s
    <3>2. CASE id # x
      <4>1. PlacesIn(t, id) = PlacesIn(s, id)
        BY <2>5, <2>1, <3>2 DEF PlacesIn
      <4> QED
        BY <2>3, <3>1, <3>2, <4>1
    <3>3. CASE id = x
      <4>1. PlacesIn(s, id) = {}
        BY <2>3, <2>6, <3>1, <3>3
      <4>2. PlacesIn(t, id) = Len(s) + 1 .. Len(s) + Many(x)
        BY <2>1, <2>5, <3>3, <4>1 DEF PlacesIn
      <4>3. /\ IsFiniteSet(Len(s) + 1 .. Len(s) + Many(x))
            /\ Cardinality(Len(s) + 1 .. Len(s) + Many(x)) = Many(x)
        <5> DEFINE a == Len(s) + 1
                   b == Len(s) + Many(x)
        <5>1. a \in Int /\ b \in Int /\ ~(a > b) /\ b - a + 1 = Many(x)
          BY <2>1, <2>5
        <5> HIDE DEF a, b
        <5>2. IsFiniteSet(a .. b) /\ Cardinality(a .. b) = b - a + 1
          BY <5>1, FS_Interval
        <5> QED
          BY <5>1, <5>2 DEF a, b
      <4>4. Many(id) \in Nat
        BY <1>0
      <4>5. Cardinality(PlacesIn(t, id)) = Many(id)
        BY <3>3, <4>2, <4>3
      <4>6. id \in Range(more)
        BY <2>3, <3>3
      <4> QED
        BY <4>2, <4>3, <4>4, <4>5, <4>6
    <3> QED
      BY <3>2, <3>3
  <2>7. Shared(more)
    BY <2>6 DEF t
  <2>8. F(more) \in Seq(Ids)
    BY <2>5 DEF t
  <2> HIDE DEF Shared
  <2> QED
    BY <2>3, <2>7, <2>8 DEF more
<1> HIDE DEF Good
<1>3. Seq(Ids) \subseteq Good
  BY <1>1, <1>2, SequenceInduction
<1> QED
  BY <1>3 DEF Good

LEMMA IdsAppend ==
  ASSUME NEW c \in Seq(TargetRec), NEW t \in TargetRec
  PROVE  IdsOf(c) \in Seq(Ids) /\ IdsOf(Append(c, t)) = Append(IdsOf(c), t.id)
<1> DEFINE more == Append(c, t)
           p == IdsOf(c)
           q == IdsOf(more)
           x == t.id
<1>1. /\ DOMAIN c = 1 .. Len(c) /\ Len(c) \in Nat /\ \A i \in 1 .. Len(c) : c[i] \in TargetRec
      /\ DOMAIN more = 1 .. Len(c) + 1 /\ more[Len(c) + 1] = t
      /\ \A i \in 1 .. Len(c) : more[i] = c[i]
  BY AppendProperties, LenProperties
<1>2. x \in Ids /\ \A i \in 1 .. Len(c) : c[i].id \in Ids
  BY <1>1 DEF TargetRec
<1> HIDE DEF more
<1>3. p = [i \in 1 .. Len(c) |-> c[i].id] /\ q = [i \in 1 .. Len(c) + 1 |-> more[i].id]
  BY <1>1 DEF IdsOf
<1>4. /\ p \in Seq(Ids) /\ Len(p) = Len(c)
      /\ q \in Seq(Ids) /\ Len(q) = Len(p) + 1 /\ q[Len(p) + 1] = x
      /\ \A i \in 1 .. Len(p) : q[i] = p[i]
  BY <1>1, <1>2, <1>3
<1> HIDE DEF p, q, x
<1>5. q = Append(p, x)
  BY <1>2, <1>4, AppendIs
<1> QED
  BY <1>4, <1>5 DEF p, q, x, more

\* The wheel of candidates goes round the ids of theirs.
LEMMA ExpandedIds ==
  ASSUME Weight \in [Ids -> Nat]
  PROVE  \A cands \in Seq(TargetRec) :
           LET ring == FlattenSeq(Blocks(IdsOf(cands))) IN
           /\ Expanded(cands) \in Seq(TargetRec) /\ Len(Expanded(cands)) = Len(ring)
           /\ \A k \in 1 .. Len(ring) : Expanded(cands)[k].id = ring[k]
<1> DEFINE F(cands) == FlattenSeq(Blocks(IdsOf(cands)))
           Same(cands) == /\ Expanded(cands) \in Seq(TargetRec) /\ Len(Expanded(cands)) = Len(F(cands))
                          /\ \A k \in 1 .. Len(F(cands)) : Expanded(cands)[k].id = F(cands)[k]
           Good == {cands \in Seq(TargetRec) : Same(cands)}
<1>1. <<>> \in Good
  <2>1. Blocks(IdsOf(<<>>)) = <<>>
    BY DEF Blocks, IdsOf
  <2>2. F(<<>>) = <<>>
    BY <2>1 DEF FlattenSeq
  <2>3. Expanded(<<>>) = <<>>
    BY DEF Expanded, FlattenSeq
  <2> HIDE DEF F
  <2>4. <<>> \in Seq(TargetRec) /\ Len(<<>>) = 0
    OBVIOUS
  <2> DEFINE e == Expanded(<<>>)
             f == F(<<>>)
  <2>6. e = <<>> /\ f = <<>> /\ Len(e) = 0 /\ Len(f) = 0 /\ e \in Seq(TargetRec)
    BY <2>2, <2>3, <2>4
  <2> HIDE DEF e, f
  <2>7. \A k \in 1 .. Len(f) : e[k].id = f[k]
    BY <2>6
  <2>5. Same(<<>>)
    BY <2>6, <2>7 DEF e, f
  <2> HIDE DEF Same
  <2> QED
    BY <2>4, <2>5
<1>2. ASSUME NEW c \in Seq(TargetRec) \cap Good, NEW t \in TargetRec PROVE Append(c, t) \in Good
  <2> DEFINE more == Append(c, t)
             rep(u) == [j \in 1 .. Many(u.id) |-> u]
             parts(q) == [i \in DOMAIN q |-> rep(q[i])]
             block == [j \in 1 .. Many(t.id) |-> t.id]
  <2>0. \A u \in TargetRec : u.id \in Ids
    BY DEF TargetRec
  <2>1. \A u \in TargetRec : Many(u.id) \in Nat \ {0} /\ rep(u) \in Seq(TargetRec) /\ Len(rep(u)) = Many(u.id)
    <3> TAKE u \in TargetRec
    <3>1. Many(u.id) \in Nat \ {0}
      BY <2>0 DEF Many
    <3> DEFINE n == Many(u.id)
    <3> HIDE DEF n
    <3>2. [j \in 1 .. n |-> u] \in Seq(TargetRec) /\ Len([j \in 1 .. n |-> u]) = n
      BY <3>1 DEF n
    <3> QED
      BY <3>1, <3>2 DEF n
  <2>2. /\ DOMAIN c = 1 .. Len(c) /\ Len(c) \in Nat /\ \A i \in 1 .. Len(c) : c[i] \in TargetRec
        /\ DOMAIN more = 1 .. Len(c) + 1 /\ more[Len(c) + 1] = t
        /\ \A i \in 1 .. Len(c) : more[i] = c[i]
        /\ more \in Seq(TargetRec)
    BY AppendProperties, LenProperties
  <2>3. \A q \in Seq(TargetRec) : Expanded(q) = FlattenSeq(parts(q))
    BY DEF Expanded, Many
  <2>9. \A j \in 1 .. Many(t.id) : rep(t)[j] = t /\ block[j] = t.id
    OBVIOUS
  <2> HIDE DEF rep, more
  <2>4. parts(c) \in Seq(Seq(TargetRec)) /\ parts(more) = Append(parts(c), rep(t))
    <3>1. parts(c) \in Seq(Seq(TargetRec)) /\ Len(parts(c)) = Len(c)
      BY <2>1, <2>2
    <3>2. rep(t) \in Seq(TargetRec)
      BY <2>1
    <3> DEFINE p == parts(c)
               q == parts(more)
    <3>3. /\ p \in Seq(Seq(TargetRec)) /\ Len(p) = Len(c)
          /\ q \in Seq(Seq(TargetRec)) /\ Len(q) = Len(p) + 1 /\ q[Len(p) + 1] = rep(t)
          /\ \A i \in 1 .. Len(p) : q[i] = p[i]
      BY <2>1, <2>2, <3>1
    <3> HIDE DEF p, q
    <3>4. q = Append(p, rep(t))
      BY <3>2, <3>3, AppendIs
    <3> QED
      BY <3>3, <3>4 DEF p, q
  <2>5. Expanded(more) = Expanded(c) \o rep(t)
    <3>1. rep(t) \in Seq(TargetRec)
      BY <2>1
    <3>2. FlattenSeq(Append(parts(c), rep(t))) = FlattenSeq(parts(c)) \o rep(t)
      BY <2>4, <3>1, FlattenAppend
    <3> QED
      BY <2>2, <2>3, <2>4, <3>2
  <2>6. IdsOf(c) \in Seq(Ids) /\ IdsOf(more) = Append(IdsOf(c), t.id)
    BY IdsAppend DEF more
  <2>7. F(more) = F(c) \o block /\ F(c) \in Seq(Ids) /\ block \in Seq(Ids) /\ Len(block) = Many(t.id)
    BY <2>0, <2>6, BlocksAppend
  <2> DEFINE e == Expanded(c)
             f == F(c)
             r == rep(t)
  <2>8. /\ e \in Seq(TargetRec) /\ Len(e) = Len(f) /\ \A k \in 1 .. Len(f) : e[k].id = f[k]
        /\ f \in Seq(Ids) /\ block \in Seq(Ids) /\ Len(block) = Many(t.id)
        /\ r \in Seq(TargetRec) /\ Len(r) = Many(t.id) /\ Many(t.id) \in Nat
        /\ Expanded(more) = e \o r /\ F(more) = f \o block
    BY <2>1, <2>5, <2>7
  <2>10. \A j \in 1 .. Many(t.id) : r[j].id = block[j]
    BY <2>9
  <2> HIDE DEF e, f, r, block, F
  <2>11. /\ e \o r \in Seq(TargetRec) /\ Len(e \o r) = Len(e) + Len(r)
         /\ \A k \in 1 .. Len(e) + Len(r) : (e \o r)[k] = IF k <= Len(e) THEN e[k] ELSE r[k - Len(e)]
         /\ Len(f \o block) = Len(f) + Len(block)
         /\ \A k \in 1 .. Len(f) + Len(block) : (f \o block)[k] = IF k <= Len(f) THEN f[k] ELSE block[k - Len(f)]
         /\ Len(e) \in Nat
    <3>3. e \in Seq(TargetRec) /\ r \in Seq(TargetRec) /\ f \in Seq(Ids) /\ block \in Seq(Ids)
      BY <2>8
    <3>1. /\ e \o r \in Seq(TargetRec) /\ Len(e \o r) = Len(e) + Len(r) /\ Len(e) \in Nat
          /\ \A k \in 1 .. Len(e) + Len(r) : (e \o r)[k] = IF k <= Len(e) THEN e[k] ELSE r[k - Len(e)]
      BY <3>3, ConcatProperties
    <3>2. /\ Len(f \o block) = Len(f) + Len(block)
          /\ \A k \in 1 .. Len(f) + Len(block) : (f \o block)[k] = IF k <= Len(f) THEN f[k] ELSE block[k - Len(f)]
      BY <3>3, ConcatProperties
    <3> QED
      BY <3>1, <3>2
  <2>12. ASSUME NEW k \in 1 .. Len(f \o block) PROVE (e \o r)[k].id = (f \o block)[k]
    <3>1. CASE k <= Len(e)
      BY <2>8, <2>11, <3>1
    <3>2. CASE ~(k <= Len(e))
      <4>1. k - Len(e) \in 1 .. Many(t.id)
        BY <2>8, <2>11, <3>2
      <4> QED
        BY <2>8, <2>10, <2>11, <3>2, <4>1
    <3> QED
      BY <3>1, <3>2
  <2>13. Same(more)
    BY <2>8, <2>11, <2>12
  <2> HIDE DEF Same
  <2> QED
    BY <2>2, <2>13 DEF more
<1> HIDE DEF Good
<1>3. Seq(TargetRec) \subseteq Good
  BY <1>1, <1>2, SequenceInduction
<1> QED
  BY <1>3 DEF Good

-----------------------------------------------------------------------------
(* What a selection says of the targets and what it does with them.         *)

\* A circuit is in one of its states, and nothing is kept of the health of
\* targets where the options ask for none.
CircuitsOK(h) ==
  /\ \A i \in DOMAIN h : h[i].circuit \in {"closed", "open", "half_open"}
  /\ ~Enabled => DOMAIN h = {}

LEMMA WrittenCircuit ==
  ASSUME CircuitsOK(health), Enabled, NEW id, NEW h, SetHealth(id, h),
         h.circuit \in {"closed", "open", "half_open"}
  PROVE  CircuitsOK(health')
BY DEF CircuitsOK, SetHealth

\* The circuit of a record that is written.
LEMMA RecordCircuits ==
  ASSUME HealthOK(health), CircuitsOK(health), NEW id
  PROVE  LET Fine(h) == h.circuit \in {"closed", "open", "half_open"}
             e == EntryMut(id)
         IN  Fine(e) /\ Fine(Refreshed(e)) /\ Fine(Succeeded(e)) /\ Fine(Failed(e))
             /\ \A beatOk : Fine(Beaten(e, beatOk))
<1> DEFINE e == EntryMut(id)
           Fine(h) == DOMAIN h = HealthFields /\ h.circuit \in {"closed", "open", "half_open"}
<1>1. Fine(e)
  <2>1. CASE id \in DOMAIN health
    BY <2>1 DEF EntryMut, HealthOK, CircuitsOK
  <2>2. CASE id \notin DOMAIN health
    <3>1. e = NewHealth
      BY <2>2 DEF EntryMut
    <3> HIDE DEF e
    <3> QED
      BY <3>1 DEF NewHealth, HealthFields
  <2> QED
    BY <2>1, <2>2
<1> HIDE DEF e
<1>2. Fine(Refreshed(e))
  <2> DEFINE g == IF e.circuit = "open" /\ e.cooled /\ config.failures > 0
                  THEN [e EXCEPT !.circuit = "half_open", !.cooled = FALSE, !.succs = 0] ELSE e
  <2>1. Fine(g)
    BY <1>1 DEF HealthFields
  <2>2. Refreshed(e) = [g EXCEPT !.healthy = @ /\ ~HeartbeatExpired(g)]
    BY DEF Refreshed
  <2> HIDE DEF g
  <2> QED
    BY <2>1, <2>2 DEF HealthFields
<1>3. Fine(Succeeded(e))
  <2> DEFINE g == [e EXCEPT !.healthy = TRUE, !.fails = 0, !.succs = Upto(@ + 1, HealthCap)]
  <2>1. Fine(g)
    BY <1>1 DEF HealthFields
  <2>2. Succeeded(e) = CloseCircuit(g) \/ Succeeded(e) = g
    BY DEF Succeeded
  <2> HIDE DEF g
  <2>3. Fine(CloseCircuit(g))
    BY <2>1 DEF CloseCircuit, HealthFields
  <2> QED
    BY <2>1, <2>2, <2>3
<1>4. Fine(Failed(e))
  <2> DEFINE g == [e EXCEPT !.fails = Upto(@ + 1, HealthCap), !.succs = 0]
  <2>1. Fine(g)
    BY <1>1 DEF HealthFields
  <2>2. Failed(e) = OpenCircuit(g) \/ Failed(e) = g
    BY DEF Failed
  <2> HIDE DEF g
  <2>3. Fine(OpenCircuit(g))
    BY <2>1 DEF OpenCircuit, HealthFields
  <2> QED
    BY <2>1, <2>2, <2>3
<1>5. \A beatOk : Fine(Beaten(e, beatOk))
  <2> TAKE beatOk
  <2> QED
    BY <1>1 DEF Beaten, HealthFields
<1> QED
  BY <1>1, <1>2, <1>3, <1>4, <1>5 DEF e

LEMMA RefreshCircuits ==
  ASSUME HealthOK(health), CircuitsOK(health)
  PROVE  CircuitsOK(RefreshTargets)
<1>1. CASE ~Enabled
  BY <1>1 DEF RefreshTargets
<1>2. CASE Enabled
  <2> DEFINE new == [id \in DOMAIN health \cup Present |->
                       IF id \in Present THEN Refreshed(EntryMut(id)) ELSE health[id]]
  <2>1. RefreshTargets = new
    BY <1>2 DEF RefreshTargets
  <2>2. \A id \in DOMAIN new : new[id].circuit \in {"closed", "open", "half_open"}
    <3>1. \A id : Refreshed(EntryMut(id)).circuit \in {"closed", "open", "half_open"}
      BY RecordCircuits
    <3>2. \A id \in DOMAIN health : health[id].circuit \in {"closed", "open", "half_open"}
      BY DEF CircuitsOK
    <3> QED
      BY <3>1, <3>2
  <2> HIDE DEF new
  <2> QED
    BY <1>2, <2>1, <2>2 DEF CircuitsOK
<1> QED
  BY <1>1, <1>2

\* Nothing changes the options, and every step leaves the circuits as they may be.
LEMMA CircuitsStep ==
  ASSUME HealthOK(health), CircuitsOK(health), BalancerNext,
         \A th \in Dispatchers : inHand[th].pc = "record" => Enabled
  PROVE  CircuitsOK(health)' /\ config' = config
<1>0. config' = config
  BY DEF BalancerNext, Dispatch, Refresh, CopyTargets, Filter, Pick, Count, Send, RecordOutcome, Finish, Outside,
         Command, AddTarget, RemoveTarget, RemoveHealth, SetStatus, ResetLoad, Heartbeat, CoolDown, HeartbeatAges,
         Fault, Repair
<1>1. CircuitsOK(health) <=> CircuitsOK(health)
  OBVIOUS
<1>2. ASSUME NEW th \in Dispatchers, Dispatch(th) PROVE CircuitsOK(health')
  <2>1. CASE health' = RefreshTargets \/ UNCHANGED health
    BY <2>1, RefreshCircuits
  <2>2. CASE RecordOutcome(th)
    <3> DEFINE e == EntryMut(inHand[th].target)
    <3>1. Enabled
      BY <2>2 DEF RecordOutcome, At
    <3>2. SetHealth(inHand[th].target, Succeeded(e)) \/ SetHealth(inHand[th].target, Failed(e))
      BY <2>2 DEF RecordOutcome
    <3>3. /\ Succeeded(e).circuit \in {"closed", "open", "half_open"}
          /\ Failed(e).circuit \in {"closed", "open", "half_open"}
      BY RecordCircuits
    <3> HIDE DEF e
    <3> QED
      BY <3>1, <3>2, <3>3, WrittenCircuit
  <2> QED
    BY <1>2, <2>1, <2>2 DEF Dispatch, Refresh, CopyTargets, Filter, Pick, Count, Send, Finish
<1>3. ASSUME NEW id \in Ids, Outside(id) PROVE CircuitsOK(health')
  <2>1. CASE Enabled /\ SetHealth(id, EntryMut(id))
    BY <2>1, RecordCircuits, WrittenCircuit
  <2>2. ASSUME NEW beatOk, Enabled, SetHealth(id, Beaten(EntryMut(id), beatOk)) PROVE CircuitsOK(health')
    BY <2>2, RecordCircuits, WrittenCircuit
  <2>3. CASE \/ health' = [i \in DOMAIN health \ {id} |-> health[i]]
             \/ id \in DOMAIN health /\ health' = [health EXCEPT ![id].cooled = TRUE]
             \/ id \in DOMAIN health /\ health' = [health EXCEPT ![id].beat = "stale"]
             \/ UNCHANGED health
    <3>1. \A i \in DOMAIN health' : i \in DOMAIN health /\ health'[i].circuit = health[i].circuit
      BY <2>3 DEF HealthOK, HealthFields
    <3> QED
      BY <3>1 DEF CircuitsOK
  <2> QED
    BY <1>3, <2>1, <2>2, <2>3 DEF Outside, AddTarget, RemoveTarget, RemoveHealth, SetStatus, ResetLoad, Heartbeat,
       CoolDown, HeartbeatAges, Fault, Repair, Shut
<1>4. CircuitsOK(health')
  BY <1>2, <1>3 DEF BalancerNext
<1> QED
  BY <1>0, <1>4 DEF CircuitsOK, Enabled

\* Targets with ids of their own.
Distinct(ts) == \A i, j \in DOMAIN ts : ts[i].id = ts[j].id => i = j

\* What is kept of targets keeps its ids.
LEMMA KeptDistinct ==
  ASSUME NEW ts \in Seq(TargetRec), NEW S, Distinct(ts)
  PROVE  Distinct(KeepOnly(ts, S))
<1> DEFINE kept == KeepOnly(ts, S)
<1>1. DOMAIN ts = 1 .. Len(ts)
  OBVIOUS
<1>2. IsInjective(ts)
  BY DEF IsInjective, Distinct
<1>3. IsInjective(kept) /\ kept \in Seq(TargetRec) /\ Range(kept) = Range(ts) \cap S
  BY <1>2, KeepOnce, KeepRange
<1> HIDE DEF kept
<1>4. \A t, u \in Range(ts) : t.id = u.id => t = u
  BY DEF Distinct, Range
<1>5. \A i \in DOMAIN kept : kept[i] \in Range(ts)
  BY <1>3 DEF Range
<1>6. Distinct(kept)
  BY <1>3, <1>4, <1>5 DEF Distinct, IsInjective
<1> QED
  BY <1>6 DEF kept

LEMMA DistinctCandidates ==
  ASSUME NEW ts \in Seq(TargetRec), NEW h, Distinct(ts)
  PROVE  Distinct(Candidates(ts, h))
<1>1. Available(ts) \in Seq(TargetRec) /\ Distinct(Available(ts))
  BY KeepRange, KeptDistinct DEF Available
<1>2. \A is : Distinct(Circuits(ts, h, is))
  BY <1>1, KeptDistinct DEF Circuits
<1> QED
  BY <1>2 DEF Candidates

LEMMA DistinctStep ==
  ASSUME LoadInv, LoadInv', Distinct(targets), BalancerNext
  PROVE  Distinct(targets')
<1>1. /\ DOMAIN targets = 1 .. Len(targets) /\ Len(targets) \in Nat
      /\ \A i \in 1 .. Len(targets) : targets[i] \in TargetRec
  BY TargetAt
<1>2. ASSUME DOMAIN targets' = DOMAIN targets, \A i \in DOMAIN targets : targets'[i].id = targets[i].id
      PROVE  Distinct(targets')
  BY <1>2 DEF Distinct
<1>3. ASSUME NEW id, NEW new, SetLoad(id, new) PROVE Distinct(targets')
  <2>1. DOMAIN targets' = DOMAIN targets /\ \A i \in DOMAIN targets : targets'[i].id = targets[i].id
    BY <1>1, <1>3 DEF SetLoad, TargetRec
  <2> QED
    BY <1>2, <2>1
<1>4. ASSUME NEW th \in Dispatchers, Dispatch(th) PROVE Distinct(targets')
  <2>1. UNCHANGED targets \/ \E id, new : SetLoad(id, new)
    BY <1>4 DEF Dispatch, Refresh, CopyTargets, Filter, Pick, Count, Send, RecordOutcome, Finish
  <2> QED
    BY <1>3, <2>1 DEF Distinct
<1>5. ASSUME NEW id \in Ids, Outside(id) PROVE Distinct(targets')
  <2> DEFINE t == [id |-> id, status |-> "available", active |-> 0]
  <2>1. CASE AddTarget(id)
    <3>1. CASE id \in Present
      <4>1. targets' = [i \in DOMAIN targets |-> IF targets[i].id = id THEN t ELSE targets[i]]
        BY <2>1, <3>1 DEF AddTarget
      <4>2. DOMAIN targets' = DOMAIN targets /\ \A i \in DOMAIN targets : targets'[i].id = targets[i].id
        BY <4>1
      <4> QED
        BY <1>2, <4>2
    <3>2. CASE id \notin Present
      <4>1. targets' = Append(targets, t) /\ t.id = id /\ t \in TargetRec
        BY <2>1, <3>2 DEF AddTarget, TargetRec
      <4> HIDE DEF t
      <4>2. /\ DOMAIN targets' = 1 .. Len(targets) + 1 /\ targets'[Len(targets) + 1] = t
            /\ \A i \in 1 .. Len(targets) : targets'[i] = targets[i]
        BY <4>1, AppendProperties DEF LoadInv
      <4>3. \A i \in 1 .. Len(targets) : targets[i].id # id
        BY <1>1, <3>2 DEF Present, Range
      <4>4. \A i \in 1 .. Len(targets) + 1 : i \in 1 .. Len(targets) \/ i = Len(targets) + 1
        BY <1>1
      <4> QED
        BY <1>1, <4>1, <4>2, <4>3, <4>4 DEF Distinct
    <3> QED
      BY <3>1, <3>2
  <2>2. CASE RemoveTarget(id)
    <3>1. targets' = KeepOnly(targets, {u \in Range(targets) : u.id # id})
      BY <2>2 DEF RemoveTarget
    <3> QED
      BY <3>1, KeptDistinct DEF LoadInv
  <2>3. ASSUME NEW status, SetStatus(id, status) PROVE Distinct(targets')
    <3>1. DOMAIN targets' = DOMAIN targets /\ \A i \in DOMAIN targets : targets'[i].id = targets[i].id
      BY <1>1, <2>3 DEF SetStatus, TargetRec
    <3> QED
      BY <1>2, <3>1
  <2>4. CASE ResetLoad(id)
    BY <1>3, <2>4 DEF ResetLoad
  <2>5. CASE UNCHANGED targets
    BY <2>5 DEF Distinct
  <2> QED
    BY <1>5, <2>1, <2>2, <2>3, <2>4, <2>5 DEF Outside, RemoveHealth, Heartbeat, CoolDown, HeartbeatAges, Fault, Repair
<1> QED
  BY <1>4, <1>5 DEF BalancerNext

IdsIn(S) == {t.id : t \in S}

\* A selection makes no choice of these candidates with this key.
NoChoice(cands, key) == cands = <<>> \/ (config.strategy = "hashing" /\ key = NoKey)

\* What a selection says agrees with the candidates it has.
Agrees(cands, key, eligible, miss) ==
  IF NoChoice(cands, key) THEN eligible = {} /\ miss # "strategy_returned_none"
  ELSE eligible = IdsIn(Range(cands))

\* The targets with no reason to be excluded are the candidates, but for those
\* that miss a key.
LEMMA EligibleAre ==
  ASSUME NEW ts \in Seq(TargetRec), NEW h, NEW key, CircuitsOK(h)
  PROVE  {u \in Range(ts) : ExcludedReasons(u, ts, h, key) = {}}
           = IF KeyMissing(ts, h, key) THEN {} ELSE Range(Candidates(ts, h))
<1> DEFINE closed == Circuits(ts, h, "closed")
           half == Circuits(ts, h, "half_open")
           cands == Candidates(ts, h)
           Healthy(t) == t.status = "available" /\ IsHealthy(h, t.id)
<1>1. Available(ts) \in Seq(TargetRec) /\ Range(Available(ts)) = {t \in Range(ts) : t.status = "available"}
  <2>1. /\ Available(ts) \in Seq(TargetRec)
        /\ Range(Available(ts)) = Range(ts) \cap {t \in Range(ts) : t.status = "available"}
    BY KeepRange DEF Available
  <2> QED
    BY <2>1
<1>2. ASSUME NEW is
      PROVE  /\ Circuits(ts, h, is) \in Seq(TargetRec)
             /\ Range(Circuits(ts, h, is)) = {t \in Range(ts) : Healthy(t) /\ HealthOf(h, t.id).circuit = is}
  <2>1. /\ Circuits(ts, h, is) \in Seq(TargetRec)
        /\ Range(Circuits(ts, h, is)) =
             Range(Available(ts)) \cap {t \in Range(ts) : IsHealthy(h, t.id) /\ HealthOf(h, t.id).circuit = is}
    BY <1>1, KeepRange DEF Circuits
  <2> QED
    BY <1>1, <2>1
<1>3. cands = IF closed # <<>> THEN closed ELSE half
  BY DEF Candidates
<1>4. closed = <<>> <=> Range(closed) = {}
  BY <1>2 DEF Range
<1>5. \A t \in Range(ts) : HealthOf(h, t.id).circuit \in {"closed", "open", "half_open"}
  BY DEF CircuitsOK, HealthOf, NewHealth
<1>6. ASSUME ~Enabled PROVE \A t \in Range(ts) : HealthOf(h, t.id).circuit = "closed" /\ IsHealthy(h, t.id)
  BY <1>6 DEF CircuitsOK, HealthOf, NewHealth, IsHealthy
<1>7. Range(<<>>) = {}
  BY EmptyRange
<1> HIDE DEF cands, closed, half
<1>8. ASSUME NEW t \in Range(ts)
      PROVE  t \in Range(cands) <=>
               /\ t.status = "available"
               /\ Enabled => /\ ~HeartbeatExpired(HealthOf(h, t.id)) /\ HealthOf(h, t.id).healthy
                             /\ HealthOf(h, t.id).circuit # "open"
                             /\ ~(HealthOf(h, t.id).circuit = "half_open" /\ closed # <<>>)
  <2> DEFINE c == HealthOf(h, t.id).circuit
  <2>1. t \in Range(closed) <=> Healthy(t) /\ c = "closed"
    BY <1>2 DEF closed
  <2>2. t \in Range(half) <=> Healthy(t) /\ c = "half_open"
    BY <1>2 DEF half
  <2>3. t \in Range(cands) <=> Healthy(t) /\ (c = "closed" \/ (c = "half_open" /\ closed = <<>>))
    BY <1>3, <1>4, <2>1, <2>2
  <2>4. c \in {"closed", "open", "half_open"} /\ (~Enabled => c = "closed" /\ IsHealthy(h, t.id))
    BY <1>5, <1>6
  <2>5. IsHealthy(h, t.id) <=>
          (Enabled => HealthOf(h, t.id).healthy /\ ~HeartbeatExpired(HealthOf(h, t.id)))
    BY DEF IsHealthy
  <2> HIDE DEF c
  <2>6. t \in Range(cands) <=>
               /\ t.status = "available"
               /\ Enabled => /\ ~HeartbeatExpired(HealthOf(h, t.id)) /\ HealthOf(h, t.id).healthy
                             /\ c # "open"
                             /\ ~(c = "half_open" /\ closed # <<>>)
    BY <2>3, <2>4, <2>5
  <2> QED
    BY <2>6 DEF c
<1>9. Range(cands) \subseteq Range(ts)
  BY <1>2, <1>3 DEF closed, half
<1>10. ASSUME NEW t \in Range(ts)
       PROVE  ExcludedReasons(t, ts, h, key) = {} <=> t \in Range(cands) /\ ~KeyMissing(ts, h, key)
  <2> DEFINE g == HealthOf(h, t.id)
             watched == t.status = "available" /\ Enabled
             Is(r) ==
               \/ r = "status" /\ t.status # "available"
               \/ r = "heartbeat_expired" /\ watched /\ HeartbeatExpired(g)
               \/ r = "unhealthy" /\ watched /\ ~HeartbeatExpired(g) /\ ~g.healthy
               \/ r = "circuit_open" /\ watched /\ g.circuit = "open"
               \/ r = "prefer_closed" /\ watched /\ g.circuit = "half_open" /\ closed # <<>>
               \/ r = "key_missing" /\ t.status = "available" /\ KeyMissing(ts, h, key) /\ t \in Range(cands)
             reasons == {"status", "heartbeat_expired", "unhealthy", "circuit_open", "prefer_closed", "key_missing"}
  <2>1. ExcludedReasons(t, ts, h, key) = {r \in reasons : Is(r)}
    BY DEF ExcludedReasons, closed, cands
  <2>2. (\E r \in reasons : Is(r)) <=> Is("status") \/ Is("heartbeat_expired") \/ Is("unhealthy")
                                        \/ Is("circuit_open") \/ Is("prefer_closed") \/ Is("key_missing")
    <3> HIDE DEF Is
    <3> QED
      OBVIOUS
  <2> HIDE DEF reasons
  <2>3. ExcludedReasons(t, ts, h, key) = {} <=> ~(\E r \in reasons : Is(r))
    <3> HIDE DEF Is
    <3> QED
      BY <2>1
  <2>4. (Is("status") \/ Is("heartbeat_expired") \/ Is("unhealthy")
           \/ Is("circuit_open") \/ Is("prefer_closed") \/ Is("key_missing"))
        <=> ~(t \in Range(cands) /\ ~KeyMissing(ts, h, key))
    <3> HIDE DEF g
    <3> QED
      BY <1>8 DEF g
  <2> HIDE DEF Is
  <2> QED
    BY <2>2, <2>3, <2>4
<1> QED
  BY <1>9, <1>10 DEF cands

LEMMA FilterAgrees ==
  ASSUME NEW ts \in Seq(TargetRec), NEW h, NEW key, CircuitsOK(h)
  PROVE  Agrees(Candidates(ts, h), key,
                {t.id : t \in {u \in Range(ts) : ExcludedReasons(u, ts, h, key) = {}}}, MissReason(ts, h, key))
<1> DEFINE cands == Candidates(ts, h)
           found == {u \in Range(ts) : ExcludedReasons(u, ts, h, key) = {}}
<1>1. found = IF KeyMissing(ts, h, key) THEN {} ELSE Range(cands)
  BY EligibleAre
<1>2. KeyMissing(ts, h, key) <=> cands # <<>> /\ config.strategy = "hashing" /\ key = NoKey
  BY DEF KeyMissing
<1>3. MissReason(ts, h, key) = "strategy_returned_none" => cands # <<>> /\ ~KeyMissing(ts, h, key)
  BY DEF MissReason
<1> HIDE DEF cands, found
<1>4. Range(<<>>) = {}
  BY EmptyRange
<1>5. CASE NoChoice(cands, key)
  <2>1. found = {}
    BY <1>1, <1>2, <1>4, <1>5 DEF NoChoice
  <2>2. {t.id : t \in found} = {}
    BY <2>1
  <2>3. MissReason(ts, h, key) # "strategy_returned_none"
    BY <1>2, <1>3, <1>5 DEF NoChoice
  <2> QED
    BY <1>5, <2>2, <2>3 DEF Agrees, cands, found
<1>6. CASE ~NoChoice(cands, key)
  <2>1. found = Range(cands)
    BY <1>1, <1>2, <1>6 DEF NoChoice
  <2> QED
    BY <1>6, <2>1 DEF Agrees, IdsIn, cands, found
<1> QED
  BY <1>5, <1>6

\* What a thread has in hand of a selection.
Sound(m) ==
  /\ m.pc = "filter" => Distinct(m.seen)
  /\ m.pc = "pick" => Distinct(m.cands) /\ Agrees(m.cands, m.key, m.eligible, m.miss)
  /\ m.pc = "record" => Enabled

HandsSound == \A th \in Dispatchers : Sound(inHand[th])

LEMMA HandsStep ==
  ASSUME HandsOK, ShedTypes, Distinct(targets), CircuitsOK(health), CircuitsOK(health)', HandsSound,
         config' = config, BalancerNext
  PROVE  HandsSound'
<1> DOMAIN inHand = Dispatchers /\ \A u \in Dispatchers : DOMAIN inHand[u] = HandFields
  BY DEF HandsOK
<1>0. \A m : Sound(m)' <=> Sound(m)
  BY DEF Sound, Agrees, NoChoice, Enabled
<1>1. ASSUME NEW th \in Dispatchers, Dispatch(th)
      PROVE  (\A u \in Dispatchers \ {th} : inHand'[u] = inHand[u]) /\ Sound(inHand'[th])
  <2> DEFINE Others == \A u \in Dispatchers \ {th} : inHand'[u] = inHand[u]
  <2>1. CASE \/ \E key \in Keys \cup {NoKey} : Refresh(th, key)
             \/ Pick(th) \/ Count(th) \/ RecordOutcome(th) \/ Finish(th)
    <3>1. \A key : Refresh(th, key) => Others /\ inHand'[th].pc = "copy"
      BY DEF Refresh, Idle
    <3>2. Pick(th) => Others /\ inHand'[th].pc \in {"idle", "count"}
      <4> SUFFICES ASSUME Pick(th) PROVE Others /\ inHand'[th].pc \in {"idle", "count"}
        OBVIOUS
      <4>1. \/ inHand' = [inHand EXCEPT ![th] = Idle]
            \/ \E id : inHand' = [inHand EXCEPT ![th] = [Idle EXCEPT !.pc = "count", !.target = id]]
        BY DEF Pick
      <4>2. Idle.pc = "idle" /\ \A id : [Idle EXCEPT !.pc = "count", !.target = id].pc = "count"
        BY DEF Idle
      <4> QED
        BY <4>1, <4>2
    <3>3. Count(th) \/ RecordOutcome(th) => Others /\ inHand'[th].pc \in {"send", "done"}
      BY DEF Count, RecordOutcome, Go, HandFields
    <3>4. Finish(th) => Others /\ inHand'[th].pc = "idle"
      BY DEF Finish, Idle
    <3>5. Others /\ inHand'[th].pc \notin {"filter", "pick", "record"}
      <4> HIDE DEF Others
      <4> QED
        BY <2>1, <3>1, <3>2, <3>3, <3>4
    <3> QED
      BY <3>5 DEF Sound
  <2>2. CASE CopyTargets(th)
    <3>1. Others /\ inHand'[th].pc = "filter" /\ inHand'[th].seen = targets
      BY <2>2 DEF CopyTargets, HandFields
    <3> QED
      BY <3>1 DEF Sound
  <2>3. CASE Send(th)
    <3>1. Others /\ inHand'[th].pc \in {"record", "done"} /\ (inHand'[th].pc = "record" => Enabled)
      BY <2>3 DEF Send, HandFields
    <3> QED
      BY <3>1 DEF Sound
  <2>4. CASE Filter(th)
    <3> DEFINE ts == inHand[th].seen
               key == inHand[th].key
               eligible == {t.id : t \in {u \in Range(ts) : ExcludedReasons(u, ts, health', key) = {}}}
               cands == Candidates(ts, health')
               miss == MissReason(ts, health', key)
    <3>1. inHand[th].pc = "filter"
      BY <2>4 DEF Filter, At
    <3>2. ts \in Seq(TargetRec) /\ Distinct(ts)
      BY <3>1 DEF ShedTypes, HandsSound, Sound
    <3>3. CircuitsOK(health')
      BY DEF CircuitsOK, Enabled
    <3>4. Distinct(cands) /\ Agrees(cands, key, eligible, miss)
      BY <3>2, <3>3, DistinctCandidates, FilterAgrees
    <3>5. inHand' = [inHand EXCEPT ![th].pc = "pick", ![th].seen = <<>>, ![th].cands = cands,
                                   ![th].eligible = eligible, ![th].miss = miss]
      BY <2>4 DEF Filter
    <3> HIDE DEF ts, eligible, cands, miss
    <3>6. Others /\ inHand'[th] = [inHand[th] EXCEPT !.pc = "pick", !.seen = <<>>, !.cands = cands,
                                                      !.eligible = eligible, !.miss = miss]
      BY <3>5
    <3>7. /\ inHand'[th].pc = "pick" /\ inHand'[th].cands = cands /\ inHand'[th].key = key
          /\ inHand'[th].eligible = eligible /\ inHand'[th].miss = miss
      BY <3>6 DEF HandFields
    <3> QED
      BY <3>4, <3>6, <3>7 DEF Sound
  <2> QED
    BY <1>1, <2>1, <2>2, <2>3, <2>4 DEF Dispatch
<1>2. ASSUME NEW id \in Ids, Outside(id) PROVE UNCHANGED inHand
  BY <1>2 DEF Outside, Command, AddTarget, RemoveTarget, RemoveHealth, SetStatus, ResetLoad, Heartbeat, CoolDown,
              HeartbeatAges, Fault, Repair
<1>3. ASSUME NEW u \in Dispatchers PROVE Sound(inHand'[u])
  <2>1. ASSUME NEW th \in Dispatchers, Dispatch(th) PROVE Sound(inHand'[u])
    BY <1>1, <2>1 DEF HandsSound
  <2>2. ASSUME NEW id \in Ids, Outside(id) PROVE Sound(inHand'[u])
    BY <1>2, <2>2 DEF HandsSound
  <2> QED
    BY <2>1, <2>2 DEF BalancerNext
<1> QED
  BY <1>0, <1>3 DEF HandsSound

-----------------------------------------------------------------------------
\* The places the cursor has been at, with c the last of them, in `given`
\* moves round a wheel of n.
Window(c, given, n) == {k \in 1 .. n : IF k <= c THEN c - k < given ELSE c + n - k < given}

LEMMA WindowMoves ==
  ASSUME NEW n \in Nat \ {0}, NEW c \in 1 .. n, NEW given \in 1 .. n - 1
  PROVE  LET next == (c % n) + 1 IN
         /\ next \in 1 .. n /\ next \notin Window(c, given, n)
         /\ Window(next, given + 1, n) = Window(c, given, n) \cup {next}
<1> DEFINE next == (c % n) + 1
<1>1. next = IF c = n THEN 1 ELSE c + 1
  OBVIOUS
<1> HIDE DEF next
<1>2. next \in 1 .. n /\ next \notin Window(c, given, n)
  BY <1>1 DEF Window
<1>3. ASSUME NEW k \in 1 .. n PROVE k \in Window(next, given + 1, n) <=> k \in Window(c, given, n) \/ k = next
  <2>1. CASE c = n
    BY <1>1, <2>1 DEF Window
  <2>2. CASE c # n
    BY <1>1, <2>2 DEF Window
  <2> QED
    BY <2>1, <2>2
<1> DEFINE W == Window(c, given, n)
           V == Window(next, given + 1, n)
<1>4. W \subseteq 1 .. n /\ V \subseteq 1 .. n
  BY DEF Window
<1> HIDE DEF W, V
<1>5. V = W \cup {next}
  BY <1>2, <1>3, <1>4 DEF W, V
<1> QED
  BY <1>2, <1>5 DEF next, W, V

LEMMA WindowStarts ==
  ASSUME NEW n \in Nat \ {0}, NEW c \in 1 .. n
  PROVE  Window(c, 1, n) = {c}
BY DEF Window

\* How often an id stands in these places of a wheel.
PlacesAmong(w, W, id) == {k \in W : w[k] = id}

\* What the turns say: the ids the candidates had, and how many of the places
\* the cursor has been at since were of each.
TurnsOK ==
  IF turns.given = 0 THEN turns = NoTurns
  ELSE LET w == Ring(turns.list)
           W == Window(cursor, turns.given, Len(w))
       IN  /\ DOMAIN turns = {"list", "given", "got"}
           /\ turns.list \in Seq(Ids) /\ IsInjective(turns.list)
           /\ w \in Seq(Ids)
           /\ cursor \in 1 .. Len(w) /\ turns.given \in 1 .. Len(w)
           /\ turns.got \in [Ids -> Nat]
           /\ \A id \in Ids : turns.got[id] = Cardinality(PlacesAmong(w, W, id))

\* The wheel of these candidates goes round their ids, and the cursor chooses
\* the one that it moves to.
LEMMA ChosenOnRing ==
  ASSUME Weight \in [Ids -> Nat], cursor \in Nat, NEW th,
         inHand[th].cands \in Seq(TargetRec), Distinct(inHand[th].cands), inHand[th].cands # <<>>,
         config.strategy \in {"round_robin", "weighted"}
  PROVE  LET cands == inHand[th].cands
             list == IdsOf(cands)
             w == Ring(list)
             next == RoundRobinIndex(cursor, Len(w))
         IN  /\ list \in Seq(Ids) /\ IsInjective(list) /\ list # <<>>
             /\ w \in Seq(Ids) /\ Len(w) = Len(Wheel(cands)) /\ Len(w) \in Nat \ {0}
             /\ next \in 1 .. Len(w) /\ Chosen(th) = w[next]
<1> DEFINE cands == inHand[th].cands
           list == IdsOf(cands)
           w == Ring(list)
           wheel == Wheel(cands)
           next == RoundRobinIndex(cursor, Len(w))
<1>1. Chosen(th) = wheel[RoundRobinIndex(cursor, Len(wheel))].id
  BY DEF Chosen
<1>2. wheel \in Seq(Range(cands)) \ {<<>>}
  BY WheelTurns
<1>3. DOMAIN cands = 1 .. Len(cands) /\ Len(cands) \in Nat \ {0} /\ \A i \in 1 .. Len(cands) : cands[i] \in TargetRec
  OBVIOUS
<1> HIDE DEF cands
<1>4. list = [i \in 1 .. Len(cands) |-> cands[i].id]
  BY <1>3 DEF IdsOf
<1>5. \A i \in 1 .. Len(cands) : cands[i].id \in Ids
  BY <1>3 DEF TargetRec
<1>6. list \in Seq(Ids) /\ Len(list) = Len(cands)
  BY <1>3, <1>4, <1>5
<1>7. IsInjective(list)
  BY <1>3, <1>4 DEF Distinct, IsInjective, cands
<1>8. list # <<>>
  BY <1>3, <1>6
<1> HIDE DEF list
<1>9. w \in Seq(Ids) /\ Len(w) = Len(wheel) /\ \A k \in 1 .. Len(w) : wheel[k].id = w[k]
  <2>1. CASE config.strategy = "weighted"
    <3>1. w = FlattenSeq(Blocks(list)) /\ wheel = Expanded(cands)
      BY <2>1 DEF Ring, Wheel
    <3>2. /\ Expanded(cands) \in Seq(TargetRec) /\ Len(Expanded(cands)) = Len(FlattenSeq(Blocks(IdsOf(cands))))
          /\ \A k \in 1 .. Len(FlattenSeq(Blocks(IdsOf(cands)))) :
               Expanded(cands)[k].id = FlattenSeq(Blocks(IdsOf(cands)))[k]
      BY ExpandedIds DEF cands
    <3>3. FlattenSeq(Blocks(list)) \in Seq(Ids)
      BY <1>6, BlocksShare
    <3> HIDE DEF w, wheel
    <3> QED
      BY <3>1, <3>2, <3>3 DEF list
  <2>2. CASE config.strategy # "weighted"
    BY <1>4, <1>6, <2>2 DEF Ring, Wheel
  <2> QED
    BY <2>1, <2>2
<1> HIDE DEF w, wheel
<1>10. Len(w) \in Nat \ {0}
  BY <1>2, <1>9
<1>11. next = (cursor % Len(w)) + 1
  BY DEF RoundRobinIndex
<1>12. next \in 1 .. Len(w)
  <2> HIDE DEF next
  <2> QED
    BY <1>10, <1>11
<1>13. Chosen(th) = w[next]
  <2> HIDE DEF next
  <2> QED
    BY <1>1, <1>9, <1>12 DEF next
<1> QED
  BY <1>6, <1>7, <1>8, <1>9, <1>10, <1>12, <1>13 DEF cands, list, w, wheel

LEMMA PlacesOnRing ==
  ASSUME NEW w \in Seq(Ids), NEW W, W \subseteq 1 .. Len(w), NEW id
  PROVE  /\ IsFiniteSet(PlacesAmong(w, W, id)) /\ Cardinality(PlacesAmong(w, W, id)) \in Nat
         /\ PlacesAmong(w, W, id) \subseteq PlacesIn(w, id)
         /\ \A next \in 1 .. Len(w) \ W :
              Cardinality(PlacesAmong(w, W \cup {next}, id)) =
                Cardinality(PlacesAmong(w, W, id)) + (IF w[next] = id THEN 1 ELSE 0)
<1>1. IsFiniteSet(1 .. Len(w)) /\ DOMAIN w = 1 .. Len(w)
  BY FS_Interval
<1>2. PlacesAmong(w, W, id) \subseteq 1 .. Len(w)
  BY DEF PlacesAmong
<1>3. IsFiniteSet(PlacesAmong(w, W, id)) /\ Cardinality(PlacesAmong(w, W, id)) \in Nat
  BY <1>1, <1>2, FS_Subset, FS_CardinalityType
<1>4. PlacesAmong(w, W, id) \subseteq PlacesIn(w, id)
  BY <1>1 DEF PlacesAmong, PlacesIn
<1>5. ASSUME NEW next \in 1 .. Len(w) \ W
      PROVE  Cardinality(PlacesAmong(w, W \cup {next}, id)) =
               Cardinality(PlacesAmong(w, W, id)) + (IF w[next] = id THEN 1 ELSE 0)
  <2>1. CASE w[next] = id
    <3>1. PlacesAmong(w, W \cup {next}, id) = PlacesAmong(w, W, id) \cup {next} /\ next \notin PlacesAmong(w, W, id)
      BY <2>1 DEF PlacesAmong
    <3> QED
      BY <1>3, <2>1, <3>1, FS_AddElement
  <2>2. CASE w[next] # id
    <3>1. PlacesAmong(w, W \cup {next}, id) = PlacesAmong(w, W, id)
      BY <2>2 DEF PlacesAmong
    <3> QED
      BY <1>3, <2>2, <3>1
  <2> QED
    BY <2>1, <2>2
<1> QED
  BY <1>3, <1>4, <1>5

\* One more turn of the wheel.
LEMMA PickTurns ==
  ASSUME Weight \in [Ids -> Nat], NoTarget \notin Ids, ShedTypes, HandsSound, TurnsOK,
         NEW th \in Dispatchers, Pick(th), Chosen(th) # NoTarget,
         config.strategy \in {"round_robin", "weighted"}
  PROVE  TurnsOK'
<1> DEFINE cands == inHand[th].cands
           list == IdsOf(cands)
           w == Ring(list)
           n == Len(w)
           next == RoundRobinIndex(cursor, n)
           again == turns.list = list /\ turns.given < n
           past == IF again THEN turns ELSE NoTurns
           id == Chosen(th)
<1>1. cands \in Seq(TargetRec) /\ Distinct(cands) /\ cands # <<>> /\ cursor \in Nat
  <2>1. inHand[th].pc = "pick"
    BY DEF Pick, At
  <2>2. cands # <<>>
    BY DEF Chosen
  <2> QED
    BY <2>1, <2>2 DEF ShedTypes, HandsSound, Sound
<1>2. /\ list \in Seq(Ids) /\ IsInjective(list) /\ list # <<>>
      /\ w \in Seq(Ids) /\ n = Len(Wheel(cands)) /\ n \in Nat \ {0}
      /\ next \in 1 .. n /\ id = w[next]
  BY <1>1, ChosenOnRing
<1>3. /\ cursor' = next /\ config' = config
      /\ turns' = [list |-> list, given |-> past.given + 1, got |-> [past.got EXCEPT ![id] = @ + 1]]
  <2>1. cursor' = RoundRobinIndex(cursor, Len(Wheel(cands))) /\ turns' = Turn(th) /\ config' = config
    BY DEF Pick
  <2>2. Turn(th) = LET p == IF turns.list = list /\ turns.given < Len(Wheel(cands)) THEN turns ELSE NoTurns
                   IN  [list |-> list, given |-> p.given + 1, got |-> [p.got EXCEPT ![id] = @ + 1]]
    BY DEF Turn, IdsOf
  <2> HIDE DEF cands, list, id
  <2> QED
    BY <1>2, <2>1, <2>2
<1>4. next = (cursor % n) + 1 /\ id \in Ids
  BY <1>2 DEF RoundRobinIndex
<1>9. \A s : Ring(s)' = Ring(s)
  BY <1>3 DEF Ring
<1> DEFINE W == IF again /\ turns.given # 0 THEN Window(cursor, turns.given, n) ELSE {}
           V == Window(next, past.given + 1, n)
<1>5. /\ past.given \in 0 .. n - 1 /\ past.got \in [Ids -> Nat]
      /\ \A i \in Ids : past.got[i] = Cardinality(PlacesAmong(w, W, i))
      /\ W \subseteq 1 .. n /\ next \notin W /\ V = W \cup {next}
  <2>1. CASE again /\ turns.given # 0
    <3>0. past = turns /\ turns.list = list /\ turns.given < n
      BY <2>1
    <3>1. /\ cursor \in 1 .. n /\ turns.given \in 1 .. n /\ turns.got \in [Ids -> Nat]
          /\ \A i \in Ids : turns.got[i] = Cardinality(PlacesAmong(w, Window(cursor, turns.given, n), i))
      BY <2>1, <3>0 DEF TurnsOK
    <3> HIDE DEF w, list, n, next, again, past
    <3>2. turns.given \in 1 .. n - 1
      BY <1>2, <3>0, <3>1
    <3>3. /\ next \notin Window(cursor, turns.given, n)
          /\ Window(next, turns.given + 1, n) = Window(cursor, turns.given, n) \cup {next}
      BY <1>2, <1>4, <3>1, <3>2, WindowMoves
    <3>4. Window(cursor, turns.given, n) \subseteq 1 .. n
      BY DEF Window
    <3> QED
      BY <2>1, <3>0, <3>1, <3>2, <3>3, <3>4
  <2>2. CASE ~(again /\ turns.given # 0)
    <3>1. past = NoTurns
      BY <2>2 DEF TurnsOK
    <3>2. past.given = 0 /\ past.got = [i \in Ids |-> 0]
      BY <3>1 DEF NoTurns
    <3> HIDE DEF w, list, n, next, past, again
    <3>3. V = {next} /\ W = {}
      BY <1>2, <2>2, <3>2, WindowStarts
    <3>4. \A i : PlacesAmong(w, {}, i) = {}
      BY DEF PlacesAmong
    <3>5. Cardinality({}) = 0
      BY FS_EmptySet
    <3> HIDE DEF V, W
    <3>6. past.given \in 0 .. n - 1 /\ past.got \in [Ids -> Nat]
      BY <1>2, <3>2
    <3>7. \A i \in Ids : past.got[i] = Cardinality(PlacesAmong(w, W, i))
      <4>1. \A i \in Ids : past.got[i] = 0
        BY <3>2
      <4> QED
        BY <3>3, <3>4, <3>5, <4>1
    <3>8. W \subseteq 1 .. n /\ next \notin W /\ V = W \cup {next}
      BY <3>3
    <3> QED
      BY <3>6, <3>7, <3>8
  <2> QED
    BY <2>1, <2>2
<1> HIDE DEF cands, list, w, next, again, past, id, W, V
<1>6. ASSUME NEW i \in Ids PROVE [past.got EXCEPT ![id] = @ + 1][i] = Cardinality(PlacesAmong(w, V, i))
  <2>4. w \in Seq(Ids) /\ W \subseteq 1 .. Len(w) /\ next \in 1 .. Len(w) \ W
    BY <1>2, <1>5
  <2>1. Cardinality(PlacesAmong(w, W \cup {next}, i)) =
          Cardinality(PlacesAmong(w, W, i)) + (IF w[next] = i THEN 1 ELSE 0)
    <3>1. \A m \in 1 .. Len(w) \ W :
            Cardinality(PlacesAmong(w, W \cup {m}, i)) = Cardinality(PlacesAmong(w, W, i)) + (IF w[m] = i THEN 1 ELSE 0)
      BY <2>4, PlacesOnRing
    <3> QED
      BY <2>4, <3>1
  <2>2. Cardinality(PlacesAmong(w, W, i)) \in Nat
    BY <2>4, PlacesOnRing
  <2>3. [past.got EXCEPT ![id] = @ + 1][i] = IF i = id THEN past.got[i] + 1 ELSE past.got[i]
    BY <1>4, <1>5
  <2> QED
    BY <1>2, <1>5, <2>1, <2>2, <2>3
<1>7. [past.got EXCEPT ![id] = @ + 1] \in [Ids -> Nat]
  BY <1>4, <1>5
<1> DEFINE got == [past.got EXCEPT ![id] = @ + 1]
<1> HIDE DEF got
<1>8. /\ turns'.list = list /\ turns'.given = past.given + 1 /\ turns'.got = got
      /\ DOMAIN turns' = {"list", "given", "got"}
  BY <1>3 DEF got
<1>10. past.given + 1 \in 1 .. n /\ past.given + 1 # 0
  <2>1. past.given \in 0 .. n - 1 /\ n \in Nat \ {0}
    BY <1>2, <1>5
  <2> HIDE DEF n
  <2> QED
    BY <2>1
<1>11. Ring(turns.list)' = w
  <2>1. Ring(turns.list)' = Ring(turns'.list)
    BY <1>3 DEF Ring
  <2> QED
    BY <1>8, <2>1 DEF w
<1>12. Window(cursor', turns'.given, n) = V
  BY <1>3, <1>8 DEF V
<1> QED
  <2>1. /\ turns'.list \in Seq(Ids) /\ IsInjective(turns'.list) /\ w \in Seq(Ids)
        /\ cursor' \in 1 .. n /\ turns'.given \in 1 .. n /\ turns'.got \in [Ids -> Nat]
        /\ \A i \in Ids : turns'.got[i] = Cardinality(PlacesAmong(w, V, i))
        /\ turns'.given # 0
    BY <1>2, <1>3, <1>6, <1>7, <1>8, <1>10 DEF got
  <2>2. TurnsOK' <=>
          IF turns'.given = 0 THEN turns' = NoTurns
          ELSE LET ring == Ring(turns.list)'
                   W2 == Window(cursor', turns'.given, Len(ring))
               IN  /\ DOMAIN turns' = {"list", "given", "got"}
                   /\ turns'.list \in Seq(Ids) /\ IsInjective(turns'.list)
                   /\ ring \in Seq(Ids)
                   /\ cursor' \in 1 .. Len(ring) /\ turns'.given \in 1 .. Len(ring)
                   /\ turns'.got \in [Ids -> Nat]
                   /\ \A i \in Ids : turns'.got[i] = Cardinality(PlacesAmong(ring, W2, i))
    BY DEF TurnsOK
  <2> QED
    BY <1>8, <1>11, <1>12, <2>1, <2>2 DEF n

LEMMA TurnsStep ==
  ASSUME Weight \in [Ids -> Nat], NoTarget \notin Ids, ShedTypes, HandsSound, TurnsOK,
         config' = config, BalancerNext
  PROVE  TurnsOK'
<1>0. \A s : Ring(s)' = Ring(s)
  BY DEF Ring
<1>1. CASE UNCHANGED <<cursor, turns>>
  <2>1. Ring(turns.list)' = Ring(turns.list)
    BY <1>1 DEF Ring
  <2> QED
    BY <1>1, <2>1 DEF TurnsOK
<1>2. ASSUME NEW th \in Dispatchers, Pick(th) PROVE TurnsOK'
  <2>1. CASE Chosen(th) # NoTarget /\ config.strategy \in {"round_robin", "weighted"}
    BY <1>2, <2>1, PickTurns
  <2>2. CASE ~(Chosen(th) # NoTarget /\ config.strategy \in {"round_robin", "weighted"})
    BY <1>1, <1>2, <2>2 DEF Pick
  <2> QED
    BY <2>1, <2>2
<1>3. ASSUME NEW id, RemoveTarget(id) PROVE TurnsOK'
  <2>1. turns' = NoTurns
    BY <1>3 DEF RemoveTarget
  <2>2. turns'.given = 0
    BY <2>1 DEF NoTurns
  <2> QED
    BY <2>1, <2>2 DEF TurnsOK, NoTurns
<1>4. ASSUME NEW th \in Dispatchers, Dispatch(th) PROVE TurnsOK'
  BY <1>1, <1>2, <1>4 DEF Dispatch, Refresh, CopyTargets, Filter, Count, Send, RecordOutcome, Finish
<1>5. ASSUME NEW id \in Ids, Outside(id) PROVE TurnsOK'
  BY <1>1, <1>3, <1>5 DEF Outside, AddTarget, RemoveHealth, SetStatus, ResetLoad, Heartbeat, CoolDown, HeartbeatAges,
                          Fault, Repair
<1> QED
  BY <1>4, <1>5 DEF BalancerNext

\* No target gets more of the wheel's turns than it has places on it.
LEMMA SharesOfTurns ==
  ASSUME Weight \in [Ids -> Nat], TurnsOK
  PROVE  EachItsShare
<1> DEFINE share(id) == IF config.strategy = "weighted" /\ Weight[id] > 1 THEN Weight[id] ELSE 1
<1> SUFFICES ASSUME NEW id \in Ids PROVE turns.got[id] <= share(id)
  BY DEF EachItsShare
<1>0. share(id) \in Nat /\ share(id) >= 1 /\ Weight[id] \in Nat
  OBVIOUS
<1>1. CASE turns.given = 0
  <2>1. turns.got = [i \in Ids |-> 0]
    BY <1>1 DEF TurnsOK, NoTurns
  <2> HIDE DEF share
  <2> QED
    BY <1>0, <2>1
<1>2. CASE turns.given # 0
  <2> DEFINE list == turns.list
             w == Ring(list)
             W == Window(cursor, turns.given, Len(w))
  <2>1. /\ list \in Seq(Ids) /\ IsInjective(list) /\ w \in Seq(Ids)
        /\ turns.got[id] = Cardinality(PlacesAmong(w, W, id))
    BY <1>2 DEF TurnsOK
  <2>2. W \subseteq 1 .. Len(w)
    BY DEF Window
  <2>3. IsFiniteSet(PlacesIn(w, id)) /\ Cardinality(PlacesIn(w, id)) <= share(id)
    <3>1. CASE config.strategy = "weighted"
      <4>1. w = FlattenSeq(Blocks(list))
        BY <3>1 DEF Ring
      <4>2. /\ IsFiniteSet(PlacesIn(FlattenSeq(Blocks(list)), id))
            /\ Cardinality(PlacesIn(FlattenSeq(Blocks(list)), id)) <= Many(id)
        BY <2>1, BlocksShare
      <4>3. Many(id) = share(id)
        BY <1>0, <3>1 DEF Many
      <4> HIDE DEF share, list, w
      <4> QED
        BY <4>1, <4>2, <4>3
    <3>2. CASE config.strategy # "weighted"
      <4>1. w = list /\ share(id) = 1
        BY <3>2 DEF Ring
      <4>2. \A i, j \in PlacesIn(list, id) : i = j
        BY <2>1 DEF PlacesIn, IsInjective
      <4>3. PlacesIn(list, id) = {} \/ \E i : PlacesIn(list, id) = {i}
        BY <4>2
      <4>4. /\ IsFiniteSet({}) /\ Cardinality({}) = 0
            /\ \A i : IsFiniteSet({i}) /\ Cardinality({i}) = 1
        BY FS_EmptySet, FS_Singleton
      <4>5. IsFiniteSet(PlacesIn(list, id)) /\ Cardinality(PlacesIn(list, id)) \in {0, 1}
        BY <4>3, <4>4
      <4> HIDE DEF share, list, w
      <4> QED
        BY <4>1, <4>5
    <3> QED
      BY <3>1, <3>2
  <2>4. /\ IsFiniteSet(PlacesAmong(w, W, id)) /\ Cardinality(PlacesAmong(w, W, id)) \in Nat
        /\ PlacesAmong(w, W, id) \subseteq PlacesIn(w, id)
    BY <2>1, <2>2, PlacesOnRing
  <2>5. /\ Cardinality(PlacesAmong(w, W, id)) <= Cardinality(PlacesIn(w, id))
        /\ Cardinality(PlacesIn(w, id)) \in Nat
    BY <2>3, <2>4, FS_Subset, FS_CardinalityType
  <2> HIDE DEF share, w, W, list
  <2> QED
    BY <1>0, <2>1, <2>3, <2>4, <2>5
<1> QED
  BY <1>1, <1>2

\* A choice is made wherever there are candidates and no key is missing.
LEMMA AgreementShows ==
  ASSUME Weight \in [Ids -> Nat], Hash \in [Keys -> Nat], NoTarget \notin Ids, ShedTypes, HandsSound
  PROVE  DiagnosisAgrees
<1> SUFFICES ASSUME NEW th \in Dispatchers, inHand[th].pc = "pick"
             PROVE  LET cands == {t.id : t \in Range(inHand[th].cands)} IN
                    IF Chosen(th) = NoTarget
                    THEN /\ inHand[th].eligible = {}
                         /\ inHand[th].miss # "strategy_returned_none"
                    ELSE inHand[th].eligible = cands
  BY DEF DiagnosisAgrees, At
<1> DEFINE cands == inHand[th].cands
           key == inHand[th].key
<1>1. /\ cands \in Seq(TargetRec) /\ key \in Keys \cup {NoKey} /\ cursor \in Nat
      /\ Agrees(cands, key, inHand[th].eligible, inHand[th].miss)
  BY DEF ShedTypes, HandsSound, Sound
<1>2. CASE NoChoice(cands, key)
  <2>1. Chosen(th) = NoTarget
    BY <1>2 DEF Chosen, NoChoice
  <2> QED
    BY <1>1, <1>2, <2>1 DEF Agrees
<1>3. CASE ~NoChoice(cands, key)
  <2>1. PICK t \in Range(cands) : t.id = Chosen(th)
    BY <1>1, <1>3, ChosenIsCandidate DEF NoChoice
  <2>2. t.id \in Ids
    <3>1. Range(cands) \subseteq TargetRec
      BY <1>1 DEF Range
    <3> QED
      BY <2>1, <3>1 DEF TargetRec
  <2>3. Chosen(th) # NoTarget
    BY <2>1, <2>2
  <2> QED
    BY <1>1, <1>3, <2>3 DEF Agrees, IdsIn
<1> QED
  BY <1>2, <1>3

-----------------------------------------------------------------------------
(* Everyone takes turns.                                                    *)

SelectInv ==
  /\ ShedInv
  /\ Distinct(targets)
  /\ CircuitsOK(health)
  /\ HandsSound
  /\ TurnsOK

LEMMA SelectInitInv ==
  ASSUME IsFiniteSet(Dispatchers), Start \in Seq(Ids), IsInjective(Start), BalancerInit
  PROVE  SelectInv
<1>1. ShedInv
  BY ShedInitInv
<1>2. Distinct(targets)
  BY DEF BalancerInit, Distinct, IsInjective
<1>3. CircuitsOK(health)
  <2>1. health = IF Enabled THEN [id \in Range(Start) |-> NewHealth] ELSE <<>>
    BY DEF BalancerInit
  <2>2. NewHealth.circuit = "closed" /\ DOMAIN <<>> = {}
    BY DEF NewHealth
  <2> QED
    BY <2>1, <2>2 DEF CircuitsOK
<1>4. HandsSound
  <2>1. \A th \in Dispatchers : inHand[th].pc = "idle"
    BY DEF BalancerInit, Idle
  <2> QED
    BY <2>1 DEF HandsSound, Sound
<1>5. TurnsOK
  BY DEF BalancerInit, TurnsOK, NoTurns
<1> QED
  BY <1>1, <1>2, <1>3, <1>4, <1>5 DEF SelectInv

LEMMA SelectStepInv ==
  ASSUME IsFiniteSet(Dispatchers), Weight \in [Ids -> Nat], Hash \in [Keys -> Nat], NoTarget \notin Ids,
         SelectInv, [BalancerNext]_balancerVars
  PROVE  SelectInv'
<1>1. ShedInv'
  BY ShedStepInv DEF SelectInv
<1>2. CASE BalancerNext
  <2>1. /\ LoadInv /\ HandsOK /\ ShedTypes /\ HealthOK(health) /\ Distinct(targets) /\ CircuitsOK(health)
        /\ HandsSound /\ TurnsOK /\ LoadInv'
    BY <1>1 DEF SelectInv, ShedInv, ShedTypes, LoadInv
  <2>2. CircuitsOK(health)' /\ config' = config
    <3>1. \A th \in Dispatchers : inHand[th].pc = "record" => Enabled
      BY <2>1 DEF HandsSound, Sound
    <3> QED
      BY <1>2, <2>1, <3>1, CircuitsStep
  <2>3. Distinct(targets')
    BY <1>2, <2>1, DistinctStep
  <2>4. HandsSound'
    BY <1>2, <2>1, <2>2, HandsStep
  <2>5. TurnsOK'
    BY <1>2, <2>1, <2>2, TurnsStep
  <2> QED
    BY <1>1, <2>2, <2>3, <2>4, <2>5 DEF SelectInv
<1>3. CASE UNCHANGED balancerVars
  <2>1. UNCHANGED <<config, targets, health, cursor, inHand, turns>>
    BY <1>3 DEF balancerVars
  <2>2. Distinct(targets)'
    BY <2>1 DEF SelectInv, Distinct
  <2>3. CircuitsOK(health)'
    BY <2>1 DEF SelectInv, CircuitsOK, Enabled
  <2>4. HandsSound'
    BY <2>1 DEF SelectInv, HandsSound, Sound, Agrees, NoChoice, Enabled
  <2>5. TurnsOK'
    <3>1. Ring(turns.list)' = Ring(turns.list)
      BY <2>1 DEF Ring
    <3> QED
      BY <2>1, <3>1 DEF SelectInv, TurnsOK
  <2> QED
    BY <1>1, <2>2, <2>3, <2>4, <2>5 DEF SelectInv
<1> QED
  BY <1>2, <1>3

\* Whatever the threads that dispatch do between two steps of a selection, and
\* whoever adds, removes or changes targets meanwhile: no target gets more turns
\* of the wheel than its weight before the wheel has come round
\* (round_robin_index, the weighted expansion), and the targets a selection
\* reports as not excluded are the ones it chooses from (compute_selection,
\* target_excluded_reasons, selection_miss_reason).
THEOREM TargetsTakeTurns ==
  ASSUME IsFiniteSet(Dispatchers), Start \in Seq(Ids), IsInjective(Start), NoTarget \notin Ids,
         Weight \in [Ids -> Nat], Hash \in [Keys -> Nat]
  PROVE  BalancerSpec => [](EachItsShare /\ DiagnosisAgrees)
<1>1. BalancerInit => SelectInv
  BY SelectInitInv
<1>2. SelectInv /\ [BalancerNext]_balancerVars => SelectInv'
  BY SelectStepInv
<1>3. SelectInv => EachItsShare /\ DiagnosisAgrees
  BY SharesOfTurns, AgreementShows DEF SelectInv, ShedInv
<1> QED
  BY <1>1, <1>2, <1>3, PTL DEF BalancerSpec

\* Both who wait in the queue and who are waited for take turns: no route of
\* the queue is passed for ever while the rotation keeps its place
\* (select_next_route, prune_empty_routes), and no target gets more than its
\* share (select_target).
THEOREM EveryoneTakesTurns ==
  ASSUME IsFiniteSet(Dispatchers), Start \in Seq(Ids), IsInjective(Start), NoTarget \notin Ids,
         Weight \in [Ids -> Nat], Hash \in [Keys -> Nat]
  PROVE  RotationSpec /\ BalancerSpec => []TurnsAreShared
<1>1. RotationSpec => []NoRouteStarves
  BY NoRouteStarvesEver
<1>2. BalancerSpec => [](EachItsShare /\ DiagnosisAgrees)
  BY TargetsTakeTurns
<1>3. NoRouteStarves /\ EachItsShare /\ DiagnosisAgrees => TurnsAreShared
  BY DEF TurnsAreShared
<1> QED
  BY <1>1, <1>2, <1>3, PTL
=============================================================================
