----------------------------- MODULE MCOutbound -----------------------------
(* The parts a message passes on its way out, for TLC, told apart by `part`, *)
(* which is chosen at the start: a bounded channel, of either strategy; the  *)
(* circuit breaker, with calls one at a time, trips and resets by hand       *)
(* included, or two at a time and nobody who trips or resets it; the         *)
(* rotation of the dispatch queue over three routes; and the balancer.       *)
EXTENDS BoundedChannel, TakingTurns, TLC

CONSTANTS
  t1, t2, t3, Manual,
  FailureThreshold, SuccessThreshold, Timeout, HalfOpenMaxCalls,    \* see CircuitBreaker
  m1, m2, m3, m4, m5, ra, rb, rc,                                   \* messages, routes
  a, b                                                              \* targets

VARIABLES
  part,
  circuit, failures, successes, age, stage, seen, healthy, openFor

Two == {t1, t2}

Breaker == INSTANCE CircuitBreaker WITH Clients <- Two

MCRouteOf == (m1 :> ra) @@ (m2 :> ra) @@ (m3 :> rb) @@ (m4 :> rc) @@ (m5 :> rb)
MCLevelOf == [m \in Msgs |-> IF m \in {m2, m5} THEN 5 ELSE 1]

\* Two threads and a target that may fail; two threads while
\* targets are added, taken out and reset; keys, heartbeats and statuses; and
\* messages without end where weights differ, until the faults are over.
Quiet(kind) ==
  [strategy |-> kind, failures |-> 0, successes |-> 0, beats |-> FALSE, callers |-> Two,
   limit |-> 3, keys |-> {NoKey}, calls |-> {}, commands |-> 0, faults |-> 0]
MCConfigs ==
  {[Quiet("round_robin") EXCEPT !.failures = 1, !.successes = 2, !.faults = 1],
   [Quiet("least_connections") EXCEPT !.limit = 2, !.calls = {"add", "remove", "reset"}, !.commands = 2],
   [Quiet("hashing") EXCEPT !.failures = 1, !.successes = 1, !.beats = TRUE, !.callers = {t1},
      !.limit = 2, !.keys = Keys \cup {NoKey}, !.calls = {"status"}, !.commands = 1, !.faults = 1],
   [Quiet("weighted") EXCEPT !.failures = 1, !.successes = 1, !.callers = {t1}, !.limit = 0, !.faults = 2]}
MCStart == <<a, b>>
MCWeight == [id \in Ids |-> IF id = a THEN 2 ELSE 1]
MCHash == [key \in Keys |-> 1]

breakerVars == <<circuit, failures, successes, age, stage, seen, healthy, openFor>>
mcVars == <<part, chanVars, breakerVars, rotationVars, balancerVars>>

MCInit ==
  /\ part \in {"channel", "alone", "shared", "rotation", "balancer"}
  /\ ChannelInit /\ (part # "channel" => strategy = "sliding")
  /\ Breaker!BreakerInit
  /\ RotationInit /\ (part # "rotation" => level = 1)
  /\ BalancerInit /\ (part # "balancer" => config.strategy = "weighted")

OnlyChannel  == UNCHANGED <<part, breakerVars, rotationVars, balancerVars>>
OnlyBreaker  == UNCHANGED <<part, chanVars, rotationVars, balancerVars>>
OnlyRotation == UNCHANGED <<part, chanVars, breakerVars, balancerVars>>
OnlyBalance  == UNCHANGED <<part, chanVars, breakerVars, rotationVars>>

Transmit(t) == OnlyChannel /\ part = "channel" /\ SendStep(t)
Feed        == OnlyChannel /\ part = "channel" /\ \E t \in Senders : BeginSend(t)
Consume     == OnlyChannel /\ part = "channel" /\ Receive

Alone  == OnlyBreaker /\ part = "alone" /\ Breaker!BreakerNext /\ Breaker!OneAtATime'
Own(t) == OnlyBreaker /\ part = "shared" /\ (Breaker!Execute(t) \/ Breaker!SetCounter(t))
Clock  == OnlyBreaker /\ part = "shared" /\ Breaker!Tick
Relief == OnlyBreaker /\ part = "shared" /\ Breaker!Heal

Rotate == OnlyRotation /\ part = "rotation" /\ RotationNext

Dispatching(t) == OnlyBalance /\ part = "balancer" /\ Dispatch(t)
Beyond(id)     == OnlyBalance /\ part = "balancer" /\ Outside(id)
Cooling(id)    == OnlyBalance /\ part = "balancer" /\ CoolDown(id)
Repairing(id)  == OnlyBalance /\ part = "balancer" /\ Repair(id)

MCSpec ==
  /\ MCInit
  /\ [][\/ Feed \/ Consume \/ Alone \/ Clock \/ Relief \/ Rotate
        \/ \E t \in Senders : Transmit(t)
        \/ \E t \in Two : Own(t) \/ Dispatching(t)
        \/ \E id \in Ids : Beyond(id)]_mcVars
  /\ \A t \in Senders : WF_mcVars(Transmit(t))
  /\ WF_mcVars(Consume) /\ WF_mcVars(Clock) /\ WF_mcVars(Relief)
  /\ \A t \in Two : WF_mcVars(Own(t)) /\ WF_mcVars(Dispatching(t))
  /\ \A id \in Ids : WF_mcVars(Cooling(id)) /\ WF_mcVars(Repairing(id))

\* Cooldown of the breaker where calls do not overlap.
Cooldown == [][part = "shared" \/ Breaker!Cooldown]_mcVars

\* A circuit that opened closes again once the trouble is over: ClosesForGood
\* of the breaker where calls overlap, and CircuitsRecover of the balancer.
CircuitsClose ==
  (part = "shared" => Breaker!ClosesForGood) /\ (part = "balancer" => CircuitsRecover)
=============================================================================
