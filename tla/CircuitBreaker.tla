--------------------------- MODULE CircuitBreaker ---------------------------
(***************************************************************************)
(* dispatcher/circuit_breaker.rs: a breaker whose state, failure count,    *)
(* success count and statistics have a mutex each.  Every method takes     *)
(* them one after the other, so threads that share the breaker interleave  *)
(* between any two.                                                        *)
(*                                                                         *)
(* Counters are only compared with thresholds, and the clock only with     *)
(* tripped_at_ms: counters stop at the largest threshold they are compared *)
(* with, and tripped_at_ms is the time since then, up to Timeout + 1.  The *)
(* totals of CircuitBreakerStats are left out.                             *)
(***************************************************************************)
EXTENDS Naturals, FiniteSets

CONSTANTS
  Clients,           (* callers of execute                                  *)
  FailureThreshold, SuccessThreshold, Timeout, HalfOpenMaxCalls,
  Manual             (* the thread that calls trip and reset                *)

Never == Timeout + 2   (* tripped_at_ms is None                             *)

VARIABLES
  circuit,     (* state: CircuitState                                       *)
  failures,    (* failure_count                                             *)
  successes,   (* success_count                                             *)
  age,         (* now_ms() - tripped_at_ms                                  *)
  stage,       (* where each thread is                                      *)
  seen,        (* the copy of the state it read on entry of a method        *)
  healthy,     (* the protected function does not fail any more             *)
  openFor      (* history: the time since the breaker last became Open      *)

counters == <<failures, successes>>
breakerVars == <<circuit, counters, age, stage, seen, healthy, openFor>>

CountCap == IF SuccessThreshold > HalfOpenMaxCalls THEN SuccessThreshold ELSE HalfOpenMaxCalls
Capped(n, cap) == IF n > cap THEN cap ELSE n

Stages == {"idle", "timeout", "half_open", "clear", "allow", "call",
           "failed", "count", "test", "open", "stamp",
           "reopen", "forget", "stamp_again",
           "succeeded", "reset_failures", "count_success", "close", "closed1", "closed2",
           "trip", "trip_stamp", "reset1", "reset2"}

Callers == Clients \cup {Manual}

BreakerTypeOK ==
  /\ circuit \in {"Closed", "Open", "HalfOpen"}
  /\ failures \in 0 .. FailureThreshold
  /\ successes \in 0 .. CountCap
  /\ age \in 0 .. Never
  /\ stage \in [Callers -> Stages]
  /\ seen \in [Clients -> {"Closed", "Open", "HalfOpen"}]
  /\ healthy \in BOOLEAN
  /\ openFor \in 0 .. Never

BreakerInit ==
  /\ circuit = "Closed"
  /\ failures = 0 /\ successes = 0
  /\ age = Never /\ openFor = Never
  /\ stage = [t \in Callers |-> "idle"]
  /\ seen = [t \in Clients |-> "Closed"]
  /\ healthy = FALSE

Passes(t, from, to) ==
  /\ stage[t] = from
  /\ stage' = [stage EXCEPT ![t] = to]
Quiet == UNCHANGED <<healthy, openFor>>

ValidTransition(from, to) ==
  <<from, to>> \in {<<"Closed", "Open">>, <<"Open", "HalfOpen">>,
                    <<"HalfOpen", "Closed">>, <<"HalfOpen", "Open">>}

\* transition_to(to); the history notes when the breaker opens and half-opens.
Transition(to) ==
  IF ValidTransition(circuit, to)
  THEN /\ circuit' = to
       /\ openFor' = IF to = "Open" THEN 0 ELSE openFor
  ELSE UNCHANGED <<circuit, openFor>>

\* A thread's part of a method that only reads state and remembers it.
ReadState(t, from, next(_)) ==
  /\ Passes(t, from, next(circuit))
  /\ seen' = [seen EXCEPT ![t] = circuit]
  /\ UNCHANGED <<circuit, counters, age>> /\ Quiet

-----------------------------------------------------------------------------
(* execute: check_timeout, allows_request, the call.                        *)

Enter(t) == ReadState(t, "idle", LAMBDA s : IF s = "Open" THEN "timeout" ELSE "allow")

CheckTimeout(t) ==
  /\ Passes(t, "timeout", IF age # Never /\ age > Timeout THEN "half_open" ELSE "allow")
  /\ UNCHANGED <<circuit, counters, age, seen>> /\ Quiet

ToHalfOpen(t) ==
  /\ Passes(t, "half_open", IF ValidTransition(circuit, "HalfOpen") THEN "clear" ELSE "allow")
  /\ Transition("HalfOpen")
  /\ UNCHANGED <<counters, age, seen, healthy>>

\* Mutant: success_count keeps its value from the last HalfOpen period.
ClearNothing(t) ==
  /\ Passes(t, "clear", "allow")
  /\ UNCHANGED <<circuit, counters, age, seen>> /\ Quiet

ClearSuccesses(t) ==
  /\ Passes(t, "clear", "allow")
  /\ successes' = 0
  /\ UNCHANGED <<circuit, failures, age, seen>> /\ Quiet

Allowed == \/ circuit = "Closed"
           \/ /\ circuit = "HalfOpen"
              /\ successes < HalfOpenMaxCalls

\* allows_request holds the state's mutex while it reads success_count.
AllowsRequest(t) ==
  /\ Passes(t, "allow", IF Allowed THEN "call" ELSE "idle")
  /\ UNCHANGED <<circuit, counters, age, seen, healthy, openFor>>

Call(t) ==
  /\ \/ Passes(t, "call", "succeeded")
     \/ /\ ~healthy
        /\ Passes(t, "call", "failed")
  /\ UNCHANGED <<circuit, counters, age, seen>> /\ Quiet

-----------------------------------------------------------------------------
(* record_failure.                                                          *)

FailureSeen(t) == ReadState(t, "failed", LAMBDA s : "count")

CountFailure(t) ==
  /\ Passes(t, "count", CASE seen[t] = "Closed" -> "test"
                        [] seen[t] = "HalfOpen" -> "reopen"
                        [] seen[t] = "Open" -> "idle")
  /\ failures' = Capped(failures + 1, FailureThreshold)
  /\ UNCHANGED <<circuit, successes, age, seen>> /\ Quiet

TestThreshold(t) ==
  /\ Passes(t, "test", IF failures >= FailureThreshold THEN "open" ELSE "idle")
  /\ UNCHANGED <<circuit, counters, age, seen>> /\ Quiet

ToOpen(t) ==
  /\ Passes(t, "open", IF ValidTransition(circuit, "Open") THEN "stamp" ELSE "idle")
  /\ Transition("Open")
  /\ UNCHANGED <<counters, age, seen, healthy>>

\* HalfOpen: the transition's result is ignored, tripped_at_ms set anyway.
Reopen(t) ==
  /\ Passes(t, "reopen", "forget")
  /\ Transition("Open")
  /\ UNCHANGED <<counters, age, seen, healthy>>

Forget(t) ==
  /\ Passes(t, "forget", "stamp_again")
  /\ successes' = 0
  /\ UNCHANGED <<circuit, failures, age, seen>> /\ Quiet

\* Mutant: re-opening does not set tripped_at_ms again.
StampFirst(t) ==
  /\ \/ (Passes(t, "stamp", "idle") \/ Passes(t, "trip_stamp", "idle")) /\ age' = 0
     \/ Passes(t, "stamp_again", "idle") /\ UNCHANGED age
  /\ UNCHANGED <<circuit, counters, seen>> /\ Quiet

Stamp(t) ==
  /\ \/ Passes(t, "stamp", "idle") \/ Passes(t, "stamp_again", "idle")
     \/ Passes(t, "trip_stamp", "idle")
  /\ age' = 0
  /\ UNCHANGED <<circuit, counters, seen>> /\ Quiet

-----------------------------------------------------------------------------
(* record_success.                                                          *)

SuccessSeen(t) ==
  ReadState(t, "succeeded", LAMBDA s : CASE s = "Closed" -> "reset_failures"
                                         [] s = "HalfOpen" -> "count_success"
                                         [] s = "Open" -> "idle")

ResetFailures(t) ==
  /\ \/ Passes(t, "reset_failures", "idle")
     \/ Passes(t, "closed1", "closed2")
     \/ Passes(t, "reset1", "reset2")
  /\ failures' = 0
  /\ UNCHANGED <<circuit, successes, age, seen>> /\ Quiet

CountSuccess(t) ==
  /\ Passes(t, "count_success", IF successes + 1 >= SuccessThreshold THEN "close" ELSE "idle")
  /\ successes' = Capped(successes + 1, CountCap)
  /\ UNCHANGED <<circuit, failures, age, seen>> /\ Quiet

ToClosed(t) ==
  /\ Passes(t, "close", IF ValidTransition(circuit, "Closed") THEN "closed1" ELSE "idle")
  /\ Transition("Closed")
  /\ UNCHANGED <<counters, age, seen, healthy>>

ResetSuccesses(t) ==
  /\ \/ Passes(t, "closed2", "idle") \/ Passes(t, "reset2", "idle")
  /\ successes' = 0
  /\ UNCHANGED <<circuit, failures, age, seen>> /\ Quiet

-----------------------------------------------------------------------------
(* trip and reset.                                                          *)

TripTest ==
  /\ Passes(Manual, "idle", IF circuit = "Closed" THEN "trip" ELSE "idle")
  /\ UNCHANGED <<circuit, counters, age, seen>> /\ Quiet

Trip ==
  /\ Passes(Manual, "trip", "trip_stamp")
  /\ Transition("Open")
  /\ UNCHANGED <<counters, age, seen, healthy>>

ResetState ==
  /\ Passes(Manual, "idle", "reset1")
  /\ circuit' = "Closed"
  /\ UNCHANGED <<counters, age, seen>> /\ Quiet

\* The clock, and the end of the trouble behind the breaker.
Tick ==
  /\ age' = IF age = Never THEN age ELSE Capped(age + 1, Timeout + 1)
  /\ openFor' = IF openFor = Never THEN openFor ELSE Capped(openFor + 1, Timeout + 1)
  /\ UNCHANGED <<circuit, counters, stage, seen, healthy>>

Heal ==
  /\ ~healthy /\ healthy' = TRUE
  /\ UNCHANGED <<circuit, counters, age, stage, seen, openFor>>

Execute(t) ==
  \/ Enter(t) \/ CheckTimeout(t) \/ ToHalfOpen(t) \/ ClearSuccesses(t)
  \/ AllowsRequest(t) \/ Call(t)
  \/ FailureSeen(t) \/ CountFailure(t) \/ TestThreshold(t) \/ ToOpen(t)
  \/ Reopen(t) \/ Forget(t)
  \/ SuccessSeen(t) \/ CountSuccess(t) \/ ToClosed(t)

SetCounter(t) == ResetFailures(t) \/ ResetSuccesses(t) \/ Stamp(t)

ManualCall == TripTest \/ Trip \/ ResetState \/ SetCounter(Manual)

Calls == \E t \in Clients : Execute(t) \/ SetCounter(t)

World == Tick \/ Heal

BreakerNext == Calls \/ ManualCall \/ World

BreakerSpec == BreakerInit /\ [][BreakerNext]_breakerVars

\* Use by one caller at a time.
OneAtATime == \A t, u \in Callers : t = u \/ stage[t] = "idle" \/ stage[u] = "idle"

AloneSpec == BreakerInit /\ [][BreakerNext /\ OneAtATime']_breakerVars

-----------------------------------------------------------------------------
(* Properties.                                                              *)

AllIdle == \A t \in Callers : stage[t] = "idle"

\* The comment on timeout_ms (circuit_breaker.rs:47): the breaker stays Open
\* that long before it becomes HalfOpen.
Cooldown == circuit = "Open" /\ circuit' = "HalfOpen" => openFor > Timeout

\* When the trouble is over the breaker closes for good, although calls that
\* started earlier still report to it - as long as HalfOpen admits as many
\* calls as closing takes.
ClosesForGood == <>[](circuit = "Closed")
=============================================================================
