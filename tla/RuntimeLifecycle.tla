-------------------------- MODULE RuntimeLifecycle --------------------------
(***************************************************************************)
(* Start and stop of the runtime (bootstrap.rs, agent/facade.rs,           *)
(* agent/lifecycle.rs): the threads that take inbound messages, control    *)
(* messages and outbound messages from the bus, each of which has to       *)
(* notice by itself that it is to end, and the thread that waits for them. *)
(* Runtime.start and stop are called one after the other (&mut self).      *)
(***************************************************************************)
EXTENDS Naturals, FiniteSets, SequencesExt

CONSTANTS
  Letters,       (* inbound messages                                        *)
  Signals,       (* control signals somebody sends                          *)
  MaxStarts      (* bound                                                   *)

Waiting == {"none", "polling", "woken", "ended"}

\* A message is none of the places a thread without one is at.
ASSUME RunAssumption == MaxStarts \in Nat /\ Letters \cap Waiting = {}

Threads == 1..MaxStarts

VARIABLES
  started,       (* Agent.running                                           *)
  coreRunning,   (* CoreAgent.running                                       *)
  closed,        (* Bus.closed                                              *)
  main,          (* where start and stop are                                *)
  starts,        (* how many inbound threads were made                      *)
  taker,         (* the inbound threads: "none", "polling", "woken" (the    *)
                 (* wait has timed out), "ended", or the message in hand    *)
  controller, forwarder,   (* the control and the outbound thread           *)
  joins,         (* loop_handle, control_handle, dispatcher_handle          *)
  letters,       (* the inbound queue                                       *)
  signals,       (* the control queue                                       *)
  out,           (* the outbound queue                                      *)
  fate,          (* of each message: "unsent", "refused", "queued", then of *)
                 (* its answer: "out", "lost" or "sent"                     *)
  late           (* history: answers published between a time-out of the    *)
                 (* outbound thread and its look at the bus                 *)

runVars == <<started, coreRunning, closed, main, starts, taker, controller, forwarder, joins, letters, signals, out, fate, late>>

RunInit ==
  /\ started = FALSE /\ coreRunning = FALSE /\ closed = FALSE
  /\ main = "idle" /\ starts = 0
  /\ taker = [i \in Threads |-> "none"]
  /\ controller = "none" /\ forwarder = "none"
  /\ joins = {}
  /\ letters = <<>> /\ signals = <<>> /\ out = <<>>
  /\ fate = [m \in Letters |-> "unsent"]
  /\ late = {}

\* RuntimeBootstrap.start: Agent.start, CoreAgent.start, the outbound loop
Start ==
  /\ main = "idle" /\ starts < MaxStarts
  /\ started' = TRUE
  /\ IF started \/ coreRunning THEN UNCHANGED <<coreRunning, starts, taker, controller>>
     ELSE /\ coreRunning' = TRUE
          /\ starts' = starts + 1
          /\ taker' = [taker EXCEPT ![starts + 1] = "polling"]
          /\ controller' = "polling"
  /\ forwarder' = IF "forwarder" \in joins THEN forwarder ELSE "polling"
  /\ joins' = {"taker", "controller", "forwarder"}
  /\ UNCHANGED <<closed, main, letters, signals, out, fate, late>>

\* stop: CoreAgent.stop waits for its threads, unless it was not running
\* Mutant: the bus is closed first.
StopClosing ==
  /\ main = "idle" /\ "forwarder" \in joins
  /\ started' = FALSE /\ coreRunning' = FALSE
  /\ closed' = TRUE
  /\ main' = IF coreRunning THEN "joining" ELSE "closing"
  /\ UNCHANGED <<starts, taker, controller, forwarder, joins, letters, signals, out, fate, late>>

Stop ==
  /\ main = "idle" /\ "forwarder" \in joins
  /\ started' = FALSE /\ coreRunning' = FALSE
  /\ main' = IF coreRunning THEN "joining" ELSE "closing"
  /\ UNCHANGED <<closed, starts, taker, controller, forwarder, joins, letters, signals, out, fate, late>>

JoinTaker ==
  /\ main = "joining" /\ "taker" \in joins
  /\ taker[starts] = "ended"
  /\ joins' = joins \ {"taker"}
  /\ UNCHANGED <<started, coreRunning, closed, main, starts, taker, controller, forwarder, letters, signals, out, fate, late>>

JoinController ==
  /\ main = "joining" /\ "taker" \notin joins
  /\ controller = "ended"
  /\ joins' = joins \ {"controller"}
  /\ main' = "closing"
  /\ UNCHANGED <<started, coreRunning, closed, starts, taker, controller, forwarder, letters, signals, out, fate, late>>

Close ==
  /\ main = "closing"
  /\ closed' = TRUE
  /\ main' = "draining"
  /\ UNCHANGED <<started, coreRunning, starts, taker, controller, forwarder, joins, letters, signals, out, fate, late>>

JoinForwarder ==
  /\ main = "draining" /\ forwarder = "ended"
  /\ joins' = joins \ {"forwarder"}
  /\ main' = "idle"
  /\ UNCHANGED <<started, coreRunning, closed, starts, taker, controller, forwarder, letters, signals, out, fate, late>>

-----------------------------------------------------------------------------
\* Agent.process_message: publish_inbound, whose refusal is dropped
ProcessMessage(m) ==
  /\ fate[m] = "unsent"
  /\ fate' = [fate EXCEPT ![m] = IF closed THEN "refused" ELSE "queued"]
  /\ letters' = IF closed THEN letters ELSE Append(letters, m)
  /\ UNCHANGED <<started, coreRunning, closed, main, starts, taker, controller, forwarder, joins, signals, out, late>>

\* publish_control
Signal(s) ==
  /\ ~closed /\ signals = <<>>
  /\ signals' = <<s>>
  /\ UNCHANGED <<started, coreRunning, closed, main, starts, taker, controller, forwarder, joins, letters, out, fate, late>>

\* The inbound thread: running is read before each wait.
TakeLetter(i) ==
  /\ taker[i] = "polling" /\ coreRunning /\ letters # <<>>
  /\ taker' = [taker EXCEPT ![i] = Head(letters)]
  /\ letters' = Tail(letters)
  /\ UNCHANGED <<started, coreRunning, closed, main, starts, controller, forwarder, joins, signals, out, fate, late>>

\* The wait times out, and only then is the bus looked at.
TakerTimesOut(i) ==
  /\ taker[i] = "polling" /\ coreRunning /\ letters = <<>>
  /\ taker' = [taker EXCEPT ![i] = "woken"]
  /\ UNCHANGED <<started, coreRunning, closed, main, starts, controller, forwarder, joins, letters, signals, out, fate, late>>

TakerGoesOn(i) ==
  /\ \/ taker[i] = "polling" /\ ~coreRunning /\ taker' = [taker EXCEPT ![i] = "ended"]
     \/ taker[i] = "woken" /\ taker' = [taker EXCEPT ![i] = IF closed THEN "ended" ELSE "polling"]
  /\ UNCHANGED <<started, coreRunning, closed, main, starts, controller, forwarder, joins, letters, signals, out, fate, late>>

\* process_inbound_message, ending with send_response: publish_outbound
Reply(i) ==
  /\ taker[i] \in Letters
  /\ taker' = [taker EXCEPT ![i] = "polling"]
  /\ out' = IF closed THEN out ELSE Append(out, taker[i])
  /\ fate' = [fate EXCEPT ![taker[i]] = IF closed THEN "lost" ELSE "out"]
  /\ late' = IF forwarder = "woken" THEN late \cup {taker[i]} ELSE late
  /\ UNCHANGED <<started, coreRunning, closed, main, starts, controller, forwarder, joins, letters, signals>>

\* The control thread: Shutdown ends the loops, Pause and Resume are counted.
TakeSignal ==
  /\ controller = "polling" /\ coreRunning /\ signals # <<>>
  /\ IF Head(signals) = "shutdown" THEN coreRunning' = FALSE /\ controller' = "ended"
     ELSE UNCHANGED <<coreRunning, controller>>
  /\ signals' = Tail(signals)
  /\ UNCHANGED <<started, closed, main, starts, taker, forwarder, joins, letters, out, fate, late>>

ControllerTimesOut ==
  /\ controller = "polling" /\ coreRunning /\ signals = <<>>
  /\ controller' = "woken"
  /\ UNCHANGED <<started, coreRunning, closed, main, starts, taker, forwarder, joins, letters, signals, out, fate, late>>

ControllerGoesOn ==
  /\ \/ controller = "polling" /\ ~coreRunning /\ controller' = "ended"
     \/ controller = "woken" /\ controller' = IF closed THEN "ended" ELSE "polling"
  /\ UNCHANGED <<started, coreRunning, closed, main, starts, taker, forwarder, joins, letters, signals, out, fate, late>>

\* start_dispatcher_outbound_loop: what a closed bus still holds is sent.
Forward ==
  /\ forwarder = "polling" /\ out # <<>>
  /\ fate' = [fate EXCEPT ![Head(out)] = "sent"]
  /\ out' = Tail(out)
  /\ UNCHANGED <<started, coreRunning, closed, main, starts, taker, controller, forwarder, joins, letters, signals, late>>

ForwarderTimesOut ==
  /\ forwarder = "polling" /\ out = <<>>
  /\ forwarder' = "woken"
  /\ UNCHANGED <<started, coreRunning, closed, main, starts, taker, controller, joins, letters, signals, out, fate, late>>

ForwarderGoesOn ==
  /\ \/ forwarder = "polling" /\ closed /\ out = <<>> /\ forwarder' = "ended"
     \/ forwarder = "woken" /\ forwarder' = IF closed THEN "ended" ELSE "polling"
  /\ UNCHANGED <<started, coreRunning, closed, main, starts, taker, controller, joins, letters, signals, out, fate, late>>

RunNext ==
  \/ Start \/ Stop \/ JoinTaker \/ JoinController \/ Close \/ JoinForwarder
  \/ TakeSignal \/ ControllerTimesOut \/ ControllerGoesOn
  \/ Forward \/ ForwarderTimesOut \/ ForwarderGoesOn
  \/ \E m \in Letters : ProcessMessage(m)
  \/ \E s \in Signals : Signal(s)
  \/ \E i \in Threads : TakeLetter(i) \/ TakerTimesOut(i) \/ TakerGoesOn(i) \/ Reply(i)

RunSpec == RunInit /\ [][RunNext]_runVars

-----------------------------------------------------------------------------
\* When stop returns, every answer the inbound thread worked out has been sent
\* on (RuntimeBootstrap.stop): the bus is closed after that thread has ended
\* and before the outbound thread has.  Left behind is only what came when the
\* outbound thread had stopped waiting and had not yet seen the bus closed.
AnswersLeave ==
  (main = "idle" /\ "forwarder" \notin joins) =>
    \A m \in Letters : fate[m] # "lost" /\ (fate[m] = "out" => m \in late)
=============================================================================
