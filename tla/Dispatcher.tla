----------------------------- MODULE Dispatcher -----------------------------
(***************************************************************************)
(* dispatcher/core.rs: one Dispatcher shared by the threads that take      *)
(* messages from its queue - the outbound loop, the scheduler loop and a   *)
(* controller that pauses, resumes, stops or drains it.  drain_one reads   *)
(* the state, dequeues, dispatches and decides about a retry without any   *)
(* lock held across these calls, so each is a step of its own.             *)
(*                                                                         *)
(* The balancer's choice and the channel's send are the environment's: a   *)
(* dispatch may miss a target, find no channel, fail to send or succeed.   *)
(***************************************************************************)
EXTENDS DispatchQueue

CONSTANTS
  Outbound,      (* the thread of start_dispatcher_outbound_loop            *)
  Scheduler,     (* the thread of start_dispatch_scheduler                  *)
  Controller,    (* the thread that calls apply_dispatcher_control          *)
  Threads,       (* those of the three that there are                       *)
  NoMsg,         (* no envelope in hand                                     *)
  BusMsgs,       (* the messages that come over the bus, without retries    *)
  MaxRetries,    (* DispatchEnvelope.max_retries, by message                *)
  Retryable,     (* DispatchEnvelope.retryable_stages, by message           *)
  BacksOff,      (* backoff_ms > 0, by message                              *)
  MaxCommands    (* bound on the control commands given                     *)

FailureStages == {"BalancerSelection", "ChannelLookup", "Send"}

ASSUME DispatcherAssumption ==
  /\ Threads \subseteq {Outbound, Scheduler, Controller}
  /\ NoMsg \notin Msgs /\ BusMsgs \subseteq Msgs
  /\ MaxRetries \in [Msgs -> Nat]
  /\ \A m \in BusMsgs : MaxRetries[m] = 0
  /\ Retryable \in [Msgs -> SUBSET FailureStages]
  /\ BacksOff \in [Msgs -> BOOLEAN]
  /\ MaxCommands \in Nat

VARIABLES
  state,       (* DispatcherRuntimeState.state                              *)
  diagnostic,  (* failure_stage of last_dispatch_diagnostic, "None" if none *)
  retries,     (* DispatchEnvelope.retry_count, by message                  *)
  pc,          (* where each thread is                                      *)
  hand,        (* the envelope each thread has dequeued                     *)
  result,      (* how its dispatch ended: "None" or the failure stage       *)
  fate,        (* history: "new", "queued", "taken", "sent" or "failed"     *)
  sends,       (* history: how often each message was given to a channel    *)
  command,     (* the last control command                                  *)
  commands     (* how many there were                                       *)

threadVars == <<pc, hand, result>>
messageVars == <<retries, fate, sends>>
controlVars == <<command, commands>>
vars == <<queueVars, state, diagnostic, threadVars, messageVars, controlVars>>

States == {"Stopped", "Running", "Paused", "Draining"}
Places == {"unstarted", "idle", "top", "look", "again", "exited",
           "entry", "take", "run", "select", "send", "record", "retry", "finish"}
Commands == {"Start", "Pause", "Resume", "Drain", "Stop"}

TypeOK ==
  /\ QueueTypeOK
  /\ state \in States
  /\ diagnostic \in FailureStages \cup {"None"}
  /\ retries \in [Msgs -> Nat] /\ \A m \in Msgs : retries[m] <= MaxRetries[m]
  /\ pc \in [Threads -> Places]
  /\ hand \in [Threads -> Msgs \cup {NoMsg}]
  /\ result \in [Threads -> FailureStages \cup {"None"}]
  /\ fate \in [Msgs -> {"new", "queued", "taken", "sent", "failed"}]
  /\ sends \in [Msgs -> Nat]
  /\ command \in Commands \cup {"None"} /\ commands \in 0 .. MaxCommands

Init ==
  /\ QueueInit
  /\ state = "Stopped" /\ diagnostic = "None"
  /\ retries = [m \in Msgs |-> 0]
  /\ pc = [t \in Threads |-> IF t = Controller THEN "idle" ELSE "unstarted"]
  /\ hand = [t \in Threads |-> NoMsg]
  /\ result = [t \in Threads |-> "None"]
  /\ fate = [m \in Msgs |-> "new"]
  /\ sends = [m \in Msgs |-> 0]
  /\ command = "None" /\ commands = 0

Goto(t, p) == pc' = [pc EXCEPT ![t] = p]
Step(t, from, to) == t \in Threads /\ pc[t] = from /\ Goto(t, to)
Become(m, f) == fate' = [fate EXCEPT ![m] = f]

-----------------------------------------------------------------------------
(* Messages arrive.                                                         *)

\* enqueue_envelope by any thread.
Produce(m) ==
  /\ fate[m] = "new" /\ m \notin BusMsgs
  /\ Enqueue(m) /\ Become(m, "queued")
  /\ UNCHANGED <<waiting, state, diagnostic, threadVars, retries, sends, controlVars>>

\* Both loops call dispatcher.start() before they spawn their thread.
Launch(t) ==
  /\ Step(t, "unstarted", IF t = Outbound THEN "idle" ELSE "top")
  /\ state' = "Running"
  /\ UNCHANGED <<queueVars, diagnostic, hand, result, messageVars, controlVars>>

\* The outbound loop receives m, enqueues it and calls drain_one, once.
ReceiveOutbound(m) ==
  /\ Step(Outbound, "idle", "entry")
  /\ fate[m] = "new" /\ m \in BusMsgs
  /\ Enqueue(m) /\ Become(m, "queued")
  /\ UNCHANGED <<waiting, state, diagnostic, hand, result, retries, sends, controlVars>>

-----------------------------------------------------------------------------
(* drain_one and dispatch, by thread t.                                     *)

\* drain_one returns; Controller is inside drain()'s loop then.
Return(t, found) ==
  Goto(t, CASE t = Outbound -> "idle"
            [] t = Scheduler -> "top"
            [] t = Controller -> IF found THEN "entry" ELSE "finish")

CheckState(t) ==
  /\ pc[t] = "entry"
  /\ \/ state \in {"Paused", "Stopped"} /\ Return(t, FALSE)
     \/ state \in {"Running", "Draining"} /\ Goto(t, "take")
  /\ UNCHANGED <<queueVars, state, diagnostic, hand, result, messageVars, controlVars>>

Take(t) ==
  /\ pc[t] = "take"
  /\ \/ /\ NothingDue
        /\ Return(t, FALSE)
        /\ UNCHANGED <<queueVars, hand, fate>>
     \/ \E m \in Msgs :
          /\ Dequeue(m)
          /\ hand' = [hand EXCEPT ![t] = m]
          /\ Become(m, "taken")
          /\ Goto(t, "run")
  /\ UNCHANGED <<state, diagnostic, result, retries, sends, controlVars>>

\* dispatch sets the state to Running, whatever it is.
SetRunning(t) ==
  /\ Step(t, "run", "select")
  /\ state' = "Running"
  /\ UNCHANGED <<queueVars, diagnostic, hand, result, messageVars, controlVars>>

\* The balancer may find no target; the dispatch goes on with the account id.
SelectTarget(t) ==
  /\ Step(t, "select", "send")
  /\ diagnostic' \in {diagnostic, "BalancerSelection"}
  /\ UNCHANGED <<queueVars, state, hand, result, messageVars, controlVars>>

\* The channel is looked up and, if there is one, given the message.
SendMessage(t) ==
  /\ Step(t, "send", "record")
  /\ \E r \in {"None", "ChannelLookup", "Send"} :
       /\ result' = [result EXCEPT ![t] = r]
       /\ sends' = IF r = "ChannelLookup" THEN sends
                   ELSE [sends EXCEPT ![hand[t]] = @ + 1]
  /\ UNCHANGED <<queueVars, state, diagnostic, hand, retries, fate, controlVars>>

\* record_dispatch_diagnostic; a success ends drain_one.
Record(t) ==
  /\ pc[t] = "record"
  /\ diagnostic' = result[t]
  /\ \/ /\ result[t] = "None"
        /\ Return(t, TRUE)
        /\ Become(hand[t], "sent")
        /\ hand' = [hand EXCEPT ![t] = NoMsg]
     \/ /\ result[t] # "None"
        /\ Goto(t, "retry")
        /\ UNCHANGED <<fate, hand>>
  /\ UNCHANGED <<queueVars, state, result, retries, sends, controlVars>>

\* Mutant: the retry is enqueued before the failure is looked at.
RetryKeeps(t) ==
  /\ pc[t] = "retry"
  /\ LET m == hand[t] IN
     IF diagnostic \in Retryable[m] /\ retries[m] < MaxRetries[m]
     THEN /\ Enqueue(m) /\ Become(m, "queued") /\ UNCHANGED waiting
          /\ retries' = [retries EXCEPT ![m] = @ + 1]
     ELSE Enqueue(m) /\ Become(m, "failed") /\ UNCHANGED <<waiting, retries>>
  /\ hand' = [hand EXCEPT ![t] = NoMsg]
  /\ Return(t, TRUE)
  /\ UNCHANGED <<state, diagnostic, result, sends, controlVars>>

\* The failure stage is read from the dispatcher's last diagnostic, which by
\* now may be another thread's.
Retry(t) ==
  /\ pc[t] = "retry"
  /\ LET m == hand[t] IN
     \/ /\ diagnostic \in Retryable[m] /\ retries[m] < MaxRetries[m]
        /\ retries' = [retries EXCEPT ![m] = @ + 1]
        /\ waiting' = IF BacksOff[m] THEN waiting \cup {m} ELSE waiting
        /\ Enqueue(m) /\ Become(m, "queued")
     \/ /\ ~(diagnostic \in Retryable[m] /\ retries[m] < MaxRetries[m])
        /\ Become(m, "failed")
        /\ UNCHANGED <<queueVars, retries>>
  /\ hand' = [hand EXCEPT ![t] = NoMsg]
  /\ Return(t, TRUE)
  /\ UNCHANGED <<state, diagnostic, result, sends, controlVars>>

DrainOne(t) == \/ CheckState(t) \/ Take(t) \/ SetRunning(t) \/ SelectTarget(t)
               \/ SendMessage(t) \/ Record(t) \/ Retry(t)

-----------------------------------------------------------------------------
(* The scheduler loop and the controller.                                   *)

\* One iteration reads the state, looks at the queue, and reads the state
\* again if that is empty.
SchedulerTop ==
  /\ Scheduler \in Threads /\ pc[Scheduler] = "top"
  /\ \/ state = "Stopped" /\ Goto(Scheduler, "exited")
     \/ state \in {"Running", "Draining"} /\ Goto(Scheduler, "look")
  /\ UNCHANGED <<queueVars, state, diagnostic, hand, result, messageVars, controlVars>>

SchedulerLook ==
  /\ Step(Scheduler, "look", IF QueueIsEmpty THEN "again" ELSE "entry")
  /\ UNCHANGED <<queueVars, state, diagnostic, hand, result, messageVars, controlVars>>

SchedulerAgain ==
  /\ Scheduler \in Threads /\ pc[Scheduler] = "again"
  /\ \/ state = "Draining" /\ state' = "Stopped" /\ Goto(Scheduler, "exited")
     \/ state # "Draining" /\ UNCHANGED state /\ Goto(Scheduler, "top")
  /\ UNCHANGED <<queueVars, diagnostic, hand, result, messageVars, controlVars>>

\* apply_dispatcher_control.
Control(c) ==
  /\ Controller \in Threads /\ pc[Controller] = "idle"
  /\ commands < MaxCommands
  /\ commands' = commands + 1 /\ command' = c
  /\ state' = CASE c \in {"Start", "Resume"} -> "Running"
                [] c = "Pause" -> "Paused"
                [] c = "Stop" -> "Stopped"
                [] c = "Drain" -> "Draining"
  /\ Goto(Controller, IF c = "Drain" THEN "entry" ELSE "idle")
  /\ UNCHANGED <<queueVars, diagnostic, hand, result, messageVars>>

\* drain() sets Stopped when drain_one has returned None.
DrainEnds ==
  /\ Step(Controller, "finish", "idle")
  /\ state' = "Stopped"
  /\ UNCHANGED <<queueVars, diagnostic, hand, result, messageVars, controlVars>>

BackoffEnds(m) ==
  /\ Elapse(m)
  /\ UNCHANGED <<state, diagnostic, threadVars, messageVars, controlVars>>

ThreadStep(t) == \/ DrainOne(t)
                 \/ t = Scheduler /\ (SchedulerTop \/ SchedulerLook \/ SchedulerAgain)
                 \/ t = Controller /\ DrainEnds

Next == \/ \E m \in Msgs : Produce(m) \/ ReceiveOutbound(m) \/ BackoffEnds(m)
        \/ \E t \in Threads : Launch(t) \/ ThreadStep(t)
        \/ \E c \in Commands : Control(c)

Spec == Init /\ [][Next]_vars

\* The threads keep running, back-off times pass, the loops are launched.
FairSpec ==
  /\ Spec
  /\ \A t \in Threads : WF_vars(Launch(t)) /\ WF_vars(ThreadStep(t))
  /\ \A m \in Msgs : WF_vars(BackoffEnds(m))
-----------------------------------------------------------------------------
(* Properties.                                                              *)

Copies(m) == Cardinality({i \in DOMAIN lanes[RouteOf[m]][LevelOf[m]] :
                            lanes[RouteOf[m]][LevelOf[m]][i] = m})

\* A message is queued once, or in the hand of one thread, or done: no
\* interleaving of loops, drains and retries loses or doubles one, or has a
\* channel given it more than once more than max_retries.
OnePlace ==
  \A m \in Msgs :
    /\ Copies(m) = IF fate[m] = "queued" THEN 1 ELSE 0
    /\ Cardinality({t \in Threads : hand[t] = m}) = IF fate[m] = "taken" THEN 1 ELSE 0
    /\ m \in waiting => fate[m] = "queued"
    /\ sends[m] <= MaxRetries[m] + 1

\* While the scheduler loop lives and is not paused, every message is sent or
\* has failed for good in the end: retries end, back-off only delays, no route
\* or lane is forgotten.
EveryMessageHandled ==
  \A m \in Msgs :
    fate[m] \in {"queued", "taken"} ~>
      \/ fate[m] \in {"sent", "failed"}
      \/ command = "Pause" \/ pc[Scheduler] = "exited"
=============================================================================
