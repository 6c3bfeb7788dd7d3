------------------------------ MODULE Balancer ------------------------------
(***************************************************************************)
(* dispatcher/balancer.rs, and how dispatcher/core.rs uses it for a        *)
(* message: refresh, select a target, count the load, send, record what    *)
(* came of it.  Targets, health records and the cursor have a mutex each   *)
(* and every method takes them one after the other; the threads that       *)
(* dispatch share the balancer and interleave between any two.             *)
(*                                                                         *)
(* Time is abstracted to two facts: whether the cool-down of an open       *)
(* circuit is over, and whether the last heartbeat is older than its       *)
(* time-to-live.  Counters stop at the threshold they are compared with.   *)
(* refresh_targets, which refreshes one record after the other, is part of *)
(* one step: the records do not depend on each other.                      *)
(***************************************************************************)
EXTENDS Retain, FiniteSets, SequencesExt

CONSTANTS
  Dispatchers,    (* callers of Dispatcher::dispatch                         *)
  Ids,            (* ids a target may have                                   *)
  Start,          (* the targets at the start, in their order                *)
  Weight,         (* Target::weight by id                                    *)
  Keys, Hash,     (* selection keys, and stable_hash of each                 *)
  NoKey, NoTarget,
  Configs         (* the configurations one is chosen from                   *)

\* Strategy; the thresholds of the breaker, 0 for none; whether there is a
\* health policy.  Then the bounds: who dispatches, how often (0 for ever) and
\* with which keys, which other calls of the API and how many, faults outside.
ConfigType ==
  [strategy : {"round_robin", "weighted", "least_connections", "hashing"},
   failures : Nat, successes : Nat, beats : BOOLEAN,
   callers : SUBSET Dispatchers, limit : Nat, keys : SUBSET (Keys \cup {NoKey}),
   calls : SUBSET {"add", "remove", "status", "reset"}, commands : Nat, faults : Nat]

VARIABLES
  config,      (* BalancerOptions, and the bounds of the instance            *)
  targets,     (* IndexMap of targets: id, status and load.active            *)
  health,      (* runtime_health                                             *)
  cursor,      (* round_robin_cursor; 0 is None, n + 1 is Some(n)            *)
  inHand,          (* what each thread has in hand                               *)
  removing,    (* targets remove_target has taken out, their health not yet  *)
  answers,     (* what a send to each channel brings: "ok", "error", "gone"  *)
  left,        (* dispatches, commands and faults still to come              *)
  turns,       (* history: candidates of the last selection, how many have   *)
               (* been made since the list or a full turn of it began, and   *)
               (* how many of them each target got                           *)
  late         (* history: sends to a target since its circuit opened        *)

balancerVars == <<config, targets, health, cursor, inHand, removing, answers, left, turns, late>>

Enabled == config.failures > 0 \/ config.beats
Present == {t.id : t \in Range(targets)}
Upto(n, cap) == IF n > cap THEN cap ELSE n
HealthCap == IF config.failures > config.successes THEN config.failures ELSE config.successes

NewHealth == [healthy |-> TRUE, fails |-> 0, succs |-> 0, circuit |-> "closed", cooled |-> FALSE,
              beat |-> IF config.beats THEN "fresh" ELSE "none"]
HealthOf(h, id) == IF id \in DOMAIN h THEN h[id] ELSE [NewHealth EXCEPT !.beat = "none"]
EntryMut(id) == IF id \in DOMAIN health THEN health[id] ELSE NewHealth

SetHealth(id, h) == health' = [i \in DOMAIN health \cup {id} |-> IF i = id THEN h ELSE health[i]]
\* update_load: the load of a target that is there, by what it was.
SetLoad(id, new) ==
  targets' = [i \in DOMAIN targets |->
                IF targets[i].id = id THEN [targets[i] EXCEPT !.active = new[@]] ELSE targets[i]]

-----------------------------------------------------------------------------
\* Health records.

OpenCircuit(h) == [h EXCEPT !.circuit = "open", !.cooled = FALSE, !.succs = 0]
CloseCircuit(h) == [h EXCEPT !.circuit = "closed", !.fails = 0]

\* Mutant: one success more than the threshold.
SucceededOnceMore(h) ==
  LET g == [h EXCEPT !.healthy = TRUE, !.fails = 0, !.succs = Upto(@ + 1, HealthCap)] IN
  IF g.circuit = "half_open" /\ config.failures > 0 /\ g.succs > config.successes
  THEN CloseCircuit(g) ELSE g

Succeeded(h) ==
  LET g == [h EXCEPT !.healthy = TRUE, !.fails = 0, !.succs = Upto(@ + 1, HealthCap)] IN
  IF g.circuit = "half_open" /\ config.failures > 0 /\ g.succs >= config.successes
  THEN CloseCircuit(g) ELSE g

Failed(h) ==
  LET g == [h EXCEPT !.fails = Upto(@ + 1, HealthCap), !.succs = 0] IN
  IF \/ g.circuit = "half_open"
     \/ g.circuit = "closed" /\ config.failures > 0 /\ g.fails >= config.failures
  THEN OpenCircuit(g) ELSE g

Beaten(h, healthy) ==
  [h EXCEPT !.healthy = healthy, !.beat = "fresh",
            !.succs = IF healthy THEN Upto(@ + 1, HealthCap) ELSE 0]

HeartbeatExpired(h) == config.beats /\ h.beat = "stale"

Refreshed(h) ==
  LET g == IF h.circuit = "open" /\ h.cooled /\ config.failures > 0
           THEN [h EXCEPT !.circuit = "half_open", !.cooled = FALSE, !.succs = 0] ELSE h
  IN  [g EXCEPT !.healthy = @ /\ ~HeartbeatExpired(g)]

RefreshTargets ==
  IF Enabled THEN [id \in DOMAIN health \cup Present |->
                     IF id \in Present THEN Refreshed(EntryMut(id)) ELSE health[id]]
  ELSE health

-----------------------------------------------------------------------------
\* A selection, from the copies `ts` of the targets and `h` of the health.

Available(ts) == KeepOnly(ts, {t \in Range(ts) : t.status = "available"})
IsHealthy(h, id) == Enabled => HealthOf(h, id).healthy /\ ~HeartbeatExpired(HealthOf(h, id))
Circuits(ts, h, state) ==
  KeepOnly(Available(ts), {t \in Range(ts) : IsHealthy(h, t.id) /\ HealthOf(h, t.id).circuit = state})

\* Mutant: where nothing is closed, anything healthy will do.
CandidatesAtLeast(ts, h) ==
  LET closed == Circuits(ts, h, "closed") IN
  IF closed # <<>> THEN closed
  ELSE KeepOnly(Available(ts), {t \in Range(ts) : IsHealthy(h, t.id)})

Candidates(ts, h) ==
  LET closed == Circuits(ts, h, "closed") IN
  IF closed # <<>> THEN closed ELSE Circuits(ts, h, "half_open")

KeyMissing(ts, h, key) ==
  config.strategy = "hashing" /\ key = NoKey /\ Candidates(ts, h) # <<>>

\* target_excluded_reasons
ExcludedReasons(t, ts, h, key) ==
  LET g == HealthOf(h, t.id)
      watched == t.status = "available" /\ Enabled
  IN  {r \in {"status", "heartbeat_expired", "unhealthy", "circuit_open", "prefer_closed", "key_missing"} :
         \/ r = "status" /\ t.status # "available"
         \/ r = "heartbeat_expired" /\ watched /\ HeartbeatExpired(g)
         \/ r = "unhealthy" /\ watched /\ ~HeartbeatExpired(g) /\ ~g.healthy
         \/ r = "circuit_open" /\ watched /\ g.circuit = "open"
         \/ r = "prefer_closed" /\ watched /\ g.circuit = "half_open" /\ Circuits(ts, h, "closed") # <<>>
         \/ r = "key_missing" /\ t.status = "available" /\ KeyMissing(ts, h, key)
                              /\ t \in Range(Candidates(ts, h))}

MissReason(ts, h, key) ==
  LET none == Candidates(ts, h) = <<>> IN
  IF ts = <<>> THEN "no_targets_configured"
  ELSE IF KeyMissing(ts, h, key) THEN "hashing_key_missing"
  ELSE IF Available(ts) = <<>> THEN "no_available_targets"
  ELSE IF Enabled /\ \A t \in Range(Available(ts)) : ~IsHealthy(h, t.id) THEN "no_healthy_targets"
  ELSE IF Enabled /\ none /\ Circuits(ts, h, "open") # <<>> THEN "all_circuits_open"
  ELSE IF none THEN "no_eligible_targets" ELSE "strategy_returned_none"

\* Mutant: the last place of the wheel is left out.
RoundRobinShort(last, len) == IF len = 1 THEN 1 ELSE (last % (len - 1)) + 1

\* round_robin_index
RoundRobinIndex(last, len) == (last % len) + 1

Expanded(cands) ==
  FlattenSeq([i \in DOMAIN cands |->
                [j \in 1 .. (IF Weight[cands[i].id] = 0 THEN 1 ELSE Weight[cands[i].id]) |-> cands[i]]])

\* What the cursor goes round.
Wheel(cands) == IF config.strategy = "weighted" THEN Expanded(cands) ELSE cands

LeastConnections(cands) ==
  CHOOSE i \in DOMAIN cands :
    /\ \A j \in DOMAIN cands : cands[i].active <= cands[j].active
    /\ \A j \in 1 .. i - 1 : cands[i].active < cands[j].active


-----------------------------------------------------------------------------
Idle == [pc |-> "idle", key |-> NoKey, seen |-> <<>>, cands |-> <<>>, eligible |-> {},
         miss |-> "none", target |-> NoTarget, ok |-> FALSE]

NoTurns == [list |-> <<>>, given |-> 0, got |-> [id \in Ids |-> 0]]

BalancerInit ==
  /\ config \in Configs
  /\ targets = [i \in DOMAIN Start |-> [id |-> Start[i], status |-> "available", active |-> 0]]
  /\ health = IF Enabled THEN [id \in Range(Start) |-> NewHealth] ELSE <<>>
  /\ cursor = 0 /\ removing = {}
  /\ inHand = [th \in Dispatchers |-> Idle]
  /\ answers = [id \in Ids |-> "ok"]
  /\ left = [dispatches |-> config.limit, commands |-> config.commands, faults |-> config.faults]
  /\ turns = NoTurns
  /\ late = [id \in Ids |-> 0]

Shut(h, id) == id \in DOMAIN h /\ h[id].circuit = "open" /\ ~h[id].cooled
\* A circuit that is not shut has no sends to account for.
KeepLate == late' = [id \in Ids |-> IF Shut(health', id) THEN late[id] ELSE 0]

At(th, pc) == inHand[th].pc = pc
Go(th, pc) == inHand' = [inHand EXCEPT ![th].pc = pc]

\* Dispatcher::select_target, before it calls Balancer::select_target.
Refresh(th, key) ==
  /\ th \in config.callers /\ key \in config.keys /\ At(th, "idle")
  /\ config.limit > 0 => left.dispatches > 0
  /\ left' = [left EXCEPT !.dispatches = IF @ > 0 THEN @ - 1 ELSE @]
  /\ health' = RefreshTargets
  /\ inHand' = [inHand EXCEPT ![th] = [Idle EXCEPT !.pc = "copy", !.key = key]]
  /\ KeepLate
  /\ UNCHANGED <<config, targets, cursor, removing, answers, turns>>

\* select_target: the copy of the targets.
CopyTargets(th) ==
  /\ At(th, "copy")
  /\ inHand' = [inHand EXCEPT ![th].pc = "filter", ![th].seen = targets]
  /\ UNCHANGED <<config, targets, health, cursor, removing, answers, left, turns, late>>

\* compute_selection up to the choice: check_on_select, the copy of the health.
Filter(th) ==
  /\ At(th, "filter")
  /\ health' = IF config.beats THEN RefreshTargets ELSE health
  /\ LET ts == inHand[th].seen
         key == inHand[th].key
     IN  inHand' = [inHand EXCEPT ![th].pc = "pick", ![th].seen = <<>>,
                  ![th].cands = Candidates(ts, health'),
                  ![th].eligible = {t.id : t \in {u \in Range(ts) :
                                       ExcludedReasons(u, ts, health', key) = {}}},
                  ![th].miss = MissReason(ts, health', key)]
  /\ KeepLate
  /\ UNCHANGED <<config, targets, cursor, removing, answers, left, turns>>

Chosen(th) ==
  LET cands == inHand[th].cands
      index == IF config.strategy = "least_connections" THEN LeastConnections(cands)
               ELSE IF config.strategy = "hashing" THEN (Hash[inHand[th].key] % Len(cands)) + 1
               ELSE RoundRobinIndex(cursor, Len(Wheel(cands)))
  IN  IF cands = <<>> \/ (config.strategy = "hashing" /\ inHand[th].key = NoKey) THEN NoTarget
      ELSE Wheel(cands)[index].id

\* The share of each target since the wheel last came round.
Turn(th) ==
  LET list == [i \in DOMAIN inHand[th].cands |-> inHand[th].cands[i].id]
      past == IF turns.list = list /\ turns.given < Len(Wheel(inHand[th].cands)) THEN turns ELSE NoTurns
  IN  [list |-> list, given |-> past.given + 1, got |-> [past.got EXCEPT ![Chosen(th)] = @ + 1]]

\* The choice, under the lock of the cursor, which only the wheel moves.  With
\* no target the message goes to the channel of its own account, and nothing
\* of it is recorded here.
Pick(th) ==
  /\ At(th, "pick")
  /\ LET id == Chosen(th) IN
     IF id = NoTarget
     THEN /\ inHand' = [inHand EXCEPT ![th] = Idle]
          /\ UNCHANGED <<cursor, turns>>
     ELSE /\ inHand' = [inHand EXCEPT ![th] = [Idle EXCEPT !.pc = "count", !.target = id]]
          /\ IF config.strategy \in {"round_robin", "weighted"}
             THEN cursor' = RoundRobinIndex(cursor, Len(Wheel(inHand[th].cands))) /\ turns' = Turn(th)
             ELSE UNCHANGED <<cursor, turns>>
  /\ UNCHANGED <<config, targets, health, removing, answers, left, late>>

\* before_send
Count(th) ==
  /\ At(th, "count") /\ Go(th, "send")
  /\ SetLoad(inHand[th].target, [n \in Nat |-> n + 1])
  /\ UNCHANGED <<config, health, cursor, removing, answers, left, turns, late>>

\* The channel is looked up by the id of the target and sends; what came of a
\* send is recorded if the target is still there by then.
Send(th) ==
  /\ At(th, "send")
  /\ LET id == inHand[th].target
         sent == answers[id] # "gone"
     IN  /\ inHand' = [inHand EXCEPT ![th].ok = answers[id] = "ok",
                             ![th].pc = IF sent /\ id \in Present /\ Enabled THEN "record" ELSE "done"]
         /\ late' = IF sent /\ Shut(health, id)
                    THEN [late EXCEPT ![id] = Upto(@ + 1, Cardinality(Dispatchers))] ELSE late
  /\ UNCHANGED <<config, targets, health, cursor, removing, answers, left, turns>>

\* record_target_success or record_target_failure, after the check of presence.
RecordOutcome(th) ==
  /\ At(th, "record") /\ Go(th, "done")
  /\ LET h == EntryMut(inHand[th].target) IN
     SetHealth(inHand[th].target, IF inHand[th].ok THEN Succeeded(h) ELSE Failed(h))
  /\ KeepLate
  /\ UNCHANGED <<config, targets, cursor, removing, answers, left, turns>>

\* Mutant: only a success takes the load off.
FinishSuccess(th) ==
  /\ At(th, "done")
  /\ SetLoad(inHand[th].target, [n \in Nat |-> IF n = 0 \/ ~inHand[th].ok THEN n ELSE n - 1])
  /\ inHand' = [inHand EXCEPT ![th] = Idle]
  /\ UNCHANGED <<config, health, cursor, removing, answers, left, turns, late>>

\* update_load: Dec or Error, the same for the count that is active.
Finish(th) ==
  /\ At(th, "done")
  /\ SetLoad(inHand[th].target, [n \in Nat |-> IF n = 0 THEN 0 ELSE n - 1])
  /\ inHand' = [inHand EXCEPT ![th] = Idle]
  /\ UNCHANGED <<config, health, cursor, removing, answers, left, turns, late>>

Dispatch(th) ==
  \/ \E key \in Keys \cup {NoKey} : Refresh(th, key)
  \/ CopyTargets(th) \/ Filter(th) \/ Pick(th) \/ Count(th) \/ Send(th) \/ RecordOutcome(th) \/ Finish(th)

-----------------------------------------------------------------------------
\* The other calls of the API, and what happens outside.

Command(call) ==
  /\ call \in config.calls /\ left.commands > 0
  /\ left' = [left EXCEPT !.commands = @ - 1]
  /\ UNCHANGED <<config, inHand, answers>>

\* insert puts a new target at the end and a known one where it was.
AddTarget(id) ==
  /\ Command("add")
  /\ LET t == [id |-> id, status |-> "available", active |-> 0] IN
     targets' = IF id \in Present
                THEN [i \in DOMAIN targets |-> IF targets[i].id = id THEN t ELSE targets[i]]
                ELSE Append(targets, t)
  /\ IF Enabled THEN SetHealth(id, EntryMut(id)) ELSE UNCHANGED health
  /\ UNCHANGED <<cursor, removing, turns, late>>

\* remove_target: the target and the cursor, then the health.
RemoveTarget(id) ==
  /\ Command("remove")
  /\ id \in Present /\ id \notin removing
  /\ targets' = KeepOnly(targets, {t \in Range(targets) : t.id # id})
  /\ cursor' = Upto(cursor, Len(targets'))
  /\ removing' = removing \cup {id}
  /\ turns' = NoTurns
  /\ UNCHANGED <<health, late>>

RemoveHealth(id) ==
  /\ id \in removing
  /\ removing' = removing \ {id}
  /\ health' = [i \in DOMAIN health \ {id} |-> health[i]]
  /\ KeepLate
  /\ UNCHANGED <<config, targets, cursor, inHand, answers, left, turns>>

SetStatus(id, status) ==
  /\ Command("status")
  /\ id \in Present
  /\ targets' = [i \in DOMAIN targets |->
                    IF targets[i].id = id THEN [targets[i] EXCEPT !.status = status] ELSE targets[i]]
  /\ UNCHANGED <<health, cursor, removing, turns, late>>

ResetLoad(id) ==
  /\ Command("reset")
  /\ id \in Present
  /\ SetLoad(id, [n \in Nat |-> 0])
  /\ UNCHANGED <<health, cursor, removing, turns, late>>

\* record_target_heartbeat
Heartbeat(id, healthy) ==
  /\ Enabled /\ config.beats /\ id \in Present
  /\ ~healthy => left.faults > 0
  /\ left' = [left EXCEPT !.faults = IF healthy THEN @ ELSE @ - 1]
  /\ SetHealth(id, Beaten(EntryMut(id), healthy))
  /\ KeepLate
  /\ UNCHANGED <<config, targets, cursor, inHand, removing, answers, turns>>

CoolDown(id) ==
  /\ Shut(health, id)
  /\ health' = [health EXCEPT ![id].cooled = TRUE]
  /\ KeepLate
  /\ UNCHANGED <<config, targets, cursor, inHand, removing, answers, left, turns>>

HeartbeatAges(id) ==
  /\ left.faults > 0 /\ id \in DOMAIN health /\ health[id].beat = "fresh"
  /\ left' = [left EXCEPT !.faults = @ - 1]
  /\ health' = [health EXCEPT ![id].beat = "stale"]
  /\ UNCHANGED <<config, targets, cursor, inHand, removing, answers, turns, late>>

Fault(id, answer) ==
  /\ left.faults > 0 /\ answers[id] = "ok" /\ answer \in {"error", "gone"}
  /\ left' = [left EXCEPT !.faults = @ - 1]
  /\ answers' = [answers EXCEPT ![id] = answer]
  /\ UNCHANGED <<config, targets, health, cursor, inHand, removing, turns, late>>

Repair(id) ==
  /\ answers[id] # "ok"
  /\ answers' = [answers EXCEPT ![id] = "ok"]
  /\ UNCHANGED <<config, targets, health, cursor, inHand, removing, left, turns, late>>

Outside(id) ==
  \/ AddTarget(id) \/ RemoveTarget(id) \/ RemoveHealth(id) \/ ResetLoad(id)
  \/ \E status \in {"available", "busy", "offline"} : SetStatus(id, status)
  \/ \E healthy \in BOOLEAN : Heartbeat(id, healthy)
  \/ CoolDown(id) \/ HeartbeatAges(id)
  \/ \E answer \in {"error", "gone"} : Fault(id, answer)
  \/ Repair(id)

BalancerNext == (\E th \in Dispatchers : Dispatch(th)) \/ \E id \in Ids : Outside(id)

\* Messages go on coming where they are not bounded, a channel that failed
\* works again, targets send heartbeats, and time passes.
BalancerFairness ==
  /\ \A th \in Dispatchers : WF_balancerVars(Dispatch(th))
  /\ \A id \in Ids : /\ WF_balancerVars(CoolDown(id)) /\ WF_balancerVars(Repair(id))
                      /\ WF_balancerVars(Heartbeat(id, TRUE))

BalancerSpec == BalancerInit /\ [][BalancerNext]_balancerVars /\ BalancerFairness

-----------------------------------------------------------------------------
BalancerTypeOK ==
  /\ config \in ConfigType
  /\ Present \subseteq Ids /\ DOMAIN health \subseteq Ids
  /\ cursor \in 0 .. Len(Expanded(targets)) + Cardinality(Ids)
  /\ \A id \in DOMAIN health : health[id].circuit \in {"closed", "open", "half_open"}

\* The load of a target is never more than the dispatches that have counted
\* it and are not finished: none is left behind when a send fails, when its
\* channel is gone, or when the target is taken out and put back meanwhile.
LoadHasAnOwner ==
  \A t \in Range(targets) :
    t.active <= Cardinality({th \in Dispatchers : /\ inHand[th].target = t.id
                                                   /\ inHand[th].pc \in {"send", "record", "done"}})

\* Once a circuit is open and until its cool-down is over, only the dispatches
\* of the other threads that were under way then still send to the target.
OpenCircuitSheds == \A id \in Ids : late[id] < Cardinality(Dispatchers)

\* While the candidates stay the same, the wheel gives every one of them its
\* weight, and no more, before it comes round, whichever thread turns it.
EachItsShare ==
  \A id \in Ids : turns.got[id] <= IF config.strategy = "weighted" /\ Weight[id] > 1 THEN Weight[id] ELSE 1

\* What a selection says of the targets agrees with what it does: those with
\* no reason to be excluded are those it chooses from, and where it has
\* nothing to choose from its reason is one that names why.
DiagnosisAgrees ==
  \A th \in Dispatchers : At(th, "pick") =>
    LET cands == {t.id : t \in Range(inHand[th].cands)} IN
    IF Chosen(th) = NoTarget
    THEN /\ inHand[th].eligible = {}
         /\ inHand[th].miss # "strategy_returned_none"
    ELSE inHand[th].eligible = cands

\* When the faults are over, some circuit is closed for good.
CircuitsRecover ==
  config.limit = 0 => <>[](\E t \in Range(targets) : HealthOf(health, t.id).circuit = "closed")
=============================================================================
