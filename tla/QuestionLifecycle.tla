------------------------- MODULE QuestionLifecycle -------------------------
(***************************************************************************)
(* The questions of one job (agent/suspension.rs and                       *)
(* agent/question_continuation.rs, called from agent/upstream_resolution.rs *)
(* and agent/agentic_loop_runner.rs): how a turn suspends on a question,   *)
(* how the answer is accepted, and how the turn goes on.                   *)
(*                                                                         *)
(* Two threads work on the job.  "inbound" processes the message once;     *)
(* "answer" is the web handler, which keeps the runtime locked for a whole *)
(* submit_question_answer (anima-web/src/routes_commands.rs:119-131), so   *)
(* there is never a second one.  Both write the event-sourced store one    *)
(* event at a time: an append is atomic, the handler is not.  The maps of  *)
(* the SuspensionCoordinator live in memory and are lost by a restart, the *)
(* store is on disk.                                                       *)
(*                                                                         *)
(* What a language model, a tool or the user replies is chosen freely.     *)
(***************************************************************************)
EXTENDS Integers, FiniteSets

CONSTANTS MaxQuestions,   \* bound: question ids minted for the job
          MaxRounds,      \* DEFAULT_MAX_REQUIREMENT_FOLLOWUP_ROUNDS
          MaxRestarts     \* bound: restarts of the process

ASSUME LifecycleAssumption ==
    MaxQuestions \in Nat \ {0} /\ MaxRounds \in Nat /\ MaxRestarts \in Nat

Questions == 1 .. MaxQuestions
NoQ       == 0
Threads   == {"inbound", "answer"}

\* PendingQuestionSourceKind
Sources  == {"upstream", "tool", "blocked", "approval"}
NoSource == "none"
AnySource == Sources \cup {NoSource}

\* Where a thread is, and what its handler calls next.
Labels == {"idle", "plan", "execute", "continue", "handle", "followup", "store",
           "cache", "tool_record", "tool_invocation", "waiting", "clear_cache",
           "clear_record", "clear_tool", "complete", "look", "hydrate", "resolve",
           "verdict", "permit", "tool", "permitted", "loop", "done"}
Stages == {"none", "register", "suspend", "resuspend", "waiting", "complete", "finish"}

VARIABLES
    eager,      \* environment: the user answers before the message thread is done
    susp,       \* the suspension records of the store: status and source kind
    inv,        \* questions with a tool invocation record in the store
    run,        \* the run record: "none", "running" or "completed"
    rounds,     \* attempted_rounds of the requirement
    cache,      \* pending_questions[job]
    toolCache,  \* keys of suspended_tool_invocations
    pc, loc,    \* control and locals of the two threads
    asked,      \* history: the source each question was asked with
    goneOn,     \* history: the source its continuation was chosen by
    opens,      \* history: times the question became Active
    uses,       \* history: times an answer was acted on
    shown,      \* history: questions announced with an event
    restarts

store == <<susp, inv, run, rounds>>
hist  == <<asked, goneOn, opens, uses, shown>>
vars  == <<eager, store, cache, toolCache, pc, loc, hist, restarts>>

NoPending == [q |-> NoQ, src |-> NoSource]
\* q, src: the question being stored; ans, asrc: the question being answered;
\* want: the id the user answered; seen: a question read from a snapshot;
\* stage: what follows the shared steps; result: what the upstream returned
Idle == [q |-> NoQ, src |-> NoSource, ans |-> NoQ, asrc |-> NoSource,
         want |-> NoQ, seen |-> NoPending, stage |-> "none", result |-> "none"]

Init ==
    /\ eager \in BOOLEAN
    /\ susp = [q \in Questions |-> [status |-> "none", src |-> NoSource]]
    /\ inv = {}
    /\ run = "none"
    /\ rounds = 0
    /\ cache = NoPending
    /\ toolCache = {}
    /\ pc = [t \in Threads |-> "idle"]
    /\ loc = [t \in Threads |-> Idle]
    /\ asked = [q \in Questions |-> NoSource]
    /\ goneOn = [q \in Questions |-> NoSource]
    /\ opens = [q \in Questions |-> 0]
    /\ uses = [q \in Questions |-> 0]
    /\ shown = {}
    /\ restarts = 0

-----------------------------------------------------------------------------
(* Reading the store.                                                      *)

Open == {q \in Questions : susp[q].status = "active"}

\* Mutant: SuspensionKind::HumanApproval is not looked at.
RebuiltNoApproval(q) == IF susp[q].src = "tool" THEN "tool" ELSE "upstream"

\* rebuild_question: the source a record is read back with.  There is no
\* case for SuspensionKind::SubtaskBlocked.
RebuiltSource(q) ==
    IF susp[q].src \in {"tool", "approval"} THEN susp[q].src ELSE "upstream"

\* rebuild_question takes the first Active record of an unordered map.
Rebuilt ==
    IF Open = {} THEN {NoPending}
                 ELSE {[q |-> q, src |-> RebuiltSource(q)] : q \in Open}

\* rebuild_tool_invocation finds everything it needs
ToolRebuilds(q) == q \in Open /\ q \in inv

\* upsert_suspension
Upsert(q, status, src) ==
    /\ susp' = [susp EXCEPT ![q] = [status |-> status, src |-> src]]
    /\ opens' = IF status = "active" /\ q \notin Open
                THEN [opens EXCEPT ![q] = @ + 1] ELSE opens

Goto(t, label) == pc' = [pc EXCEPT ![t] = label]

\* the thread is done with the job (the handler returns, and unlocks)
Return(t) ==
    /\ Goto(t, IF t = "inbound" THEN "done" ELSE "idle")
    /\ loc' = [loc EXCEPT ![t] = Idle]

-----------------------------------------------------------------------------
(* Storing a question.                                                     *)

Minted == Cardinality({q \in Questions : asked[q] # NoSource})

\* The bound: ids are left for what the threads have already set out to ask.
Promised == Cardinality({t \in Threads : pc[t] = "handle" /\ loc[t].q = NoQ
                                          /\ loc[t].result \in {"ask", "blocked"}})
MayAsk   == Minted + Promised < MaxQuestions

\* A fresh id, asked with this source, to be stored by thread t.
Ask(t, src, stage) ==
    LET n == Minted + 1 IN
    /\ asked' = [asked EXCEPT ![n] = src]
    /\ loc' = [loc EXCEPT ![t] = [@ EXCEPT !.q = n, !.src = src, !.stage = stage]]
    /\ Goto(t, "store")

\* store_question, register_plan_approval, register_subtask_blocked: the
\* records first ...
StoreRecord(t) ==
    /\ pc[t] = "store"
    /\ Upsert(loc[t].q, "active", loc[t].src)
    /\ Goto(t, "cache")
    /\ UNCHANGED <<eager, inv, run, rounds, cache, toolCache, loc, asked,
                   goneOn, uses, shown, restarts>>

\* ... then the map.  Nothing announces a blocked subtask.
StoreCache(t) ==
    LET l == loc[t] IN
    /\ pc[t] = "cache"
    /\ cache' = [q |-> l.q, src |-> l.src]
    /\ \/ /\ l.stage = "register"
          /\ shown' = IF l.src = "approval" THEN shown \cup {l.q} ELSE shown
          /\ Return(t)
       \/ /\ l.stage \in {"suspend", "resuspend"}
          /\ Goto(t, "tool_record")
          /\ UNCHANGED <<loc, shown>>
       \/ /\ l.stage = "waiting"
          /\ Goto(t, "waiting")
          /\ UNCHANGED <<loc, shown>>
    /\ UNCHANGED <<eager, store, toolCache, asked, goneOn, opens, uses, restarts>>

\* store_tool_invocation upserts the same suspension again ...
ToolRecord(t) ==
    /\ pc[t] = "tool_record"
    /\ Upsert(loc[t].q, "active", "tool")
    /\ Goto(t, "tool_invocation")
    /\ UNCHANGED <<eager, inv, run, rounds, cache, toolCache, loc, asked,
                   goneOn, uses, shown, restarts>>

\* Mutant: the invocation is kept in the map only.
InvocationInMap(t) ==
    LET q == loc[t].q IN
    /\ pc[t] = "tool_invocation"
    /\ toolCache' = toolCache \cup {q}
    /\ \/ /\ loc[t].stage = "suspend"
          /\ shown' = shown \cup {q}
          /\ loc' = [loc EXCEPT ![t].result = "ask"]
          /\ Goto(t, "handle")
       \/ /\ loc[t].stage = "resuspend"
          /\ Goto(t, "clear_tool")
          /\ UNCHANGED <<loc, shown>>
    /\ UNCHANGED <<eager, store, cache, asked, goneOn, opens, uses, restarts>>

\* ... and then the invocation.  A first suspension is announced here and
\* returned as a successful result that holds a question.
ToolInvocation(t) ==
    LET q == loc[t].q IN
    /\ pc[t] = "tool_invocation"
    /\ inv' = inv \cup {q}
    /\ toolCache' = toolCache \cup {q}
    /\ \/ /\ loc[t].stage = "suspend"
          /\ shown' = shown \cup {q}
          /\ loc' = [loc EXCEPT ![t].result = "ask"]
          /\ Goto(t, "handle")
       \/ /\ loc[t].stage = "resuspend"
          /\ Goto(t, "clear_tool")
          /\ UNCHANGED <<loc, shown>>
    /\ UNCHANGED <<eager, susp, run, rounds, cache, asked, goneOn, opens, uses,
                   restarts>>

\* The end of handle_upstream_result_waiting_user_input.
Waiting(t) ==
    /\ pc[t] = "waiting"
    /\ run' = "running"
    /\ shown' = shown \cup {loc[t].q}
    /\ Return(t)
    /\ UNCHANGED <<eager, susp, inv, rounds, cache, toolCache, asked, goneOn,
                   opens, uses, restarts>>

-----------------------------------------------------------------------------
(* Executing the plan, and handling what the upstream returned.            *)

\* process_inbound_message_flow up to the plan
Begin ==
    /\ pc["inbound"] = "idle"
    /\ run' = "running"
    /\ Goto("inbound", "plan")
    /\ UNCHANGED <<eager, susp, inv, rounds, cache, toolCache, loc, hist, restarts>>

\* ApprovalMode::Supervised or Manual: the plan itself is the question.
ProposePlan ==
    /\ pc["inbound"] = "plan" /\ MayAsk
    /\ Ask("inbound", "approval", "register")
    /\ UNCHANGED <<eager, store, cache, toolCache, goneOn, opens, uses, shown, restarts>>

\* execute_initial_message_plan, called for a new message and for an
\* approved plan; the agentic loop may suspend on a tool permission.
ToolSuspends(t) ==
    /\ pc[t] \in {"plan", "execute"} /\ MayAsk
    /\ Ask(t, "tool", "suspend")
    /\ UNCHANGED <<eager, store, cache, toolCache, goneOn, opens, uses, shown, restarts>>

\* The session, the plan or a continuation fails, or the plan is a direct
\* answer (handle_direct_plan): the job stays as it is.
\* Only an approved plan that fails is handled as a result without text.
UpstreamFails(t) ==
    /\ pc[t] \in {"plan", "continue", "loop"}
    /\ Return(t)
    /\ UNCHANGED <<eager, store, cache, toolCache, hist, restarts>>

Results == {"complete", "ask", "blocked", "followup"}

UpstreamReturns(t, result) ==
    /\ pc[t] \in {"plan", "execute", "continue"}
    /\ result \in {"ask", "blocked"} => MayAsk
    /\ loc' = [loc EXCEPT ![t] = [@ EXCEPT !.result = result, !.q = NoQ, !.src = NoSource]]
    /\ Goto(t, "handle")
    /\ UNCHANGED <<eager, store, cache, toolCache, hist, restarts>>

\* handle_upstream_result, a blocked subtask: the runtime answers for the
\* user (try_auto_resolve_blocked, try_llm_resolve_blocked) and asks again
\* with no question to resolve ...
AutoResolve(t) ==
    /\ pc[t] = "handle" /\ loc[t].result = "blocked"
    /\ loc' = [loc EXCEPT ![t] = [@ EXCEPT !.ans = NoQ, !.asrc = NoSource]]
    /\ Goto(t, "continue")
    /\ UNCHANGED <<eager, store, cache, toolCache, hist, restarts>>

\* ... or registers the question.
RegisterBlocked(t) ==
    /\ pc[t] = "handle" /\ loc[t].result = "blocked"
    /\ Ask(t, "blocked", "register")
    /\ UNCHANGED <<eager, store, cache, toolCache, goneOn, opens, uses, shown, restarts>>

\* handle_upstream_result, any other result: the run is marked running and
\* the judgement picks the branch.
HandleResult(t) ==
    LET l == loc[t] IN
    /\ pc[t] = "handle" /\ l.result # "blocked"
    /\ run' = "running"
    /\ \/ /\ l.result = "complete"
          /\ loc' = [loc EXCEPT ![t].stage = "complete"]
          /\ Goto(t, "clear_cache")
          /\ UNCHANGED asked
       \/ /\ l.result = "ask" /\ l.q = NoQ          \* a question of the upstream
          /\ Ask(t, "upstream", "waiting")
       \/ /\ l.result = "ask" /\ l.q # NoQ          \* stored once already
          /\ loc' = [loc EXCEPT ![t].stage = "waiting"]
          /\ Goto(t, "store")
          /\ UNCHANGED asked
       \/ /\ l.result = "followup"
          /\ Goto(t, "followup")
          /\ UNCHANGED <<loc, asked>>
    /\ UNCHANGED <<eager, susp, inv, rounds, cache, toolCache, goneOn, opens,
                   uses, shown, restarts>>

\* schedule_agent_followup: the end of it, or one more request.  The question
\* being answered is dropped.  It ends with the count as it was (too many
\* rounds, or the same result twice) or after a request that failed.
FollowupEnds(t) ==
    /\ pc[t] = "followup"
    /\ rounds' \in {rounds} \cup {n \in {rounds + 1} : n <= MaxRounds}
    /\ run' = "running"
    /\ Return(t)
    /\ UNCHANGED <<eager, susp, inv, cache, toolCache, hist, restarts>>

\* Mutant: the round is not counted.
FollowupUncounted(t, result) ==
    /\ pc[t] = "followup"
    /\ rounds + 1 <= MaxRounds
    /\ result \in {"ask", "blocked"} => MayAsk
    /\ run' = "running"
    /\ loc' = [loc EXCEPT ![t] = [@ EXCEPT !.result = result, !.q = NoQ, !.src = NoSource,
                                           !.ans = NoQ, !.asrc = NoSource]]
    /\ Goto(t, "handle")
    /\ UNCHANGED <<eager, susp, inv, rounds, cache, toolCache, hist, restarts>>

Followup(t, result) ==
    /\ pc[t] = "followup"
    /\ rounds + 1 <= MaxRounds
    /\ result \in {"ask", "blocked"} => MayAsk
    /\ rounds' = rounds + 1
    /\ run' = "running"
    /\ loc' = [loc EXCEPT ![t] = [@ EXCEPT !.result = result, !.q = NoQ, !.src = NoSource,
                                           !.ans = NoQ, !.asrc = NoSource]]
    /\ Goto(t, "handle")
    /\ UNCHANGED <<eager, susp, inv, cache, toolCache, hist, restarts>>

-----------------------------------------------------------------------------
(* Completing the job: handle_upstream_result_complete and                 *)
(* finish_tool_permission_continuation.                                    *)

\* clear_question: take the entry out of the map ...
ClearCache(t) ==
    /\ pc[t] = "clear_cache"
    /\ cache' = NoPending
    /\ loc' = [loc EXCEPT ![t].seen = cache]
    /\ Goto(t, "clear_record")
    /\ UNCHANGED <<eager, store, toolCache, hist, restarts>>

\* ... and clear its record, or that of an open question when there is none.
ClearRecord(t) ==
    /\ pc[t] = "clear_record"
    /\ \E c \in IF loc[t].seen # NoPending THEN {loc[t].seen} ELSE Rebuilt :
          IF c = NoPending
          THEN UNCHANGED <<susp, opens>>
          ELSE Upsert(c.q, "cleared", IF c.src = "blocked" THEN c.src ELSE "upstream")
    /\ Goto(t, IF loc[t].stage = "finish" THEN "clear_tool" ELSE "complete")
    /\ UNCHANGED <<eager, inv, run, rounds, cache, toolCache, loc, asked,
                   goneOn, uses, shown, restarts>>

\* clear_tool_invocation of the question that was answered; the last step of
\* a resuspension, which then announces the next question.
ClearTool(t) ==
    LET a == loc[t].ans IN
    /\ pc[t] = "clear_tool"
    /\ toolCache' = toolCache \ {a}
    /\ IF a \in toolCache \/ ToolRebuilds(a)
       THEN Upsert(a, "cleared", "tool") ELSE UNCHANGED <<susp, opens>>
    /\ \/ /\ loc[t].stage = "finish"
          /\ Goto(t, "complete")
          /\ UNCHANGED <<loc, shown>>
       \/ /\ loc[t].stage = "resuspend"
          /\ shown' = shown \cup {loc[t].q}
          /\ Return(t)
    /\ UNCHANGED <<eager, inv, run, rounds, cache, asked, goneOn, uses, restarts>>

Complete(t) ==
    /\ pc[t] = "complete"
    /\ run' = "completed"
    /\ Return(t)
    /\ UNCHANGED <<eager, susp, inv, rounds, cache, toolCache, hist, restarts>>

-----------------------------------------------------------------------------
(* Answering: submit_question_answer, by the thread that holds the lock.   *)

\* The user answers a question that the projection shows or has shown, once
\* the message thread is done with it or, when eager, at once.
Submit(q) ==
    /\ pc["answer"] = "idle"
    /\ opens[q] > 0
    /\ eager \/ pc["inbound"] = "done"
    /\ loc' = [loc EXCEPT !["answer"].want = q]
    /\ Goto("answer", "look")
    /\ UNCHANGED <<eager, store, cache, toolCache, hist, restarts>>

\* question_state: a snapshot of the store ...
Look(seen) ==
    /\ pc["answer"] = "look"
    /\ seen \in Rebuilt
    /\ loc' = [loc EXCEPT !["answer"].seen = seen]
    /\ Goto("answer", "hydrate")
    /\ UNCHANGED <<eager, store, cache, toolCache, hist, restarts>>

\* ... replaces the entry of the map; submit_answer rejects an answer when
\* there is no question or it has another id.
Hydrate ==
    LET l == loc["answer"] IN
    /\ pc["answer"] = "hydrate"
    /\ cache' = l.seen
    /\ IF l.seen.q # l.want
       THEN Return("answer")
       ELSE /\ loc' = [loc EXCEPT !["answer"] =
                   [@ EXCEPT !.ans = l.seen.q, !.asrc = l.seen.src, !.seen = NoPending]]
            /\ Goto("answer", IF l.seen.src = "tool" THEN "permit" ELSE "resolve")
    /\ UNCHANGED <<eager, store, toolCache, hist, restarts>>

\* Mutant: the answer is noted in the map only.
ResolveInMap ==
    LET l == loc["answer"] IN
    /\ pc["answer"] = "resolve"
    /\ uses' = [uses EXCEPT ![l.ans] = @ + 1]
    /\ goneOn' = [goneOn EXCEPT ![l.ans] = l.asrc]
    /\ Goto("answer", IF l.asrc = "approval" THEN "verdict" ELSE "continue")
    /\ UNCHANGED <<eager, store, cache, toolCache, loc, asked, opens, shown, restarts>>

\* submit_answer resolves every question that is not a tool permission, and
\* continue_submitted_question_answer branches on its source.
Resolve ==
    LET l == loc["answer"] IN
    /\ pc["answer"] = "resolve"
    /\ Upsert(l.ans, "resolved", l.asrc)
    /\ uses' = [uses EXCEPT ![l.ans] = @ + 1]
    /\ goneOn' = [goneOn EXCEPT ![l.ans] = l.asrc]
    /\ Goto("answer", IF l.asrc = "approval" THEN "verdict" ELSE "continue")
    /\ UNCHANGED <<eager, inv, run, rounds, cache, toolCache, loc, asked, shown, restarts>>

\* continue_plan_approval_answer
RejectPlan ==
    /\ pc["answer"] = "verdict"
    /\ Return("answer")
    /\ UNCHANGED <<eager, store, cache, toolCache, hist, restarts>>

ApprovePlan ==
    /\ pc["answer"] = "verdict"
    /\ Goto("answer", "execute")
    /\ UNCHANGED <<eager, store, cache, toolCache, loc, hist, restarts>>

\* prepare_tool_permission_resume: tool_invocation_state ...
Permit ==
    LET a == loc["answer"].ans IN
    /\ pc["answer"] = "permit"
    /\ IF ToolRebuilds(a)
       THEN /\ toolCache' = toolCache \cup {a}
            /\ Goto("answer", "tool")
            /\ UNCHANGED loc
       ELSE /\ toolCache' = toolCache \ {a}
            /\ Return("answer")
    /\ UNCHANGED <<eager, store, cache, hist, restarts>>

\* ... resume_suspended_tool_invocation, which runs the tool, or records the
\* denial, before anything is written ...
ToolRuns ==
    LET a == loc["answer"].ans IN
    /\ pc["answer"] = "tool"
    /\ uses' = [uses EXCEPT ![a] = @ + 1]
    /\ goneOn' = [goneOn EXCEPT ![a] = "tool"]
    /\ Goto("answer", "permitted")
    /\ UNCHANGED <<eager, store, cache, toolCache, loc, asked, opens, shown, restarts>>

ToolFails ==
    /\ pc["answer"] = "tool"
    /\ Return("answer")
    /\ UNCHANGED <<eager, store, cache, toolCache, hist, restarts>>

\* Mutant: the suspension is left to clear_tool_invocation.
PermittedLater ==
    /\ pc["answer"] = "permitted"
    /\ Goto("answer", "loop")
    /\ UNCHANGED <<eager, store, cache, toolCache, loc, hist, restarts>>

\* ... and then resolves the suspension.
Permitted ==
    /\ pc["answer"] = "permitted"
    /\ Upsert(loc["answer"].ans, "resolved", "tool")
    /\ Goto("answer", "loop")
    /\ UNCHANGED <<eager, inv, run, rounds, cache, toolCache, loc, asked,
                   goneOn, uses, shown, restarts>>

\* handle_tool_permission_continuation_outcome
LoopCompletes ==
    /\ pc["answer"] = "loop"
    /\ loc' = [loc EXCEPT !["answer"].stage = "finish"]
    /\ Goto("answer", "clear_cache")
    /\ UNCHANGED <<eager, store, cache, toolCache, hist, restarts>>

LoopSuspends ==
    /\ pc["answer"] = "loop" /\ MayAsk
    /\ Ask("answer", "tool", "resuspend")
    /\ UNCHANGED <<eager, store, cache, toolCache, goneOn, opens, uses, shown, restarts>>

-----------------------------------------------------------------------------
\* The process stops and starts again: the threads and the maps are gone.
Restart ==
    /\ restarts < MaxRestarts
    /\ pc["inbound"] # "idle"
    /\ restarts' = restarts + 1
    /\ pc' = [t \in Threads |-> IF t = "inbound" THEN "done" ELSE "idle"]
    /\ loc' = [t \in Threads |-> Idle]
    /\ cache' = NoPending
    /\ toolCache' = {}
    /\ UNCHANGED <<eager, store, hist>>

Storing(t)    == StoreRecord(t) \/ StoreCache(t) \/ ToolRecord(t) \/ ToolInvocation(t)
                 \/ Waiting(t)
Completing(t) == ClearCache(t) \/ ClearRecord(t) \/ ClearTool(t) \/ Complete(t)
Handling(t)   == \/ ToolSuspends(t) \/ UpstreamFails(t)
                 \/ \E r \in Results : UpstreamReturns(t, r) \/ Followup(t, r)
                 \/ AutoResolve(t) \/ RegisterBlocked(t) \/ HandleResult(t)
                 \/ FollowupEnds(t)
Answering     == \/ \E s \in Rebuilt : Look(s)
                 \/ Hydrate \/ Resolve \/ RejectPlan \/ ApprovePlan
                 \/ Permit \/ ToolRuns \/ ToolFails \/ Permitted
                 \/ LoopCompletes \/ LoopSuspends

InboundStep == ProposePlan \/ Storing("inbound") \/ Handling("inbound") \/ Completing("inbound")
AnswerStep  == Answering \/ Storing("answer") \/ Handling("answer") \/ Completing("answer")

Next == Begin \/ InboundStep \/ AnswerStep \/ Restart \/ \E q \in Questions : Submit(q)

Spec == Init /\ [][Next]_vars

(* A thread that can move does.  The user tries again, and what may fail    *)
(* or be put off does not fail for ever: a tool, and an upstream that keeps *)
(* answering with a block the runtime resolves on its own.                  *)
FairSpec ==
    /\ Spec
    /\ WF_vars(InboundStep) /\ WF_vars(AnswerStep)
    /\ \A t \in Threads : SF_vars(RegisterBlocked(t))
    /\ SF_vars(ToolRuns)
    /\ \A q \in Questions : SF_vars(Submit(q))
    /\ \A q \in Questions : SF_vars(loc["answer"].want = q /\ Look([q |-> q, src |-> RebuiltSource(q)]))
-----------------------------------------------------------------------------
\* An answer is acted on once for each time its question was opened: the tool
\* is not run twice and the turn does not go on twice, however often the user
\* answers.  Only a restart between the tool and the record allows another.
OneUsePerOpening == \A q \in Questions : uses[q] <= opens[q] + restarts

\* Whoever reads the pending question of the job finds the one question there
\* is (rebuild_question takes the first of an unordered map), and a completed
\* job waits for nothing, when the user answers after the message thread is
\* done.
OneOpenQuestion == ~eager => Cardinality(Open) <= IF run = "completed" THEN 0 ELSE 1

\* The branch an answer takes is the one its question was asked for.
ContinuedAsAsked ==
    \A q \in Questions :
        asked[q] # "blocked" /\ goneOn[q] # NoSource => goneOn[q] = asked[q]
=============================================================================
