---------------------------- MODULE TurnOutcome ----------------------------
(***************************************************************************)
(* One message from its arrival to the reply: agent/inbound_pipeline.rs,    *)
(* agent/upstream_resolution.rs, agent/question_continuation.rs, the         *)
(* judgement of execution/requirement_judge.rs and the progress kept by      *)
(* agent/requirement.rs; and what the web shows of it meanwhile (JobView).  *)
(*                                                                         *)
(* One thread at a time works on the message (QuestionLifecycle has the      *)
(* interleaving of two): the inbound thread, and after it the web handler    *)
(* that takes an answer.  What it writes to the store is visible at once, so *)
(* a handler is cut where the status shown can tell.  What a session, a       *)
(* model, a tool or the user does is chosen freely.  The store survives a    *)
(* restart, the timeline and the threads do not.                            *)
(***************************************************************************)
EXTENDS JobView

CONSTANTS Backend,      \* "json" or "sqlite" (config.runtime.store)
          MaxRounds,    \* DEFAULT_MAX_REQUIREMENT_FOLLOWUP_ROUNDS
          Fingerprints, \* fingerprints of results
          MaxAnswers,   \* bound: answers of the user
          MaxRestarts   \* bound: restarts of the process

VARIABLES
    handler,    \* what the thread does next
    job,        \* the job's records, hints and events: see JobView
    progress,   \* the requirement's attempted_rounds and last fingerprint
    old,        \* the progress prepare_agent_followup read
    judged,     \* the result at hand: verdict, fingerprint, source of a question
    answered,   \* it continues a question (resolved_question is Some)
    reply,      \* history: what was sent since the message or the last answer
    answers, restarts

outcomeVars == <<handler, job, progress, old, judged, answered, reply, answers, restarts>>

NoPrint    == "none"
NoProgress == [rounds |-> 0, print |-> NoPrint]
NoResult   == [verdict |-> "none", print |-> NoPrint, ask |-> "none"]

\* What an upstream returns, as far as the judgement looks at it: a structured
\* question (for the user, or one the agent may answer), an empty text or a
\* text; its completion_status tag, what the judging model says of it, and
\* whether it holds one of the phrases of looks_unsatisfied.
Returned == [type : {"blocked", "user_question", "question", "empty", "text"},
             tag : {"none", "complete", "partial"},
             model : {"none", "satisfied", "unsatisfied"},
             hedged : BOOLEAN, print : Fingerprints]

OutcomeInit ==
    /\ handler = "idle"
    /\ job = NoJob
    /\ progress = NoProgress /\ old = NoProgress
    /\ judged = NoResult
    /\ answered = FALSE
    /\ reply = <<>>
    /\ answers = 0 /\ restarts = 0

-----------------------------------------------------------------------------
(* The judgement.                                                          *)

\* judge_requirement: layer by layer; a model that cannot be asked is skipped
Judge(r, last) ==
    IF r.type = "blocked" THEN "blocked"
    ELSE IF r.type = "user_question" THEN "ask"
    ELSE IF r.type \in {"question", "empty"} \/ r.print = last THEN "followup"
    ELSE IF r.tag # "none" THEN IF r.tag = "complete" THEN "complete" ELSE "followup"
    ELSE IF r.model # "none" THEN IF r.model = "satisfied" THEN "complete" ELSE "followup"
    ELSE IF r.hedged THEN "followup" ELSE "complete"

Judged(r) == [verdict |-> Judge(r, progress.print), print |-> r.print,
              ask |-> IF r.type = "user_question" THEN "upstream" ELSE "none"]

\* The results that can be told apart once they are judged.
Results == {Judged(r) : r \in Returned}

-----------------------------------------------------------------------------
(* Recording.                                                              *)

With(j, names) == \* publish: the events, in this order
    [j EXCEPT !.events = @ \cup {names[i] : i \in DOMAIN names}, !.last = names[Len(names)]]

\* upsert_runtime_turn also writes the run, as running
UpsertTurn(j, status) == [j EXCEPT !.turn = status, !.run = "running"]

Goto(label) == handler' = label

\* The handler returns; a silent one sends nothing.
Rest == handler' = "rest" /\ judged' = NoResult /\ answered' = FALSE
Silent == Rest /\ UNCHANGED reply
Reply(kind) == Rest /\ reply' = Append(reply, kind)

-----------------------------------------------------------------------------
(* process_inbound_message_flow.                                           *)

Receive ==
    /\ handler = "idle"
    /\ job' = [With(UpsertTurn(job, "running"), <<"message_received">>) EXCEPT
                  !.hint = "preparing_context"]
    /\ Goto("session")
    /\ UNCHANGED <<progress, old, judged, answered, reply, answers, restarts>>

SessionFails ==
    /\ handler = "session"
    /\ job' = [With(job, <<"session_create_failed">>) EXCEPT !.failure = TRUE]
    /\ Reply("error")
    /\ UNCHANGED <<progress, old, answers, restarts>>

Plans ==
    /\ handler = "session"
    /\ job' = [With(job, <<"session_ready", "plan_built">>) EXCEPT !.hint = "planning"]
    /\ Goto("planned")
    /\ UNCHANGED <<progress, old, judged, answered, reply, answers, restarts>>

\* handle_direct_plan
DirectPlan ==
    /\ handler = "planned"
    /\ job' = [With(job, <<"message_completed">>) EXCEPT !.summary = "success"]
    /\ Reply("answer")
    /\ UNCHANGED <<progress, old, answers, restarts>>

\* ApprovalMode::Supervised or Manual; no question_asked is published
ProposePlan ==
    /\ handler = "planned"
    /\ job' = [With(job, <<"plan_proposed">>) EXCEPT !.ask = "approval"]
    /\ Silent
    /\ UNCHANGED <<progress, old, answers, restarts>>

\* What executing a plan, a follow-up or a continuation returns.  A result of
\* the cache (cache_hit) is one of these.
Returns(r) ==
    /\ handler \in {"planned", "approved", "continue", "request"}
    /\ judged' = r
    /\ answered' = (answered /\ handler # "request")
    /\ job' = IF handler = "planned" THEN [job EXCEPT !.req = "active"] ELSE job
    /\ Goto("handle")
    /\ UNCHANGED <<progress, old, reply, answers, restarts>>

\* finish_failed_inbound_processing; the agentic loop's own failures have a
\* status of their own
PlanFails(status) ==
    /\ handler = "planned"
    /\ job' = [With(job, <<"message_failed">>) EXCEPT !.summary = status, !.failure = TRUE]
    /\ Reply("error")
    /\ UNCHANGED <<progress, old, answers, restarts>>

\* handle_initial_tool_permission_suspension: a result that is a question
PlanSuspends ==
    /\ handler \in {"planned", "approved"}
    /\ job' = [With(job, <<"tool_permission_requested", "question_asked">>) EXCEPT
                  !.ask = "tool", !.tool = "recorded", !.posed = "tool",
                  !.acted = "tool_permission_requested"]
    /\ judged' = [verdict |-> "ask", print |-> NoPrint, ask |-> "tool"]
    /\ Goto("handle")
    /\ UNCHANGED <<progress, old, answered, reply, answers, restarts>>

-----------------------------------------------------------------------------
(* handle_upstream_result.                                                 *)

\* A blocked subtask the runtime answers on its own is asked again ...
AutoResolve ==
    /\ handler = "handle" /\ judged.verdict = "blocked"
    /\ answered' = FALSE
    /\ Goto("continue")
    /\ UNCHANGED <<job, progress, old, judged, reply, answers, restarts>>

\* ... or becomes a question, which nothing announces.
RegisterBlocked ==
    /\ handler = "handle" /\ judged.verdict = "blocked"
    /\ job' = [job EXCEPT !.ask = "blocked"]
    /\ Silent
    /\ UNCHANGED <<progress, old, answers, restarts>>

\* Any other result is judged, and the judgement picks the branch.
Handle ==
    /\ handler = "handle" /\ judged.verdict # "blocked"
    /\ job' = [With(UpsertTurn(job, "running"),
                    <<"upstream_response_observed", "requirement_evaluation_started">>)
                  EXCEPT !.req = "active"]
    /\ Goto(judged.verdict)
    /\ UNCHANGED <<progress, old, judged, answered, reply, answers, restarts>>

\* handle_upstream_result_complete: the question is cleared, then turn, run
\* and requirement are closed, and then the user is told.
ClearQuestion ==
    /\ handler = "complete"
    /\ job' = [job EXCEPT !.ask = "none", !.posed = IF answered THEN "none" ELSE @]
    /\ Goto("close_turn")
    /\ UNCHANGED <<progress, old, judged, answered, reply, answers, restarts>>

CloseTurn ==
    /\ handler = "close_turn"
    /\ job' = UpsertTurn(job, "completed")
    /\ Goto("close_run")
    /\ UNCHANGED <<progress, old, judged, answered, reply, answers, restarts>>

CloseRun ==
    /\ handler = "close_run"
    /\ job' = [job EXCEPT !.run = "completed", !.req = "satisfied"]
    /\ Goto("tell")
    /\ UNCHANGED <<progress, old, judged, answered, reply, answers, restarts>>

Tell ==
    /\ handler = "tell"
    /\ job' = [With(job, <<"requirement_satisfied", "message_completed">>) EXCEPT
                  !.summary = "success", !.hint = "completed"]
    /\ Reply("answer")
    /\ UNCHANGED <<progress, old, answers, restarts>>

\* handle_upstream_result_waiting_user_input
AskUser ==
    /\ handler = "ask"
    /\ job' = [With(UpsertTurn(job, "waiting"), <<"requirement_unsatisfied", "user_input_required",
                                                  "question_asked">>) EXCEPT
                  !.hint = "waiting_user_input", !.ask = judged.ask, !.posed = judged.ask,
                  !.req = "waiting", !.summary = "waiting_user_input"]
    /\ Silent
    /\ UNCHANGED <<progress, old, answers, restarts>>

-----------------------------------------------------------------------------
(* schedule_agent_followup.                                                *)

NextProgress == [rounds |-> old.rounds + 1, print |-> judged.print]
TooMany      == old.rounds + 1 > MaxRounds
Repeated     == old.print = judged.print

\* prepare_agent_followup
PrepareFollowup ==
    /\ handler = "followup"
    /\ old' = progress
    /\ job' = [With(UpsertTurn(job, "running"), <<"requirement_unsatisfied">>) EXCEPT !.req = "scheduled"]
    /\ Goto("prepared")
    /\ UNCHANGED <<progress, judged, answered, reply, answers, restarts>>

\* handle_exhausted_followup: the progress is counted on ...
Exhaust ==
    /\ handler = "prepared" /\ (TooMany \/ Repeated)
    /\ progress' = NextProgress
    /\ job' = [With(job, <<"requirement_followup_exhausted", "message_failed">>) EXCEPT
                  !.summary = "followup_exhausted", !.hint = "stalled"]
    /\ Goto("exhausted")
    /\ UNCHANGED <<old, judged, answered, reply, answers, restarts>>

\* Mutant: the user is not told.
ExhaustedSilently ==
    /\ handler = "exhausted"
    /\ progress' = old
    /\ job' = [UpsertTurn(job, "failed") EXCEPT !.req = "exhausted"]
    /\ Silent
    /\ UNCHANGED <<old, answers, restarts>>

\* ... and written back as it was.
Exhausted ==
    /\ handler = "exhausted"
    /\ progress' = old
    /\ job' = [UpsertTurn(job, "failed") EXCEPT !.req = "exhausted"]
    /\ Reply("error")
    /\ UNCHANGED <<old, answers, restarts>>

\* Mutant: the round is not counted.
RequestUncounted ==
    /\ handler = "prepared" /\ ~TooMany /\ ~Repeated
    /\ progress' = [progress EXCEPT !.print = judged.print]
    /\ job' = [With(job, <<"requirement_followup_scheduled">>) EXCEPT !.summary = "followup_pending"]
    /\ Goto("request")
    /\ UNCHANGED <<old, judged, answered, reply, answers, restarts>>

\* execute_scheduled_followup
Request ==
    /\ handler = "prepared" /\ ~TooMany /\ ~Repeated
    /\ progress' = NextProgress
    /\ job' = [With(job, <<"requirement_followup_scheduled">>) EXCEPT !.summary = "followup_pending"]
    /\ Goto("request")
    /\ UNCHANGED <<old, judged, answered, reply, answers, restarts>>

\* handle_followup_request_failure
RequestFails ==
    /\ handler = "request"
    /\ job' = [UpsertTurn(With(job, <<"message_failed">>), "failed") EXCEPT !.failure = TRUE]
    /\ Reply("error")
    /\ UNCHANGED <<progress, old, answers, restarts>>

-----------------------------------------------------------------------------
(* submit_question_answer.                                                 *)

Submitted(j) == With(j, <<"question_answer_submitted">>)

\* Mutant: the question stays open until the turn completes.
AnswerKeepsOpen ==
    /\ handler = "rest" /\ job.ask # "none"
    /\ answers < MaxAnswers
    /\ answers' = answers + 1
    /\ reply' = <<>>
    /\ answered' = TRUE
    /\ job' = [Submitted(job) EXCEPT !.req = "active"]
    /\ Goto("continue")
    /\ UNCHANGED <<progress, old, judged, restarts>>

TakeAnswer ==
    /\ handler = "rest" /\ job.ask # "none"
    /\ answers < MaxAnswers
    /\ answers' = answers + 1
    /\ reply' = <<>>
    /\ answered' = TRUE
    /\ CASE job.ask \in {"upstream", "blocked"} ->
              job' = [Submitted(job) EXCEPT !.ask = "none", !.req = "active"] /\ Goto("continue")
         [] job.ask = "approval" ->
              job' = [Submitted(job) EXCEPT !.ask = "none"] /\ Goto("verdict")
         [] job.ask = "tool" ->
              job' = Submitted(job) /\ Goto("resume")
    /\ UNCHANGED <<progress, old, judged, restarts>>

\* An error is returned to the web: of a request that could not be made, of a
\* continuation, or of a tool.  Nothing is recorded, nothing is sent.
Errs ==
    /\ handler \in {"continue", "resume", "loop", "request"}
    /\ Silent
    /\ UNCHANGED <<job, progress, old, answers, restarts>>

\* continue_plan_approval_answer
Reject ==
    /\ handler = "verdict"
    /\ job' = With(job, <<"plan_rejected">>)
    /\ Silent
    /\ UNCHANGED <<progress, old, answers, restarts>>

Approve ==
    /\ handler = "verdict"
    /\ job' = With(job, <<"plan_approved">>)
    /\ Goto("approved")
    /\ UNCHANGED <<progress, old, judged, answered, reply, answers, restarts>>

\* prepare_tool_permission_resume
Resume ==
    /\ handler = "resume"
    /\ job' = [With(job, <<"tool_permission_resolved">>) EXCEPT
                  !.ask = "none", !.acted = "tool_permission_resolved"]
    /\ Goto("loop")
    /\ UNCHANGED <<progress, old, judged, answered, reply, answers, restarts>>

\* resuspend_tool_permission_continuation
LoopSuspends ==
    /\ handler = "loop"
    /\ job' = [With(job, <<"tool_permission_requested", "question_asked">>) EXCEPT
                  !.ask = "tool", !.posed = "tool", !.acted = "tool_permission_requested"]
    /\ Silent
    /\ UNCHANGED <<progress, old, answers, restarts>>

\* finish_tool_permission_continuation leaves requirement and summary alone
LoopCompletes ==
    /\ handler = "loop"
    /\ job' = [With(UpsertTurn(job, "completed"), <<"question_resolved", "message_completed">>)
                EXCEPT !.run = "completed", !.ask = "none", !.posed = "none", !.hint = "completed"]
    /\ Reply("answer")
    /\ UNCHANGED <<progress, old, answers, restarts>>

-----------------------------------------------------------------------------
\* SqliteStateStore has no table for the hints; the timeline and the failure
\* snapshot live in memory.
Restart ==
    /\ handler # "idle"
    /\ restarts < MaxRestarts
    /\ restarts' = restarts + 1
    /\ job' = [job EXCEPT !.events = {}, !.last = "none", !.posed = "none", !.acted = "none",
                          !.failure = FALSE,
                          !.hint    = IF Backend = "json" THEN @ ELSE "none",
                          !.summary = IF Backend = "json" THEN @ ELSE "none"]
    /\ Silent
    /\ UNCHANGED <<progress, old, answers>>

Work == \/ SessionFails \/ Plans
        \/ DirectPlan \/ ProposePlan \/ PlanSuspends
        \/ \E status \in {"failure", "error"} : PlanFails(status)
        \/ \E r \in Results : Returns(r)
        \/ AutoResolve \/ RegisterBlocked \/ Handle
        \/ ClearQuestion \/ CloseTurn \/ CloseRun \/ Tell \/ AskUser
        \/ PrepareFollowup \/ Exhaust \/ Exhausted \/ Request \/ RequestFails
        \/ Errs \/ Reject \/ Approve \/ Resume \/ LoopSuspends \/ LoopCompletes

OutcomeNext == Receive \/ Work \/ TakeAnswer \/ Restart

(* A thread goes on while it has something to do, and a blocked subtask is  *)
(* not resolved on the user's behalf for ever.                             *)
OutcomeSpec ==
    /\ OutcomeInit /\ [][OutcomeNext]_outcomeVars
    /\ WF_outcomeVars(Work) /\ SF_outcomeVars(RegisterBlocked)

-----------------------------------------------------------------------------
\* the task a worker runs for the job (match_worker)
Worker == CASE handler = "session" -> "session-create"
            [] handler \in {"planned", "approved", "continue", "request"} -> "api-call"
            [] OTHER -> "none"

Status == Shown(job, Worker, FALSE)
Closed == {"completed", "failed"}

\* The job's end is what the user was told: when the thread is done and the web
\* shows the job completed, an answer was the last and only thing sent, and when
\* it shows it failed, an error was.
EndShownTruly ==
    handler = "rest" /\ restarts = 0 =>
        /\ Status = "completed" => reply = <<"answer">>
        /\ Status = "failed"    => reply = <<"error">>

\* A job shown completed or failed is never shown as anything else again:
\* not by the writes that follow in the handler, not by an answer, not by a
\* restart.
EndedStays == [][(Status \in Closed) => (Status' = Status)]_outcomeVars

\* Whatever the upstream returns, every message and every answer is brought to
\* an end: the handler returns.
HandlerReturns == [](handler \notin {"idle", "rest"} => <>(handler = "rest"))

\* A job that its events alone show failed is shown failed
\* (anima-web/tests/status_api.rs:2326: the job views "show failed after session
\* create failed event").
FailureIsShown ==
    handler = "rest" /\ ByEvents(job, "none", FALSE) = "failed" => Status = "failed"
=============================================================================
