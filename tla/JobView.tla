------------------------------- MODULE JobView -------------------------------
(***************************************************************************)
(* What the web shows of a job (anima-web/src/jobs.rs, jobs_derive.rs) and  *)
(* what the runtime's projection of its records makes of it                *)
(* (runtime/projection.rs).  Pure operators over one job:                  *)
(*                                                                         *)
(*   run, turn, req   the records: the run, its current turn, requirement   *)
(*   summary, hint    the projection hints: status of the execution summary *)
(*                    and label of the lifecycle hint                      *)
(*   ask, tool        source of the Active suspension; latest invocation    *)
(*   events, last     names of the job's timeline events, and the newest    *)
(*   posed            source of a question_asked no question_resolved names *)
(*   acted            the newest event of a tool invocation                *)
(*   failure          the failure snapshot names the job                    *)
(*                                                                         *)
(* "none" stands for an Option that is None.  The texts of a step are left   *)
(* out: only the status label is looked at by anyone.                      *)
(***************************************************************************)
EXTENDS Integers, Sequences, FiniteSets

Labels == {"queued", "preparing_context", "creating_session", "planning", "executing",
           "awaiting_plan_approval", "waiting_user_input", "stalled", "completed", "failed"}

\* A job nothing is recorded of.
NoJob == [run |-> "none", turn |-> "none", req |-> "none", summary |-> "none",
          hint |-> "none", ask |-> "none", tool |-> "none", events |-> {},
          last |-> "none", posed |-> "none", acted |-> "none", failure |-> FALSE]

FirstOf(options) == \* the first option that is not "none"
    LET some == {i \in DOMAIN options : options[i] # "none"} IN
    IF some = {} THEN "none" ELSE options[CHOOSE i \in some : \A k \in some : i <= k]

-----------------------------------------------------------------------------
(* The projection of a run.                                                *)

\* derive_execution_summary: the hint wins
Summary(job) ==
    IF job.summary # "none" THEN job.summary
    ELSE CASE job.run = "completed" -> "success"
           [] job.run = "failed"    -> "failure"
           [] OTHER -> IF job.ask # "none" \/ job.req = "waiting"
                       THEN "waiting_user_input" ELSE "running"

\* the branches of derive_job_status_summary, in their order
OfRequirement(job) ==
    CASE job.req = "exhausted" -> "failed"
      [] job.req = "satisfied" /\ job.run = "completed" -> "completed"
      [] job.req = "waiting"   -> "waiting_user_input"
      [] job.req = "scheduled" -> "executing"
      [] OTHER -> "none"

OfQuestion(job) == IF job.ask # "none" THEN "waiting_user_input" ELSE "none"

OfTool(job) == IF job.tool # "none" THEN "executing" ELSE "none"

OfTurn(job) ==
    CASE job.turn = "waiting"   -> "waiting_user_input"
      [] job.turn = "completed" -> "completed"
      [] job.turn = "failed"    -> "failed"
      [] OTHER -> "none"

OfRun(job) ==
    CASE job.run = "completed" -> "completed"
      [] job.run = "failed"    -> "failed"
      [] OTHER -> FirstOf(<<OfTurn(job), job.hint, "executing">>)

Projected(job) ==
    FirstOf(<<OfRequirement(job), OfQuestion(job), OfTool(job), OfRun(job)>>)

\* runtime_status_with_worker: worker is the type of the task a worker runs
\* for the job
WithWorker(label, worker) ==
    IF worker = "none" \/ label \in {"completed", "failed", "waiting_user_input"} THEN label
    ELSE IF worker = "session-create" THEN "creating_session"
    ELSE IF label \in {"executing", "planning", "preparing_context"} THEN "executing"
    ELSE label

SummaryFails(job) == Summary(job) \in {"failure", "followup_exhausted"}

\* derive_runtime_status.  RunRecord::latest_error is never set, so a run has
\* no failure value of its own (derive_failure_summary,
\* runtime_failure_from_run).
Backed(job, worker) ==
    IF SummaryFails(job) THEN "failed" ELSE WithWorker(Projected(job), worker)

-----------------------------------------------------------------------------
(* A job that has no run record is judged by its events.                   *)

FailureEvents == {"message_failed", "session_create_failed", "requirement_followup_exhausted"}

\* derive_tool_state, derive_tool_invocation_status: with no question pending
OfToolEvents(job) ==
    CASE job.acted = "none" -> "none"
      [] job.acted = "tool_permission_requested" -> "waiting_user_input"
      [] OTHER -> "executing"

FollowingUp(job) == \/ "requirement_followup_scheduled" \in job.events
                    \/ job.summary = "followup_pending"

\* derive_pending_question: a question asked and not resolved
OfPosed(job) ==
    CASE job.posed = "none"     -> "none"
      [] job.posed = "approval" -> "awaiting_plan_approval"
      [] OTHER                  -> "waiting_user_input"

\* derive_job_status; idle: nothing happened for UPSTREAM_INPUT_STALL_MS
ByEvents(job, worker, idle) ==
    LET has(name) == name \in job.events IN
    IF \/ job.failure \/ job.events \cap FailureEvents # {}
       \/ job.summary \in {"failure", "followup_exhausted"} THEN "failed"
    ELSE IF has("message_completed") /\ has("requirement_satisfied") THEN "completed"
    ELSE IF OfPosed(job) # "none" THEN OfPosed(job)
    ELSE IF worker = "session-create" THEN "creating_session"
    ELSE IF worker # "none" THEN "executing"
    ELSE IF OfToolEvents(job) # "none" THEN OfToolEvents(job)
    ELSE IF \/ FollowingUp(job)
            \/ job.last \in {"cache_hit", "cache_miss", "upstream_response_observed",
                             "requirement_evaluation_started", "requirement_unsatisfied"}
    THEN "executing"
    ELSE IF has("plan_built") /\ job.last = "plan_built" /\ idle THEN "stalled"
    ELSE IF has("plan_built") \/ has("session_ready") THEN "planning"
    ELSE IF has("message_received") THEN "preparing_context" ELSE "queued"

\* derive_job_state
Shown(job, worker, idle) ==
    IF job.run # "none" THEN Backed(job, worker) ELSE ByEvents(job, worker, idle)
=============================================================================
