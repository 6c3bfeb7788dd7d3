--------------------------- MODULE PlanExecution ---------------------------
(***************************************************************************)
(* How a plan's tasks are handed to the worker pool and their results      *)
(* taken: orchestrator/core.rs, execute_plan and execute_orchestration_    *)
(* plan, and orchestrator/parallel_pool.rs.  All of them go through groups *)
(* of tasks: a group is handed over, then its results are taken in order.  *)
(* The batch of the parallel pool also stops waiting and stops early.      *)
(* When and how a task is answered is the pool's affair (WorkerPool).      *)
(***************************************************************************)
EXTENDS Integers, FiniteSets, SequencesExt

CONSTANTS
  PlanSize,                      (* tasks of the plan                       *)
  MaxConcurrent,                 (* max_concurrent of a batch               *)
  SuccessesWanted                (* min_success_ratio, in tasks of the plan *)

\* chunks(max_concurrent) does not take a zero.
ASSUME BatchAssumption ==
  PlanSize \in Nat \ {0} /\ MaxConcurrent \in Nat \ {0} /\ SuccessesWanted \in Nat

PlanTasks == 1..PlanSize

VARIABLES
  plan,        (* the kind of the plan                                      *)
  groups,      (* its tasks, by group                                       *)
  failFast,    (* fail_fast of a batch                                      *)
  group,       (* the index of the group in hand                            *)
  handed,      (* tasks submitted, in order                                 *)
  answer,      (* what the pool answered of each task                       *)
  taken,       (* results: of each task, what the caller took it for        *)
  counted,     (* successful, failed, timed_out                             *)
  verdict      (* what was returned                                         *)

planVars == <<plan, groups, failFast, group, handed, answer, taken, counted, verdict>>

Each == [t \in PlanTasks |-> <<t>>]
Chunk(t, n) == [i \in 1..(IF t + n - 1 > PlanSize THEN PlanSize - t + 1 ELSE n) |-> t + i - 1]
Chunks == [c \in 1..((PlanSize + MaxConcurrent - 1) \div MaxConcurrent) |-> Chunk((c - 1) * MaxConcurrent + 1, MaxConcurrent)]

\* The groups of execute_plan (a Single or SpecialistRoute plan is its first
\* task), of execute_batch, and of an orchestrated plan, whose groups are taken
\* one by one without enable_parallel
GroupsOf(kind) ==
  CASE kind \in {"Single", "SpecialistRoute"} -> {<< <<1>> >>}
    [] kind = "Sequential" -> {Each}
    [] kind = "Parallel"   -> {<<[t \in PlanTasks |-> t]>>}
    [] kind = "Batch"      -> {Chunks}
    [] kind = "Orchestrated" -> {Each} \cup {<<Chunk(1, n), Chunk(n + 1, PlanSize)>> : n \in 1..(PlanSize - 1)}
    [] kind = "Direct"     -> {<<>>}

PlanInit ==
  /\ plan \in {"Single", "SpecialistRoute", "Sequential", "Parallel", "Batch", "Orchestrated", "Direct"}
  /\ groups \in GroupsOf(plan)
  /\ failFast \in BOOLEAN /\ (failFast => plan = "Batch")
  /\ group = 1 /\ handed = <<>>
  /\ answer = [t \in PlanTasks |-> "none"]
  /\ taken = <<>>
  /\ counted = [successful |-> 0, failed |-> 0, timed_out |-> 0]
  /\ verdict = "none"

\* Tasks are numbered by their place in the plan.
Before(g) == groups[g][1] - 1
InHand == groups[group]
AllHanded == Len(handed) = Before(group) + Len(InHand)
AllTaken == Len(taken) = Before(group) + Len(InHand)

Running == verdict = "none" /\ group <= Len(groups)

\* submit_task, for each task of the group, before a result is taken
Submit ==
  /\ Running /\ ~AllHanded
  /\ handed' = Append(handed, InHand[Len(handed) - Before(group) + 1])
  /\ UNCHANGED <<plan, groups, failFast, group, answer, taken, counted, verdict>>

\* The worker pool: a result, or the end of the channel.  "timed out" is a
\* failure whose text says so, as the executor's does.
PoolAnswers(t) ==
  /\ t \in Range(handed) /\ answer[t] = "none"
  /\ \E o \in {"success", "failure", "timed out", "closed"} : answer' = [answer EXCEPT ![t] = o]
  /\ UNCHANGED <<plan, groups, failFast, group, handed, taken, counted, verdict>>

Next1 == handed[Len(taken) + 1]

\* rx.recv in the order of the tasks
Take ==
  /\ Running /\ plan # "Batch" /\ AllHanded /\ ~AllTaken
  /\ answer[Next1] # "none"
  /\ taken' = Append(taken, answer[Next1])
  /\ UNCHANGED <<plan, groups, failFast, group, handed, answer, counted, verdict>>

\* A group's first failure, in order, is the plan's.
\* Mutant: the last result decides.
LastFails == taken # <<>> /\ Last(taken) # "success"

GroupFails == \E i \in DOMAIN taken : taken[i] # "success"

EndGroup ==
  /\ Running /\ plan # "Batch" /\ AllTaken
  /\ IF GroupFails THEN verdict' = "failure" /\ UNCHANGED group
     ELSE verdict' = verdict /\ group' = group + 1
  /\ UNCHANGED <<plan, groups, failFast, handed, answer, taken, counted>>

\* execute_plan returns the last result, a direct plan a success of its own.
EndPlan ==
  /\ verdict = "none" /\ group > Len(groups)
  /\ verdict' = "success"
  /\ UNCHANGED <<plan, groups, failFast, group, handed, answer, taken, counted>>

-----------------------------------------------------------------------------
\* execute_batch: recv_timeout, then the counts.  A failure that says "timed
\* out" is counted when the wait ended here, and only then.
Counting(o) ==
  [successful |-> counted.successful + (IF o = "success" THEN 1 ELSE 0),
   failed     |-> counted.failed + (IF o \in {"failure", "closed"} THEN 1 ELSE 0),
   timed_out  |-> counted.timed_out + (IF o = "late" THEN 1 ELSE 0)]

Aborts(n) == failFast /\ n.failed + n.timed_out > 0

TakeOfBatch ==
  /\ Running /\ plan = "Batch" /\ AllHanded /\ ~AllTaken
  /\ ~Aborts(counted)
  /\ \E o \in {"late", answer[Next1]} \ {"none"} :
       /\ o = "late" => answer[Next1] = "none"
       /\ taken' = Append(taken, o)
       /\ counted' = Counting(o)
  /\ UNCHANGED <<plan, groups, failFast, group, handed, answer, verdict>>

\* Even if all that is left succeeded
\* Mutant: what is left is not counted.
OutOfReachNow == counted.successful < SuccessesWanted

OutOfReach == counted.successful + (PlanSize - Len(taken)) < SuccessesWanted

EndChunk ==
  /\ Running /\ plan = "Batch" /\ AllHanded /\ (AllTaken \/ Aborts(counted))
  /\ IF OutOfReach \/ Aborts(counted) \/ group = Len(groups)
     THEN verdict' = "batch" /\ UNCHANGED group
     ELSE group' = group + 1 /\ UNCHANGED verdict
  /\ UNCHANGED <<plan, groups, failFast, handed, answer, taken, counted>>

PlanNext ==
  \/ Submit \/ Take \/ EndGroup \/ EndPlan \/ TakeOfBatch \/ EndChunk
  \/ \E t \in PlanTasks : PoolAnswers(t)

PlanSpec == PlanInit /\ [][PlanNext]_planVars

-----------------------------------------------------------------------------
\* A plan that is not a batch leaves no task behind and no failure unsaid: on
\* its return every task handed over was answered, a task was handed over only
\* after all of the groups before it had succeeded, and the plan succeeded just
\* when all of its tasks did (execute_plan, ParallelPool.execute,
\* execute_orchestration_plan).
TasksAreAccountedFor ==
  plan # "Batch" =>
    /\ verdict # "none" => \A t \in Range(handed) : answer[t] # "none"
    /\ \A g \in DOMAIN groups, h \in DOMAIN groups :
         (g < h /\ Range(groups[h]) \cap Range(handed) # {})
           => \A t \in Range(groups[g]) : answer[t] = "success"
    /\ verdict # "none" =>
         (verdict = "success" <=> \A g \in DOMAIN groups : \A t \in Range(groups[g]) : answer[t] = "success")

\* A batch that does not fail fast gives up only when the successes wanted are
\* out of reach: had the rest succeeded, there were too few (execute_batch).
GivesUpRightly ==
  (plan = "Batch" /\ verdict = "batch" /\ ~failFast /\ Len(taken) < PlanSize)
    => Cardinality({i \in DOMAIN taken : taken[i] # "success"}) > PlanSize - SuccessesWanted

\* Neither a plan nor a batch reports what did not happen to its tasks.
PlanIsAccountedFor == TasksAreAccountedFor /\ GivesUpRightly
=============================================================================
