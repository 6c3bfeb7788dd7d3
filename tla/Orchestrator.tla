---------------------------- MODULE Orchestrator ----------------------------
(***************************************************************************)
(* One orchestration plan (orchestrator/core.rs and llm_decompose.rs): the *)
(* sub-tasks a language model names are sorted, divided into groups and    *)
(* executed group by group on the worker pool.                             *)
(*                                                                         *)
(* The orchestrator's thread runs beside the workers: a group of tasks     *)
(* that need no upstream (query and transform) is submitted as a whole and *)
(* its results are collected in the order of submission, any other group   *)
(* is executed one task at a time.  What the pool makes of a task is       *)
(* chosen freely, as TaskDispatch allows: an answer, a refusal, or a       *)
(* closed channel.                                                         *)
(*                                                                         *)
(* A language model writes the dependencies.  They may form a cycle, or    *)
(* name a sub-task that does not exist (a misspelling, or one that         *)
(* specs.truncate(6) has cut off).                                         *)
(***************************************************************************)
EXTENDS Integers, Sequences, Functions, Retain

CONSTANTS Specs,     \* the names of the sub-tasks, in the order of the IndexMap
          Unknown    \* names that occur as dependencies only

Names == Range(Specs)

ASSUME PlanAssumption == Specs \in Seq(Names) /\ IsInjective(Specs) /\ Names \cap Unknown = {}

VARIABLES
    deps,       \* SubTask::dependencies
    safe,       \* sub-tasks lowered to Query or Transform, the others to ApiCall
    parallel,   \* OrchestratorConfig::enable_parallel
    stack,      \* calls of visit: the name, and the dependencies still to visit
    visited,
    order,      \* execution_order
    remaining,  \* the part of it that is in no group
    groups,     \* parallel_groups
    pc,
    current,    \* the index of the group being executed
    at,         \* the position in it
    task,       \* what the worker pool has made of each sub-task
    status,     \* the sub-task records of the runtime store
    plan,       \* the plan record of the runtime store
    last,       \* last_success
    result      \* what the plan returns

inputs   == <<deps, safe, parallel>>
sorting  == <<stack, visited, order>>
grouping == <<remaining, groups>>
control  == <<pc, current, at>>
outcome  == <<plan, last, result>>
vars     == <<inputs, sorting, grouping, control, task, status, outcome>>

\* What a TaskResult says: a block is a success with a blocked_reason, a
\* question a success that detect_pending_question finds one in.
Successes == {"success", "question", "blocked"}

\* determine_lowering_primitive: what the task becomes for the worker.
ApiCall(n) == n \notin safe

\* A query or a transformation is answered by the worker itself: it neither
\* asks nor blocks.  "closed" is a panic, which leaves no sender.
Answers(n) == {"failure", "closed"} \cup (IF ApiCall(n) THEN Successes ELSE {"success"})

Init ==
    /\ deps \in [Names -> SUBSET (Names \cup Unknown)]
    /\ \A n \in Names : n \notin deps[n]
    /\ safe \in SUBSET Names
    /\ parallel \in BOOLEAN
    /\ stack = <<>> /\ visited = {} /\ order = <<>>
    /\ remaining = <<>> /\ groups = <<>>
    /\ pc = "sort" /\ current = 0 /\ at = 1
    /\ task = [n \in Names |-> "none"]
    /\ status = [n \in Names |-> "none"]
    /\ plan = "none" /\ last = "none" /\ result = "none"

-----------------------------------------------------------------------------
(* topological_sort *)

Visiting == {stack[i].name : i \in DOMAIN stack}

\* An unknown name is visited as a leaf.
Call(n) == [name |-> n, todo |-> IF n \in Names THEN deps[n] ELSE {}]

Visit(calls, n) == IF n \in visited \cup Visiting THEN calls ELSE Append(calls, Call(n))

\* The keys in their order: the first that has not been visited.
SortTop ==
    /\ pc = "sort" /\ stack = <<>>
    /\ \E i \in DOMAIN Specs :
        /\ Specs[i] \notin visited
        /\ \A j \in 1 .. i - 1 : Specs[j] \in visited
        /\ stack' = Visit(<<>>, Specs[i])
    /\ UNCHANGED <<inputs, visited, order, grouping, control, task, status, outcome>>

\* The dependencies of the topmost call, in the arbitrary order of a HashSet.
SortDependency ==
    /\ pc = "sort" /\ stack # <<>>
    /\ \E d \in stack[Len(stack)].todo :
        stack' = Visit([stack EXCEPT ![Len(stack)].todo = @ \ {d}], d)
    /\ UNCHANGED <<inputs, visited, order, grouping, control, task, status, outcome>>

SortReturn ==
    /\ pc = "sort" /\ stack # <<>>
    /\ stack[Len(stack)].todo = {}
    /\ visited' = visited \cup {stack[Len(stack)].name}
    /\ order' = Append(order, stack[Len(stack)].name)
    /\ stack' = SubSeq(stack, 1, Len(stack) - 1)
    /\ UNCHANGED <<inputs, grouping, control, task, status, outcome>>

Sorted ==
    /\ pc = "sort" /\ stack = <<>> /\ Names \subseteq visited
    /\ remaining' = order
    /\ pc' = "group"
    /\ UNCHANGED <<inputs, sorting, groups, current, at, task, status, outcome>>

-----------------------------------------------------------------------------
(* compute_parallel_groups *)

Grouped == UNION {Range(groups[i]) : i \in DOMAIN groups}

Ready   == {n \in Names : deps[n] \subseteq Grouped}
Waiting == Names \ Ready

\* Mutant: completed grows while the group is formed.
FormGroupGreedily ==
    /\ pc = "group" /\ remaining # <<>>
    /\ groups' = Append(groups, KeepOnly(remaining, Names))
    /\ remaining' = <<>>
    /\ UNCHANGED <<inputs, sorting, control, task, status, outcome>>

\* Mutant: the fallback copies still_remaining instead of draining it.
FormGroupKeeping ==
    /\ pc = "group" /\ remaining # <<>>
    /\ LET ready   == KeepOnly(remaining, Ready)
           waiting == KeepOnly(remaining, Waiting)
       IN  /\ groups' = Append(groups, IF ready = <<>> THEN waiting ELSE ready)
           /\ remaining' = waiting
    /\ UNCHANGED <<inputs, sorting, control, task, status, outcome>>

\* One round: the names whose dependencies are all in earlier groups.  Unknown
\* names are dropped, and never counted as done.  When nothing is ready, all
\* that is left is one group.
FormGroup ==
    /\ pc = "group" /\ remaining # <<>>
    /\ LET ready   == KeepOnly(remaining, Ready)
           waiting == KeepOnly(remaining, Waiting)
       IN  IF ready # <<>>
           THEN groups' = Append(groups, ready) /\ remaining' = waiting
           ELSE groups' = Append(groups, waiting) /\ remaining' = <<>>
    /\ UNCHANGED <<inputs, sorting, control, task, status, outcome>>

\* The plan and its sub-tasks are stored, and the plan is set running.
Begin ==
    /\ pc = "group" /\ remaining = <<>>
    /\ status' = [n \in Names |-> "Pending"]
    /\ plan' = "Running"
    /\ pc' = "next"
    /\ UNCHANGED <<inputs, sorting, grouping, current, at, task, last, result>>

-----------------------------------------------------------------------------
(* execute_orchestration_plan_impl *)

Group == groups[current]

\* should_execute_group_in_parallel
InParallel(g) == parallel /\ Len(g) > 1 /\ \A n \in Range(g) : ~ApiCall(n)

NextGroup ==
    /\ pc = "next" /\ current < Len(groups)
    /\ current' = current + 1
    /\ at' = 1
    /\ LET g == groups[current + 1] IN
        pc' = CASE g = <<>>      -> "next"
                [] InParallel(g) -> "submit"
                [] OTHER         -> "serial"
    /\ UNCHANGED <<inputs, sorting, grouping, task, status, outcome>>

\* prepare_lowered_task, mark_subtask_started, submit_task
Start(n) ==
    /\ status' = [status EXCEPT ![n] = "Running"]
    /\ task' = [task EXCEPT ![n] = "submitted"]

\* The worker pool: the task is executed, refused, or lost by a panic.
Answer(n) ==
    /\ task[n] = "submitted"
    /\ \E r \in Answers(n) : task' = [task EXCEPT ![n] = r]
    /\ UNCHANGED <<inputs, sorting, grouping, control, status, outcome>>

\* Mutant: a closed channel is waited on like an open one.
AnsweredOpen(n) == task[n] \in Successes \cup {"failure"}

\* A channel that closes is a failure.
Answered(n) == task[n] \in Successes \cup {"failure", "closed"}

\* finalize_subtask_result, apply_subtask_result_to_context
Finalize(n) ==
    status' = [status EXCEPT ![n] = IF task[n] \in Successes THEN "Completed" ELSE "Failed"]

\* The group has returned a success: a question ends the plan.
GroupSucceeds(n) ==
    /\ last' = task[n]
    /\ result' = result
    /\ IF task[n] = "question"
       THEN plan' = "Completed" /\ pc' = "finish"
       ELSE plan' = plan /\ pc' = "next"
    /\ UNCHANGED <<current, at>>

\* It has returned a failure: the plan fails, and returns the failure.
PlanFails ==
    /\ plan' = "Failed" /\ result' = "failure" /\ last' = last
    /\ pc' = "done"
    /\ UNCHANGED <<current, at>>

\* The loop over the group goes on with its next member.
GoOn(n) ==
    /\ last' = task[n] /\ at' = at + 1
    /\ UNCHANGED <<pc, current, plan, result>>

SerialStart ==
    /\ pc = "serial"
    /\ Start(Group[at])
    /\ pc' = "wait"
    /\ UNCHANGED <<inputs, sorting, grouping, current, at, outcome>>

\* Mutant: a failure is skipped like any other member of the group.
SerialEndPatient ==
    /\ pc = "wait" /\ Answered(Group[at])
    /\ LET n == Group[at] IN
        /\ Finalize(n)
        /\ IF task[n] \in {"blocked", "question"} \/ at = Len(Group)
           THEN GroupSucceeds(n)
           ELSE /\ last' = task[n] /\ at' = at + 1 /\ pc' = "serial"
                /\ UNCHANGED <<current, plan, result>>
    /\ UNCHANGED <<inputs, sorting, grouping, task>>

\* execute_group_serial: a block and a question end the group at once.
SerialEnd ==
    /\ pc = "wait" /\ Answered(Group[at])
    /\ LET n == Group[at] IN
        /\ Finalize(n)
        /\ CASE task[n] \notin Successes -> PlanFails
             [] \/ task[n] = "blocked"
                \/ ApiCall(n) /\ task[n] = "question"
                \/ task[n] \in Successes /\ at = Len(Group) -> GroupSucceeds(n)
             [] OTHER -> /\ last' = task[n] /\ at' = at + 1 /\ pc' = "serial"
                         /\ UNCHANGED <<current, plan, result>>
    /\ UNCHANGED <<inputs, sorting, grouping, task>>

\* execute_group_parallel: everything is submitted ...
ParallelSubmit ==
    /\ pc = "submit"
    /\ Start(Group[at])
    /\ IF at < Len(Group) THEN at' = at + 1 /\ pc' = pc ELSE at' = 1 /\ pc' = "collect"
    /\ UNCHANGED <<inputs, sorting, grouping, current, outcome>>

\* ... and collected in the same order, up to the first failure: the receivers
\* that are left are dropped, the tasks behind them go on.
ParallelCollect ==
    /\ pc = "collect" /\ Answered(Group[at])
    /\ LET n == Group[at] IN
        /\ Finalize(n)
        /\ CASE task[n] \notin Successes -> PlanFails
             [] task[n] \in Successes /\ at = Len(Group) -> GroupSucceeds(n)
             [] OTHER -> GoOn(n)
    /\ UNCHANGED <<inputs, sorting, grouping, task>>

\* build_orchestration_final_result: the question of the last result, or the
\* blocks of all, or what infer_missing_context_question makes of the results,
\* or their summary.
FinalResults ==
    CASE last = "question" -> {"question"}
      [] \E n \in Names : status[n] = "Completed" /\ task[n] = "blocked" -> {"blocked"}
      [] OTHER -> {"summary", "question"}

Finish ==
    /\ pc = "finish" \/ (pc = "next" /\ current = Len(groups))
    /\ result' \in FinalResults
    /\ plan' = "Completed"
    /\ pc' = "done"
    /\ UNCHANGED <<inputs, sorting, grouping, current, at, task, status, last>>

-----------------------------------------------------------------------------
Sort    == SortTop \/ SortDependency \/ SortReturn \/ Sorted
Divide  == FormGroup \/ Begin
Execute == \/ NextGroup \/ SerialStart \/ SerialEnd
           \/ ParallelSubmit \/ ParallelCollect \/ Finish

Thread == Sort \/ Divide \/ Execute

Next == Thread \/ \E n \in Names : Answer(n)

Spec == Init /\ [][Next]_vars

(* The thread goes on when it can, and the worker pool answers or drops     *)
(* what it is given (EveryCallAnswered of WorkerPool).                      *)
FairSpec == Spec /\ WF_vars(Thread) /\ \A n \in Names : WF_vars(Answer(n))

-----------------------------------------------------------------------------
Statuses == {"none", "Pending", "Running", "Completed", "Failed"}

\* Every variable has its type: no name is sorted twice, however it is reached.
TypeOK ==
    /\ visited \subseteq Names \cup Unknown
    /\ order \in [1 .. Len(order) -> Names \cup Unknown]
    /\ IsInjective(order)
    /\ Range(remaining) \subseteq Range(order)
    /\ current \in 0 .. Len(groups)
    /\ task \in [Names -> {"none", "submitted", "failure", "closed"} \cup Successes]
    /\ status \in [Names -> Statuses]
    /\ plan \in {"none", "Running", "Completed", "Failed"}
    /\ last \in {"none"} \cup Successes
    /\ result \in {"none", "question", "blocked", "summary", "failure"}

\* The dependencies name sub-tasks, and have no cycle.
WellFormed ==
    /\ \A n \in Names : deps[n] \subseteq Names
    /\ \E rank \in [Names -> DOMAIN Specs] : \A n \in Names : \A d \in deps[n] : rank[d] < rank[n]

Started(n) == task[n] # "none"

\* A sub-task starts only when all it depends on has been completed, whatever
\* the order in which a HashSet lists the dependencies, in plans whose
\* dependencies make sense, while no sub-task is blocked.
DependenciesFirst ==
    WellFormed /\ (\A n \in Names : status[n] = "Completed" => task[n] # "blocked")
    => \A n \in Names : Started(n) => \A d \in deps[n] : status[d] = "Completed"

\* No sub-task is submitted twice, or put back once it has been finished, even
\* where a cycle or an unknown name forces the groups.
ExecutedOnce ==
    [][\A n \in Names : /\ Started(n) => task'[n] # "none" /\ (task'[n] = "submitted" => task[n] = "submitted")
                        /\ status[n] \in {"Completed", "Failed"} => status'[n] = status[n]]_vars

\* What the plan reports is what has happened to its sub-tasks: it has failed
\* exactly when one of them has, it leaves none of them running when it is
\* completed, and a summary covers all of them, each completed without a
\* question or a block; none is lost in the division.
ReportsWhatHappened ==
    /\ plan = "Failed"    => \E n \in Names : status[n] = "Failed"
    /\ plan = "Completed" => \A n \in Names : status[n] \notin {"Failed", "Running"}
    /\ result = "summary" => \A n \in Names : status[n] = "Completed" /\ task[n] = "success"
    /\ result = "blocked" => \E n \in Names : status[n] = "Completed" /\ task[n] = "blocked"

\* Every plan ends, also one with a cycle, with an unknown dependency, or with
\* a worker that panics.
PlanEnds == <>(pc = "done")

\* orchestrator/core.rs:6 of anima-runtime: the groups are executed one after
\* the other in the order of the dependencies, so that a sub-task whose
\* dependency has not been completed does not start.
GroupsFollowDependencies ==
    WellFormed => \A n \in Names : Started(n) => \A d \in deps[n] : status[d] = "Completed"
=============================================================================
