----------------------------- MODULE WorkerPool -----------------------------
(***************************************************************************)
(* The worker pool of anima-runtime (worker/core.rs): a vector of          *)
(* WorkerAgents guarded by a mutex, a condition variable that a finished   *)
(* worker signals, and threads that call WorkerPool::submit_task.          *)
(*                                                                         *)
(* A Call is one invocation of WorkerPool::submit_task by a thread of its  *)
(* own, together with the thread WorkerAgent::submit_task spawns for it    *)
(* and the bounded(1) channel the answer travels on.  An administrator     *)
(* thread starts, stops and resizes the pool.                              *)
(***************************************************************************)
EXTENDS Integers, Sequences, FiniteSets

CONSTANTS
  Calls,         (* invocations of WorkerPool::submit_task                  *)
  Workers,       (* identities of the WorkerAgents ever created             *)
  NoCall,        (* "no task": CurrentTaskInfo is None                      *)
  NoWorker,      (* no worker picked                                        *)
  Free,          (* the workers mutex is not held                           *)
  FirstPool,     (* the vector WorkerPool::new builds                       *)
  MinSize,       (* with_bounds: min_size                                   *)
  MaxSize,       (* with_bounds: max_size                                   *)
  MaxWait,       (* max_wait_ms, in units of the 50 ms condvar wait         *)
  IndexModulus   (* bound on next_index: a common multiple of the sizes     *)

ASSUME PoolAssumption ==
  /\ NoCall \notin Calls /\ NoWorker \notin Workers /\ Free \notin Calls
  /\ FirstPool \in Seq(Workers) /\ FirstPool # <<>>
  /\ \A i, j \in 1..Len(FirstPool) : FirstPool[i] = FirstPool[j] => i = j
  /\ MinSize \in Nat \ {0} /\ MaxSize \in Nat /\ MinSize <= MaxSize
  /\ MaxWait \in Nat /\ IndexModulus \in Nat \ {0}
  /\ \A n \in 1..MaxSize : IndexModulus % n = 0

VARIABLES
  poolRunning,   (* WorkerPool.running                                      *)
  pool,          (* WorkerPool.workers                                      *)
  created,       (* the WorkerAgents created so far                         *)
  wRunning,      (* WorkerAgent.running                                     *)
  busy,          (* WorkerAgent.busy                                        *)
  current,       (* WorkerAgent.current_task                                *)
  completed,     (* WorkerMetrics.tasks_completed                           *)
  errors,        (* WorkerMetrics.errors                                    *)
  lock,          (* holder of the workers mutex during a scan               *)
  nextIndex,     (* next_index, modulo IndexModulus                         *)
  scanFrom,      (* `start` of the scan in progress                         *)
  probed,        (* `offset` of the scan in progress                        *)
  pc,            (* where the submitting thread is                          *)
  picked,        (* the worker next_available_worker returned               *)
  elapsed,       (* time spent in submit_task, in units of 50 ms            *)
  thread,        (* where the spawned worker thread is                      *)
  outcome,       (* ExecuteResult.status, on that thread's stack            *)
  reply,         (* what the answer channel holds                           *)
  adm            (* the start/stop in progress                              *)

callVars == <<pc, picked, elapsed>>
scanVars == <<lock, nextIndex, scanFrom, probed>>
workVars == <<busy, current, completed, errors, thread, outcome, reply>>
poolVars == <<poolRunning, pool, created, wRunning, adm>>
vars == <<callVars, scanVars, workVars, poolVars>>

PC == {"idle", "scan", "probe", "nofree", "waiting", "handoff", "claim", "returned"}
Stage == {"none", "spawned", "executing", "cleanup", "metrics", "send",
          "drop", "notify", "unwind", "unwind_notify", "drop_sender", "ended"}
Refusal == {"pool_not_running", "no_available_worker",
            "worker_not_running", "worker_busy"}
Outcome == {"success", "failure"}
Reply == Refusal \cup Outcome \cup {"none", "disconnected"}

\* The spawned thread of c still owns its worker's busy flag.
Owning == {"spawned", "executing", "cleanup", "metrics", "send", "drop", "unwind"}
Panicked(c) == \/ thread[c] \in {"unwind", "unwind_notify", "drop_sender"}
               \/ reply[c] = "disconnected"
Answered(w, r) == {c \in Calls : picked[c] = w /\ reply[c] = r}
Sending(w, r) == {c \in Calls : picked[c] = w /\ thread[c] = "send" /\ outcome[c] = r}
Owners(w) == {c \in Calls : picked[c] = w /\ thread[c] \in Owning}

PoolTypes ==
  /\ poolRunning \in BOOLEAN
  /\ pool \in Seq(Workers)
  /\ created \subseteq Workers
  /\ wRunning \in [Workers -> BOOLEAN]
  /\ adm \in {"none", "starting", "stopping"}

ScanTypes ==
  /\ lock \in Calls \cup {Free}
  /\ nextIndex \in 0 .. IndexModulus - 1
  /\ scanFrom \in 0 .. IndexModulus - 1
  /\ probed \in Nat

CallTypes ==
  /\ pc \in [Calls -> PC]
  /\ picked \in [Calls -> Workers \cup {NoWorker}]
  /\ elapsed \in [Calls -> 0 .. MaxWait]
  /\ thread \in [Calls -> Stage]
  /\ outcome \in [Calls -> Outcome \cup {"none"}]
  /\ reply \in [Calls -> Reply]

WorkerTypes ==
  /\ busy \in [Workers -> BOOLEAN]
  /\ current \in [Workers -> Calls \cup {NoCall}]
  /\ completed \in [Workers -> Nat]
  /\ errors \in [Workers -> Nat]

TypeOK == PoolTypes /\ ScanTypes /\ CallTypes /\ WorkerTypes

\* WorkerPool::new; the pool is not running until start().
Init ==
  /\ poolRunning = FALSE
  /\ pool = FirstPool
  /\ created = {FirstPool[i] : i \in 1 .. Len(FirstPool)}
  /\ wRunning = [w \in Workers |-> FALSE]
  /\ busy = [w \in Workers |-> FALSE]
  /\ current = [w \in Workers |-> NoCall]
  /\ completed = [w \in Workers |-> 0]
  /\ errors = [w \in Workers |-> 0]
  /\ lock = Free
  /\ nextIndex = 0 /\ scanFrom = 0 /\ probed = 0
  /\ pc = [c \in Calls |-> "idle"]
  /\ picked = [c \in Calls |-> NoWorker]
  /\ elapsed = [c \in Calls |-> 0]
  /\ thread = [c \in Calls |-> "none"]
  /\ outcome = [c \in Calls |-> "none"]
  /\ reply = [c \in Calls |-> "none"]
  /\ adm = "none"

-----------------------------------------------------------------------------
(* The submitting thread: WorkerPool::submit_task.                          *)

Goto(c, p) == pc' = [pc EXCEPT ![c] = p]
Answer(c, r) == reply' = [reply EXCEPT ![c] = r]
At(c, t) == thread' = [thread EXCEPT ![c] = t]

\* Entry: a pool that is not running answers at once.
Submit(c) ==
  /\ pc[c] = "idle"
  /\ \/ poolRunning /\ Goto(c, "scan") /\ UNCHANGED reply
     \/ ~poolRunning /\ Goto(c, "returned") /\ Answer(c, "pool_not_running")
  /\ UNCHANGED <<picked, elapsed, scanVars, poolVars,
                 busy, current, completed, errors, thread, outcome>>

\* next_available_worker takes the mutex and advances the round-robin index.
\* The vector is never empty (PoolNeverEmpty), so its early return is dead.
ScanBegin(c) ==
  /\ pc[c] = "scan"
  /\ lock = Free
  /\ lock' = c
  /\ scanFrom' = nextIndex
  /\ nextIndex' = (nextIndex + 1) % IndexModulus
  /\ probed' = 0
  /\ Goto(c, "probe")
  /\ UNCHANGED <<picked, elapsed, workVars, poolVars>>

Candidate == pool[((scanFrom + probed) % Len(pool)) + 1]
Available(w) == wRunning[w] /\ ~busy[w]

\* One iteration of the scan.  busy flags are written without the mutex, so
\* they may change between two iterations.
Probe(c) ==
  /\ pc[c] = "probe"
  /\ \/ /\ Available(Candidate)
        /\ picked' = [picked EXCEPT ![c] = Candidate]
        /\ Goto(c, "handoff")
        /\ lock' = Free
        /\ UNCHANGED probed
     \/ /\ ~Available(Candidate)
        /\ probed + 1 < Len(pool)
        /\ probed' = probed + 1
        /\ UNCHANGED <<pc, picked, lock>>
     \/ /\ ~Available(Candidate)
        /\ probed + 1 >= Len(pool)
        /\ Goto(c, "nofree")
        /\ lock' = Free
        /\ UNCHANGED <<picked, probed>>
  /\ UNCHANGED <<elapsed, nextIndex, scanFrom, workVars, poolVars>>

\* The deadline has passed.
GiveUp(c) ==
  /\ pc[c] = "nofree"
  /\ elapsed[c] >= MaxWait
  /\ Goto(c, "returned")
  /\ Answer(c, "no_available_worker")
  /\ UNCHANGED <<picked, elapsed, scanVars, poolVars,
                 busy, current, completed, errors, thread, outcome>>

\* The mutex is taken again and released by wait_for: a notification sent
\* since the scan ended finds nobody waiting.
EnterWait(c) ==
  /\ pc[c] = "nofree"
  /\ elapsed[c] < MaxWait
  /\ lock = Free
  /\ Goto(c, "waiting")
  /\ UNCHANGED <<picked, elapsed, scanVars, workVars, poolVars>>

\* Mutant: wait instead of wait_for, only a notification ends it.
WaitForever(c) == pc[c] = "waiting" /\ FALSE /\ UNCHANGED vars

\* wait_for times out after at most 50 ms, one unit or more later.
WaitTimeout(c) ==
  /\ pc[c] = "waiting"
  /\ \E t \in (elapsed[c] + 1) .. MaxWait : elapsed' = [elapsed EXCEPT ![c] = t]
  /\ Goto(c, "scan")
  /\ UNCHANGED <<picked, scanVars, workVars, poolVars>>

\* WorkerAgent::submit_task, first test: the worker may have been stopped
\* since the scan released the mutex.
HandOff(c) ==
  /\ pc[c] = "handoff"
  /\ \/ wRunning[picked[c]] /\ Goto(c, "claim") /\ UNCHANGED reply
     \/ /\ ~wRunning[picked[c]]
        /\ Goto(c, "returned")
        /\ Answer(c, "worker_not_running")
  /\ UNCHANGED <<picked, elapsed, scanVars, poolVars,
                 busy, current, completed, errors, thread, outcome>>

\* Mutants: busy.store(true) whatever it was; no return after "Worker is busy".
ClaimUnchecked(c) ==
  /\ pc[c] = "claim"
  /\ busy' = [busy EXCEPT ![picked[c]] = TRUE]
  /\ At(c, "spawned") /\ Goto(c, "returned")
  /\ UNCHANGED <<picked, elapsed, scanVars, poolVars, current, completed, errors, outcome, reply>>

ClaimFallsThrough(c) ==
  /\ pc[c] = "claim"
  /\ busy' = [busy EXCEPT ![picked[c]] = TRUE]
  /\ IF busy[picked[c]] THEN Answer(c, "worker_busy") ELSE UNCHANGED reply
  /\ At(c, "spawned") /\ Goto(c, "returned")
  /\ UNCHANGED <<picked, elapsed, scanVars, poolVars, current, completed, errors, outcome>>

\* busy.swap(true): the loser of a race answers "Worker is busy" at once.
Claim(c) ==
  /\ pc[c] = "claim"
  /\ \/ /\ ~busy[picked[c]]
        /\ busy' = [busy EXCEPT ![picked[c]] = TRUE]
        /\ At(c, "spawned")
        /\ UNCHANGED reply
     \/ /\ busy[picked[c]]
        /\ Answer(c, "worker_busy")
        /\ UNCHANGED <<busy, thread>>
  /\ Goto(c, "returned")
  /\ UNCHANGED <<picked, elapsed, scanVars, poolVars,
                 current, completed, errors, outcome>>

-----------------------------------------------------------------------------
(* The thread WorkerAgent::submit_task spawns.                              *)

ThreadStep(c, from, to) == thread[c] = from /\ At(c, to)

Begin(c) ==
  /\ ThreadStep(c, "spawned", "executing")
  /\ current' = [current EXCEPT ![picked[c]] = c]
  /\ UNCHANGED <<callVars, scanVars, poolVars, busy, completed, errors, outcome, reply>>

\* execute_task returns: the executor succeeded or failed.
Execute(c) ==
  /\ ThreadStep(c, "executing", "cleanup")
  /\ \E r \in Outcome : outcome' = [outcome EXCEPT ![c] = r]
  /\ UNCHANGED <<callVars, scanVars, poolVars, busy, current, completed, errors, reply>>

\* current_task is cleared and worker_task_cleanup_finished published.
Cleanup(c) ==
  /\ ThreadStep(c, "cleanup", "metrics")
  /\ current' = [current EXCEPT ![picked[c]] = NoCall]
  /\ UNCHANGED <<callVars, scanVars, poolVars, busy, completed, errors, outcome, reply>>

\* Mutant: every result is counted as completed.
CountAll(c) ==
  /\ ThreadStep(c, "metrics", "send")
  /\ completed' = [completed EXCEPT ![picked[c]] = @ + 1]
  /\ UNCHANGED <<callVars, scanVars, poolVars, busy, current, errors, outcome, reply>>

Count(c) ==
  /\ ThreadStep(c, "metrics", "send")
  /\ \/ /\ outcome[c] = "success"
        /\ completed' = [completed EXCEPT ![picked[c]] = @ + 1]
        /\ UNCHANGED errors
     \/ /\ outcome[c] # "success"
        /\ errors' = [errors EXCEPT ![picked[c]] = @ + 1]
        /\ UNCHANGED completed
  /\ UNCHANGED <<callVars, scanVars, poolVars, busy, current, outcome, reply>>

\* The answer is sent before PanicGuard drops: the caller can hold it while
\* the worker is still busy.
Send(c) ==
  /\ ThreadStep(c, "send", "drop")
  /\ Answer(c, outcome[c])
  /\ UNCHANGED <<callVars, scanVars, poolVars, busy, current, completed, errors, outcome>>

\* execute_task panics: the stack unwinds past cleanup, metrics and send.
Panic(c) ==
  /\ ThreadStep(c, "executing", "unwind")
  /\ UNCHANGED <<callVars, scanVars, poolVars, busy, current, completed,
                 errors, outcome, reply>>

\* Mutant: busy is cleared at the end of the closure, not by a guard.
DropWithoutGuard(c) ==
  /\ \/ ThreadStep(c, "drop", "notify") /\ busy' = [busy EXCEPT ![picked[c]] = FALSE]
     \/ ThreadStep(c, "unwind", "unwind_notify") /\ UNCHANGED busy
  /\ UNCHANGED <<callVars, scanVars, poolVars, current, completed, errors, outcome, reply>>

\* PanicGuard::drop, first half: busy is cleared.
DropGuard(c) ==
  /\ \/ ThreadStep(c, "drop", "notify")
     \/ ThreadStep(c, "unwind", "unwind_notify")
  /\ busy' = [busy EXCEPT ![picked[c]] = FALSE]
  /\ UNCHANGED <<callVars, scanVars, poolVars, current, completed, errors,
                 outcome, reply>>

\* PanicGuard::drop, second half: notify_one, without the mutex.  One waiter
\* wakes, if there is one; some time may have passed while it waited.
NotifyOne ==
  \/ /\ \E d \in Calls : pc[d] = "waiting"
     /\ \E d \in Calls :
          /\ pc[d] = "waiting"
          /\ Goto(d, "scan")
          /\ \E t \in elapsed[d] .. MaxWait : elapsed' = [elapsed EXCEPT ![d] = t]
  \/ /\ ~\E d \in Calls : pc[d] = "waiting"
     /\ UNCHANGED <<pc, elapsed>>

Notify(c) ==
  /\ \/ ThreadStep(c, "notify", "ended")
     \/ ThreadStep(c, "unwind_notify", "drop_sender")
  /\ NotifyOne
  /\ UNCHANGED <<picked, scanVars, poolVars, busy, current, completed,
                 errors, outcome, reply>>

\* After a panic the sender is dropped unused: the receiver disconnects.
DropSender(c) ==
  /\ ThreadStep(c, "drop_sender", "ended")
  /\ Answer(c, "disconnected")
  /\ UNCHANGED <<callVars, scanVars, poolVars, busy, current, completed,
                 errors, outcome>>

-----------------------------------------------------------------------------
(* The administrator: start, stop, scale_to.                                *)

SetAll(b) == wRunning' = [w \in Workers |->
               IF \E i \in 1 .. Len(pool) : pool[i] = w THEN b ELSE wRunning[w]]

\* start and stop set the pool's flag, then take the mutex for the workers'.
StartPool ==
  /\ adm = "none"
  /\ poolRunning' = TRUE /\ adm' = "starting"
  /\ UNCHANGED <<pool, created, wRunning, callVars, scanVars, workVars>>

StartWorkers ==
  /\ adm = "starting" /\ lock = Free
  /\ SetAll(TRUE) /\ adm' = "none"
  /\ UNCHANGED <<poolRunning, pool, created, callVars, scanVars, workVars>>

StopPool ==
  /\ adm = "none"
  /\ poolRunning' = FALSE /\ adm' = "stopping"
  /\ UNCHANGED <<pool, created, wRunning, callVars, scanVars, workVars>>

StopWorkers ==
  /\ adm = "stopping" /\ lock = Free
  /\ SetAll(FALSE) /\ adm' = "none"
  /\ UNCHANGED <<poolRunning, pool, created, callVars, scanVars, workVars>>

Clamp(n) == IF n < MinSize THEN MinSize ELSE IF n > MaxSize THEN MaxSize ELSE n

\* Fresh workers are started if the pool runs and pushed at the end.  The
\* finite set Workers bounds how many are ever created.
ScaleUp(target) ==
  LET n == Clamp(target) - Len(pool) IN
  /\ n > 0
  /\ \E fresh \in [1 .. n -> Workers \ created] :
       /\ \A i, j \in 1 .. n : fresh[i] = fresh[j] => i = j
       /\ pool' = pool \o fresh
       /\ created' = created \cup {fresh[i] : i \in 1 .. n}
       /\ wRunning' = [w \in Workers |->
            IF \E i \in 1 .. n : fresh[i] = w THEN poolRunning ELSE wRunning[w]]

\* Mutant: popped workers are not stopped.
PopOnly(target) ==
  /\ Clamp(target) < Len(pool)
  /\ pool' = SubSeq(pool, 1, Clamp(target))
  /\ UNCHANGED <<wRunning, created>>

\* Excess workers are popped from the end and stopped, busy or not.
ScaleDown(target) ==
  LET n == Clamp(target) IN
  /\ n < Len(pool)
  /\ pool' = SubSeq(pool, 1, n)
  /\ wRunning' = [w \in Workers |->
       IF \E i \in (n + 1) .. Len(pool) : pool[i] = w THEN FALSE ELSE wRunning[w]]
  /\ UNCHANGED created

ScaleTo(target) ==
  /\ adm = "none" /\ lock = Free
  /\ ScaleUp(target) \/ ScaleDown(target)
  /\ UNCHANGED <<poolRunning, adm, callVars, scanVars, workVars>>

-----------------------------------------------------------------------------
Submitter(c) == \/ Submit(c) \/ ScanBegin(c) \/ Probe(c) \/ GiveUp(c)
                \/ EnterWait(c) \/ WaitTimeout(c) \/ HandOff(c) \/ Claim(c)

WorkerThread(c) == \/ Begin(c) \/ Execute(c) \/ Panic(c) \/ Cleanup(c)
                   \/ Count(c) \/ Send(c) \/ DropGuard(c) \/ Notify(c)
                   \/ DropSender(c)

Administrator == \/ StartPool \/ StartWorkers \/ StopPool \/ StopWorkers
                 \/ \E n \in 0 .. MaxSize + 1 : ScaleTo(n)

Next == \/ \E c \in Calls : Submitter(c) \/ WorkerThread(c)
        \/ Administrator

Spec == Init /\ [][Next]_vars

\* A thread inside submit_task keeps running, and so does a worker thread:
\* the executor's calls carry timeouts, so execute_task returns (or panics).
\* Whether a call is ever made is up to the caller, but once in it goes on.
Fairness ==
  /\ \A c \in Calls : WF_vars(pc[c] # "idle" /\ Submitter(c))
  /\ \A c \in Calls : WF_vars(WorkerThread(c))
  /\ WF_vars(StartWorkers \/ StopWorkers)

FairSpec == Spec /\ Fairness

-----------------------------------------------------------------------------
(* Properties.                                                              *)

\* A worker works for at most one call, and its lock-free busy flag says
\* exactly whether it does: the swap in WorkerAgent::submit_task and the
\* PanicGuard keep the flag true from the claim to the end of the thread,
\* whatever races the scan of next_available_worker lost.
OneTaskPerWorker ==
  \A w \in Workers :
    /\ \A c, d \in Owners(w) : c = d
    /\ busy[w] <=> Owners(w) # {}

\* A caller that holds an answer finds it in the worker's metrics, and the
\* metrics count nothing else: the threads that are past the count but have
\* not answered yet are the only difference.
MetricsMatchAnswers ==
  \A w \in Workers :
    /\ completed[w] = Cardinality(Answered(w, "success")) + Cardinality(Sending(w, "success"))
    /\ errors[w] = Cardinality(Answered(w, "failure")) + Cardinality(Sending(w, "failure"))

\* Between two administrative calls the workers of the pool run exactly when
\* the pool does, and a worker that scale_to took out of it never runs.
FlagsAgree ==
  /\ adm = "none" => \A i \in 1 .. Len(pool) : wRunning[pool[i]] = poolRunning
  /\ \A w \in created : wRunning[w] => \E i \in 1 .. Len(pool) : pool[i] = w

\* The pool is never empty, so next_available_worker's early return is dead,
\* and no worker is in it twice.
PoolNeverEmpty ==
  /\ Len(pool) >= 1
  /\ \A i, j \in 1 .. Len(pool) : pool[i] = pool[j] => i = j

\* Every call of submit_task is answered, or its receiver disconnects: no
\* wakeup is needed for it, no stop, resize or panic strands it.
EveryCallAnswered == \A c \in Calls : pc[c] # "idle" ~> reply[c] # "none"

\* A worker becomes free again after every task, also after a panic.
BusyIsTemporary == \A w \in Workers : busy[w] ~> ~busy[w]

\* Whoever waits for submit_task, or for a worker, does not wait for ever.
CallsEnd == EveryCallAnswered /\ BusyIsTemporary

\* Refinement: a call is pending until it is claimed, refused or answered;
\* a worker's slot holds the call whose thread owns its busy flag.
AbstractCall(c) ==
  CASE reply[c] # "none" -> reply[c]
    [] reply[c] = "none" /\ Panicked(c) -> "crashed"
    [] reply[c] = "none" /\ ~Panicked(c) /\ thread[c] # "none" -> "running"
    [] reply[c] = "none" /\ thread[c] = "none" ->
         IF pc[c] = "idle" THEN "new" ELSE "pending"

Abstract == INSTANCE TaskDispatch WITH
  Refusals <- Refusal,
  Outcomes <- Outcome,
  Nobody <- NoCall,
  call <- [c \in Calls |-> AbstractCall(c)],
  slot <- [w \in Workers |-> IF Owners(w) = {} THEN NoCall
                              ELSE CHOOSE c \in Owners(w) : TRUE]

\* The pool keeps the promise of TaskDispatch: one worker per task and one
\* task per worker, one answer per call, refused calls never executed, and a
\* worker released only after its caller's answer is in the channel.
ImplementsDispatch == Abstract!Dispatch

=============================================================================
