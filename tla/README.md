# A TLA+ verification of anima-agent-rs

anima-agent-rs is a Rust runtime for conversational agents. This directory holds
TLA+ modules translated from its source, TLC configurations that check them on
small instances, and TLAPS proofs of the theorems that matter most.

Paths below are relative to `src/crates/anima-runtime/src/` unless they start with
`crates/`. `PROJECT.json` maps every definition to the lines it translates, lists the
runs with their properties, one mutation of the code per property that makes TLC
find it violated, the hazards of the code, and the theorems.

1. Inventory of the system
2. Modules: what each one models, and how it corresponds to the code
3. Runs: what is checked, on which instance, and why it is large enough
4. Fairness
5. Proofs
6. What the code does that its documentation does not say
7. What is not modelled
8. Plan

## 1. Inventory of the system

| Part | State it keeps | Operations | Hard behaviour | What makes it correct |
|---|---|---|---|---|
| bus (`bus/`) | four bounded channels, drop counters, closed flag | publish_*, close, telemetry | senders race between length test, eviction and send; drop reports; publish against close | nothing vanishes uncounted, order per sender, bounded occupation, a send returns |
| worker (`worker/core.rs`) | vector of workers; per worker running, busy, current task, metrics | submit_task, start, stop, scale_to, status | lock-free claims, a condvar signalled without its mutex, panics, resize under load | one task per worker, every call answered, a worker becomes free again |
| dispatcher (`dispatcher/core.rs`, `queue.rs`, `control.rs`, `diagnostics.rs`) | per-priority queues by route, state, counters, last diagnostic | dispatch, drain_one, pause, resume, drain, stop, two loops | state set by several threads, retries with back-off, head-of-line blocking | a message in one place, bounded sends, handled in the end, no route starved |
| circuit breaker (`dispatcher/circuit_breaker.rs`) | state, failure and success count, trip time, each under a lock of its own | execute, trip, reset | reports of calls that began in another state | its fields fit, it stays open as long as configured, it closes again |
| balancer (`dispatcher/balancer.rs`, `router.rs`) | targets, load, health, round-robin cursor | add, remove, select, count load, record health | membership changes between selection and count | no load of somebody else's, every candidate its share, recovery |
| agent lifecycle (`bootstrap.rs`, `agent/core.rs`, `facade.rs`, `lifecycle.rs`) | running flag, loop threads | start, stop, handle inbound, control signals | threads that each notice the end by themselves, shutdown by message | what was worked out when stop waits still leaves |
| questions (`agent/suspension.rs`, `question_continuation.rs`) | pending question of each job, suspended tools, plan proposals; records in the store | ask, answer, continue, clear | double answers, failing continuations, rebuilding after a restart | an answer acted on once, by the branch that asked; one open question; nothing left open |
| turn outcome (`agent/inbound_pipeline.rs`, `upstream_resolution.rs`, `execution/requirement_judge.rs`, `turn_coordinator.rs`) | the requirement's rounds in the store, the job's events | judge a result: complete, ask, follow up, blocked | limits on rounds, automatic answers, error paths | it ends; its end is shown, and stays |
| orchestrator (`orchestrator/core.rs`, `llm_decompose.rs`) | plans and sub-tasks | decompose, sort, group, execute, summarise | cycles, unknown names, partial failure, blocked members | dependencies first, nothing lost or executed twice, a truthful report, it ends |
| parallel and specialist pools (`orchestrator/parallel_pool.rs`, `specialist_pool.rs`) | specialists, index by capability, load | execute, register, route | time-outs that leave a task running, index against registry | a report true of its tasks; nothing left running unsaid |
| agentic loop (`execution/`) | iteration, tool calls | run turns, suspend, resume, compact | a permission in the middle of a batch, limits | every tool use has one result; it ends |
| streaming (`streaming/`) | partial blocks, tool executors | consume events, start tools | missing and out-of-order events | blocks complete, results in order |
| runtime store (`runtime/`) | sequence, reduced state with its index, file or SQLite tables | append, reduce, project, delete a session, load | a crash between two rows, a deletion under a handler | a start answers as before the end; a deleted session is gone |
| tasks (`tasks/`), transcript (`transcript/`) | runs, turns, tasks, suspensions, requirements, messages | lifecycle constructors, queries | derived views | views agree with the records |
| messages (`messages/`) | conversation | pairing, normalising, compacting | pairing across a compaction | no orphan result, the first request kept |
| tools, permissions, hooks | registry, policy, hooks | validate, hook, permit, call | order of the stages | no call before its permission |
| context (`context/`), caches (`cache/`) | tiered entries, history by chat, LRU and TTL maps | get, put, promote, evict | expiry against access, tiers changed one after the other, a read-modify-write without a lock | no older value back, capacity kept, recency respected, no entry lost |
| channel (`channel/`), cli (`cli.rs`) | adapters, sessions by id and by key | register, find or make a session, dispatch outbound | a session closed under queued messages | one session for a key, found by its indices |
| provider (`provider/`) | the blocks of a streamed reply | turn a stream into events | block numbers made up by the adapter | inputs as sent |
| classifier, prompt, pipeline, support, metrics | little | pure or I/O | formatting and transport | out of scope |
| `crates/anima-web` | jobs, SSE clients | submit, answer, stream, derive the status shown | a lock held during a whole answer; a status put together of records written one after the other | one answer at a time; an end shown truly |
| `crates/anima-cli`, `-sdk`, `-store`, `-testkit`, `-types` | none of interest | I/O, types | transport | out of scope |

How they interact. A channel adapter publishes to the inbound channel of the bus;
the agent's loop thread takes the message, classifies it and either sends it to the
worker pool as one task or has the orchestrator split it into several, which go to
the same pool. A worker calls the executor, and through it a provider or the
agentic loop with its tools. The result of the pool is judged by the upstream
resolution: it completes the job, asks again, or suspends the job on a question,
which the web handler later answers on a thread of its own. Answers for the user are
published to the outbound channel, which the dispatcher's outbound loop hands, over
its queue, to the adapter. Every part appends events to the runtime store, from
which jobs and projections are derived and questions are rebuilt after a restart.

Where it is hard: threads share the pool, the bus's senders, the dispatcher, the
breaker and the store, mostly with one short lock per field and nothing held
across a whole operation; a handler writes several events, and another thread, or a
restart, can come between any two; time-outs and retries race late answers; and a
language model decides, so any result, plan or dependency can occur.

## 2. Modules

A module per component, one action per operation or, where the operation takes
several locks, writes or events, one per step between them. Definitions marked *Mutant* are
variants of a definition that a plausible slip in the code would give; no
specification uses them. `Retain` is `Vec::retain` (`KeepOnly`), which queue, rules,
targets, sessions, sub-tasks and caches use; like every recursion here it is a recursive function, so
that it can be proved about.

### WorkerPool, TaskDispatch (`worker/core.rs`)

`WorkerPool` models a `WorkerPool`: `pool` is the vector under the mutex (`lock`
holds the call that has it), `nextIndex` the round-robin start, `poolRunning` and
`wRunning` the running flags, `busy` the lock-free flag of each worker, `current`
its `CurrentTaskInfo`, `completed`/`errors` its metrics. A call is a thread in
`WorkerPool::submit_task` (`pc`): it scans the vector worker by worker (`ScanBegin`,
`Probe`), waits on the condition variable (`EnterWait`, `WaitTimeout`, `GiveUp`),
hands off and claims with a swap of `busy` (`HandOff`, `Claim`). A claim spawns a
thread (`thread`): `Begin`, `Execute` or `Panic`, `Cleanup`, `Count`, `Send`,
then the guard that clears `busy` (`DropGuard`), the notification and the end of the
sender, each a step because nothing is held between them. `StartPool` /
`StartWorkers`, `StopPool` / `StopWorkers` and `ScaleTo` (one step: under the mutex)
are the administrator's. What the executor does is one step with either outcome.

`TaskDispatch` is the promise to the callers: a call is new, pending, running, and
then answered, refused or crashed; a worker's slot holds at most one running call; a
refused call never ran. The refinement mapping is `AbstractCall` and `Owners`.

### BoundedChannel (`bus/bounded.rs`)

The crossbeam channel with `Capacity + 1` places and the senders that keep it at
`Capacity`. `send` is `CheckLength`, `Evict`, `RecordDrop`, `Push`: the code has no
lock around them. `Senders` are the threads that share a sender, `strategy` is the
overflow strategy, chosen at the start; `lost` and `taken` are histories.

### CircuitBreaker (`dispatcher/circuit_breaker.rs`)

A thread (`Clients`) in `execute` reads the state (`circuit`), tests the time-out, moves to HalfOpen, asks
for admission, runs the call and reports: one step per lock (`ReadState` ...
`ResetSuccesses`). `Trip` and `ResetState` are the manual entry points, `Tick` the
clock, `Heal` the end of the trouble that makes calls fail. `AloneSpec` is the breaker
of calls that do not overlap.

### DispatchQueue, QueueRotation, Dispatcher (`dispatcher/queue.rs`, `core.rs`, `control.rs`)

`DispatchQueue` is the `DispatchQueue` struct under its mutex: `lanes[route][level]`,
`routes` in insertion order, `lastRoute`, and `waiting` for the messages whose
back-off has not ended; `Enqueue` and `Dequeue` are whole methods, with the removal
of an emptied route and the reset of the rotation. `QueueRotation` adds what a
caller sees of the rotation (`LosesPlace`: it starts again where the last route is not among
the eligible ones), `Dispatcher` the threads: the outbound loop over the bus
(`Produce`, `ReceiveOutbound`), the scheduler loop (`SchedulerTop`, `SchedulerLook`,
`SchedulerAgain`) and a controller (`Control`, `DrainEnds`). `drain_one` is
`CheckState`, `Take`, `SetRunning`, `SelectTarget`, `SendMessage`, `Record`,
`Retry`; `diagnostic` is the one all threads share. What the balancer chooses and the
adapter answers is free there.

### Balancer (`dispatcher/balancer.rs`, `router.rs`, the calls in `dispatcher/core.rs`)

A thread that dispatches goes through `Refresh` (circuits whose cool-down is over,
old heartbeats), `CopyTargets`, `Filter` (the copy of the health: present, available,
healthy, circuit; half-open targets only when nothing is closed), `Pick` (the
strategy, and the cursor that goes round the candidates, each as often as its
weight), `Count`, `Send`, `RecordOutcome` and `Finish`: `targets`, `health` and `cursor`
have a mutex each. `AddTarget`, `RemoveTarget` and `RemoveHealth`, `SetStatus`,
`ResetLoad` and `Heartbeat` are the other calls; `CoolDown` and `HeartbeatAges` are
the clock, `Fault` and `Repair` the world. `turns` and `late` are histories the
properties need.

### AgenticLoop (`execution/agentic_loop.rs`, `tools/execution.rs`, `permissions/checker.rs`, `hooks/registry.rs`, `messages/`)

One turn: `messages` is the history, each with its role, the tool uses or result it
holds and its weight. `Compact` is `compact_if_needed` with its stages (`Cleared`, `FilterOldest`), `Pair` what is added before a request,
`Legible` what of it the provider can read
as a result. A reply ends the turn, fails it, or asks for tools, which are
partitioned into segments; the tools of a concurrency-safe segment end in any order.
`Added[n]` is the checker's list after n rules were added (a stable sort by priority
after each), `HasPermission` what it decides, with policy and mode; `Refuse` is the
ways a tool is not run. A tool that needs the user suspends the turn, and `Answer` is
the resumption.

### ResponseStream (`streaming/types.rs`, `executor.rs`, `provider/*.rs`)

The accumulator of a streamed reply (`acc`) and two adapters: events passed on as
they come (anthropic, opencode) and events made up from chat-completion chunks
(openai_compat), whose block numbers come from the iteration order of a HashSet. A
break of the connection and an error are outcomes of any step.

### TurnOutcome, JobView (`agent/inbound_pipeline.rs`, `upstream_resolution.rs`, `turn_coordinator.rs`, `question_continuation.rs`, `execution/requirement_judge.rs`; `crates/anima-web/src/jobs.rs`, `jobs_derive.rs`, `runtime/projection.rs`)

`TurnOutcome` is one message from its arrival to the reply: the thread's place (`handler`), the
records of its job (`job`), the progress of the requirement (`progress`, `old`), what
was judged (`judged`) and what the user was told (`reply`). `JobView` holds the pure operators that
make a status of a job's records, hints and events, in the order of the code's
branches; `TurnOutcome` evaluates them after every write. A restart keeps the records
and loses the timeline.

### RuntimeStore (`runtime/state_store.rs`, `reducer.rs`, `tasks/query.rs`, `transcript/`, `crates/anima-store`)

`mem` is the reduced state with its index, `disk` what is stored, `call` the writes
still to make. `Record` (append), `DeleteSession` and `SetTitle` prepare a list of writes,
each of which is a step (`Write`); `Restart` may come between any two and loads what is
there (`LoadSnapshot`). The backend is chosen at the start: JSON writes all of its state and renames,
SQLite row after row.

### ResultCache, LeastRecent (`cache/lru.rs`, `agent/initial_execution.rs`)

`ResultCache` is `LruCache` with a step per lock (`entries`, `order`), as the handling
of a message uses it: look, compute, set. `LeastRecent` is the promise of a least
recently used cache; the mapping takes the keys in order of use that have an entry.

### TieredStorage (`context/storage.rs`)

Two tiers, and a step per tier for `get`, `set`, `delete`, `promote` and `demote`;
the process may end in between and leaves the files.

### Conversations (`agent/core.rs`, `channel/session.rs`, `context/manager.rs`, `cli.rs`)

What is remembered of a chat in memory, in the session store and in the context
manager. Messages are taken by one thread; one that had to ask is finished by the
thread that brings the answer (`Answer`) while others are taken (`TakeMessage`). On the
way `EnsureContext`, `FindOrCreateSession`, the session upstream, the plan (`Work`) and
`RecordEntry` are a step each.

### PlanExecution (`orchestrator/core.rs`, `parallel_pool.rs`)

`execute_plan`, `execute_orchestration_plan` and `execute_batch` over the groups of a
plan (`GroupsOf`): hand over a group, take the results in order, stop at a failure;
a batch also stops waiting and stops early.

### Orchestrator (`orchestrator/core.rs`, `llm_decompose.rs`)

One plan: `deps` and `safe` are what a language model wrote. `SortTop`,
`SortDependency`, `SortReturn` walk the depth-first sort with its `stack` and
`visited` set, dependencies in any order because they are in a HashSet; `FormGroup` takes
the sub-tasks whose dependencies are in earlier groups (`Ready`), or the first one left when
there is none; `NextGroup`, `SerialStart`, `SerialEnd`, `ParallelSubmit`,
`ParallelCollect` execute the groups, `Answer` is the pool, `FinalResults` and `Finish`
the result.

### QuestionLifecycle (`agent/suspension.rs`, `question_continuation.rs`, `upstream_resolution.rs`, `agentic_loop_runner.rs`, `initial_execution.rs`)

One job, two threads: `"inbound"` processes its message once, `"answer"` is the web
handler, alone because it keeps the runtime locked. `susp` and `inv` are the suspension
and tool invocation records of the store, `run` and `rounds` the run and the
requirement; `cache` and `toolCache` are the coordinator's maps, lost by `Restart`. The
shared steps (`StoreRecord`, `StoreCache`, `ToolRecord`, `ToolInvocation`; `ClearCache`,
`ClearRecord`, `ClearTool`, `Complete`) are the methods of the coordinator, one event
each; `loc[t].stage` says which caller they belong to. `Look` rebuilds the question
from a snapshot (`Rebuilt`, the first active record of an unordered map), `Hydrate`
puts it into the map and rejects a wrong id, `Resolve`, `Permit`, `ToolRuns`,
`Permitted` and the verdicts are the branches of the continuation. What the
upstream, the tool and the user say is chosen freely. Restarts may happen at any
step. `eager` distinguishes a user who answers as soon as a question shows from
one who waits for the message thread.

### RuntimeLifecycle (`bootstrap.rs`, `agent/facade.rs`, `agent/lifecycle.rs`, `bus/core.rs`)

Start and stop; the inbound, control and outbound threads and the one that waits for
them; the bus with its closing; the control signals.

### How they compose

`Dispatcher` and `QueueRotation` extend `DispatchQueue`; `TakingTurns` puts the rotation of
the queue and the balancer side by side; `TurnOutcome` extends `JobView`. `WorkerPool` implements `TaskDispatch`, and `Orchestrator`'s `Answer` and
`PlanExecution`'s answers allow what `TaskDispatch` allows a
call: an answer, a refusal, or a closed channel after a panic. `QuestionLifecycle`'s
and `TurnOutcome`'s free results are the results of `AgenticLoop` and of the orchestrator
(question, blocked, summary, failure); a reply of `AgenticLoop` is a response of
`ResponseStream`. The channel between an adapter and the bus is
`BoundedChannel`.

`MCOutbound` extends the channel and the balancer, `MCAgentTurn` and `MCServices` all of
their parts, so that a theorem about a part states the very property the run checks.

Three MC modules check several small machines in one run: `MCOutbound` (what a message
passes on its way out: channel, breaker, rotation, balancer), `MCAgentTurn` (loop,
stream, outcome) and `MCServices` (store, cache, tiers, conversations, plans,
life cycle). A behaviour of such a module is one of *one* part, which `part` names
from the start and no step changes; the other parts stay in their initial state, of
which one is enough. The machines share no state there, so this checks each of them
completely, without the product of all.

## 3. Runs

Twelve runs; the states are the distinct ones TLC found.

| Run | Instance | What it shows |
|---|---|---|
| `pool` (168 000 states) | two calls; one worker, grown to two and back; waiting time of one 50 ms unit | `OneTaskPerWorker`, `MetricsMatchAnswers`, `FlagsAgree`; the pool implements `TaskDispatch` (`ImplementsDispatch`); every call is answered and a worker becomes free again (`CallsEnd`) |
| `outbound` (156 000) | channel: three threads, two messages each, capacity 2, either strategy. Breaker: two callers and a manual one, thresholds 2, calls overlapping or not. Rotation: three routes, two priorities, five messages that come back for ever. Balancer: two targets, two threads, one instance per strategy with what matters to it (faults, membership, heartbeats, messages without end) | `NothingLostUnseen`, `DropsAreCounted`, `OvershootBound`, `SendReturns`; `Cooldown`; `LoadHasAnOwner`, `OpenCircuitSheds`; `TurnsAreShared` (`NoRouteStarves` of the queue, `EachItsShare` and `DiagnosisAgrees` of the balancer); `CircuitsClose`, of breaker and balancer |
| `dispatch_shared` (289 000) | both loops and a controller, one message over the bus and one with a retry and a back-off, two commands | `OnePlace`, `EveryMessageHandled` |
| `question` (11 000) | two questions of any source, one follow-up round, one restart | `OneUsePerOpening`, `OneOpenQuestion`, `ContinuedAsAsked`; every answer returns and what was announced is settled (`QuestionsSettle`) |
| `question_blocked` | the same without restart | finding: `BlockedAsAsked` |
| `orchestrator` (774 000) | three sub-tasks, any dependencies over the others and one unknown name, any of them safe, parallel or not | `DependenciesFirst`, `ReportsWhatHappened`, `ExecutedOnce`, `PlanEnds` |
| `orchestrator_blocked` | the same | finding: `GroupsFollowDependencies` |
| `turn` (221 000) | loop: two iterations, two tool uses in a reply, three tools (allowed, asked for, met by several rules), one suspension, a window of six with either number of kept turns. Stream: two overlapping calls of two fragments, or one call with text by chunks. Outcome: two follow-ups, two fingerprints, three answers, two restarts | `HistoryIsWhole`, `RunsOnceAsAllowed`, `InputsAsSent`, `EndShownTruly`, `EndedStays`, `TurnsEnd` |
| `turn_unanswered` | the same | finding: `EveryUseAnswered` |
| `outcome_shown` | the outcome alone | finding: `FailureIsShown` |
| `services` (3 088 000) | store: three jobs of two sessions, four events, two deletions, one crash, both backends. Cache: one thread, three keys, two places. Tiers: three keys, two values, two places in memory. Conversations: the command line and two chats, three messages, two remembered chats. Plans: four tasks, two at a time, of every kind. Life cycle: three messages, one pause, one start | `RestartLosesNothing`, `SequenceNeverReused`, `NothingLeftOfDeleted`, `ShownWhole`; `KeepsTheRecent` (the cache implements `LeastRecent`); `TiersHold`; `OneSessionPerKey`, `UpstreamKept`; `PlanIsAccountedFor`; `AnswersLeave` |
| `talk_lost` | conversations alone | finding: `EntriesKept` |

The type invariants, which say little of the code, are in none of the runs.
TLC has found each of those of the worker pool, channel, breaker, balancer,
dispatcher, questions and orchestrator to hold on the instance above; those of the pool, the
channel, the dispatcher and the orchestrator are theorems, the others are part of the
invariants of section 5.

Why these bounds. Two calls and a pool that is resized between one and two workers
have every race of the claim (a stale scan, a lost swap, a refusal, a removed or
stopped worker, a notification before the wait); a third call adds another waiter
in the same position. Three senders at capacity 2 are the least that overshoot by
two and the least that can block. Three routes are the least where the reset of the
rotation differs from going round, and two of them have messages of either priority, so that a route
can lose its place and keep messages; the bound n(n-1)/2 of `NoRouteStarves` is attained there. Two targets of weights 2 and 1 make a wheel that grows and shrinks with either;
two threads are the least where one has a copy the other makes stale. Two questions are
the least for a confusion of one with another, one
round for the limit, one restart for each point a restart can hit; ids and rounds beyond
repeat. Three sub-tasks have every shape of a
dependency (chain, fork, join, two- and three-cycle); a self dependency, the
shortest cycle, is left out. Two uses in a reply are the least whose order can be
wrong or of which one is suspended and one is not; a window of six is passed in the
second iteration, and by more than the results alone free. Two follow-ups let a fingerprint be repeated and
not. Two jobs of one session and one of another are the least for a deletion that
reaches too far; four events let one be recorded after a deletion, a crash and a start.
Three keys in two places are the least in which the wrong one can be evicted.
Two places for remembered chats and three chats are the least in which a chat is
evicted while a message of it waits. Four tasks, two at a time, have a group behind a
group, and a failure that puts the wanted number out of reach before the end and not.

The configurations set constants only. `IndexModulus` bounds the round-robin index by a
common multiple of the pool sizes; `MaxMessages`, `MaxCommands`, `MaxQuestions`, `MaxRestarts`,
`MaxUses`, `MaxSuspensions`, `MaxTexts`, `MaxAnswers`, `MaxEvents`, `MaxDeletes`,
`MaxCrashes`, `MaxStarts` and `limit`, `commands`, `faults` of the balancer's
configurations bound inputs; `MaxRounds`, `MaxIterations`, `Window`, `MaxSessions`,
`MaxHistory`, `MaxEntries`, `MaxInMemory` are the code's limits made small. The
counters of breaker and balancer stop at the largest value the code compares them with.
`CHECK_DEADLOCK FALSE` stands where the modelled system ends: the channel after its
messages, a stopped dispatcher, a settled job, a finished plan or turn, a stopped
runtime. The pool never stops and is checked for deadlock.

Every property of a passing run has a mutation of the code in `PROJECT.json` that makes
TLC find it violated.

## 4. Fairness

* `WorkerPool`: a thread inside `submit_task` and a worker thread go on (plain threads;
  the calls of the executor have time-outs and return or panic), and start and
  stop, once begun, finish. Nobody has to make a call.
* `BoundedChannel`: threads inside `send` go on and a receiver exists.
  Two senders need none (`TwoSendersAreFree`).
* `CircuitBreaker`: callers and the clock go on, and the trouble ends.
* `Balancer`: threads that dispatch go on, a cool-down ends, and a channel that failed
  works again. Nobody has to send heartbeats, add or remove.
* `Dispatcher`: the loops are launched and go on, and a back-off ends. The controller
  is free; `EveryMessageHandled` excuses a pause and an exited loop, in which the
  code means to stop.
* `QuestionLifecycle`: both threads go on (weak fairness). Strong fairness where
  an outcome is free and a failure for ever proves nothing about the code: a tool
  does not fail for ever, a block is not resolved automatically for ever (the code
  sets no limit: see the hazards), the user tries again, and the order of a HashMap
  does not go against the user's choice for ever.
* `Orchestrator`: its thread goes on, and the pool answers each submitted task or closes its
  channel, which is part of `CallsEnd`.
* `AgenticLoop`: the thread of a turn goes on, and the calls it makes return (the
  provider's have time-outs). The user need not answer: a suspended turn may stay so.
* `TurnOutcome`: the handler goes on; strong fairness of the step that makes a question
  of a blocked sub-task, for the same reason as in `QuestionLifecycle`.
* The parts of `MCServices` are checked for safety alone.

## 5. Proofs

TLAPS proves 41 theorems, in seven modules beside that of the lemmas, for every value of the
constants that satisfies the modules' assumptions. Each rests on an inductive invariant; what
it adds to the property is the point of the proof, and is said here. TLC has checked each
of these invariants on the instance of a run before it was proved.

* `WorkerPoolProofs` (the pool)
  - `TypeCorrectness`: `Spec => []TypeOK`.
  - `WorkerExclusion`: `Spec => []OneTaskPerWorker`. The property is not inductive: that
    a claim takes a worker of the pool, and a thread has one, is needed. The
    invariant is `Inv == TypeOK /\ PoolNeverEmpty /\ PoolCreated /\
    ThreadsHaveWorkers /\ OneTaskPerWorker`; the busy flag and the set of owners move
    together in `Claim` and `DropGuard` and in no other step.
  - `PoolKeepsWorkers`: `Spec => []PoolNeverEmpty`, from what growing and shrinking do to
    the vector.
  - `PoolAndWorkersAgree`: `Spec => []FlagsAgree`, with the flags of an administrative
    call that is half done added to the invariant (`FlagInv`).
  - `PoolImplementsDispatch`: `Spec => ImplementsDispatch`, the refinement of `TaskDispatch`.
    Every step maps to a step of it or to none; a lemma per action shows which. What has to be known of
    the state is `Inv` and that a reply fits the stage of its thread (`RepliesFit`).
  - `MetricsAreExact`: `Spec => []MetricsMatchAnswers` for finitely many calls. A count is
    compared with the cardinality of two sets, the answers given and those on the way,
    between which `Send` moves one call.
* `OutboundProofs` (dispatcher, balancer, channel, breaker)
  - `TypeCorrectness` and `EveryMessageHasOnePlace` of the dispatcher: `Spec => []OnePlace`. The invariant
    says of the whole structure of the queue that its lanes hold exactly the messages
    that are queued, each once, under its route and level, and no empty lane is listed (`Holds`), that a
    thread holds the message it took until the step that gives it up
    (`HandsHold`), and that a message is sent once for each retry (`SendsBounded`).
  - `NoLoadIsLeftBehind`: `BalancerSpec => []LoadHasAnOwner`, for finitely many threads. `LoadInv` bounds the load of a
    target by the threads that have counted it and not finished; removals, resets and targets
    added again with a load of zero only make the bound easier.
  - `OpenCircuitsShed`: `BalancerSpec => []OpenCircuitSheds`, for finitely many threads and at least one. `Sheds`
    adds to the sends an open circuit has had since it opened the threads that may still
    send to it, `Coming`: those that took their copies before it opened. A send
    moves one of them from one number to the other, and a selection that begins later finds the target
    excluded. `ShedTypes` adds what the strategies need, that a candidate comes from
    the filtered copy: for the wheel of weights this is the lemma `FlattenFull`.
  - `ChannelTypeCorrectness`.
  - `OvershootIsBounded`: the queue exceeds its capacity by less than the number of senders.
    The property is inductive because it counts the threads that have passed the length
    test and not yet sent.
  - `TwoSendersAreFree`: two senders never wait for a receiver.
  - `DropCounterIsExact`: `dropped` is the number of lost messages less the
    threads that have not counted theirs yet, at every step.
  - `EveryMessageIsSomewhere`: `ChannelSpec => []NothingLostUnseen`, with what a thread holds between two
    steps, and that nobody but a Sliding sender evicts (`PlaceInv`).
  - `EveryoneTakesTurns`: `RotationSpec /\ BalancerSpec => []TurnsAreShared`, from `NoRouteStarvesEver` and
    `TargetsTakeTurns`, for targets that start with different ids (they are an `IndexMap` by id).
    A route at place p of n, when the route at place c was served last, can still be
    passed (`PassesLeft`) by those between c and p, and, for each route ahead of it that may
    leave and make the rotation start again, by what is then ahead: `RotationInv` says that
    twice the times it has been passed and twice what is left add up to at most n(n - 1), under each
    step the sum does not grow (`PassesFall`).
    For the balancer `SelectInv` says that ids differ in the targets and in every copy
    of them (`Distinct`), what a thread reports of the copy it will choose from (`Agrees`:
    `EligibleAre` shows that the six reasons of `target_excluded_reasons` leave out exactly what the
    filters of `compute_selection` leave out, which are written independently),
    and that the shares are the numbers of places on the wheel in the window the cursor has
    gone through (`TurnsOK`, `WindowMoves`). The wheel of weights is a flattened sequence;
    that each id has its weight of places on it is `BlocksShare`, by `SequenceInduction`.
  - `OpenForItsTimeout`: `AloneSpec => [][Cooldown]_breakerVars`, for the breaker of calls that do not overlap.
    The trip time is set by a step of its own, so `BreakerInv` says that it is not older
    than the Open state except while a thread is setting it, and that a thread
    found the time-out over only if it was.
* `QuestionLifecycleProofs`
  - `AnswersActOnce`: `Spec => []OneUsePerOpening`. The invariant says that an open
    question has an opening left that nobody has used, but for the answering thread
    between the run of a tool and its record (`OpeningLeft`); that the
    answering thread acts on an open question (`AnswerHolds`); and, because a message
    thread that closed a question would break that, that it has either opened
    nothing yet, with nobody answering, or is on the way to store and never
    closes (`InboundShape`).
  - `AnswersGoWhereAsked`: `Spec => []ContinuedAsAsked`. `SourceInv` follows what a question is for through every
    place it is kept in: the record, the map, what a thread has read, and the
    answer on its way.
  - `OneQuestionAtATime`: `Spec => []OneOpenQuestion`. `QuietInv` says stage by stage which question may
    be open while a thread works for the job, and that a completed run has none.
* `OrchestratorProofs`
  - `PlanTypeCorrectness`; `DependenciesComeFirst`, `PlanTellsTheTruth` and
    `EachIsExecutedOnce`: `Spec => []DependenciesFirst`, `Spec => []ReportsWhatHappened`, `Spec => ExecutedOnce`. `PlanInv`
    relates the stack of the depth-first sort to what it has sorted (`Sound`), the groups to the
    order (`Divided`, `InOrder`), and each sub-task's record to the place the
    executing thread has reached (`Executed`). The first theorem holds where the
    dependencies name sub-tasks and have no cycle, as the property says.
* `AgentTurnProofs`
  - `ToolsRunOnceAsAllowed`: `Spec => []RunsOnceAsAllowed`, for a checker that does not just allow
    everything. `RulesDecide` shows by induction over the rules added that the
    head of the sorted list is the first added of the rules of the highest
    priority, which `Ruling` says without a list. `TurnInv` says that
    the uses named in the history have different ids, compaction or not; that a use that is
    asked for or not yet looked at has not been run (`NotRunYet`); and that
    a turn taken up again waits for such a use and has the user's word (`WaitsForUser`).
  - `HistoryAlwaysWhole`: `Spec => []HistoryIsWhole`, under any checker. The property speaks of the history, one
    part of it of the history as it was last sent; `HistoryInv` says both of both (`Good`),
    and that behind the reply whose tools are at work there are only results of uses before the
    cursor (`OpenReply`), whose ids increase. The proof is about the operators: what grows at its end
    (`Grown`, `ResultsJoin`), that clearing stops at the n-th assistant message from the end
    (`OldTurns`), and that filtering, which takes a group and passes on, has passed a
    request exactly when it has passed its results (`GoesBy`, `GoneStep`): it would not hold for a
    result with anything else between it and its request, which `Shaped` excludes.
  - `TheEndIsTold`: `OutcomeSpec => []EndShownTruly`. `OutcomeInv` says which of the job's records may
    say that it has ended at which place of the handler: none while it works or a question is
    open (`Live`), and in an order that the derivation of the status tolerates while the end is being
    written (`Ending`).
  - `EndsAreFinal`: `OutcomeSpec => EndedStays`, where the backend is the JSON snapshot, which the run checks it
    with. A start on SQLite comes without the hints and the execution summary, and an end that
    only these show is gone with them.
  - `InputsArriveAsSent`: `StreamSpec => []InputsAsSent`, where the adapter that makes up the numbers
    of the blocks has one call in a message and no text after it (`OneChunkedCall`; with more,
    fragments go to the wrong block, as the hazard at `openai_compat.rs:384` says). `StreamInv` says that the calls on the
    wire have rising indexes (`WireTypes`), that the accumulator holds at each index
    exactly what has been sent of its call, complete only where the block was ended
    (`Follows`), and what the adapter knows of its one call (`AdapterFits`). That the sorted complete blocks
    are calls in the order they began is a lemma about increasing sequences.
* `StorageProofs`
  - `DeletedStaysDeleted`, `NumbersAreKept`, `ListedJobsAreWhole`: `NothingLeftOfDeleted`,
    `SequenceNeverReused` and `ShownWhole` of the store. `StoreInv` says of a call that is half done
    what memory and disk still have and which writes are to come (`CallKnown`,
    `DeletionKnown`), for both backends, so that a restart at any point finds nothing of
    a deleted session.
  - `NothingIsLost`: `StoreSpec => []RestartLosesNothing`. `KeptInv` says what memory and disk agree on in
    the middle of a call: the tables have what memory will have when the call returns,
    from the write of its row on, and what it had before (`Remembered`); of a deletion memory has
    already lost what the tables are still to lose (`RowsLeft`, `NotesLeft`); the current turn of
    a run is not compared while the run of a recorded turn is owed (`TurnsUnknown`); the
    file is memory unless a save is to come (`FileAgrees`); and the index of every snapshot leads to
    each row an index rebuilt from the rows would lead to (`IndexKept`), which is why the answers
    depend on the rows alone (`AnswersSame`). That a message id is stored once is the
    recursion `Stored`; that appending, deleting and reloading commute with it are lemmas
    (`TableAppend`, `TableKeeps`, `TableSame`).
  - `TiersAlwaysHold`: `TierSpec => []TiersHold`, where files can be written (`~WritesFail`: a write that
    fails leaves the tiers apart, as the code logs).
  - `CacheKeepsTheRecent`: `CacheSpec => KeepsTheRecent`, the refinement of `LeastRecent`, with
    one thread, which is how the runtime uses the cache.
* `ServicesProofs`
  - `OneSessionEach` and `UpstreamIsKept`: `OneSessionPerKey` and `UpstreamKept` of the conversations. `TalkInv` says that the index by
    key leads to the sessions and that what a message in work knows of its
    chat is what the memory has, unless it was evicted.
  - `AnswersLeaveAtStop`: `RunSpec => [](starts <= 1 => AnswersLeave)`, where nobody sends the Shutdown signal. Both
    conditions are necessary: after that signal `stop` skips its joins, and a second
    start finds a closed bus (section 6).
  - `PlansAreAccountedFor`: `PlanSpec => []PlanIsAccountedFor`. `Accounted` says that groups are
    successive chunks, how many tasks are handed over and taken at each
    step, and that the counters are the numbers of the results taken.
* `SequenceLemmas` has what the proofs need of sequences: what `KeepOnly` leaves, appends,
  members and order. Induction over sequences is not a rule of the prover here; `SequenceInduction`
  is proved from the least counterexample, for a *set* of sequences, and so
  needs no operator as a parameter. `StepwiseExists` is the same for functions defined step by step, from
  which the defining equation of `Kept` and `Added` follows.

The assumptions of the proofs are the ASSUMEs of the modules (`PoolAssumption`, `ChannelAssumption`,
`QueueAssumption`, `DispatcherAssumption`, `LifecycleAssumption`, `PlanAssumption`,
`LoopAssumption`, `StreamAssumption`, `StoreAssumption`, `TierAssumption`, `CacheAssumption`, `TalkAssumption`,
`RunAssumption`, `BatchAssumption`), which TLC evaluates in
the runs: types of the parameters, finite sets where something is counted, positive
bounds. The hypotheses of single theorems are those named above. No other fact is taken on trust.

The runs show on small instances the same 32 properties that these theorems state.

Only model-checked:

* Every liveness property (`SendReturns`, `CircuitsClose`, `CallsEnd`, `EveryMessageHandled`,
  `QuestionsSettle`, `PlanEnds`, `TurnsEnd`): the prover has neither fairness nor ENABLED.

## 6. What the code does that its documentation does not say

Five disagreements are runs of their own, with the quoted lines in `PROJECT.json`:

* `question_blocked`: the answer to a blocked sub-task is continued as that of an
  upstream question.
* `orchestrator_blocked`: after a blocked sub-task, dependents of sub-tasks that never
  started are executed.
* `turn_unanswered`: a tool use can go to the provider without its result: pairing
  does not recognise the uses of the loop's own messages, merging makes two results
  unreadable, and a suspension drops the other outcomes of its segment.
* `outcome_shown`: a message whose session could not be made is shown as being prepared
  for ever.
* `talk_lost`: of two entries recorded at the same time for one chat, one is lost.

Others were met while modelling and have no run:

* A worker claimed by another call between scan and hand-off refuses at once, where
  the comment on `submit_task` has the call wait (`worker/core.rs:1197`). After a panic
  the status of a worker names its last task until the next one (`:1006` against `:28`).
* Three senders of a Sliding channel can wait for a receiver, although the comment at
  `bus/bounded.rs:136` says the extra slot avoids it. (`TwoSendersAreFree` holds.)
* `half_open_max_calls` bounds recorded successes, not admitted calls
  (`circuit_breaker.rs:144` against `:49`); with `success_threshold` above it HalfOpen never
  closes; and a caller that passed the time-out test late cuts an Open period short
  (`:183` against `:47`).
* The retry decision reads a diagnostic all threads share (`dispatcher/core.rs:136` against
  `:126`), and so does the reason of a missed selection (`:352`); `drain` ends while a retry
  is backing off (`:109`, `:112`); a dispatch under way undoes a pause or a stop (`:204`
  against the comment at `:409`).
* The rotation of the queue starts again at the first route when the one served last has nothing
  left of the priority that is served, but keeps less urgent messages (`dispatcher/queue.rs:201`): two
  routes that get urgent messages in turn starve a third one for good. The test
  `dispatch_queue_rotates_fairly_across_routes_with_same_priority` has one priority only, where
  `NoRouteStarves` holds.
* A cycle or an unknown dependency puts the dependents into one group
  (`orchestrator/core.rs:626` against `:602`), and a failing parallel group leaves records
  Running.
* A question is stored again after it was announced, and after an answer in between
  (`agent/upstream_resolution.rs:753`).
* A failed follow-up leaves a job "executing" and a direct plan "planning" for ever; the end of
  a permitted tool leaves its requirement waiting for the user; the status "error" of the
  agentic loop is recognised by nobody, and `RunStatus::Failed` is never written.
* The list of jobs drops the newest when it is full (`crates/anima-web/src/jobs.rs:141`).
* A question is a success and is cached (`agent/initial_execution.rs:282`): the same
  message gets the question of an earlier job.
* With SQLite a start does not find the projection hints, and a message id written a second
  time is refused (`runtime/event_emitter.rs:532`). Deleting a session leaves the
  coordinator's maps (`agent/facade.rs:183`).
* The session of a web chat is never found by its chat id (`channel/session.rs:169`), and what
  `ensure_context` evicts is the chat inserted first, not the one used least recently
  (`agent/core.rs:450` against `:442`).
* A batch that fails fast goes on after a failure whose text says "timed out", and
  counts it neither as failed nor as timed out (`orchestrator/parallel_pool.rs:214`).
* With two threads `LruCache::set` goes round its loop on a key the other has taken out until
  that one has finished (`cache/lru.rs:166`). `TieredStorage::get` promotes at a count that each
  access starts again, and `promote` deletes the file (`context/storage.rs`).
* An answer that arrives when the outbound thread has stopped waiting and not yet seen
  the bus closed is left behind; a Shutdown signal makes a later `stop` skip its joins; a start
  after a stop finds the bus closed.

## 7. What is not modelled

Transport, formatting, the text classifier, prompts, metrics totals and the built-in
tools are input and output or pure scoring of text. What a language model, a tool, the
upstream or the user says is chosen freely.

Left out of modelled parts: totals of `CircuitBreakerStats`, dispatcher reports and
statistics, the wording and payloads of events, projection hints, orchestration views, the
stop hook and the streaming callbacks, garbage collection and snapshots of the
`ContextManager`.

Not used by the rest of the repository, and left out for that: the data pipeline, `TtlCache`,
`StreamingToolExecutor`, the registry of `SpecialistPool` (nothing registers a specialist),
the scheduler in `tasks/`, whose functions sort a list, and `with_transaction` of
`anima-store`.

`worker/executor.rs` calls the SDK and the provider and is one step of a worker. The
decomposition by rules that `orchestrate()` starts with makes a plan of a text;
`PlanExecution` takes the plan's groups as given. `RuntimeLifecycle` starts once: a second start finds a closed bus.

Hazards without a property are listed in `PROJECT.json` with the reason.

## 8. Plan

What is left, most important first:

1. `QuestionLifecycle` with the results of `AgenticLoop` and `TurnOutcome` in the place of the free
   ones, and with two jobs, which the cached question needs.
2. `ResultCache` with values and two threads; a `TieredStorage` shared by threads; a write
   of a file that fails.
3. The registry of `SpecialistPool` and the snapshots of `ContextManager`, once
   something calls them.
