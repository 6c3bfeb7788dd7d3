----------------------------- MODULE AgenticLoop -----------------------------
(***************************************************************************)
(* One turn of the model-driven tool loop (execution/agentic_loop.rs): ask  *)
(* the provider, run the tools it requests (tools/execution.rs, under        *)
(* permissions/checker.rs and hooks/registry.rs), put the results into the   *)
(* history, ask again.  A tool that needs the user's permission suspends the *)
(* turn, and resume_suspended_tool_invocation takes it up again.             *)
(*                                                                         *)
(* The tools of a concurrency-safe segment run on threads of their own.  What *)
(* the provider, the tools, the hooks and the user reply is chosen freely.   *)
(* A message keeps its role, the tool uses or the result it holds, its       *)
(* weight in tokens and what compaction (messages/compact.rs) did to it.     *)
(***************************************************************************)
EXTENDS Integers, Retain, FiniteSets, FiniteSetsExt, SequencesExt

CONSTANTS Tool,             \* names the provider may ask for
          Registered, Safe, \* in the registry; is_concurrency_safe
          Mode, Rules, Policy,   \* the PermissionChecker
          MaxIterations,    \* AgenticLoopConfig::max_iterations
          Window, Buffer,   \* CompactConfig: threshold and buffer_tokens
          Keeps,            \* the values of preserve_recent_turns
          MaxUses,          \* bound: tool uses in one response
          MaxSuspensions    \* bound: suspensions of the turn

Decisions == {"allow", "deny", "ask"}
ASSUME LoopAssumption ==
    /\ Rules \in Seq([matches : SUBSET Tool, decision : Decisions, priority : Int])
    /\ Policy \in Decisions \cup {"none"}
    /\ MaxUses \in Nat /\ Keeps \subseteq Nat

VARIABLES
    config,      \* kind of turn; compaction, and the turns it keeps
    messages, iterations,
    cut,         \* truncated_text_parts is not empty
    pc,          \* where the turn is
    uses,        \* the tool uses of the current response, <<>> outside "tools"
    cursor,      \* the first use of the current segment
    inv,         \* the invocation record of every use of the current response
    suspended,   \* the use the turn waits for, or NoUse
    ran,         \* history: how often the tool of a use was called
    granted,     \* history: uses the user (or auto approval) allowed
    suspensions

vars == <<config, messages, iterations, cut, pc, uses, cursor, inv,
          suspended, ran, granted, suspensions>>

NoUse == 0
\* a first turn whose user is asked, or under ApprovalMode::Auto; a follow-up
Kinds == {"initial", "auto", "followup"}
Ended == {"completed", "orchestrated", "failed"}

\* InternalMsg, as far as the loop looks at it.  "use" is tool_use_id.
Message(role, us, use, weight) ==
    [role |-> role, uses |-> us, use |-> use, weight |-> weight,
     filtered |-> FALSE, cleared |-> FALSE]
UserMsg          == Message("user", <<>>, NoUse, 1)
\* build_assistant_msg sets no tool_use_id: the uses are in its blocks
AssistantMsg(us) == Message("assistant", us, NoUse, 1)
ResultMsg(u)     == Message("user", <<>>, u, 3)

IdleInv == [phase |-> "none", perm |-> "not_required"]

-----------------------------------------------------------------------------
(* Permissions.                                                            *)

\* Mutant: rules stay in the order they were added.
AppendRule(rules, rule) == Append(rules, rule)

\* add_rule: sorted by descending priority; the sort is stable
AddRule(rules, rule) ==
    KeepOnly(rules, {r \in Range(rules) : r.priority >= rule.priority}) \o <<rule>>
        \o KeepOnly(rules, {r \in Range(rules) : r.priority < rule.priority})

\* The checker's list after each rule that was added.
Added == LET added[n \in 0 .. Len(Rules)] ==
               IF n = 0 THEN <<>> ELSE AddRule(added[n - 1], Rules[n])
         IN  added

Matching(rules, tool) == KeepOnly(rules, {r \in Range(rules) : tool \in r.matches})

\* Mode "none" stands for a loop that has no checker.
HasPermission(tool) ==
    LET match == Matching(Added[Len(Rules)], tool) IN
    CASE Mode \in {"none", "allow_all"} -> "allow"
      [] Mode = "deny_all"              -> "deny"
      [] OTHER -> IF match # <<>> THEN Head(match).decision
                  ELSE IF Policy # "none" THEN Policy ELSE "ask"

-----------------------------------------------------------------------------
(* Compaction.                                                             *)

Weight(m) == IF m.cleared THEN 1 ELSE m.weight

\* The tokens of the messages at the places P that are not filtered.
Tokens(ms, P) == MapThenSumSet(LAMBDA i : IF ms[i].filtered THEN 0 ELSE Weight(ms[i]), P)
Total(ms) == Tokens(ms, DOMAIN ms)

IsResult(m) == m.role = "user" /\ m.use # NoUse

\* find_recent_turn_boundary: the n-th assistant message from the end; the
\* code protects everything when there are fewer, nothing when n is 0
Boundary(ms, n) ==
    LET spoke == {i \in DOMAIN ms : ms[i].role = "assistant"} IN
    IF n = 0 \/ ms = <<>> THEN Len(ms) + 1
    ELSE IF Cardinality(spoke) < n THEN 1
    ELSE CHOOSE i \in spoke : Cardinality({j \in spoke : j >= i}) = n

\* clear_old_tool_results
Cleared(ms, end) ==
    [i \in DOMAIN ms |->
        IF i < end /\ IsResult(ms[i]) /\ ~ms[i].filtered
        THEN [ms[i] EXCEPT !.cleared = TRUE] ELSE ms[i]]

\* Mutant: the results stay.
GroupAlone(ms, i, end) == {i}

\* The messages filtered together with message i: an assistant message takes
\* the results behind it along.
Group(ms, i, end) ==
    IF ms[i].role # "assistant" THEN {i}
    ELSE {i} \cup {j \in i + 1 .. end - 1 : \A k \in i + 1 .. j : IsResult(ms[k])}

\* filter_oldest_messages: groups from the oldest, but not the first message,
\* until enough is freed.  gone[i]: the places filtered by the time i is passed
FilterOldest(ms, end, target) ==
    LET gone[i \in DOMAIN ms] ==
          IF i = 1 THEN {}
          ELSE LET past == gone[i - 1] IN
               IF i < end /\ i \notin past /\ ~ms[i].filtered /\ Tokens(ms, past) < target
               THEN past \cup Group(ms, i, end) ELSE past
    IN  [k \in DOMAIN ms |-> IF k \in gone[Len(ms)] THEN [ms[k] EXCEPT !.filtered = TRUE]
                             ELSE ms[k]]

\* compact_if_needed; threshold is context_window * threshold_ratio
Compact(ms, n) ==
    LET total == Total(ms)
        end   == Boundary(ms, n)
        clear == Cleared(ms, end)
        freed == total - Total(clear)
    IN  IF total < Window THEN ms
        ELSE IF Total(clear) < Window THEN clear
        ELSE FilterOldest(clear, end, total - (Window - Buffer) - freed)

-----------------------------------------------------------------------------
(* The request.                                                            *)

\* ensure_tool_result_pairing: an assistant message that names a tool use
\* nobody answered gets an empty result behind it.
Pair(ms) ==
    LET open(i) == /\ ms[i].role = "assistant" /\ ms[i].use # NoUse
                   /\ \A j \in DOMAIN ms : IsResult(ms[j]) => ms[j].use # ms[i].use
        part(i) == IF open(i) THEN <<ms[i], ResultMsg(ms[i].use)>> ELSE <<ms[i]>>
    IN  IF \E i \in DOMAIN ms : open(i) THEN FlattenSeq([i \in DOMAIN ms |-> part(i)]) ELSE ms

Prepare(ms) == IF config.compact THEN Compact(Pair(ms), config.keep) ELSE Pair(ms)

\* normalize_messages_for_api merges neighbours of one role.  merge_content
\* puts two contents that are not both text into an array of arrays, whose
\* elements build_chat_request then reads as Json, not as results: only a
\* result that stands alone reaches the provider as one.
Alone(ms, i) == /\ i = 1 \/ ms[i - 1].role # ms[i].role
                /\ i = Len(ms) \/ ms[i + 1].role # ms[i].role
Legible(ms) ==
    LET visible == SelectSeq(ms, LAMBDA m : ~m.filtered)
    IN  {visible[i].use : i \in {j \in DOMAIN visible : IsResult(visible[j]) /\ Alone(visible, j)}}

\* The tool calls in the body of the request.
Requested(ms) == UNION {{ms[i].uses[k].id : k \in DOMAIN ms[i].uses} :
                            i \in {j \in DOMAIN ms : ~ms[j].filtered}}

-----------------------------------------------------------------------------
(* The loop.                                                               *)

Init ==
    /\ config \in [kind : Kinds, compact : BOOLEAN, keep : Keeps]
    /\ ~config.compact => config.keep = 1          \* preserve_recent_turns: default
    /\ messages = <<UserMsg>>
    /\ iterations = 0
    /\ cut = FALSE
    /\ pc = "loop"
    /\ uses = <<>> /\ cursor = 1 /\ inv = <<>>
    /\ suspended = NoUse
    /\ ran = <<>>
    /\ granted = {}
    /\ suspensions = 0

\* max_iterations is reached: the last assistant text is the answer
HitLimit ==
    /\ pc = "loop" /\ iterations >= MaxIterations
    /\ pc' = "completed"
    /\ UNCHANGED <<config, messages, iterations, cut, uses, cursor, inv,
                   suspended, ran, granted, suspensions>>

\* One request, and what the three kinds of reply have in common.
Call ==
    /\ pc = "loop" /\ iterations < MaxIterations
    /\ UNCHANGED <<config, suspended, granted, suspensions>>

\* The provider fails, or a stream breaks off (consume_stream_events).
ProviderFails ==
    /\ Call
    /\ pc' = "failed"
    /\ UNCHANGED <<messages, iterations, cut, uses, cursor, inv, ran>>

\* try_dispatch_as_orchestration: a first turn may take its final text for a
\* plan, and runs that
Finals == {"completed"} \cup (IF config.kind = "followup" THEN {} ELSE {"orchestrated"})

\* No tool uses: cut off by max_tokens, the loop asks for the rest; otherwise
\* this is the final text.
ReplyText ==
    LET ms == Prepare(messages) IN
    /\ Call
    /\ \/ /\ messages' = ms \o <<AssistantMsg(<<>>), UserMsg>>
          /\ cut' = TRUE
          /\ iterations' = iterations + 1
          /\ pc' = "loop"
       \/ /\ messages' = Append(ms, AssistantMsg(<<>>))
          /\ pc' \in Finals
          /\ iterations' = iterations + 1
          /\ UNCHANGED cut
    /\ UNCHANGED <<uses, cursor, inv, ran>>

\* Tool uses, with ids the provider has not used before (the bound: no more
\* questions to the user than MaxSuspensions).
Start(ms, tools) ==
    LET us == [k \in DOMAIN tools |-> [id |-> Len(ran) + k, tool |-> tools[k]]] IN
    /\ suspensions < MaxSuspensions \/ \A k \in DOMAIN tools : HasPermission(tools[k]) # "ask"
    /\ messages' = Append(ms, AssistantMsg(us))
    /\ uses' = us
    /\ inv' = [k \in DOMAIN us |-> IdleInv]
    /\ ran' = ran \o [k \in DOMAIN us |-> 0]

ReplyTools ==
    LET ms == Prepare(messages) IN
    /\ Call
    /\ \E n \in 1 .. MaxUses : \E tools \in [1 .. n -> Tool] : Start(ms, tools)
    /\ cursor' = 1
    /\ pc' = "tools"
    /\ UNCHANGED <<iterations, cut>>

\* is_tool_use_concurrency_safe, and the segment of equals behind the cursor
IsSafe(k) == uses[k].tool \in Registered /\ uses[k].tool \in Safe
Segment   == {k \in cursor .. Len(uses) : \A j \in cursor .. k : IsSafe(j) = IsSafe(cursor)}

\* Mutant: a use that waits for permission is not an outcome.
SettledByResult(k) == inv[k].phase \in {"completed", "failed"}

Settled(k) == inv[k].phase \in {"completed", "failed", "permission_requested"}

\* execute_single_tool up to the call.  In a safe segment every use has a
\* thread; in another one they go one after the other, and the ones behind a
\* use that waits for permission are still run.
MayStart(k) ==
    /\ pc = "tools" /\ k \in Segment /\ inv[k].phase = "none"
    /\ IsSafe(k) \/ \A j \in Segment : j < k => Settled(j)

\* run_tool_use: not in the registry, blocked by a pre-hook, or invalid input
Refuse(k) ==
    /\ MayStart(k)
    /\ inv' = [inv EXCEPT ![k].phase = "failed"]
    /\ UNCHANGED <<config, messages, iterations, cut, pc, uses, cursor,
                   suspended, ran, granted, suspensions>>

\* ... or the checker decides; an allowed call starts executing
Check(k) ==
    /\ MayStart(k) /\ uses[k].tool \in Registered
    /\ LET d == HasPermission(uses[k].tool) IN
       inv' = [inv EXCEPT ![k] =
            CASE d = "allow" -> [phase |-> "executing",
                                 perm |-> IF Mode = "none" THEN "not_required" ELSE "allowed"]
              [] d = "deny"  -> [phase |-> "failed", perm |-> "denied"]
              [] OTHER       -> [phase |-> "permission_requested", perm |-> "requested"]]
    /\ ran' = IF inv'[k].phase = "executing" THEN [ran EXCEPT ![uses[k].id] = @ + 1] ELSE ran
    /\ UNCHANGED <<config, messages, iterations, cut, pc, uses, cursor,
                   suspended, granted, suspensions>>

\* execute_tool_call: the call returns, and the post-hooks look at the result;
\* an error of the tool becomes an error result, which is not told apart.
Return(k) ==
    /\ pc = "tools" /\ inv[k].phase = "executing"
    /\ inv' = [inv EXCEPT ![k].phase = "completed"]
    /\ UNCHANGED <<config, messages, iterations, cut, pc, uses, cursor,
                   suspended, ran, granted, suspensions>>

Joined == pc = "tools" /\ \A k \in Segment : Settled(k)
Asking == {k \in Segment : inv[k].phase = "permission_requested"}
First(S) == CHOOSE k \in S : \A j \in S : k <= j

\* The records of a finished response are handed on with the results.
Forget == cursor' = 1 /\ uses' = <<>> /\ inv' = <<>>

\* Mutant: the results come in the order the threads end.
CollectUnsorted ==
    /\ Joined /\ Asking = {}
    /\ \E p \in SetToAllKPermutations(Segment) :
        /\ Len(p) = Cardinality(Segment)
        /\ messages' = messages \o [i \in DOMAIN p |-> ResultMsg(uses[p[i]].id)]
        /\ IF cursor + Len(p) <= Len(uses)
           THEN cursor' = cursor + Len(p) /\ UNCHANGED <<uses, inv, iterations, pc>>
           ELSE Forget /\ iterations' = iterations + 1 /\ pc' = "loop"
    /\ UNCHANGED <<config, cut, suspended, ran, granted, suspensions>>

\* All of the segment are back: the results go into the history in the order
\* of the uses.
Collect ==
    LET last == CHOOSE k \in Segment : \A j \in Segment : j <= k IN
    /\ Joined /\ Asking = {}
    /\ messages' = messages \o [i \in 1 .. last - cursor + 1 |-> ResultMsg(uses[cursor + i - 1].id)]
    /\ IF last < Len(uses)
       THEN cursor' = last + 1 /\ UNCHANGED <<uses, inv, iterations, pc>>
       ELSE Forget /\ iterations' = iterations + 1 /\ pc' = "loop"
    /\ UNCHANGED <<config, cut, suspended, ran, granted, suspensions>>

\* One of them waits for permission: the turn suspends on the first, and the
\* other outcomes of the segment are dropped.  A follow-up turn cannot
\* suspend (run_agentic_loop_for_followup).
Suspend ==
    /\ Joined /\ Asking # {}
    /\ IF config.kind = "followup"
       THEN pc' = "failed" /\ UNCHANGED <<suspended, suspensions>>
       ELSE /\ pc' = "suspended"
            /\ suspended' = First(Asking)
            /\ suspensions' = suspensions + 1
    /\ UNCHANGED <<config, messages, iterations, cut, uses, cursor, inv,
                   ran, granted>>

\* resume_suspended_tool_invocation with the user's verdict; automatic
\* approval allows at once.  The texts cut off so far were a local variable.
Verdict(allowed) ==
    /\ pc = "suspended" /\ (config.kind = "auto" => allowed)
    /\ granted' = IF allowed THEN granted \cup {uses[suspended].id} ELSE granted
    /\ cut' = FALSE
    /\ IF allowed
       THEN /\ pc' = "resumed"
            /\ inv' = [inv EXCEPT ![suspended].perm = "allowed"]
            /\ UNCHANGED <<messages, uses, cursor, suspended>>
       ELSE /\ pc' = "loop"
            /\ messages' = Append(messages, ResultMsg(uses[suspended].id))
            /\ Forget
            /\ suspended' = NoUse
    /\ UNCHANGED <<config, iterations, ran, suspensions>>

\* execute_tool_after_permission runs the hooks and the validation again and
\* calls the tool.  An error of it, a result in the first pass, fails the
\* turn here.  continue_agentic_loop starts again with the counters of the
\* suspension.
RunResumed(ok) ==
    LET id == uses[suspended].id IN
    /\ pc = "resumed"
    /\ \/ ran' = [ran EXCEPT ![id] = @ + 1]
       \/ ~ok /\ UNCHANGED ran                  \* blocked, invalid or not registered
    /\ IF ok
       THEN /\ pc' = "loop"
            /\ messages' = Append(messages, ResultMsg(id))
       ELSE /\ pc' = "failed"
            /\ UNCHANGED messages
    /\ Forget
    /\ suspended' = NoUse
    /\ UNCHANGED <<config, iterations, cut, granted, suspensions>>

Tools == \E k \in DOMAIN uses : Refuse(k) \/ Check(k) \/ Return(k)

Turn == HitLimit \/ ProviderFails \/ ReplyText \/ ReplyTools
            \/ Tools \/ Collect \/ Suspend
            \/ \E ok \in BOOLEAN : RunResumed(ok)

Answer == \E allowed \in BOOLEAN : Verdict(allowed)

Next == Turn \/ Answer

\* The thread of the turn and those of the tools keep running; the user need
\* not answer.
Spec == Init /\ [][Next]_vars /\ WF_vars(Turn)

-----------------------------------------------------------------------------
(* Properties.                                                             *)

\* The assistant message a result at position i answers.
Asker(ms, i) == LET before == {j \in 1 .. i - 1 : ms[j].role = "assistant"} IN
                CHOOSE j \in before : \A k \in before : k <= j

\* A result stands behind the assistant message that asked for it, in the order
\* of the requests, and no request has two: whatever order the threads of a
\* segment end in, and over suspensions (outcomes.sort_by_key).
ResultsInOrder ==
    \A i \in DOMAIN messages : IsResult(messages[i]) =>
        LET a   == Asker(messages, i)
            ids == {messages[a].uses[k].id : k \in DOMAIN messages[a].uses} IN
        /\ messages[i].use \in ids
        /\ \A j \in a + 1 .. i - 1 : IsResult(messages[j]) => messages[j].use < messages[i].use

\* The history behind the last request that was answered.
Sent == LET spoke == {i \in DOMAIN messages : messages[i].role = "assistant"} IN
        IF spoke = {} THEN <<>>
        ELSE SubSeq(messages, 1, (CHOOSE i \in spoke : \A j \in spoke : j <= i) - 1)

\* What compaction leaves of the history is still a conversation: the first
\* message of the user is there, a result is there exactly if the request is,
\* and the last turns are as they were (messages/compact.rs:187-190).
CompactedWhole ==
    LET sent == Sent IN
    sent # <<>> =>
        /\ ~sent[1].filtered
        /\ \A i \in DOMAIN sent : IsResult(sent[i]) =>
                sent[i].filtered = sent[Asker(sent, i)].filtered
        /\ \A i \in DOMAIN sent :
                Cardinality({j \in i .. Len(sent) : sent[j].role = "assistant"}) < config.keep
                    => ~sent[i].filtered /\ ~sent[i].cleared

\* What the provider is sent is a conversation: the results behind their
\* requests and in their order, and no part of it when it was compacted
\* (ResultsInOrder and CompactedWhole: run_loop, compact_if_needed).
HistoryIsWhole == ResultsInOrder /\ CompactedWhole

\* The tool a use names.
ToolOf(id) == LET i == CHOOSE i \in DOMAIN messages :
                        \E k \in DOMAIN messages[i].uses : messages[i].uses[k].id = id
              IN  messages[i].uses[CHOOSE k \in DOMAIN messages[i].uses :
                                        messages[i].uses[k].id = id].tool

\* What the rules say: the first added of those with the highest priority, or
\* else the policy.
Ruling(tool) ==
    LET match == {i \in DOMAIN Rules : tool \in Rules[i].matches}
        wins(i) == \A j \in match : \/ Rules[j].priority < Rules[i].priority
                                    \/ Rules[j].priority = Rules[i].priority /\ i <= j
    IN  IF match = {} THEN (IF Policy = "none" THEN "ask" ELSE Policy)
        ELSE Rules[CHOOSE i \in match : wins(i)].decision

\* A tool is called at most once for a use, over suspension and resumption, and
\* only where the rules allow it or the user did.
RunsOnceAsAllowed ==
    \A id \in DOMAIN ran :
        /\ ran[id] <= 1
        /\ ran[id] = 1 => Ruling(ToolOf(id)) = "allow" \/
                          (Ruling(ToolOf(id)) = "ask" /\ id \in granted)

\* The turn comes to an answer, to an error or to the user, whichever way the
\* tools of its segments end ("until the model gives its final answer or the
\* limit is reached", execution/agentic_loop.rs:808-809).
TurnEnds == pc \in {"loop", "tools", "resumed"} ~> pc \in Ended \cup {"suspended"}

\* messages/pairing.rs:4 "make sure every tool_use has its tool_result, supply
\* an empty one where it is missing": the request as the provider reads it.
EveryUseAnswered == Requested(Sent) \subseteq Legible(Sent)

=============================================================================
