----------------------- MODULE QuestionLifecycleProofs -----------------------
(***************************************************************************)
(* An answer is acted on once for each opening of its question, in the     *)
(* branch the question was asked for, and a job has one open question at a *)
(* time, for every number of questions, follow-up rounds and restarts.     *)
(*                                                                         *)
(* The argument for the first (the others are below): an open question has *)
(* an opening left that nobody has used, except while the answering thread *)
(* is between running the tool and recording that it has.  That thread     *)
(* acts only on a question that is open, which it is because the message   *)
(* thread closes no question once it has opened one.                       *)
(***************************************************************************)
EXTENDS QuestionLifecycle, FiniteSetTheorems, TLAPS

Statuses == {"none", "active", "resolved", "cleared"}

Locals == [q : Nat, src : AnySource, ans : Nat, asrc : AnySource, want : Nat,
           seen : [q : Nat, src : AnySource], stage : Stages,
           result : Results \cup {"none"}]

LifecycleTypes ==
    /\ susp \in [Questions -> [status : Statuses, src : AnySource]]
    /\ cache \in [q : Nat, src : AnySource]
    /\ pc \in [Threads -> Labels]
    /\ loc \in [Threads -> Locals]
    /\ opens \in [Questions -> Nat]
    /\ uses \in [Questions -> Nat]
    /\ restarts \in Nat

\* The message thread has opened nothing yet.
Early ==
    \/ pc["inbound"] \in {"idle", "plan", "continue", "followup", "clear_cache",
                          "clear_record", "complete"}
    \/ pc["inbound"] = "handle" /\ loc["inbound"].q = NoQ

\* It stores a question.
Late ==
    \/ /\ pc["inbound"] \in {"store", "cache"}
       /\ loc["inbound"].stage \in {"register", "suspend", "waiting"}
       /\ loc["inbound"].q # NoQ
    \/ /\ pc["inbound"] \in {"tool_record", "tool_invocation"}
       /\ loc["inbound"].stage = "suspend"
       /\ loc["inbound"].q # NoQ
    \/ /\ pc["inbound"] = "handle"
       /\ loc["inbound"].q # NoQ /\ loc["inbound"].result = "ask"
    \/ pc["inbound"] \in {"waiting", "done"}

InboundShape ==
    /\ Early \/ Late
    /\ Early => pc["answer"] = "idle" /\ \A q \in Questions : opens[q] = 0
    /\ pc["inbound"] \in {"clear_cache", "clear_record"} => loc["inbound"].stage = "complete"

\* The answering thread holds a question that is open.
AnswerHolds ==
    LET l == loc["answer"] IN
    /\ pc["answer"] \in {"look", "hydrate"} => l.want \in Questions
    /\ pc["answer"] = "hydrate" => l.seen.q \in Open \cup {NoQ}
    /\ pc["answer"] \in {"resolve", "tool"} => l.ans \in Open

\* The tool has been run for q, and the record does not say so yet.
Unrecorded(q) == pc["answer"] = "permitted" /\ loc["answer"].ans = q

OpeningLeft ==
    \A q \in Questions :
        /\ uses[q] <= opens[q] + restarts
        /\ q \in Open /\ ~Unrecorded(q) => uses[q] + 1 <= opens[q] + restarts

Inv == LifecycleTypes /\ InboundShape /\ AnswerHolds /\ OpeningLeft

-----------------------------------------------------------------------------
LEMMA MintedIsNat == Minted \in Nat
<1>1. IsFiniteSet(Questions)
  BY LifecycleAssumption, FS_Interval DEF Questions
<1>2. IsFiniteSet({q \in Questions : asked[q] # NoSource})
  BY <1>1, FS_Subset
<1>3. QED
  BY <1>2, FS_CardinalityType DEF Minted

\* A thread that is idle holds nothing.
LEMMA IdleIsTyped == Idle \in Locals /\ NoPending \in [q : Nat, src : AnySource]
BY DEF Idle, NoPending, NoQ, AnySource, Locals, Stages

LEMMA InitInv == Init => Inv
<1> SUFFICES ASSUME Init PROVE Inv
  OBVIOUS
<1>1. LifecycleTypes
  BY IdleIsTyped DEF Init, LifecycleTypes, AnySource, Statuses, Labels
<1>2. InboundShape
  BY DEF Init, InboundShape, Early, Threads
<1>3. AnswerHolds
  BY DEF Init, AnswerHolds, Threads
<1>4. OpeningLeft
  BY DEF Init, OpeningLeft, Open
<1>5. QED
  BY <1>1, <1>2, <1>3, <1>4 DEF Inv

\* A step that leaves the records alone.
LEMMA RecordsUnchanged ==
  ASSUME Inv, UNCHANGED <<susp, opens, uses, restarts>>,
         pc["answer"] = "permitted" =>
             pc'["answer"] = "permitted" /\ loc'["answer"].ans = loc["answer"].ans
  PROVE  OpeningLeft'
BY DEF Inv, OpeningLeft, Open, Unrecorded

\* A step that stores, resolves or clears a record.
LEMMA RecordUpserted ==
  ASSUME Inv, NEW q, NEW status, NEW src, Upsert(q, status, src),
         UNCHANGED <<uses, restarts>>,
         pc["answer"] = "permitted" /\ loc["answer"].ans \in Open' =>
             pc'["answer"] = "permitted" /\ loc'["answer"].ans = loc["answer"].ans
  PROVE  OpeningLeft'
<1> SUFFICES ASSUME NEW p \in Questions
             PROVE  /\ uses'[p] <= opens'[p] + restarts'
                    /\ p \in Open' /\ ~Unrecorded(p)' => uses'[p] + 1 <= opens'[p] + restarts'
  BY DEF OpeningLeft
<1>0. /\ uses[p] \in Nat /\ opens[p] \in Nat /\ restarts \in Nat
      /\ uses[p] <= opens[p] + restarts
      /\ p \in Open /\ ~Unrecorded(p) => uses[p] + 1 <= opens[p] + restarts
  BY DEF Inv, OpeningLeft, LifecycleTypes
<1>1. CASE p = q /\ status = "active" /\ p \notin Open
  BY <1>0, <1>1 DEF Inv, LifecycleTypes, Upsert
<1>2. CASE ~(p = q /\ status = "active" /\ p \notin Open)
  <2>1. opens'[p] = opens[p]
    BY <1>2 DEF Upsert
  <2>2. p \in Open' => p \in Open
    BY <1>2 DEF Upsert, Open
  <2>3. p \in Open' /\ Unrecorded(p) => Unrecorded(p)'
    BY DEF Unrecorded
  <2>4. QED
    BY <1>0, <2>1, <2>2, <2>3
<1>3. QED
  BY <1>1, <1>2

-----------------------------------------------------------------------------
\* An upsert keeps the types of what it writes.
LEMMA UpsertIsTyped ==
  ASSUME LifecycleTypes, NEW q, NEW status \in Statuses, NEW src \in AnySource,
         Upsert(q, status, src)
  PROVE  /\ susp' \in [Questions -> [status : Statuses, src : AnySource]]
         /\ opens' \in [Questions -> Nat]
<1>1. susp' \in [Questions -> [status : Statuses, src : AnySource]]
  BY DEF LifecycleTypes, Upsert
<1>2. CASE opens' = opens
  BY <1>1, <1>2 DEF LifecycleTypes
<1>3. CASE opens' = [opens EXCEPT ![q] = opens[q] + 1]
  <2>1. opens' = [p \in Questions |-> IF p = q THEN opens[p] + 1 ELSE opens[p]]
    BY <1>3 DEF LifecycleTypes
  <2>2. \A p \in Questions : opens[p] \in Nat /\ opens[p] + 1 \in Nat
    BY DEF LifecycleTypes
  <2>3. QED
    BY <1>1, <2>1, <2>2
<1>4. QED
  BY <1>2, <1>3 DEF Upsert

\* A step of the answering thread: the message thread has stored its question.
LEMMA AnswerKeepsShape ==
  ASSUME Inv, ~Early, pc'["inbound"] = pc["inbound"], loc'["inbound"] = loc["inbound"]
  PROVE  InboundShape'
BY DEF Inv, InboundShape, Early, Late

\* A step of the message thread closes nothing that is being answered.
LEMMA InboundKeepsAnswer ==
  ASSUME Inv, pc'["answer"] = pc["answer"], loc'["answer"] = loc["answer"],
         pc["answer"] = "idle" \/ Open \subseteq Open'
  PROVE  AnswerHolds'
BY DEF Inv, AnswerHolds

\* The answering thread stands where it needs no open question.
LEMMA AnswerElsewhere ==
  ASSUME pc'["answer"] \notin {"look", "hydrate", "resolve", "tool"}
  PROVE  AnswerHolds'
BY DEF AnswerHolds

\* The answering thread works only after the message thread's question.
LEMMA AnswerIsLate ==
  ASSUME Inv, pc["answer"] # "idle"
  PROVE  ~Early /\ Late
BY DEF Inv, InboundShape

\* What a thread is given when it returns is typed.
LEMMA ReturnIsTyped ==
  ASSUME LifecycleTypes, NEW t \in Threads, Return(t)
  PROVE  /\ pc' \in [Threads -> Labels] /\ loc' \in [Threads -> Locals]
BY IdleIsTyped DEF LifecycleTypes, Return, Goto, Labels

\* A thread's locals are written, and it moves on.
LEMMA LocalsAreTyped ==
  ASSUME LifecycleTypes, NEW t \in Threads, NEW l \in Locals,
         loc' = [loc EXCEPT ![t] = l]
  PROVE  loc' \in [Threads -> Locals]
BY DEF LifecycleTypes

\* What the handlers write to their locals.
LEMMA UpdatesAreTyped ==
  ASSUME LifecycleTypes, NEW t \in Threads
  PROVE  /\ \A r \in Results : [loc[t] EXCEPT !.result = r] \in Locals
         /\ \A s \in Stages : [loc[t] EXCEPT !.stage = s] \in Locals
         /\ \A c \in [q : Nat, src : AnySource] : [loc[t] EXCEPT !.seen = c] \in Locals
         /\ \A n \in Nat : [loc[t] EXCEPT !.want = n] \in Locals
         /\ \A n \in Nat, s \in AnySource :
               [loc[t] EXCEPT !.ans = n, !.asrc = s] \in Locals
         /\ \A r \in Results, n \in Nat, s \in AnySource :
               /\ [loc[t] EXCEPT !.result = r, !.q = n, !.src = s] \in Locals
               /\ [loc[t] EXCEPT !.result = r, !.q = n, !.src = s, !.ans = n, !.asrc = s] \in Locals
         /\ \A n \in Nat, s \in AnySource, c \in [q : Nat, src : AnySource] :
               [loc[t] EXCEPT !.ans = n, !.asrc = s, !.seen = c] \in Locals
<1>1. loc[t] \in Locals
  BY DEF LifecycleTypes
<1>2. /\ \A r \in Results : [loc[t] EXCEPT !.result = r] \in Locals
      /\ \A s \in Stages : [loc[t] EXCEPT !.stage = s] \in Locals
      /\ \A c \in [q : Nat, src : AnySource] : [loc[t] EXCEPT !.seen = c] \in Locals
      /\ \A n \in Nat : [loc[t] EXCEPT !.want = n] \in Locals
  BY <1>1 DEF Locals
<1>3. \A n \in Nat, s \in AnySource : [loc[t] EXCEPT !.ans = n, !.asrc = s] \in Locals
  BY <1>1 DEF Locals
<1>4. \A r \in Results, n \in Nat, s \in AnySource :
          [loc[t] EXCEPT !.result = r, !.q = n, !.src = s] \in Locals
  BY <1>1 DEF Locals
<1>5. \A r \in Results, n \in Nat, s \in AnySource :
          [loc[t] EXCEPT !.result = r, !.q = n, !.src = s, !.ans = n, !.asrc = s] \in Locals
  BY <1>1 DEF Locals
<1>6. \A n \in Nat, s \in AnySource, c \in [q : Nat, src : AnySource] :
          [loc[t] EXCEPT !.ans = n, !.asrc = s, !.seen = c] \in Locals
  BY <1>1 DEF Locals
<1>7. QED
  BY <1>2, <1>3, <1>4, <1>5, <1>6

LEMMA LabelsAreTyped ==
  ASSUME LifecycleTypes, NEW t \in Threads, NEW label \in Labels, Goto(t, label)
  PROVE  pc' \in [Threads -> Labels]
BY DEF LifecycleTypes, Goto

\* A question is asked under a typed id.
LEMMA AskIsTyped ==
  ASSUME LifecycleTypes, NEW t \in Threads, NEW src \in AnySource, NEW stage \in Stages,
         Ask(t, src, stage)
  PROVE  pc' \in [Threads -> Labels] /\ loc' \in [Threads -> Locals]
<1>1. loc[t] \in Locals
  BY DEF LifecycleTypes
<1>2. \A n \in Nat : [loc[t] EXCEPT !.q = n, !.src = src, !.stage = stage] \in Locals
  BY <1>1 DEF Locals
<1>3. "store" \in Labels
  BY DEF Labels
<1>4. Minted + 1 \in Nat
  BY MintedIsNat
<1>5. QED
  BY <1>2, <1>3, <1>4, LocalsAreTyped, LabelsAreTyped DEF Ask

\* A question asked by the message thread is stored late.
LEMMA AskIsLate ==
  ASSUME LifecycleTypes, NEW src, NEW stage \in {"register", "suspend", "waiting"},
         Ask("inbound", src, stage)
  PROVE  Late' /\ ~Early'
<1>1. pc'["inbound"] = "store"
  BY DEF LifecycleTypes, Ask, Goto, Threads
<1>2. loc'["inbound"].q = Minted + 1 /\ loc'["inbound"].stage = stage
  BY DEF LifecycleTypes, Ask, Threads
<1>3. Minted + 1 # NoQ
  BY MintedIsNat DEF NoQ
<1>4. QED
  BY <1>1, <1>2, <1>3 DEF Early, Late

\* A question that is read from the store is open.
LEMMA RebuiltIsOpen ==
  ASSUME LifecycleTypes, NEW s \in Rebuilt
  PROVE  s \in [q : Nat, src : AnySource] /\ s.q \in Open \cup {NoQ}
<1>1. CASE Open = {}
  BY <1>1, IdleIsTyped DEF Rebuilt, NoPending
<1>2. CASE Open # {}
  <2>1. PICK q \in Open : s = [q |-> q, src |-> RebuiltSource(q)]
    BY <1>2 DEF Rebuilt
  <2>2. q \in Nat
    BY DEF Open, Questions
  <2>3. RebuiltSource(q) \in AnySource
    BY DEF RebuiltSource, AnySource, Sources
  <2>4. QED
    BY <2>1, <2>2, <2>3
<1>3. QED
  BY <1>1, <1>2

\* An answer that is acted on is counted.
LEMMA UsesAreTyped ==
  ASSUME LifecycleTypes, NEW a \in Questions, uses' = [uses EXCEPT ![a] = @ + 1]
  PROVE  uses' \in [Questions -> Nat]
<1>1. uses[a] + 1 \in Nat
  BY DEF LifecycleTypes
<1>2. \A n \in Nat : [uses EXCEPT ![a] = n] \in [Questions -> Nat]
  BY DEF LifecycleTypes
<1>3. QED
  BY <1>1, <1>2

-----------------------------------------------------------------------------
(* The invariant, action by action.                                         *)

\* Storing a question.
LEMMA StoringInv ==
  ASSUME Inv, NEW t \in Threads, Storing(t)
  PROVE  Inv'
<1>1. CASE StoreRecord(t)
  <2>1. LifecycleTypes'
    BY <1>1, UpsertIsTyped
       DEF Inv, LifecycleTypes, Locals, Goto, Labels, Statuses, StoreRecord
  <2>2. InboundShape'
    BY <1>1 DEF Inv, InboundShape, Early, Late, Threads, Goto, StoreRecord
  <2>3. AnswerHolds'
    BY <1>1, AnswerElsewhere, InboundKeepsAnswer
       DEF Open, Goto, StoreRecord, Upsert
  <2>4. OpeningLeft'
    BY <1>1, RecordUpserted DEF Goto, StoreRecord
  <2>5. QED
    BY <2>1, <2>2, <2>3, <2>4 DEF Inv
<1>2. CASE StoreCache(t)
  <2>1. LifecycleTypes'
    BY <1>2, ReturnIsTyped
       DEF Inv, LifecycleTypes, Locals, Goto, Labels, StoreCache, store
  <2>2. InboundShape'
    BY <1>2
       DEF Inv, LifecycleTypes, InboundShape, Early, Late, Threads, Goto,
           StoreCache, Return
  <2>3. AnswerHolds'
    BY <1>2, AnswerElsewhere, InboundKeepsAnswer
       DEF Inv, LifecycleTypes, Open, Threads, Goto, StoreCache, store, Return
  <2>4. OpeningLeft'
    BY <1>2, RecordsUnchanged
       DEF Inv, LifecycleTypes, Threads, Goto, StoreCache, store, Return
  <2>5. QED
    BY <2>1, <2>2, <2>3, <2>4 DEF Inv
<1>3. CASE ToolRecord(t)
  <2>1. LifecycleTypes'
    BY <1>3, UpsertIsTyped
       DEF Inv, LifecycleTypes, Goto, Labels, Statuses, ToolRecord, AnySource,
           Sources
  <2>2. InboundShape'
    BY <1>3 DEF Inv, InboundShape, Early, Late, Threads, Goto, ToolRecord
  <2>3. AnswerHolds'
    BY <1>3, AnswerElsewhere, InboundKeepsAnswer
       DEF Open, Goto, ToolRecord, Upsert
  <2>4. OpeningLeft'
    BY <1>3, RecordUpserted DEF Goto, ToolRecord
  <2>5. QED
    BY <2>1, <2>2, <2>3, <2>4 DEF Inv
<1>4. CASE ToolInvocation(t)
  <2>1. LifecycleTypes'
    <3>1. [loc[t] EXCEPT !.result = "ask"] \in Locals
      BY UpdatesAreTyped DEF Inv, Results
    <3>2. loc' \in [Threads -> Locals] /\ pc' \in [Threads -> Labels]
      <4>1. CASE loc[t].stage = "suspend"
        BY <1>4, <3>1, <4>1, LocalsAreTyped, LabelsAreTyped
           DEF Inv, ToolInvocation, Labels
      <4>2. CASE loc[t].stage # "suspend"
        BY <1>4, <4>2, LabelsAreTyped
           DEF Inv, LifecycleTypes, ToolInvocation, Labels
      <4>3. QED
        BY <4>1, <4>2
    <3>3. QED
      BY <1>4, <3>2 DEF Inv, LifecycleTypes, ToolInvocation
  <2>2. InboundShape'
    <3>1. CASE t = "answer"
      BY <1>4, <3>1, AnswerKeepsShape, AnswerIsLate
         DEF Inv, LifecycleTypes, Threads, Goto, ToolInvocation
    <3>2. CASE t = "inbound"
      <4>1. Late /\ ~Early /\ loc["inbound"].stage = "suspend"
        BY <1>4, <3>2 DEF Inv, InboundShape, Early, Late, ToolInvocation
      <4>2. loc'["inbound"].q # NoQ /\ loc'["inbound"].result = "ask"
        BY <1>4, <3>2, <4>1
           DEF Inv, LifecycleTypes, Locals, Late, ToolInvocation
      <4>3. pc'["inbound"] = "handle"
        BY <1>4, <3>2, <4>1 DEF Inv, LifecycleTypes, Goto, ToolInvocation
      <4>4. QED
        BY <4>2, <4>3 DEF InboundShape, Early, Late
    <3>3. QED
      BY <3>1, <3>2 DEF Threads
  <2>3. AnswerHolds'
    BY <1>4, AnswerElsewhere, InboundKeepsAnswer
       DEF Inv, LifecycleTypes, Open, Threads, Goto, ToolInvocation
  <2>4. OpeningLeft'
    BY <1>4, RecordsUnchanged
       DEF Inv, LifecycleTypes, Threads, Goto, ToolInvocation, store, hist
  <2>5. QED
    BY <2>1, <2>2, <2>3, <2>4 DEF Inv
<1>5. CASE Waiting(t)
  <2>1. LifecycleTypes'
    BY <1>5, ReturnIsTyped DEF Inv, LifecycleTypes, Waiting
  <2>2. InboundShape'
    BY <1>5 DEF Inv, InboundShape, Early, Late, Goto, Waiting, Return
  <2>3. AnswerHolds'
    BY <1>5, AnswerElsewhere, InboundKeepsAnswer DEF Open, Goto, Waiting, Return
  <2>4. OpeningLeft'
    BY <1>5, RecordsUnchanged DEF Goto, Waiting, store, hist, Return
  <2>5. QED
    BY <2>1, <2>2, <2>3, <2>4 DEF Inv
<1>6. QED
  BY <1>1, <1>2, <1>3, <1>4, <1>5 DEF Storing

\* Completing the job.
LEMMA CompletingInv ==
  ASSUME Inv, NEW t \in Threads, Completing(t)
  PROVE  Inv'
<1>1. CASE ClearCache(t)
  <2>1. LifecycleTypes'
    <3>1. [loc[t] EXCEPT !.seen = cache] \in Locals
      BY UpdatesAreTyped DEF Inv, LifecycleTypes
    <3>2. loc' \in [Threads -> Locals] /\ pc' \in [Threads -> Labels]
      BY <1>1, <3>1, LocalsAreTyped, LabelsAreTyped DEF Inv, ClearCache, Labels
    <3>3. QED
      BY <1>1, <3>2, IdleIsTyped
         DEF Inv, LifecycleTypes, ClearCache, store, hist
  <2>2. InboundShape'
    BY <1>1, AnswerKeepsShape
       DEF Inv, InboundShape, Early, Goto, ClearCache, hist
  <2>3. AnswerHolds'
    BY <1>1, AnswerElsewhere
       DEF Inv, InboundShape, Early, Threads, Goto, ClearCache
  <2>4. OpeningLeft'
    BY <1>1, RecordsUnchanged DEF Goto, ClearCache, store, hist
  <2>5. QED
    BY <2>1, <2>2, <2>3, <2>4 DEF Inv
<1>2. CASE ClearRecord(t)
  <2>1. LifecycleTypes'
    BY <1>2, UpsertIsTyped
       DEF Inv, LifecycleTypes, Goto, Labels, Statuses, ClearRecord, AnySource,
           Sources
  <2>2. InboundShape'
    BY <1>2, AnswerKeepsShape
       DEF Inv, InboundShape, Early, Goto, ClearRecord, Upsert
  <2>3. AnswerHolds'
    BY <1>2, AnswerElsewhere
       DEF Inv, InboundShape, Early, Threads, Goto, ClearRecord
  <2>4. OpeningLeft'
    <3>1. pc["answer"] = "permitted" =>
              pc'["answer"] = "permitted" /\ loc'["answer"].ans = loc["answer"].ans
      BY <1>2 DEF Goto, ClearRecord
    <3>2. PICK c : IF c = NoPending THEN UNCHANGED <<susp, opens>>
                   ELSE Upsert(c.q, "cleared", IF c.src = "blocked" THEN c.src ELSE "upstream")
      BY <1>2 DEF ClearRecord
    <3>3. CASE c = NoPending
      BY <1>2, <3>1, <3>2, <3>3, RecordsUnchanged DEF ClearRecord
    <3>4. CASE c # NoPending
      BY <1>2, <3>1, <3>2, <3>4, RecordUpserted DEF ClearRecord
    <3>5. QED
      BY <3>3, <3>4
  <2>5. QED
    BY <2>1, <2>2, <2>3, <2>4 DEF Inv
<1>3. CASE ClearTool(t)
  <2>1. LifecycleTypes'
    BY <1>3, UpsertIsTyped, ReturnIsTyped
       DEF Inv, LifecycleTypes, Goto, Labels, Statuses, ClearTool, AnySource,
           Sources
  <2>2. InboundShape'
    BY <1>3
       DEF Inv, LifecycleTypes, InboundShape, Early, Late, Threads, Goto,
           ClearTool, Return
  <2>3. AnswerHolds'
    BY <1>3, AnswerElsewhere
       DEF Inv, LifecycleTypes, InboundShape, Late, Threads, Goto, ClearTool,
           Return
  <2>4. OpeningLeft'
    <3>1. pc["answer"] = "permitted" =>
              pc'["answer"] = "permitted" /\ loc'["answer"].ans = loc["answer"].ans
      BY <1>3 DEF Inv, LifecycleTypes, Threads, Goto, ClearTool, Return
    <3>2. CASE Upsert(loc[t].ans, "cleared", "tool")
      BY <1>3, <3>1, <3>2, RecordUpserted DEF ClearTool
    <3>3. CASE UNCHANGED <<susp, opens>>
      BY <1>3, <3>1, <3>3, RecordsUnchanged DEF ClearTool
    <3>4. QED
      BY <1>3, <3>2, <3>3 DEF ClearTool
  <2>5. QED
    BY <2>1, <2>2, <2>3, <2>4 DEF Inv
<1>4. CASE Complete(t)
  <2>1. LifecycleTypes'
    BY <1>4, ReturnIsTyped DEF Inv, LifecycleTypes, Complete, hist
  <2>2. InboundShape'
    BY <1>4
       DEF Inv, LifecycleTypes, InboundShape, Early, Late, Threads, Goto,
           Complete, Return
  <2>3. AnswerHolds'
    BY <1>4, AnswerElsewhere, InboundKeepsAnswer
       DEF Open, Goto, Complete, Return
  <2>4. OpeningLeft'
    BY <1>4, RecordsUnchanged DEF Goto, Complete, store, hist, Return
  <2>5. QED
    BY <2>1, <2>2, <2>3, <2>4 DEF Inv
<1>5. QED
  BY <1>1, <1>2, <1>3, <1>4 DEF Completing

\* Executing the plan and handling its result.
LEMMA HandlingInv ==
  ASSUME Inv, NEW t \in Threads, Handling(t)
  PROVE  Inv'
<1>1. CASE ToolSuspends(t)
  <2>1. LifecycleTypes'
    BY <1>1, AskIsTyped
       DEF Inv, LifecycleTypes, Stages, ToolSuspends, store, AnySource, Sources
  <2>2. InboundShape'
    <3>1. CASE t = "answer"
      BY <1>1, <3>1, AnswerKeepsShape, AnswerIsLate DEF Goto, Ask, ToolSuspends
    <3>2. CASE t = "inbound"
      <4>1. Ask("inbound", "tool", "suspend")
        BY <1>1, <3>2 DEF ToolSuspends
      <4>2. pc'["inbound"] = "store"
        BY <4>1 DEF Inv, LifecycleTypes, Ask, Goto, Threads
      <4>3. QED
        BY <4>1, <4>2, AskIsLate DEF Inv, InboundShape
    <3>3. QED
      BY <3>1, <3>2 DEF Threads
  <2>3. AnswerHolds'
    BY <1>1, AnswerElsewhere
       DEF Inv, InboundShape, Late, Threads, Goto, ToolSuspends, Ask
  <2>4. OpeningLeft'
    BY <1>1, RecordsUnchanged DEF Goto, Ask, store, ToolSuspends
  <2>5. QED
    BY <2>1, <2>2, <2>3, <2>4 DEF Inv
<1>2. CASE UpstreamFails(t)
  <2>1. LifecycleTypes'
    BY <1>2, ReturnIsTyped DEF Inv, LifecycleTypes, UpstreamFails, store, hist
  <2>2. InboundShape'
    BY <1>2
       DEF Inv, LifecycleTypes, InboundShape, Early, Late, Threads, Goto,
           UpstreamFails, Return
  <2>3. AnswerHolds'
    BY <1>2, AnswerElsewhere
       DEF Inv, InboundShape, Late, Threads, Goto, UpstreamFails, Return
  <2>4. OpeningLeft'
    BY <1>2, RecordsUnchanged DEF Goto, UpstreamFails, store, hist, Return
  <2>5. QED
    BY <2>1, <2>2, <2>3, <2>4 DEF Inv
<1>3. CASE \E r \in Results : UpstreamReturns(t, r)
  <2>1. LifecycleTypes'
    <3>1. PICK r \in Results : UpstreamReturns(t, r)
      BY <1>3
    <3>2. [loc[t] EXCEPT !.result = r, !.q = NoQ, !.src = NoSource] \in Locals
      BY UpdatesAreTyped DEF Inv, AnySource, NoQ
    <3>3. loc' \in [Threads -> Locals] /\ pc' \in [Threads -> Labels]
      BY <3>1, <3>2, LocalsAreTyped, LabelsAreTyped
         DEF Inv, UpstreamReturns, Labels
    <3>4. QED
      BY <3>1, <3>3 DEF Inv, LifecycleTypes, UpstreamReturns, store, hist
  <2>2. InboundShape'
    BY <1>3
       DEF Inv, LifecycleTypes, InboundShape, Early, Late, Goto, hist,
           UpstreamReturns
  <2>3. AnswerHolds'
    BY <1>3, AnswerElsewhere
       DEF Inv, InboundShape, Late, Threads, Goto, UpstreamReturns
  <2>4. OpeningLeft'
    BY <1>3, RecordsUnchanged DEF Goto, store, hist, UpstreamReturns
  <2>5. QED
    BY <2>1, <2>2, <2>3, <2>4 DEF Inv
<1>4. CASE \E r \in Results : Followup(t, r)
  <2>1. LifecycleTypes'
    <3>1. PICK r \in Results : Followup(t, r)
      BY <1>4
    <3>2. [loc[t] EXCEPT !.result = r, !.q = NoQ, !.src = NoSource,
                           !.ans = NoQ, !.asrc = NoSource] \in Locals
      BY UpdatesAreTyped DEF Inv, AnySource, NoQ
    <3>3. loc' \in [Threads -> Locals] /\ pc' \in [Threads -> Labels]
      BY <3>1, <3>2, LocalsAreTyped, LabelsAreTyped DEF Inv, Followup, Labels
    <3>4. QED
      BY <3>1, <3>3 DEF Inv, LifecycleTypes, Followup, hist
  <2>2. InboundShape'
    BY <1>4, AnswerKeepsShape
       DEF Inv, LifecycleTypes, InboundShape, Early, Goto, hist, Followup
  <2>3. AnswerHolds'
    BY <1>4, AnswerElsewhere, InboundKeepsAnswer DEF Open, Goto, Followup
  <2>4. OpeningLeft'
    BY <1>4, RecordsUnchanged DEF Goto, store, hist, Followup
  <2>5. QED
    BY <2>1, <2>2, <2>3, <2>4 DEF Inv
<1>5. CASE AutoResolve(t)
  <2>1. LifecycleTypes'
    <3>1. [loc[t] EXCEPT !.ans = NoQ, !.asrc = NoSource] \in Locals
      BY UpdatesAreTyped DEF Inv, AnySource, NoQ
    <3>2. loc' \in [Threads -> Locals] /\ pc' \in [Threads -> Labels]
      BY <1>5, <3>1, LocalsAreTyped, LabelsAreTyped DEF Inv, AutoResolve, Labels
    <3>3. QED
      BY <1>5, <3>2 DEF Inv, LifecycleTypes, AutoResolve, store, hist
  <2>2. InboundShape'
    BY <1>5 DEF Inv, InboundShape, Early, Late, Goto, AutoResolve, hist
  <2>3. AnswerHolds'
    BY <1>5, AnswerElsewhere
       DEF Inv, InboundShape, Late, Threads, Goto, AutoResolve
  <2>4. OpeningLeft'
    BY <1>5, RecordsUnchanged DEF Goto, AutoResolve, store, hist
  <2>5. QED
    BY <2>1, <2>2, <2>3, <2>4 DEF Inv
<1>6. CASE RegisterBlocked(t)
  <2>1. LifecycleTypes'
    BY <1>6, AskIsTyped
       DEF Inv, LifecycleTypes, Stages, RegisterBlocked, store, AnySource,
           Sources
  <2>2. InboundShape'
    <3>1. CASE t = "answer"
      BY <1>6, <3>1, AnswerKeepsShape, AnswerIsLate
         DEF Goto, Ask, RegisterBlocked
    <3>2. CASE t = "inbound"
      <4>1. Ask("inbound", "blocked", "register")
        BY <1>6, <3>2 DEF RegisterBlocked
      <4>2. pc'["inbound"] = "store"
        BY <4>1 DEF Inv, LifecycleTypes, Ask, Goto, Threads
      <4>3. QED
        BY <4>1, <4>2, AskIsLate DEF Inv, InboundShape
    <3>3. QED
      BY <3>1, <3>2 DEF Threads
  <2>3. AnswerHolds'
    BY <1>6, AnswerElsewhere
       DEF Inv, InboundShape, Late, Threads, Goto, RegisterBlocked, Ask
  <2>4. OpeningLeft'
    BY <1>6, RecordsUnchanged DEF Goto, Ask, store, RegisterBlocked
  <2>5. QED
    BY <2>1, <2>2, <2>3, <2>4 DEF Inv
<1>7. CASE HandleResult(t)
  <2>1. LifecycleTypes'
    <3>1. loc' \in [Threads -> Locals] /\ pc' \in [Threads -> Labels]
      <4>1. CASE loc[t].result = "complete"
        <5>1. [loc[t] EXCEPT !.stage = "complete"] \in Locals
          BY UpdatesAreTyped DEF Inv, Stages
        <5>2. QED
          BY <1>7, <4>1, <5>1, LocalsAreTyped, LabelsAreTyped
             DEF Inv, HandleResult, Labels
      <4>2. CASE loc[t].result = "ask" /\ loc[t].q = NoQ
        BY <1>7, <4>2, AskIsTyped
           DEF Inv, HandleResult, AnySource, Sources, Stages
      <4>3. CASE loc[t].result = "ask" /\ loc[t].q # NoQ
        <5>1. [loc[t] EXCEPT !.stage = "waiting"] \in Locals
          BY UpdatesAreTyped DEF Inv, Stages
        <5>2. QED
          BY <1>7, <4>3, <5>1, LocalsAreTyped, LabelsAreTyped
             DEF Inv, HandleResult, Labels
      <4>4. CASE loc[t].result = "followup"
        BY <1>7, <4>4, LabelsAreTyped
           DEF Inv, LifecycleTypes, HandleResult, Labels
      <4>5. QED
        BY <1>7, <4>1, <4>2, <4>3, <4>4 DEF HandleResult
    <3>2. QED
      BY <1>7, <3>1 DEF Inv, LifecycleTypes, HandleResult
  <2>2. InboundShape'
    <3>1. CASE t = "answer"
      BY <1>7, <3>1, AnswerKeepsShape, AnswerIsLate
         DEF Inv, LifecycleTypes, Threads, Goto, Ask, HandleResult
    <3>2. CASE t = "inbound" /\ loc[t].result = "ask" /\ loc[t].q = NoQ
      <4>1. Ask("inbound", "upstream", "waiting")
        BY <1>7, <3>2 DEF HandleResult
      <4>2. pc'["inbound"] = "store"
        BY <4>1 DEF Inv, LifecycleTypes, Ask, Goto, Threads
      <4>3. QED
        BY <4>1, <4>2, AskIsLate DEF Inv, InboundShape
    <3>3. CASE t = "inbound" /\ loc[t].result = "ask" /\ loc[t].q # NoQ
      <4>1. pc'["inbound"] = "store" /\ loc'["inbound"].stage = "waiting"
            /\ loc'["inbound"].q # NoQ
        BY <1>7, <3>3 DEF Inv, LifecycleTypes, Locals, Goto, HandleResult
      <4>2. QED
        BY <4>1 DEF InboundShape, Early, Late
    <3>4. CASE t = "inbound" /\ loc[t].result \in {"complete", "followup"}
      <4>1. Early
        BY <1>7, <3>4 DEF Inv, InboundShape, Late, HandleResult
      <4>2. /\ pc'["inbound"] \in {"clear_cache", "followup"}
            /\ pc'["inbound"] = "clear_cache" => loc'["inbound"].stage = "complete"
        BY <1>7, <3>4 DEF Inv, LifecycleTypes, Locals, Goto, HandleResult
      <4>3. pc'["answer"] = pc["answer"]
        BY <1>7, <3>4 DEF Inv, LifecycleTypes, Goto, Threads, HandleResult
      <4>4. QED
        BY <1>7, <4>1, <4>2, <4>3 DEF Inv, InboundShape, Early, HandleResult
    <3>5. QED
      BY <1>7, <3>1, <3>2, <3>3, <3>4 DEF HandleResult, Threads
  <2>3. AnswerHolds'
    BY <1>7, AnswerElsewhere, InboundKeepsAnswer
       DEF Inv, LifecycleTypes, Open, Threads, Goto, HandleResult, Ask
  <2>4. OpeningLeft'
    <3>1. pc["answer"] = "permitted" => t = "inbound"
      BY <1>7 DEF HandleResult, Threads
    <3>2. t = "inbound" => pc'["answer"] = pc["answer"] /\ loc'["answer"] = loc["answer"]
      BY <1>7 DEF Inv, LifecycleTypes, Threads, Goto, Ask, HandleResult
    <3>3. QED
      BY <1>7, <3>1, <3>2, RecordsUnchanged DEF HandleResult
  <2>5. QED
    BY <2>1, <2>2, <2>3, <2>4 DEF Inv
<1>8. CASE FollowupEnds(t)
  <2>1. LifecycleTypes'
    BY <1>8, ReturnIsTyped DEF Inv, LifecycleTypes, FollowupEnds, hist
  <2>2. InboundShape'
    BY <1>8
       DEF Inv, LifecycleTypes, InboundShape, Early, Late, Threads, Goto,
           FollowupEnds, Return
  <2>3. AnswerHolds'
    BY <1>8, AnswerElsewhere, InboundKeepsAnswer
       DEF Open, Goto, FollowupEnds, Return
  <2>4. OpeningLeft'
    BY <1>8, RecordsUnchanged DEF Goto, FollowupEnds, store, hist, Return
  <2>5. QED
    BY <2>1, <2>2, <2>3, <2>4 DEF Inv
<1>9. QED
  BY <1>1, <1>2, <1>3, <1>4, <1>5, <1>6, <1>7, <1>8 DEF Handling

\* Answering.
LEMMA AnsweringInv ==
  ASSUME Inv, Answering
  PROVE  Inv'
<1>1. CASE \E s \in Rebuilt : Look(s)
  <2>1. LifecycleTypes'
    <3>1. PICK s \in Rebuilt : Look(s)
      BY <1>1
    <3>2. [loc["answer"] EXCEPT !.seen = s] \in Locals
      BY RebuiltIsOpen, UpdatesAreTyped DEF Inv, Threads
    <3>3. loc' \in [Threads -> Locals] /\ pc' \in [Threads -> Labels]
      BY <3>1, <3>2, LocalsAreTyped, LabelsAreTyped
         DEF Inv, Look, Threads, Labels
    <3>4. QED
      BY <3>1, <3>3 DEF Inv, LifecycleTypes, Look, store, hist
  <2>2. InboundShape'
    BY <1>1, AnswerKeepsShape, AnswerIsLate DEF Goto, Look
  <2>3. AnswerHolds'
    <3>1. PICK s \in Rebuilt : Look(s)
      BY <1>1
    <3>2. s.q \in Open \cup {NoQ}
      BY RebuiltIsOpen DEF Inv
    <3>3. /\ pc'["answer"] = "hydrate" /\ loc'["answer"].seen = s
          /\ loc'["answer"].want = loc["answer"].want
      BY <3>1 DEF Inv, LifecycleTypes, Goto, Threads, Look
    <3>4. QED
      BY <3>1, <3>2, <3>3 DEF Inv, AnswerHolds, Look, store, Open
  <2>4. OpeningLeft'
    BY <1>1, RecordsUnchanged DEF store, hist, Look
  <2>5. QED
    BY <2>1, <2>2, <2>3, <2>4 DEF Inv
<1>2. CASE Hydrate
  <2>1. LifecycleTypes'
    <3>1. loc' \in [Threads -> Locals] /\ pc' \in [Threads -> Labels]
      <4>1. CASE loc["answer"].seen.q # loc["answer"].want
        BY <1>2, <4>1, ReturnIsTyped DEF Inv, Hydrate, Threads
      <4>2. CASE loc["answer"].seen.q = loc["answer"].want
        <5>1. loc["answer"].seen \in [q : Nat, src : AnySource]
          BY DEF Inv, LifecycleTypes, Locals, Threads
        <5>2. [loc["answer"] EXCEPT !.ans = loc["answer"].seen.q, !.asrc = loc["answer"].seen.src,
                                   !.seen = NoPending] \in Locals
          BY <5>1, IdleIsTyped, UpdatesAreTyped DEF Inv, Threads
        <5>3. QED
          BY <1>2, <4>2, <5>2, LocalsAreTyped, LabelsAreTyped
             DEF Inv, Hydrate, Threads, Labels
      <4>3. QED
        BY <4>1, <4>2
    <3>2. cache' \in [q : Nat, src : AnySource]
      BY <1>2 DEF Inv, LifecycleTypes, Locals, Threads, Hydrate
    <3>3. QED
      BY <1>2, <3>1, <3>2 DEF Inv, LifecycleTypes, Hydrate, store, hist
  <2>2. InboundShape'
    BY <1>2, AnswerKeepsShape, AnswerIsLate
       DEF Inv, LifecycleTypes, Threads, Goto, Hydrate, Return
  <2>3. AnswerHolds'
    <3>1. CASE loc["answer"].seen.q # loc["answer"].want
      <4>1. pc'["answer"] = "idle"
        BY <1>2, <3>1 DEF Inv, LifecycleTypes, Threads, Return, Goto, Hydrate
      <4>2. QED
        BY <4>1, AnswerElsewhere
    <3>2. CASE loc["answer"].seen.q = loc["answer"].want
      <4>1. /\ pc'["answer"] \in {"permit", "resolve"}
            /\ loc'["answer"].ans = loc["answer"].seen.q
        <5>1. loc'["answer"] = [loc["answer"] EXCEPT !.ans = loc["answer"].seen.q,
                                   !.asrc = loc["answer"].seen.src, !.seen = NoPending]
          BY <1>2, <3>2 DEF Inv, LifecycleTypes, Threads, Hydrate
        <5>2. pc'["answer"] \in {"permit", "resolve"}
          BY <1>2, <3>2 DEF Inv, LifecycleTypes, Threads, Goto, Hydrate
        <5>3. QED
          BY <5>1, <5>2
      <4>2. loc["answer"].seen.q \in Open
        BY <1>2, <3>2 DEF Inv, AnswerHolds, Hydrate, Questions, NoQ
      <4>3. QED
        BY <1>2, <4>1, <4>2 DEF AnswerHolds, Hydrate, store, Open
    <3>3. QED
      BY <3>1, <3>2
  <2>4. OpeningLeft'
    BY <1>2, RecordsUnchanged DEF Hydrate, store, hist
  <2>5. QED
    BY <2>1, <2>2, <2>3, <2>4 DEF Inv
<1>3. CASE Resolve
  <2>1. LifecycleTypes'
    <3>1. loc["answer"].ans \in Questions
      BY <1>3 DEF Inv, AnswerHolds, Open, Resolve
    <3>2. uses' \in [Questions -> Nat]
      BY <1>3, <3>1, UsesAreTyped DEF Inv, Resolve
    <3>3. pc' \in [Threads -> Labels]
      BY <1>3 DEF Inv, LifecycleTypes, Resolve, Goto, Labels
    <3>4. loc["answer"].asrc \in AnySource /\ "resolved" \in Statuses
      BY DEF Inv, LifecycleTypes, Locals, Threads, Statuses
    <3>5. /\ susp' \in [Questions -> [status : Statuses, src : AnySource]]
          /\ opens' \in [Questions -> Nat]
      BY <1>3, <3>4, UpsertIsTyped DEF Inv, Resolve
    <3>6. QED
      BY <1>3, <3>2, <3>3, <3>5 DEF Inv, LifecycleTypes, Resolve
  <2>2. InboundShape'
    BY <1>3, AnswerKeepsShape, AnswerIsLate DEF Goto, Resolve
  <2>3. AnswerHolds'
    BY <1>3, AnswerElsewhere DEF Inv, LifecycleTypes, Threads, Goto, Resolve
  <2>4. OpeningLeft'
    <3> DEFINE a == loc["answer"].ans
    <3>1. a \in Open /\ pc["answer"] # "permitted"
      BY <1>3 DEF Inv, AnswerHolds, Resolve
    <3>2. /\ uses[a] + 1 <= opens[a] + restarts
          /\ a \in Questions
      BY <3>1 DEF Inv, OpeningLeft, Unrecorded, Open
    <3>3. opens' = opens /\ restarts' = restarts
      BY <1>3 DEF Resolve, Upsert
    <3>4. \A p \in Questions : uses'[p] = IF p = a THEN uses[p] + 1 ELSE uses[p]
      BY <1>3 DEF Inv, LifecycleTypes, Resolve
    <3>5. \A p \in Open' : p # a /\ p \in Open
      BY <1>3 DEF Inv, LifecycleTypes, Resolve, Upsert, Open
    <3>6. \A p \in Open : ~Unrecorded(p)
      BY <3>1 DEF Unrecorded
    <3> HIDE DEF a
    <3>7. QED
      BY <3>2, <3>3, <3>4, <3>5, <3>6 DEF Inv, OpeningLeft
  <2>5. QED
    BY <2>1, <2>2, <2>3, <2>4 DEF Inv
<1>4. CASE RejectPlan
  <2>1. LifecycleTypes'
    BY <1>4, ReturnIsTyped
       DEF Inv, LifecycleTypes, Goto, RejectPlan, store, hist, Return
  <2>2. InboundShape'
    BY <1>4, AnswerKeepsShape, AnswerIsLate DEF Goto, RejectPlan, Return
  <2>3. AnswerHolds'
    BY <1>4, AnswerElsewhere DEF Goto, RejectPlan, Return
  <2>4. OpeningLeft'
    BY <1>4, RecordsUnchanged DEF RejectPlan, store, hist
  <2>5. QED
    BY <2>1, <2>2, <2>3, <2>4 DEF Inv
<1>5. CASE ApprovePlan
  <2>1. LifecycleTypes'
    BY <1>5 DEF Inv, LifecycleTypes, Goto, Labels, ApprovePlan, store, hist
  <2>2. InboundShape'
    BY <1>5, AnswerKeepsShape, AnswerIsLate DEF Goto, ApprovePlan
  <2>3. AnswerHolds'
    BY <1>5, AnswerElsewhere DEF Goto, ApprovePlan
  <2>4. OpeningLeft'
    BY <1>5, RecordsUnchanged DEF ApprovePlan, store, hist
  <2>5. QED
    BY <2>1, <2>2, <2>3, <2>4 DEF Inv
<1>6. CASE Permit
  <2>1. LifecycleTypes'
    <3>1. loc' \in [Threads -> Locals] /\ pc' \in [Threads -> Labels]
      <4>1. CASE ToolRebuilds(loc["answer"].ans)
        BY <1>6, <4>1, LabelsAreTyped
           DEF Inv, LifecycleTypes, Permit, Threads, Labels
      <4>2. CASE ~ToolRebuilds(loc["answer"].ans)
        BY <1>6, <4>2, ReturnIsTyped DEF Inv, Permit, Threads
      <4>3. QED
        BY <4>1, <4>2
    <3>2. QED
      BY <1>6, <3>1 DEF Inv, LifecycleTypes, Permit, store, hist
  <2>2. InboundShape'
    BY <1>6, AnswerKeepsShape, AnswerIsLate
       DEF Inv, LifecycleTypes, Threads, Goto, Permit, Return
  <2>3. AnswerHolds'
    <3>1. CASE ToolRebuilds(loc["answer"].ans)
      <4>1. pc'["answer"] = "tool" /\ loc' = loc
        BY <1>6, <3>1 DEF Inv, LifecycleTypes, Threads, Goto, Permit
      <4>2. Open' = Open
        BY <1>6 DEF Permit, store, Open
      <4>3. QED
        BY <3>1, <4>1, <4>2 DEF AnswerHolds, ToolRebuilds
    <3>2. CASE ~ToolRebuilds(loc["answer"].ans)
      <4>1. pc'["answer"] = "idle"
        BY <1>6, <3>2 DEF Inv, LifecycleTypes, Threads, Return, Goto, Permit
      <4>2. QED
        BY <4>1, AnswerElsewhere
    <3>3. QED
      BY <3>1, <3>2
  <2>4. OpeningLeft'
    BY <1>6, RecordsUnchanged DEF Permit, store, hist
  <2>5. QED
    BY <2>1, <2>2, <2>3, <2>4 DEF Inv
<1>7. CASE ToolRuns
  <2>1. LifecycleTypes'
    <3>1. loc["answer"].ans \in Questions
      BY <1>7 DEF Inv, AnswerHolds, Open, ToolRuns
    <3>2. uses' \in [Questions -> Nat]
      BY <1>7, <3>1, UsesAreTyped DEF Inv, ToolRuns
    <3>3. pc' \in [Threads -> Labels]
      BY <1>7 DEF Inv, LifecycleTypes, ToolRuns, Goto, Labels
    <3>4. QED
      BY <1>7, <3>2, <3>3 DEF Inv, LifecycleTypes, ToolRuns, store
  <2>2. InboundShape'
    BY <1>7, AnswerKeepsShape, AnswerIsLate DEF Goto, ToolRuns
  <2>3. AnswerHolds'
    BY <1>7, AnswerElsewhere DEF Inv, LifecycleTypes, Threads, Goto, ToolRuns
  <2>4. OpeningLeft'
    <3> DEFINE a == loc["answer"].ans
    <3>1. a \in Open /\ pc["answer"] # "permitted"
      BY <1>7 DEF Inv, AnswerHolds, ToolRuns
    <3>2. uses[a] + 1 <= opens[a] + restarts /\ a \in Questions
      BY <3>1 DEF Inv, OpeningLeft, Unrecorded, Open
    <3>3. opens' = opens /\ restarts' = restarts /\ Open' = Open
      BY <1>7 DEF ToolRuns, store, Open
    <3>4. \A p \in Questions : uses'[p] = IF p = a THEN uses[p] + 1 ELSE uses[p]
      BY <1>7 DEF Inv, LifecycleTypes, ToolRuns
    <3>5. \A p \in Questions : p = a => Unrecorded(p)'
      BY <1>7 DEF Inv, LifecycleTypes, Goto, Threads, ToolRuns, Unrecorded
    <3>6. \A p \in Open : ~Unrecorded(p)
      BY <3>1 DEF Unrecorded
    <3> HIDE DEF a
    <3>7. ASSUME NEW p \in Questions
          PROVE  /\ uses'[p] <= opens'[p] + restarts'
                 /\ p \in Open' /\ ~Unrecorded(p)' => uses'[p] + 1 <= opens'[p] + restarts'
      <4>1. CASE p = a
        <5>1. Unrecorded(p)'
          BY <3>5, <4>1
        <5>2. uses'[p] = uses[p] + 1 /\ uses[p] + 1 <= opens[p] + restarts
          BY <3>2, <3>4, <4>1
        <5>3. QED
          BY <3>3, <5>1, <5>2
      <4>2. CASE p # a
        BY <3>3, <3>4, <3>6, <4>2 DEF Inv, OpeningLeft
      <4>3. QED
        BY <4>1, <4>2
    <3>8. QED
      BY <3>7 DEF OpeningLeft
  <2>5. QED
    BY <2>1, <2>2, <2>3, <2>4 DEF Inv
<1>8. CASE ToolFails
  <2>1. LifecycleTypes'
    BY <1>8, ReturnIsTyped
       DEF Inv, LifecycleTypes, Goto, ToolFails, store, hist, Return
  <2>2. InboundShape'
    BY <1>8, AnswerKeepsShape, AnswerIsLate DEF Goto, ToolFails, Return
  <2>3. AnswerHolds'
    BY <1>8, AnswerElsewhere
       DEF Inv, LifecycleTypes, Threads, Goto, ToolFails, Return
  <2>4. OpeningLeft'
    BY <1>8, RecordsUnchanged DEF ToolFails, store, hist
  <2>5. QED
    BY <2>1, <2>2, <2>3, <2>4 DEF Inv
<1>9. CASE Permitted
  <2>1. LifecycleTypes'
    BY <1>9, UpsertIsTyped
       DEF Inv, LifecycleTypes, Goto, Labels, Statuses, Permitted, AnySource,
           Sources
  <2>2. InboundShape'
    BY <1>9, AnswerKeepsShape, AnswerIsLate DEF Goto, Permitted
  <2>3. AnswerHolds'
    BY <1>9, AnswerElsewhere DEF Goto, Permitted
  <2>4. OpeningLeft'
    <3>1. loc["answer"].ans \notin Open'
      BY <1>9 DEF Inv, LifecycleTypes, Permitted, Upsert, Open
    <3>2. QED
      BY <1>9, <3>1, RecordUpserted DEF Permitted
  <2>5. QED
    BY <2>1, <2>2, <2>3, <2>4 DEF Inv
<1>10. CASE LoopCompletes
  <2>1. LifecycleTypes'
    <3>1. [loc["answer"] EXCEPT !.stage = "finish"] \in Locals
      BY UpdatesAreTyped DEF Inv, Threads, Stages
    <3>2. loc' \in [Threads -> Locals] /\ pc' \in [Threads -> Labels]
      BY <1>10, <3>1, LocalsAreTyped, LabelsAreTyped
         DEF Inv, LoopCompletes, Threads, Labels
    <3>3. QED
      BY <1>10, <3>2 DEF Inv, LifecycleTypes, LoopCompletes, store, hist
  <2>2. InboundShape'
    BY <1>10, AnswerKeepsShape, AnswerIsLate DEF Goto, LoopCompletes
  <2>3. AnswerHolds'
    BY <1>10, AnswerElsewhere DEF Goto, LoopCompletes
  <2>4. OpeningLeft'
    BY <1>10, RecordsUnchanged DEF LoopCompletes, store, hist
  <2>5. QED
    BY <2>1, <2>2, <2>3, <2>4 DEF Inv
<1>11. CASE LoopSuspends
  <2>1. LifecycleTypes'
    <3>1. loc' \in [Threads -> Locals] /\ pc' \in [Threads -> Labels]
      BY <1>11, AskIsTyped
         DEF Inv, LoopSuspends, Threads, AnySource, Sources, Stages
    <3>2. QED
      BY <1>11, <3>1 DEF Inv, LifecycleTypes, LoopSuspends, store
  <2>2. InboundShape'
    BY <1>11, AnswerKeepsShape, AnswerIsLate DEF Goto, LoopSuspends, Ask
  <2>3. AnswerHolds'
    BY <1>11, AnswerElsewhere DEF Goto, LoopSuspends, Ask
  <2>4. OpeningLeft'
    BY <1>11, RecordsUnchanged DEF LoopSuspends, store
  <2>5. QED
    BY <2>1, <2>2, <2>3, <2>4 DEF Inv
<1>12. QED
  BY <1>1, <1>2, <1>3, <1>4, <1>5, <1>6, <1>7, <1>8, <1>9, <1>10, <1>11
     DEF Answering

\* The plan, a new answer and a restart.
LEMMA OtherInv ==
  ASSUME Inv, Begin \/ ProposePlan \/ Restart \/ \E q \in Questions : Submit(q)
  PROVE  Inv'
<1>1. CASE Begin
  <2>1. LifecycleTypes'
    BY <1>1 DEF Inv, LifecycleTypes, Goto, Labels, Begin, hist
  <2>2. InboundShape'
    BY <1>1 DEF Inv, InboundShape, Early, Goto, Begin, hist
  <2>3. AnswerHolds'
    BY <1>1, AnswerElsewhere DEF Inv, InboundShape, Early, Goto, Begin
  <2>4. OpeningLeft'
    BY <1>1, RecordsUnchanged DEF Goto, Begin, store, hist
  <2>5. QED
    BY <2>1, <2>2, <2>3, <2>4 DEF Inv
<1>2. CASE ProposePlan
  <2>1. LifecycleTypes'
    <3>1. loc' \in [Threads -> Locals] /\ pc' \in [Threads -> Labels]
      BY <1>2, AskIsTyped
         DEF Inv, ProposePlan, Threads, AnySource, Sources, Stages
    <3>2. QED
      BY <1>2, <3>1 DEF Inv, LifecycleTypes, ProposePlan, store
  <2>2. InboundShape'
    <3>1. Ask("inbound", "approval", "register")
      BY <1>2 DEF ProposePlan
    <3>2. pc'["inbound"] = "store"
      BY <3>1 DEF Inv, LifecycleTypes, Ask, Goto, Threads
    <3>3. QED
      BY <3>1, <3>2, AskIsLate DEF Inv, InboundShape
  <2>3. AnswerHolds'
    BY <1>2, AnswerElsewhere
       DEF Inv, InboundShape, Early, Goto, ProposePlan, Ask
  <2>4. OpeningLeft'
    BY <1>2, RecordsUnchanged DEF Goto, Ask, store, ProposePlan
  <2>5. QED
    BY <2>1, <2>2, <2>3, <2>4 DEF Inv
<1>3. CASE Restart
  <2>1. LifecycleTypes'
    <3>1. loc' \in [Threads -> Locals] /\ pc' \in [Threads -> Labels]
      BY <1>3, IdleIsTyped DEF Restart, Labels
    <3>2. cache' \in [q : Nat, src : AnySource] /\ restarts' \in Nat
      BY <1>3, IdleIsTyped DEF Inv, LifecycleTypes, Restart
    <3>3. QED
      BY <1>3, <3>1, <3>2 DEF Inv, LifecycleTypes, Restart, store, hist
  <2>2. InboundShape'
    BY <1>3 DEF InboundShape, Early, Late, Threads, Restart
  <2>3. AnswerHolds'
    BY <1>3, AnswerElsewhere DEF Threads, Restart
  <2>4. OpeningLeft'
    <3>1. UNCHANGED <<susp, opens, uses>> /\ restarts' = restarts + 1
      BY <1>3 DEF Restart, store, hist
    <3>2. QED
      BY <3>1 DEF Inv, OpeningLeft, LifecycleTypes
  <2>5. QED
    BY <2>1, <2>2, <2>3, <2>4 DEF Inv
<1>4. CASE \E q \in Questions : Submit(q)
  <2>1. LifecycleTypes'
    <3>1. PICK q \in Questions : Submit(q)
      BY <1>4
    <3>2. [loc["answer"] EXCEPT !.want = q] \in Locals
      <4>1. q \in Nat
        BY DEF Questions
      <4>2. QED
        BY <4>1, UpdatesAreTyped DEF Inv, Threads
    <3>3. loc' \in [Threads -> Locals] /\ pc' \in [Threads -> Labels]
      BY <3>1, <3>2, LocalsAreTyped, LabelsAreTyped
         DEF Inv, Submit, Threads, Labels
    <3>4. QED
      BY <3>1, <3>3 DEF Inv, LifecycleTypes, Submit, store, hist
  <2>2. InboundShape'
    BY <1>4, AnswerKeepsShape DEF Inv, InboundShape, Goto, Submit
  <2>3. AnswerHolds'
    <3>1. PICK q \in Questions : Submit(q)
      BY <1>4
    <3>2. pc'["answer"] = "look" /\ loc'["answer"].want = q
      BY <3>1 DEF Inv, LifecycleTypes, Goto, Threads, Submit
    <3>3. QED
      BY <3>2 DEF AnswerHolds
  <2>4. OpeningLeft'
    BY <1>4, RecordsUnchanged DEF store, hist, Submit
  <2>5. QED
    BY <2>1, <2>2, <2>3, <2>4 DEF Inv
<1>5. QED
  BY <1>1, <1>2, <1>3, <1>4

LEMMA StepInv == Inv /\ [Next]_vars => Inv'
<1> SUFFICES ASSUME Inv, [Next]_vars PROVE Inv'
  OBVIOUS
<1>1. CASE \E t \in Threads : Storing(t)
  BY <1>1, StoringInv
<1>2. CASE \E t \in Threads : Handling(t)
  BY <1>2, HandlingInv
<1>3. CASE \E t \in Threads : Completing(t)
  BY <1>3, CompletingInv
<1>4. CASE Answering
  BY <1>4, AnsweringInv
<1>5. CASE Begin \/ ProposePlan \/ Restart \/ \E q \in Questions : Submit(q)
  BY <1>5, OtherInv
<1>6. CASE UNCHANGED vars
  BY <1>6
     DEF Inv, LifecycleTypes, InboundShape, Early, Late, AnswerHolds,
         OpeningLeft, Unrecorded, Open, vars, store, hist
<1>7. QED
  BY <1>1, <1>2, <1>3, <1>4, <1>5, <1>6
     DEF Next, InboundStep, AnswerStep, Threads

\* An answer is acted on at most once for each time its question was opened,
\* and once more for each restart (suspension.rs, submit_answer; and
\* question_continuation.rs, prepare_tool_permission_resume): the tool that was
\* asked for does not run twice, however often the user answers.
THEOREM AnswersActOnce == Spec => []OneUsePerOpening
<1>1. Inv => OneUsePerOpening
  BY DEF Inv, OpeningLeft, OneUsePerOpening
<1>2. QED
  BY InitInv, StepInv, <1>1, PTL DEF Spec
-----------------------------------------------------------------------------
(* The branch an answer takes.  Questions are asked under 1, 2, ...; a      *)
(* record that is open, a question that a thread is storing and one that is *)
(* being answered have the source the question was asked with.              *)

\* The source that a record of q is read back with.
Chosen(q) == IF asked[q] \in {"tool", "approval"} THEN asked[q] ELSE "upstream"

AskedInOrder ==
    /\ asked \in [Questions -> AnySource]
    /\ goneOn \in [Questions -> AnySource]
    /\ \E k \in Nat : \A q \in Questions : asked[q] # NoSource <=> q <= k

RecordsAsAsked == \A q \in Open : asked[q] # NoSource /\ susp[q].src = asked[q]

\* What thread t is storing.
Carried(t) ==
    LET l == loc[t] IN
    /\ l.q \in Questions => asked[l.q] # NoSource /\ l.src = asked[l.q]
    /\ pc[t] \in {"tool_record", "tool_invocation"} => l.stage \in {"suspend", "resuspend"}
    /\ pc[t] \in {"store", "cache", "tool_record", "tool_invocation"}
         /\ l.stage \in {"suspend", "resuspend"} => l.src = "tool"

\* What is being answered.
TakenUp ==
    LET l == loc["answer"] IN
    /\ pc["answer"] = "hydrate" /\ l.seen.q # NoQ =>
         asked[l.seen.q] # NoSource /\ l.seen.src = Chosen(l.seen.q)
    /\ pc["answer"] \in {"resolve", "permit", "tool"} =>
         l.ans \in Questions /\ asked[l.ans] # NoSource /\ l.asrc = Chosen(l.ans)
    /\ pc["answer"] \in {"permit", "tool"} => l.asrc = "tool"

GoneOnAsAsked == \A q \in Questions : goneOn[q] # NoSource => asked[q] # NoSource /\ goneOn[q] = Chosen(q)

SourceInv ==
    /\ AskedInOrder /\ RecordsAsAsked /\ TakenUp /\ GoneOnAsAsked
    /\ \A t \in Threads : Carried(t)

(* SourceInv, action by action.                                             *)

\* Nothing has been asked.
LEMMA SourceBegins == Init => SourceInv
<1> SUFFICES ASSUME Init PROVE SourceInv
  OBVIOUS
<1>1. AskedInOrder
  <2>1. \A q \in Questions : asked[q] # NoSource <=> q <= 0
    BY DEF Init, Questions
  <2>2. QED
    BY <2>1 DEF AskedInOrder, Init, AnySource
<1>2. RecordsAsAsked
  BY DEF RecordsAsAsked, Init, Open
<1>3. TakenUp
  BY DEF TakenUp, Init, Threads
<1>4. GoneOnAsAsked
  BY DEF GoneOnAsAsked, Init
<1>5. ASSUME NEW t \in Threads PROVE Carried(t)
  BY DEF Carried, Init, Idle, NoQ, Questions
<1>6. QED
  BY <1>1, <1>2, <1>3, <1>4, <1>5 DEF SourceInv

\* The id that is minted next is that of no question yet.
LEMMA NextId ==
  ASSUME SourceInv
  PROVE  /\ Minted + 1 \in Nat /\ Minted + 1 # NoQ
         /\ Minted + 1 \in Questions => asked[Minted + 1] = NoSource
         /\ \E k \in Nat : \A q \in Questions : (asked[q] # NoSource \/ q = Minted + 1) <=> q <= k
<1>1. PICK k \in Nat : \A q \in Questions : asked[q] # NoSource <=> q <= k
  BY DEF SourceInv, AskedInOrder
<1> DEFINE m == IF k <= MaxQuestions THEN k ELSE MaxQuestions
<1>2. m \in Nat /\ m <= MaxQuestions /\ m <= k /\ (m < MaxQuestions => m = k) /\ MaxQuestions \in Nat
  BY LifecycleAssumption
<1> HIDE DEF m
<1>3. {q \in Questions : asked[q] # NoSource} = 1 .. m
  <2>1. \A q \in Questions : q <= k <=> q <= m
    BY <1>2 DEF Questions, m
  <2>2. QED
    BY <1>1, <1>2, <2>1 DEF Questions
<1>4. Cardinality(1 .. m) = m
  BY <1>2, FS_Interval
<1>5. Minted = m
  BY <1>3, <1>4 DEF Minted
<1>6. m + 1 \in Questions => asked[m + 1] = NoSource
  BY <1>1, <1>2 DEF Questions
<1>7. \A q \in Questions : (asked[q] # NoSource \/ q = m + 1) <=> q <= m + 1
  BY <1>1, <1>2 DEF Questions
<1>8. QED
  BY <1>2, <1>5, <1>6, <1>7 DEF NoQ

\* A thread that does nothing carries what it carried.
LEMMA CarriesOn ==
  ASSUME SourceInv, asked' = asked, NEW t \in Threads, pc'[t] = pc[t], loc'[t] = loc[t]
  PROVE  Carried(t)'
BY DEF SourceInv, Carried

\* The answering thread does nothing.
LEMMA TakenOn ==
  ASSUME SourceInv, asked' = asked, pc'["answer"] = pc["answer"], loc'["answer"] = loc["answer"]
  PROVE  TakenUp'
BY DEF SourceInv, TakenUp, Chosen

\* Nothing is taken up at the other labels.
LEMMA TakenElsewhere ==
  ASSUME pc'["answer"] \notin {"hydrate", "resolve", "permit", "tool"}
  PROVE  TakenUp'
BY DEF TakenUp

\* A thread that returns carries nothing.
LEMMA ReturnCarries ==
  ASSUME LifecycleTypes, NEW t \in Threads, Return(t)
  PROVE  /\ Carried(t)' /\ (t = "answer" => TakenUp')
         /\ \A s \in Threads \ {t} : pc'[s] = pc[s] /\ loc'[s] = loc[s]
<1>1. /\ loc'[t] = Idle /\ pc'[t] \in {"done", "idle"}
      /\ \A s \in Threads \ {t} : pc'[s] = pc[s] /\ loc'[s] = loc[s]
  BY DEF LifecycleTypes, Return, Goto
<1>2. Carried(t)'
  BY <1>1 DEF Carried, Idle, NoQ, Questions
<1>3. QED
  BY <1>1, <1>2, TakenElsewhere

\* A record that is written is that of a question asked with this source, or
\* it is closed.
LEMMA RecordsWritten ==
  ASSUME LifecycleTypes, SourceInv, asked' = asked, NEW p, NEW status, NEW src,
         Upsert(p, status, src),
         status = "active" /\ p \in Questions => asked[p] # NoSource /\ src = asked[p]
  PROVE  RecordsAsAsked'
<1> SUFFICES ASSUME NEW q \in Questions, q \in Open'
             PROVE  asked[q] # NoSource /\ susp'[q].src = asked[q]
  BY DEF RecordsAsAsked, Open
<1>1. CASE q = p
  BY <1>1 DEF LifecycleTypes, Upsert, Open
<1>2. CASE q # p
  <2>1. susp'[q] = susp[q]
    BY <1>2 DEF LifecycleTypes, Upsert
  <2>2. QED
    BY <2>1 DEF SourceInv, RecordsAsAsked, Open
<1>3. QED
  BY <1>1, <1>2

\* No record is written.
LEMMA RecordsStay ==
  ASSUME SourceInv, asked' = asked, susp' = susp
  PROVE  RecordsAsAsked'
BY DEF SourceInv, RecordsAsAsked, Open

\* Nothing goes on.
LEMMA GoesOnAsBefore ==
  ASSUME SourceInv, asked' = asked, goneOn' = goneOn
  PROVE  GoneOnAsAsked'
BY DEF SourceInv, GoneOnAsAsked, Chosen

\* A thread that is not storing carries the question it carried, or none.
LEMMA CarriedElsewhere ==
  ASSUME SourceInv, asked' = asked, NEW t \in Threads,
         pc'[t] \notin {"store", "cache", "tool_record", "tool_invocation"},
         \/ loc'[t].q = NoQ
         \/ loc'[t].q = loc[t].q /\ loc'[t].src = loc[t].src
  PROVE  Carried(t)'
BY DEF SourceInv, Carried, NoQ, Questions

\* A step of one thread that asks nothing.
LEMMA SourceMoves ==
  ASSUME SourceInv, NEW t \in Threads, asked' = asked,
         goneOn' \in [Questions -> AnySource], RecordsAsAsked', GoneOnAsAsked',
         \A s \in Threads \ {t} : pc'[s] = pc[s] /\ loc'[s] = loc[s],
         Carried(t)', t = "answer" => TakenUp'
  PROVE  SourceInv'
<1>1. \A s \in Threads : Carried(s)'
  <2>1. ASSUME NEW s \in Threads PROVE Carried(s)'
    <3>1. CASE s = t
      BY <3>1
    <3>2. CASE s # t
      BY <3>2, CarriesOn
    <3>3. QED
      BY <3>1, <3>2
  <2>2. QED
    BY <2>1
<1>2. TakenUp'
  <2>1. CASE t = "answer"
    BY <2>1
  <2>2. CASE t # "answer"
    BY <2>2, TakenOn DEF Threads
  <2>3. QED
    BY <2>1, <2>2
<1>3. AskedInOrder'
  BY DEF SourceInv, AskedInOrder
<1>4. QED
  BY <1>1, <1>2, <1>3 DEF SourceInv

\* A question is asked: the id is new, and the thread carries its source.
LEMMA AskSource ==
  ASSUME Inv, SourceInv, NEW t \in Threads, NEW src \in Sources, NEW stage,
         stage \in {"suspend", "resuspend"} => src = "tool",
         Ask(t, src, stage), susp' = susp, goneOn' = goneOn
  PROVE  SourceInv'
<1> DEFINE n == Minted + 1
<1>1. /\ n \in Nat /\ n # NoQ /\ (n \in Questions => asked[n] = NoSource)
      /\ \E k \in Nat : \A q \in Questions : (asked[q] # NoSource \/ q = n) <=> q <= k
  BY NextId
<1>2. /\ asked' = [asked EXCEPT ![n] = src]
      /\ loc' = [loc EXCEPT ![t] = [loc[t] EXCEPT !.q = n, !.src = src, !.stage = stage]]
      /\ pc' = [pc EXCEPT ![t] = "store"]
  BY DEF Ask, Goto
<1> HIDE DEF n
<1>3. src # NoSource /\ src \in AnySource
  BY DEF Sources, NoSource, AnySource
<1>4. /\ \A q \in Questions : asked'[q] = IF q = n THEN src ELSE asked[q]
      /\ asked' \in [Questions -> AnySource]
  BY <1>2, <1>3 DEF SourceInv, AskedInOrder
<1>5. \A q \in Questions : asked[q] # NoSource => asked'[q] = asked[q]
  BY <1>1, <1>4
<1>6. Open' = Open
  BY DEF Open
<1>7. /\ pc'[t] = "store" /\ loc'[t].q = n /\ loc'[t].src = src /\ loc'[t].stage = stage
      /\ \A s \in Threads \ {t} : pc'[s] = pc[s] /\ loc'[s] = loc[s]
  BY <1>2 DEF Inv, LifecycleTypes, Locals
<1>8. AskedInOrder'
  <2>1. \A q \in Questions : asked'[q] # NoSource <=> (asked[q] # NoSource \/ q = n)
    BY <1>3, <1>4
  <2>2. QED
    BY <1>1, <1>4, <2>1 DEF AskedInOrder, SourceInv
<1>9. RecordsAsAsked'
  <2>1. Open \subseteq Questions
    BY DEF Open
  <2>2. QED
    BY <1>5, <1>6, <2>1 DEF SourceInv, RecordsAsAsked
<1>10. GoneOnAsAsked'
  BY <1>5 DEF SourceInv, GoneOnAsAsked, Chosen
<1>11. ASSUME NEW s \in Threads PROVE Carried(s)'
  <2>1. CASE s = t
    BY <1>3, <1>4, <1>7, <2>1 DEF Carried
  <2>2. CASE s # t
    BY <1>5, <1>7, <2>2 DEF SourceInv, Carried
  <2>3. QED
    BY <2>1, <2>2
<1>12. TakenUp'
  <2>1. CASE t = "answer"
    BY <1>7, <2>1, TakenElsewhere
  <2>2. CASE t # "answer"
    <3>1. pc'["answer"] = pc["answer"] /\ loc'["answer"] = loc["answer"]
      BY <1>7, <2>2 DEF Threads
    <3>2. pc["answer"] = "hydrate" => loc["answer"].seen.q \in Questions \cup {NoQ}
      BY DEF Inv, AnswerHolds, Open
    <3>3. \A q \in Questions : asked[q] # NoSource => asked'[q] # NoSource /\ Chosen(q)' = Chosen(q)
      BY <1>5 DEF Chosen
    <3>4. QED
      BY <3>1, <3>2, <3>3 DEF SourceInv, TakenUp
  <2>3. QED
    BY <2>1, <2>2
<1>13. QED
  BY <1>8, <1>9, <1>10, <1>11, <1>12 DEF SourceInv

\* A thread that moves on within a handler, and asks and records nothing.
LEMMA SourcePasses ==
  ASSUME LifecycleTypes, SourceInv, NEW t \in Threads, NEW label,
         pc' = [pc EXCEPT ![t] = label],
         \A s \in Threads \ {t} : loc'[s] = loc[s],
         label \notin {"store", "cache", "tool_record", "tool_invocation"},
         t = "answer" => TakenUp',
         \/ loc'[t].q = NoQ
         \/ loc'[t].q = loc[t].q /\ loc'[t].src = loc[t].src,
         RecordsAsAsked', asked' = asked, goneOn' = goneOn
  PROVE  SourceInv'
<1>1. /\ pc'[t] = label
      /\ \A s \in Threads \ {t} : pc'[s] = pc[s] /\ loc'[s] = loc[s]
  BY DEF LifecycleTypes
<1>2. Carried(t)'
  BY <1>1, CarriedElsewhere
<1>3. GoneOnAsAsked' /\ goneOn' \in [Questions -> AnySource]
  BY GoesOnAsBefore DEF SourceInv, AskedInOrder
<1>4. QED
  BY <1>1, <1>2, <1>3, SourceMoves

\* A thread that returns, and records no question.
LEMMA SourceReturns ==
  ASSUME LifecycleTypes, SourceInv, NEW t \in Threads, Return(t), RecordsAsAsked',
         asked' = asked, goneOn' = goneOn
  PROVE  SourceInv'
<1>1. GoneOnAsAsked' /\ goneOn' \in [Questions -> AnySource]
  BY GoesOnAsBefore DEF SourceInv, AskedInOrder
<1>2. QED
  BY <1>1, ReturnCarries, SourceMoves

\* A question is recorded with the source it was asked with.
LEMMA SourceStored ==
  ASSUME Inv, SourceInv, NEW t \in Threads, Storing(t)
  PROVE  SourceInv'
<1> USE DEF Inv
<1>0. Carried(t) /\ GoneOnAsAsked /\ goneOn \in [Questions -> AnySource]
  BY DEF SourceInv, AskedInOrder
<1>1. CASE StoreRecord(t)
  <2>1. /\ asked' = asked /\ goneOn' = goneOn /\ loc' = loc
        /\ pc[t] = "store" /\ pc'[t] = "cache"
        /\ \A s \in Threads \ {t} : pc'[s] = pc[s]
    BY <1>1 DEF LifecycleTypes, StoreRecord, Goto
  <2>2. RecordsAsAsked'
    BY <1>0, <1>1, <2>1, RecordsWritten DEF StoreRecord, Carried
  <2>3. Carried(t)'
    BY <1>0, <2>1 DEF Carried
  <2>4. t = "answer" => TakenUp'
    BY <2>1, TakenElsewhere
  <2>5. QED
    BY <1>0, <2>1, <2>2, <2>3, <2>4, GoesOnAsBefore, SourceMoves
<1>2. CASE StoreCache(t)
  <2>1. asked' = asked /\ goneOn' = goneOn /\ susp' = susp
    BY <1>2 DEF StoreCache, store
  <2>2. RecordsAsAsked'
    BY <2>1, RecordsStay
  <2>3. CASE loc[t].stage = "register"
    BY <1>2, <2>1, <2>2, <2>3, SourceReturns DEF StoreCache
  <2>4. CASE loc[t].stage \in {"suspend", "resuspend"}
    <3>1. /\ loc' = loc /\ pc[t] = "cache" /\ pc'[t] = "tool_record"
          /\ \A s \in Threads \ {t} : pc'[s] = pc[s]
      BY <1>2, <2>4 DEF LifecycleTypes, StoreCache, Goto
    <3>2. Carried(t)'
      BY <1>0, <2>1, <2>4, <3>1 DEF Carried
    <3>3. t = "answer" => TakenUp'
      BY <3>1, TakenElsewhere
    <3>4. QED
      BY <1>0, <2>1, <2>2, <3>1, <3>2, <3>3, GoesOnAsBefore, SourceMoves
  <2>5. CASE loc[t].stage = "waiting"
    <3>1. loc' = loc /\ pc' = [pc EXCEPT ![t] = "waiting"]
      BY <1>2, <2>5 DEF StoreCache, Goto
    <3>2. t = "answer" => TakenUp'
      BY <3>1, TakenElsewhere DEF LifecycleTypes
    <3>3. QED
      BY <2>1, <2>2, <3>1, <3>2, SourcePasses
  <2>6. QED
    BY <1>2, <2>3, <2>4, <2>5 DEF StoreCache
<1>3. CASE ToolRecord(t)
  <2>1. /\ asked' = asked /\ goneOn' = goneOn /\ loc' = loc
        /\ pc[t] = "tool_record" /\ pc'[t] = "tool_invocation"
        /\ \A s \in Threads \ {t} : pc'[s] = pc[s]
    BY <1>3 DEF LifecycleTypes, ToolRecord, Goto
  <2>2. RecordsAsAsked'
    <3>1. loc[t].q \in Questions => asked[loc[t].q] # NoSource /\ asked[loc[t].q] = "tool"
      BY <1>0, <2>1 DEF Carried
    <3>2. QED
      BY <1>3, <2>1, <3>1, RecordsWritten DEF ToolRecord
  <2>3. Carried(t)'
    BY <1>0, <2>1 DEF Carried
  <2>4. t = "answer" => TakenUp'
    BY <2>1, TakenElsewhere
  <2>5. QED
    BY <1>0, <2>1, <2>2, <2>3, <2>4, GoesOnAsBefore, SourceMoves
<1>4. CASE ToolInvocation(t)
  <2>1. /\ asked' = asked /\ goneOn' = goneOn /\ susp' = susp
        /\ \E label \in {"handle", "clear_tool"} : pc' = [pc EXCEPT ![t] = label]
        /\ loc' \in {loc, [loc EXCEPT ![t].result = "ask"]}
    BY <1>4 DEF ToolInvocation, Goto
  <2>2. RecordsAsAsked'
    BY <2>1, RecordsStay
  <2>3. /\ loc'[t].q = loc[t].q /\ loc'[t].src = loc[t].src
        /\ \A s \in Threads \ {t} : loc'[s] = loc[s]
    BY <2>1 DEF LifecycleTypes, Locals
  <2>4. PICK label \in {"handle", "clear_tool"} : pc' = [pc EXCEPT ![t] = label]
    BY <2>1
  <2>5. t = "answer" => TakenUp'
    BY <2>4, TakenElsewhere DEF LifecycleTypes
  <2>6. QED
    BY <2>1, <2>2, <2>3, <2>4, <2>5, SourcePasses
<1>5. CASE Waiting(t)
  <2>1. asked' = asked /\ goneOn' = goneOn /\ susp' = susp
    BY <1>5 DEF Waiting
  <2>2. QED
    BY <1>5, <2>1, RecordsStay, SourceReturns DEF Waiting
<1>6. QED
  BY <1>1, <1>2, <1>3, <1>4, <1>5 DEF Storing

\* What the upstream returned is handled.
LEMMA SourceHandled ==
  ASSUME Inv, SourceInv, NEW t \in Threads, Handling(t)
  PROVE  SourceInv'
<1> USE DEF Inv
<1>1. CASE ToolSuspends(t)
  <2>1. Ask(t, "tool", "suspend") /\ susp' = susp /\ goneOn' = goneOn
    BY <1>1 DEF ToolSuspends, store
  <2>2. QED
    BY <2>1, AskSource DEF Sources
<1>2. CASE RegisterBlocked(t)
  <2>1. Ask(t, "blocked", "register") /\ susp' = susp /\ goneOn' = goneOn
    BY <1>2 DEF RegisterBlocked, store
  <2>2. QED
    BY <2>1, AskSource DEF Sources
<1>3. CASE UpstreamFails(t) \/ FollowupEnds(t)
  <2>1. Return(t) /\ asked' = asked /\ goneOn' = goneOn /\ susp' = susp
    BY <1>3 DEF UpstreamFails, FollowupEnds, store, hist
  <2>2. QED
    BY <2>1, RecordsStay, SourceReturns
<1>4. CASE AutoResolve(t) \/ \E r \in Results : UpstreamReturns(t, r) \/ Followup(t, r)
  <2>1. PICK l :
            /\ l.q = NoQ \/ (l.q = loc[t].q /\ l.src = loc[t].src)
            /\ loc' = [loc EXCEPT ![t] = l]
            /\ \E label \in {"handle", "continue"} : pc' = [pc EXCEPT ![t] = label]
            /\ asked' = asked /\ goneOn' = goneOn /\ susp' = susp
    <3>1. loc[t] \in Locals
      BY DEF LifecycleTypes
    <3>2. CASE AutoResolve(t)
      <4> DEFINE m == [loc[t] EXCEPT !.ans = NoQ, !.asrc = NoSource]
      <4>1. /\ loc' = [loc EXCEPT ![t] = m]
            /\ pc' = [pc EXCEPT ![t] = "continue"]
            /\ asked' = asked /\ goneOn' = goneOn /\ susp' = susp
        BY <3>2 DEF AutoResolve, Goto, store, hist
      <4>2. /\ m.q = loc[t].q
            /\ m.src = loc[t].src
        BY <3>1 DEF Locals
      <4> HIDE DEF m
      <4>3. QED
        BY <4>1, <4>2
    <3>3. CASE \E r \in Results : UpstreamReturns(t, r)
      <4>1. PICK r \in Results : UpstreamReturns(t, r)
        BY <3>3
      <4> DEFINE m == [loc[t] EXCEPT !.result = r, !.q = NoQ, !.src = NoSource]
      <4>2. /\ loc' = [loc EXCEPT ![t] = m]
            /\ pc' = [pc EXCEPT ![t] = "handle"]
            /\ asked' = asked /\ goneOn' = goneOn /\ susp' = susp
        BY <4>1 DEF UpstreamReturns, Goto, store, hist
      <4>3. m.q = NoQ
        BY <3>1 DEF Locals
      <4> HIDE DEF m
      <4>4. QED
        BY <4>2, <4>3
    <3>4. CASE \E r \in Results : Followup(t, r)
      <4>1. PICK r \in Results : Followup(t, r)
        BY <3>4
      <4> DEFINE m == [loc[t] EXCEPT !.result = r, !.q = NoQ, !.src = NoSource,
                                       !.ans = NoQ, !.asrc = NoSource]
      <4>2. /\ loc' = [loc EXCEPT ![t] = m]
            /\ pc' = [pc EXCEPT ![t] = "handle"]
            /\ asked' = asked /\ goneOn' = goneOn /\ susp' = susp
        BY <4>1 DEF Followup, Goto, hist
      <4>3. m.q = NoQ
        BY <3>1 DEF Locals
      <4> HIDE DEF m
      <4>4. QED
        BY <4>2, <4>3
    <3>5. QED
      BY <1>4, <3>2, <3>3, <3>4
  <2>3. loc'[t] = l /\ \A s \in Threads \ {t} : loc'[s] = loc[s]
    BY <2>1 DEF LifecycleTypes
  <2>4. t = "answer" => TakenUp'
    BY <2>1, TakenElsewhere DEF LifecycleTypes
  <2>5. QED
    BY <2>1, <2>3, <2>4, RecordsStay, SourcePasses
<1>5. CASE HandleResult(t)
  <2>1. susp' = susp /\ goneOn' = goneOn
    BY <1>5 DEF HandleResult
  <2>2. CASE Ask(t, "upstream", "waiting")
    BY <2>1, <2>2, AskSource DEF Sources
  <2>3. CASE asked' = asked /\ loc' = [loc EXCEPT ![t].stage = "complete"] /\ Goto(t, "clear_cache")
    <3>1. /\ loc'[t].q = loc[t].q /\ loc'[t].src = loc[t].src
          /\ \A s \in Threads \ {t} : loc'[s] = loc[s]
      BY <2>3 DEF LifecycleTypes, Locals
    <3>2. t = "answer" => TakenUp'
      BY <2>3, TakenElsewhere DEF LifecycleTypes, Goto
    <3>3. QED
      BY <2>1, <2>3, <3>1, <3>2, RecordsStay, SourcePasses DEF Goto
  <2>4. CASE asked' = asked /\ loc' = loc /\ Goto(t, "followup")
    <3>1. t = "answer" => TakenUp'
      BY <2>4, TakenElsewhere DEF LifecycleTypes, Goto
    <3>2. QED
      BY <2>1, <2>4, <3>1, RecordsStay, SourcePasses DEF Goto
  <2>5. CASE asked' = asked /\ loc' = [loc EXCEPT ![t].stage = "waiting"] /\ Goto(t, "store")
    <3>1. /\ loc'[t].q = loc[t].q /\ loc'[t].src = loc[t].src /\ loc'[t].stage = "waiting"
          /\ pc'[t] = "store"
          /\ \A s \in Threads \ {t} : loc'[s] = loc[s] /\ pc'[s] = pc[s]
      BY <2>5 DEF LifecycleTypes, Locals, Goto
    <3>2. Carried(t)'
      BY <2>5, <3>1 DEF SourceInv, Carried
    <3>3. t = "answer" => TakenUp'
      BY <3>1, TakenElsewhere
    <3>4. goneOn' \in [Questions -> AnySource]
      BY <2>1 DEF SourceInv, AskedInOrder
    <3>5. QED
      BY <2>1, <2>5, <3>1, <3>2, <3>3, <3>4, RecordsStay, GoesOnAsBefore, SourceMoves
  <2>6. QED
    BY <1>5, <2>2, <2>3, <2>4, <2>5 DEF HandleResult
<1>6. QED
  BY <1>1, <1>2, <1>3, <1>4, <1>5 DEF Handling

\* Completing opens nothing.
LEMMA SourceCompleted ==
  ASSUME Inv, SourceInv, NEW t \in Threads, Completing(t)
  PROVE  SourceInv'
<1> USE DEF Inv
<1>1. CASE ClearCache(t)
  <2>1. /\ asked' = asked /\ goneOn' = goneOn /\ susp' = susp
        /\ pc' = [pc EXCEPT ![t] = "clear_record"]
        /\ loc' = [loc EXCEPT ![t].seen = cache]
    BY <1>1 DEF ClearCache, store, hist, Goto
  <2>2. /\ loc'[t].q = loc[t].q /\ loc'[t].src = loc[t].src
        /\ \A s \in Threads \ {t} : loc'[s] = loc[s]
    BY <2>1 DEF LifecycleTypes, Locals
  <2>3. t = "answer" => TakenUp'
    BY <2>1, TakenElsewhere DEF LifecycleTypes
  <2>4. QED
    BY <2>1, <2>2, <2>3, RecordsStay, SourcePasses
<1>2. CASE ClearRecord(t)
  <2>1. /\ asked' = asked /\ goneOn' = goneOn /\ loc' = loc
        /\ \E label \in {"clear_tool", "complete"} : pc' = [pc EXCEPT ![t] = label]
        /\ \/ susp' = susp
           \/ \E q, src : Upsert(q, "cleared", src)
    BY <1>2 DEF ClearRecord, Goto
  <2>2. RecordsAsAsked'
    BY <2>1, RecordsStay, RecordsWritten
  <2>3. t = "answer" => TakenUp'
    BY <2>1, TakenElsewhere DEF LifecycleTypes
  <2>4. QED
    BY <2>1, <2>2, <2>3, SourcePasses
<1>3. CASE ClearTool(t)
  <2>1. /\ asked' = asked /\ goneOn' = goneOn
        /\ susp' = susp \/ \E q, src : Upsert(q, "cleared", src)
    BY <1>3 DEF ClearTool
  <2>2. RecordsAsAsked'
    BY <2>1, RecordsStay, RecordsWritten
  <2>3. CASE Return(t)
    BY <2>1, <2>2, <2>3, SourceReturns
  <2>4. CASE Goto(t, "complete") /\ loc' = loc
    <3>1. t = "answer" => TakenUp'
      BY <2>4, TakenElsewhere DEF LifecycleTypes, Goto
    <3>2. QED
      BY <2>1, <2>2, <2>4, <3>1, SourcePasses DEF Goto
  <2>5. QED
    BY <1>3, <2>3, <2>4 DEF ClearTool
<1>4. CASE Complete(t)
  <2>1. asked' = asked /\ goneOn' = goneOn /\ susp' = susp
    BY <1>4 DEF Complete, hist
  <2>2. QED
    BY <1>4, <2>1, RecordsStay, SourceReturns DEF Complete
<1>5. QED
  BY <1>1, <1>2, <1>3, <1>4 DEF Completing

\* An answer is taken up with the source its question was asked with.
LEMMA SourceAnswered ==
  ASSUME Inv, SourceInv, Answering
  PROVE  SourceInv'
<1> USE DEF Inv
<1> DEFINE t == "answer"
<1>0. t \in Threads /\ AnswerHolds /\ TakenUp
  BY DEF Threads, SourceInv
<1>1. CASE \E s \in Rebuilt : Look(s)
  <2>1. PICK s \in Rebuilt : Look(s)
    BY <1>1
  <2>2. /\ asked' = asked /\ goneOn' = goneOn /\ susp' = susp
        /\ pc' = [pc EXCEPT ![t] = "hydrate"]
        /\ loc' = [loc EXCEPT ![t].seen = s]
    BY <2>1 DEF Look, store, hist, Goto
  <2>3. /\ loc'[t].q = loc[t].q /\ loc'[t].src = loc[t].src /\ loc'[t].seen = s
        /\ \A u \in Threads \ {t} : loc'[u] = loc[u]
        /\ pc'[t] = "hydrate"
    BY <1>0, <2>2 DEF LifecycleTypes, Locals
  <2>4. s.q # NoQ => s.q \in Open /\ s.src = RebuiltSource(s.q)
    BY DEF Rebuilt, NoPending
  <2>5. s.q # NoQ => asked[s.q] # NoSource /\ s.src = Chosen(s.q)
    BY <2>4 DEF SourceInv, RecordsAsAsked, RebuiltSource, Chosen
  <2>6. TakenUp'
    BY <2>2, <2>3, <2>5 DEF TakenUp, Chosen
  <2>7. QED
    BY <1>0, <2>2, <2>3, <2>6, RecordsStay, SourcePasses
<1>2. CASE Hydrate
  <2>1. asked' = asked /\ goneOn' = goneOn /\ susp' = susp /\ pc[t] = "hydrate"
    BY <1>2 DEF Hydrate, store, hist
  <2>2. CASE loc[t].seen.q # loc[t].want
    BY <1>0, <1>2, <2>1, <2>2, RecordsStay, SourceReturns DEF Hydrate
  <2>3. CASE loc[t].seen.q = loc[t].want
    <3> DEFINE label == IF loc[t].seen.src = "tool" THEN "permit" ELSE "resolve"
    <3>1. /\ pc' = [pc EXCEPT ![t] = label]
          /\ loc' = [loc EXCEPT ![t] = [loc[t] EXCEPT !.ans = loc[t].seen.q, !.asrc = loc[t].seen.src,
                                                      !.seen = NoPending]]
      BY <1>2, <2>3 DEF Hydrate, Goto
    <3>2. /\ loc'[t].q = loc[t].q /\ loc'[t].src = loc[t].src
          /\ loc'[t].ans = loc[t].seen.q /\ loc'[t].asrc = loc[t].seen.src
          /\ \A u \in Threads \ {t} : loc'[u] = loc[u]
          /\ pc'[t] = label
      BY <1>0, <3>1 DEF LifecycleTypes, Locals
    <3>3. loc[t].seen.q \in Questions /\ loc[t].seen.q # NoQ
      BY <1>0, <2>1, <2>3 DEF AnswerHolds, Questions, NoQ
    <3>4. asked[loc[t].seen.q] # NoSource /\ loc[t].seen.src = Chosen(loc[t].seen.q)
      BY <1>0, <2>1, <3>3 DEF TakenUp
    <3>5. TakenUp'
      BY <2>1, <3>2, <3>3, <3>4 DEF TakenUp, Chosen
    <3>6. QED
      BY <1>0, <2>1, <3>1, <3>2, <3>5, RecordsStay, SourcePasses
  <2>4. QED
    BY <2>2, <2>3
<1>3. CASE Resolve \/ ToolRuns
  <2> DEFINE a == loc[t].ans
             src == IF pc[t] = "tool" THEN "tool" ELSE loc[t].asrc
  <2>1. /\ asked' = asked /\ loc' = loc /\ goneOn' = [goneOn EXCEPT ![a] = src]
        /\ pc[t] \in {"resolve", "tool"}
        /\ \E label \in {"verdict", "continue", "permitted"} : pc' = [pc EXCEPT ![t] = label]
        /\ susp' = susp \/ \E q, s : Upsert(q, "resolved", s)
    BY <1>3 DEF Resolve, ToolRuns, Goto, store
  <2>2. a \in Questions /\ asked[a] # NoSource /\ src = Chosen(a)
    BY <1>0, <2>1 DEF TakenUp
  <2>3. Chosen(a) \in AnySource
    BY DEF Chosen, AnySource, Sources
  <2>4. goneOn' \in [Questions -> AnySource] /\ GoneOnAsAsked'
    BY <2>1, <2>2, <2>3 DEF SourceInv, AskedInOrder, GoneOnAsAsked, Chosen
  <2>5. RecordsAsAsked'
    BY <2>1, RecordsStay, RecordsWritten
  <2>6. /\ pc'[t] \notin {"hydrate", "resolve", "permit", "tool"}
        /\ pc'[t] \notin {"store", "cache", "tool_record", "tool_invocation"}
        /\ \A u \in Threads \ {t} : pc'[u] = pc[u] /\ loc'[u] = loc[u]
    BY <1>0, <2>1 DEF LifecycleTypes
  <2>7. Carried(t)'
    BY <1>0, <2>1, <2>6, CarriedElsewhere
  <2>8. QED
    BY <1>0, <2>1, <2>4, <2>5, <2>6, <2>7, TakenElsewhere, SourceMoves
<1>4. CASE RejectPlan \/ ToolFails
  <2>1. Return(t) /\ asked' = asked /\ goneOn' = goneOn /\ susp' = susp
    BY <1>4 DEF RejectPlan, ToolFails, store, hist
  <2>2. QED
    BY <1>0, <2>1, RecordsStay, SourceReturns
<1>5. CASE Permit
  <2>1. asked' = asked /\ goneOn' = goneOn /\ susp' = susp /\ pc[t] = "permit"
    BY <1>5 DEF Permit, store, hist
  <2>2. CASE Return(t)
    BY <1>0, <2>1, <2>2, RecordsStay, SourceReturns
  <2>3. CASE Goto(t, "tool") /\ loc' = loc
    <3>1. TakenUp'
      BY <1>0, <2>1, <2>3 DEF TakenUp, Chosen, LifecycleTypes, Goto
    <3>2. QED
      BY <1>0, <2>1, <2>3, <3>1, RecordsStay, SourcePasses DEF Goto
  <2>4. QED
    BY <1>5, <2>2, <2>3 DEF Permit
<1>6. CASE ApprovePlan \/ Permitted \/ LoopCompletes
  <2>1. /\ asked' = asked /\ goneOn' = goneOn
        /\ \E label \in {"execute", "loop", "clear_cache"} : pc' = [pc EXCEPT ![t] = label]
        /\ susp' = susp \/ \E q, s : Upsert(q, "resolved", s)
        /\ loc' \in {loc, [loc EXCEPT ![t].stage = "finish"]}
    BY <1>6 DEF ApprovePlan, Permitted, LoopCompletes, Goto, store, hist
  <2>2. /\ loc'[t].q = loc[t].q /\ loc'[t].src = loc[t].src
        /\ \A u \in Threads \ {t} : loc'[u] = loc[u]
    BY <1>0, <2>1 DEF LifecycleTypes, Locals
  <2>3. TakenUp'
    BY <1>0, <2>1, TakenElsewhere DEF LifecycleTypes
  <2>4. RecordsAsAsked'
    BY <2>1, RecordsStay, RecordsWritten
  <2>5. QED
    BY <1>0, <2>1, <2>2, <2>3, <2>4, SourcePasses
<1>7. CASE LoopSuspends
  <2>1. Ask(t, "tool", "resuspend") /\ susp' = susp /\ goneOn' = goneOn
    BY <1>7 DEF LoopSuspends, store
  <2>2. QED
    BY <1>0, <2>1, AskSource DEF Sources
<1>8. QED
  BY <1>1, <1>2, <1>3, <1>4, <1>5, <1>6, <1>7 DEF Answering

\* Every step.
LEMMA SourceStep == Inv /\ SourceInv /\ [Next]_vars => SourceInv'
<1> SUFFICES ASSUME Inv, SourceInv, [Next]_vars PROVE SourceInv'
  OBVIOUS
<1> USE DEF Inv
<1>1. CASE \E t \in Threads : Storing(t)
  BY <1>1, SourceStored
<1>2. CASE \E t \in Threads : Handling(t)
  BY <1>2, SourceHandled
<1>3. CASE \E t \in Threads : Completing(t)
  BY <1>3, SourceCompleted
<1>4. CASE Answering
  BY <1>4, SourceAnswered
<1>5. CASE Begin
  <2>1. /\ asked' = asked /\ goneOn' = goneOn /\ susp' = susp /\ loc' = loc
        /\ pc' = [pc EXCEPT !["inbound"] = "plan"]
    BY <1>5 DEF Begin, hist, Goto
  <2>2. QED
    BY <2>1, RecordsStay, SourcePasses DEF Threads
<1>6. CASE ProposePlan
  <2>1. Ask("inbound", "approval", "register") /\ susp' = susp /\ goneOn' = goneOn
    BY <1>6 DEF ProposePlan, store
  <2>2. QED
    BY <2>1, AskSource DEF Sources, Threads
<1>7. CASE Restart
  <2>1. /\ asked' = asked /\ goneOn' = goneOn /\ susp' = susp
        /\ \A t \in Threads : loc'[t] = Idle /\ pc'[t] \in {"done", "idle"}
    BY <1>7 DEF Restart, store, hist
  <2>2. \A t \in Threads : Carried(t)'
    BY <2>1, CarriedElsewhere DEF Idle
  <2>3. TakenUp'
    BY <2>1, TakenElsewhere DEF Threads
  <2>4. AskedInOrder'
    BY <2>1 DEF SourceInv, AskedInOrder
  <2>5. QED
    BY <2>1, <2>2, <2>3, <2>4, RecordsStay, GoesOnAsBefore DEF SourceInv
<1>8. CASE \E q \in Questions : Submit(q)
  <2>1. PICK q \in Questions : Submit(q)
    BY <1>8
  <2>2. /\ asked' = asked /\ goneOn' = goneOn /\ susp' = susp
        /\ pc' = [pc EXCEPT !["answer"] = "look"]
        /\ loc' = [loc EXCEPT !["answer"].want = q]
    BY <2>1 DEF Submit, store, hist, Goto
  <2>3. /\ loc'["answer"].q = loc["answer"].q /\ loc'["answer"].src = loc["answer"].src
        /\ \A u \in Threads \ {"answer"} : loc'[u] = loc[u]
    BY <2>2 DEF LifecycleTypes, Locals, Threads
  <2>4. TakenUp'
    BY <2>2, TakenElsewhere DEF LifecycleTypes, Threads
  <2>5. QED
    BY <2>2, <2>3, <2>4, RecordsStay, SourcePasses DEF Threads
<1>9. CASE UNCHANGED vars
  BY <1>9
     DEF SourceInv, AskedInOrder, RecordsAsAsked, TakenUp, GoneOnAsAsked, Carried, Chosen,
         Open, vars, store, hist
<1>10. QED
  BY <1>1, <1>2, <1>3, <1>4, <1>5, <1>6, <1>7, <1>8, <1>9
     DEF Next, InboundStep, AnswerStep, Threads

\* The branch an answer takes is the one its question was asked for
\* (suspension.rs, rebuild_question; question_continuation.rs,
\* continue_submitted_question_answer), whatever is restarted in between: a
\* permission is never taken for an answer to the model, nor a plan's approval
\* for either.  A blocked subtask's question is the exception.
THEOREM AnswersGoWhereAsked == Spec => []ContinuedAsAsked
<1>1. SourceInv => ContinuedAsAsked
  <2> SUFFICES ASSUME SourceInv, NEW q \in Questions, asked[q] # "blocked", goneOn[q] # NoSource
               PROVE  goneOn[q] = asked[q]
    BY DEF ContinuedAsAsked
  <2>1. asked[q] \in AnySource /\ asked[q] # NoSource /\ goneOn[q] = Chosen(q)
    BY DEF SourceInv, GoneOnAsAsked, AskedInOrder
  <2>2. QED
    BY <2>1 DEF Chosen, AnySource, Sources
<1>2. QED
  BY InitInv, StepInv, SourceBegins, SourceStep, <1>1, PTL DEF Spec

-----------------------------------------------------------------------------
(* One question at a time.  When the user waits for the message thread, one *)
(* thread works at a time, and it has closed what was open before it asks.  *)

\* Thread t is where no question is open ...
Clear(t) ==
    \/ pc[t] \in {"plan", "execute", "continue", "followup", "verdict", "loop",
                  "clear_cache", "clear_record", "complete"}
    \/ pc[t] = "handle" /\ loc[t].q = NoQ
    \/ pc[t] = "clear_tool" /\ loc[t].stage = "finish"
    \/ pc[t] = "idle" /\ t = "inbound"

\* ... or none but the one it stores.
Asking(t) ==
    \/ pc[t] \in {"store", "cache", "tool_record", "tool_invocation", "waiting"}
    \/ pc[t] = "handle" /\ loc[t].q # NoQ
    \/ pc[t] = "clear_tool" /\ loc[t].stage = "resuspend"

\* ... or none but the one it answers.
Replying(t) == pc[t] \in {"resolve", "permit", "tool", "permitted"}

Quiet(t) ==
    /\ Clear(t) => Open = {}
    /\ Asking(t) => Open \subseteq {loc[t].q}
    /\ Replying(t) => Open \subseteq {loc[t].ans}
    /\ pc[t] = "handle" /\ loc[t].q # NoQ => loc[t].result = "ask"
    /\ pc[t] \in {"tool_record", "tool_invocation"} => loc[t].stage \in {"suspend", "resuspend"}
    /\ pc[t] = "clear_tool" => loc[t].stage \in {"resuspend", "finish"}

QuietInv ==
    ~eager =>
      /\ pc["answer"] # "idle" => pc["inbound"] = "done"
      /\ \A p, q \in Open : p = q
      /\ \A t \in Threads : Quiet(t)
      /\ run = "completed" => /\ Open = {} /\ pc["inbound"] = "done"
                              /\ pc["answer"] \in {"idle", "look", "hydrate"}

\* Nothing is open.
LEMMA QuietBegins == Init => QuietInv
<1> SUFFICES ASSUME Init PROVE QuietInv
  OBVIOUS
<1>1. Open = {} /\ run # "completed" /\ \A t \in Threads : pc[t] = "idle"
  BY DEF Init, Open
<1>2. QED
  BY <1>1 DEF QuietInv, Quiet, Asking, Replying, Threads

\* What an upsert opens and closes.
LEMMA UpsertOpens ==
  ASSUME LifecycleTypes, NEW q, NEW status, NEW src, Upsert(q, status, src)
  PROVE  /\ status = "active" => Open' \subseteq Open \cup {q}
         /\ status # "active" => Open' = Open \ {q}
BY DEF LifecycleTypes, Upsert, Open

\* A thread that has returned is quiet.
LEMMA ReturnIsQuiet ==
  ASSUME LifecycleTypes, NEW t \in Threads, Return(t)
  PROVE  Quiet(t)' /\ pc'[t] = (IF t = "inbound" THEN "done" ELSE "idle")
<1>1. pc'[t] = (IF t = "inbound" THEN "done" ELSE "idle")
  BY DEF LifecycleTypes, Return, Goto
<1>2. QED
  BY <1>1 DEF Quiet, Clear, Asking, Replying

\* A step of one thread: the other one is idle, or done.
LEMMA QuietMoves ==
  ASSUME QuietInv, ~eager, eager' = eager, NEW t \in Threads, pc[t] \notin {"idle", "done"},
         \A s \in Threads \ {t} : pc'[s] = pc[s] /\ loc'[s] = loc[s],
         Quiet(t)', \A p, q \in Open' : p = q,
         run' = "completed" => /\ Open' = {}
                               /\ t = "inbound" => pc'[t] = "done"
                               /\ t = "answer" => pc'[t] \in {"idle", "look", "hydrate"}
  PROVE  QuietInv'
<1>1. CASE t = "inbound"
  <2>1. pc["answer"] = "idle" /\ pc'["answer"] = "idle"
    BY <1>1 DEF QuietInv, Threads
  <2>2. Quiet("answer")'
    BY <2>1 DEF Quiet, Clear, Asking, Replying
  <2>3. QED
    BY <1>1, <2>1, <2>2 DEF QuietInv, Threads
<1>2. CASE t = "answer"
  <2>1. pc["inbound"] = "done" /\ pc'["inbound"] = "done"
    BY <1>2 DEF QuietInv, Threads
  <2>2. Quiet("inbound")'
    BY <2>1 DEF Quiet, Clear, Asking, Replying
  <2>3. QED
    BY <1>2, <2>1, <2>2 DEF QuietInv, Threads
<1>3. QED
  BY <1>1, <1>2 DEF Threads

\* A step of a thread that works on the job: the job is not complete.
LEMMA QuietWorks ==
  ASSUME QuietInv, ~eager, eager' = eager, NEW t \in Threads,
         pc[t] \notin {"idle", "done", "look", "hydrate"},
         run' \in {run, "running"},
         \A s \in Threads \ {t} : pc'[s] = pc[s] /\ loc'[s] = loc[s],
         Quiet(t)', \A p, q \in Open' : p = q
  PROVE  QuietInv'
<1>1. run # "completed"
  BY DEF QuietInv, Threads
<1>2. QED
  BY <1>1, QuietMoves

\* A thread that works and returns.
LEMMA QuietReturns ==
  ASSUME LifecycleTypes, QuietInv, ~eager, eager' = eager, NEW t \in Threads,
         pc[t] \notin {"idle", "done", "look", "hydrate"},
         run' \in {run, "running"}, Return(t), Open' \subseteq Open
  PROVE  QuietInv'
<1>1. \A p, q \in Open' : p = q
  BY DEF QuietInv
<1>2. \A s \in Threads \ {t} : pc'[s] = pc[s] /\ loc'[s] = loc[s]
  BY DEF LifecycleTypes, Return, Goto
<1>3. QED
  BY <1>1, <1>2, ReturnIsQuiet, QuietWorks

\* A thread that works and goes on where nothing is open.
LEMMA QuietClears ==
  ASSUME LifecycleTypes, QuietInv, ~eager, eager' = eager, NEW t \in Threads,
         pc[t] \notin {"idle", "done", "look", "hydrate"}, run' \in {run, "running"},
         \A s \in Threads \ {t} : pc'[s] = pc[s] /\ loc'[s] = loc[s],
         \/ pc'[t] \in {"execute", "continue", "followup", "verdict", "loop",
                        "clear_cache", "clear_record", "complete"}
         \/ pc'[t] = "handle" /\ loc'[t].q = NoQ
         \/ pc'[t] = "clear_tool" /\ loc'[t].stage = "finish",
         Open' = {}
  PROVE  QuietInv'
<1>1. Quiet(t)'
  BY DEF Quiet, Clear, Asking, Replying
<1>2. QED
  BY <1>1, QuietWorks

\* A thread that asks where nothing is open.
LEMMA AskIsQuiet ==
  ASSUME LifecycleTypes, QuietInv, ~eager, eager' = eager, NEW t \in Threads, NEW src, NEW stage,
         Clear(t), pc[t] # "idle", run' \in {run, "running"}, Ask(t, src, stage), susp' = susp
  PROVE  QuietInv'
<1>1. /\ pc'[t] = "store"
      /\ \A s \in Threads \ {t} : pc'[s] = pc[s] /\ loc'[s] = loc[s]
  BY DEF LifecycleTypes, Ask, Goto
<1>2. Open' = {}
  BY DEF QuietInv, Quiet, Open
<1>3. Quiet(t)'
  BY <1>1, <1>2 DEF Quiet, Clear, Asking, Replying
<1>4. pc[t] \notin {"idle", "done", "look", "hydrate"}
  BY DEF Clear
<1>5. QED
  BY <1>1, <1>2, <1>3, <1>4, QuietWorks

\* The one question is stored.
LEMMA QuietStored ==
  ASSUME Inv, QuietInv, ~eager, NEW t \in Threads, Storing(t)
  PROVE  QuietInv'
<1> USE DEF Inv
<1>0. Quiet(t)
  BY DEF QuietInv
<1>1. CASE StoreRecord(t)
  <2>1. /\ pc[t] = "store" /\ pc'[t] = "cache" /\ loc' = loc /\ run' = run /\ eager' = eager
        /\ \A s \in Threads \ {t} : pc'[s] = pc[s]
    BY <1>1 DEF LifecycleTypes, StoreRecord, Goto
  <2>2. Open' \subseteq {loc[t].q}
    BY <1>0, <1>1, <2>1, UpsertOpens DEF StoreRecord, Quiet, Asking
  <2>3. Quiet(t)' /\ \A p, q \in Open' : p = q
    BY <2>1, <2>2 DEF Quiet, Clear, Asking, Replying
  <2>4. QED
    BY <2>1, <2>3, QuietWorks
<1>2. CASE StoreCache(t)
  <2>1. pc[t] = "cache" /\ run' = run /\ eager' = eager /\ Open' = Open
    BY <1>2 DEF StoreCache, store, Open
  <2>2. CASE Return(t)
    BY <2>1, <2>2, QuietReturns
  <2>3. CASE /\ loc' = loc
             /\ \/ Goto(t, "tool_record") /\ loc[t].stage \in {"suspend", "resuspend"}
                \/ Goto(t, "waiting")
    <3>1. /\ pc'[t] \in {"tool_record", "waiting"}
          /\ pc'[t] = "tool_record" => loc[t].stage \in {"suspend", "resuspend"}
          /\ \A s \in Threads \ {t} : pc'[s] = pc[s]
      BY <2>3 DEF LifecycleTypes, Goto
    <3>2. Quiet(t)' /\ \A p, q \in Open' : p = q
      BY <1>0, <2>1, <2>3, <3>1 DEF QuietInv, Quiet, Clear, Asking, Replying
    <3>3. QED
      BY <2>1, <2>3, <3>1, <3>2, QuietWorks
  <2>4. QED
    BY <1>2, <2>2, <2>3 DEF StoreCache
<1>3. CASE ToolRecord(t)
  <2>1. /\ pc[t] = "tool_record" /\ pc'[t] = "tool_invocation"
        /\ loc' = loc /\ run' = run /\ eager' = eager
        /\ \A s \in Threads \ {t} : pc'[s] = pc[s]
    BY <1>3 DEF LifecycleTypes, ToolRecord, Goto
  <2>2. Open' \subseteq {loc[t].q}
    BY <1>0, <1>3, <2>1, UpsertOpens DEF ToolRecord, Quiet, Asking
  <2>3. Quiet(t)' /\ \A p, q \in Open' : p = q
    BY <1>0, <2>1, <2>2 DEF Quiet, Clear, Asking, Replying
  <2>4. QED
    BY <2>1, <2>3, QuietWorks
<1>4. CASE ToolInvocation(t)
  <2>1. pc[t] = "tool_invocation" /\ run' = run /\ eager' = eager /\ Open' = Open
    BY <1>4 DEF ToolInvocation, Open
  <2>2. CASE loc[t].stage = "suspend"
    <3>1. /\ pc'[t] = "handle" /\ loc'[t].q = loc[t].q /\ loc'[t].result = "ask"
          /\ \A s \in Threads \ {t} : pc'[s] = pc[s] /\ loc'[s] = loc[s]
      BY <1>4, <2>2 DEF LifecycleTypes, Locals, ToolInvocation, Goto
    <3>2. CASE loc[t].q = NoQ
      <4>1. Open' = {}
        BY <1>0, <2>1, <3>2 DEF Quiet, Asking, Open, NoQ, Questions
      <4>2. QED
        BY <2>1, <3>1, <3>2, <4>1, QuietClears
    <3>3. CASE loc[t].q # NoQ
      <4>1. Quiet(t)' /\ \A p, q \in Open' : p = q
        BY <1>0, <2>1, <3>1, <3>3 DEF QuietInv, Quiet, Clear, Asking, Replying
      <4>2. QED
        BY <2>1, <3>1, <4>1, QuietWorks
    <3>4. QED
      BY <3>2, <3>3
  <2>3. CASE loc[t].stage = "resuspend"
    <3>1. /\ pc'[t] = "clear_tool" /\ loc' = loc
          /\ \A s \in Threads \ {t} : pc'[s] = pc[s]
      BY <1>4, <2>3 DEF LifecycleTypes, ToolInvocation, Goto
    <3>2. Quiet(t)' /\ \A p, q \in Open' : p = q
      BY <1>0, <2>1, <2>3, <3>1 DEF QuietInv, Quiet, Clear, Asking, Replying
    <3>3. QED
      BY <2>1, <3>1, <3>2, QuietWorks
  <2>4. QED
    BY <1>4, <2>2, <2>3 DEF ToolInvocation
<1>5. CASE Waiting(t)
  <2>1. /\ pc[t] = "waiting" /\ run' = "running" /\ eager' = eager /\ Open' = Open
        /\ Return(t)
    BY <1>5 DEF Waiting, Open
  <2>2. QED
    BY <2>1, QuietReturns
<1>6. QED
  BY <1>1, <1>2, <1>3, <1>4, <1>5 DEF Storing

\* A question is asked where nothing is open.
LEMMA QuietHandled ==
  ASSUME Inv, QuietInv, ~eager, NEW t \in Threads, Handling(t)
  PROVE  QuietInv'
<1> USE DEF Inv
<1>0. Quiet(t)
  BY DEF QuietInv
<1>1. CASE ToolSuspends(t)
  <2>1. /\ Ask(t, "tool", "suspend") /\ susp' = susp /\ run' = run /\ eager' = eager
        /\ pc[t] \in {"plan", "execute"}
    BY <1>1 DEF ToolSuspends, store
  <2>2. QED
    BY <2>1, AskIsQuiet DEF Clear
<1>2. CASE RegisterBlocked(t)
  <2>1. /\ Ask(t, "blocked", "register") /\ susp' = susp /\ run' = run /\ eager' = eager
        /\ pc[t] = "handle" /\ loc[t].result = "blocked"
    BY <1>2 DEF RegisterBlocked, store
  <2>2. Clear(t) /\ pc[t] # "idle"
    BY <1>0, <2>1 DEF Quiet, Clear
  <2>3. QED
    BY <2>1, <2>2, AskIsQuiet
<1>3. CASE UpstreamFails(t) \/ FollowupEnds(t)
  <2>1. /\ Return(t) /\ run' \in {run, "running"} /\ eager' = eager /\ Open' = Open
        /\ pc[t] \in {"plan", "continue", "loop", "followup"}
    BY <1>3 DEF UpstreamFails, FollowupEnds, store, Open
  <2>2. QED
    BY <2>1, QuietReturns
<1>4. CASE \E r \in Results : UpstreamReturns(t, r)
  <2>1. PICK r \in Results : UpstreamReturns(t, r)
    BY <1>4
  <2>2. /\ pc[t] \in {"plan", "execute", "continue"} /\ pc'[t] = "handle"
        /\ run' = run /\ eager' = eager /\ Open' = Open
        /\ loc' = [loc EXCEPT ![t] = [loc[t] EXCEPT !.result = r, !.q = NoQ, !.src = NoSource]]
        /\ \A s \in Threads \ {t} : pc'[s] = pc[s]
    BY <2>1 DEF UpstreamReturns, Goto, store, Open, LifecycleTypes
  <2>3. loc'[t].q = NoQ /\ \A s \in Threads \ {t} : loc'[s] = loc[s]
    BY <2>2 DEF LifecycleTypes, Locals
  <2>4. Open = {}
    BY <1>0, <2>2 DEF Quiet, Clear
  <2>5. QED
    BY <2>2, <2>3, <2>4, QuietClears
<1>5. CASE \E r \in Results : Followup(t, r)
  <2>1. PICK r \in Results : Followup(t, r)
    BY <1>5
  <2>2. /\ pc[t] = "followup" /\ pc'[t] = "handle"
        /\ run' = "running" /\ eager' = eager /\ Open' = Open
        /\ loc' = [loc EXCEPT ![t] = [loc[t] EXCEPT !.result = r, !.q = NoQ, !.src = NoSource,
                                                    !.ans = NoQ, !.asrc = NoSource]]
        /\ \A s \in Threads \ {t} : pc'[s] = pc[s]
    BY <2>1 DEF Followup, Goto, Open, LifecycleTypes
  <2>3. loc'[t].q = NoQ /\ \A s \in Threads \ {t} : loc'[s] = loc[s]
    BY <2>2 DEF LifecycleTypes, Locals
  <2>4. Open = {}
    BY <1>0, <2>2 DEF Quiet, Clear
  <2>5. QED
    BY <2>2, <2>3, <2>4, QuietClears
<1>6. CASE AutoResolve(t)
  <2>1. /\ pc[t] = "handle" /\ loc[t].result = "blocked" /\ pc'[t] = "continue"
        /\ run' = run /\ eager' = eager /\ Open' = Open
        /\ \A s \in Threads \ {t} : pc'[s] = pc[s] /\ loc'[s] = loc[s]
    BY <1>6 DEF AutoResolve, Goto, store, Open, LifecycleTypes
  <2>2. Open = {}
    BY <1>0, <2>1 DEF Quiet, Clear
  <2>3. QED
    BY <2>1, <2>2, QuietClears
<1>7. CASE HandleResult(t)
  <2>1. pc[t] = "handle" /\ run' = "running" /\ eager' = eager /\ susp' = susp /\ Open' = Open
    BY <1>7 DEF HandleResult, Open
  <2>2. CASE loc[t].q = NoQ
    <3>1. Clear(t) /\ Open = {}
      BY <1>0, <2>1, <2>2 DEF Quiet, Clear
    <3>2. CASE Ask(t, "upstream", "waiting")
      BY <2>1, <3>1, <3>2, AskIsQuiet
    <3>3. CASE /\ loc' \in {loc, [loc EXCEPT ![t].stage = "complete"]}
               /\ Goto(t, "clear_cache") \/ Goto(t, "followup")
      <4>1. /\ pc'[t] \in {"clear_cache", "followup"}
            /\ \A s \in Threads \ {t} : pc'[s] = pc[s] /\ loc'[s] = loc[s]
        BY <3>3 DEF LifecycleTypes, Goto
      <4>2. QED
        BY <2>1, <3>1, <4>1, QuietClears
    <3>4. QED
      BY <1>7, <2>2, <3>2, <3>3 DEF HandleResult
  <2>3. CASE loc[t].q # NoQ
    <3>1. loc[t].result = "ask"
      BY <1>0, <2>1, <2>3 DEF Quiet
    <3>2. loc' = [loc EXCEPT ![t].stage = "waiting"] /\ Goto(t, "store")
      BY <1>7, <2>3, <3>1 DEF HandleResult
    <3>3. /\ pc'[t] = "store" /\ loc'[t].q = loc[t].q
          /\ \A s \in Threads \ {t} : pc'[s] = pc[s] /\ loc'[s] = loc[s]
      BY <3>2 DEF LifecycleTypes, Locals, Goto
    <3>4. Quiet(t)' /\ \A p, q \in Open' : p = q
      BY <1>0, <2>1, <2>3, <3>3 DEF QuietInv, Quiet, Clear, Asking, Replying
    <3>5. QED
      BY <2>1, <3>3, <3>4, QuietWorks
  <2>4. QED
    BY <2>2, <2>3
<1>8. QED
  BY <1>1, <1>2, <1>3, <1>4, <1>5, <1>6, <1>7 DEF Handling

\* A job is completed where nothing is open.
LEMMA QuietCompleted ==
  ASSUME Inv, QuietInv, ~eager, NEW t \in Threads, Completing(t)
  PROVE  QuietInv'
<1> USE DEF Inv
<1>0. Quiet(t)
  BY DEF QuietInv
<1>1. CASE ClearCache(t)
  <2>1. /\ pc[t] = "clear_cache" /\ pc'[t] = "clear_record"
        /\ run' = run /\ eager' = eager /\ Open' = Open
        /\ \A s \in Threads \ {t} : pc'[s] = pc[s] /\ loc'[s] = loc[s]
    BY <1>1 DEF ClearCache, Goto, store, Open, LifecycleTypes
  <2>2. Open = {}
    BY <1>0, <2>1 DEF Quiet, Clear
  <2>3. QED
    BY <2>1, <2>2, QuietClears
<1>2. CASE ClearRecord(t)
  <2>1. /\ pc[t] = "clear_record" /\ loc' = loc /\ run' = run /\ eager' = eager
        /\ pc' = [pc EXCEPT ![t] = IF loc[t].stage = "finish" THEN "clear_tool" ELSE "complete"]
        /\ susp' = susp \/ \E q, src : Upsert(q, "cleared", src)
    BY <1>2 DEF ClearRecord, Goto
  <2>2. /\ pc'[t] \in {"clear_tool", "complete"}
        /\ pc'[t] = "clear_tool" => loc[t].stage = "finish"
        /\ \A s \in Threads \ {t} : pc'[s] = pc[s]
    BY <2>1 DEF LifecycleTypes
  <2>3. Open = {}
    BY <1>0, <2>1 DEF Quiet, Clear
  <2>4. CASE susp' = susp
    <3>1. Open' = {}
      BY <2>3, <2>4 DEF Open
    <3>2. QED
      BY <2>1, <2>2, <3>1, QuietClears
  <2>5. CASE \E q, src : Upsert(q, "cleared", src)
    <3>1. Open' = {}
      BY <2>3, <2>5, UpsertOpens
    <3>2. QED
      BY <2>1, <2>2, <3>1, QuietClears
  <2>6. QED
    BY <2>1, <2>4, <2>5
<1>3. CASE ClearTool(t)
  <2>1. /\ pc[t] = "clear_tool" /\ run' = run /\ eager' = eager
        /\ susp' = susp \/ \E q, src : Upsert(q, "cleared", src)
    BY <1>3 DEF ClearTool
  <2>2. Open' \subseteq Open
    <3>1. CASE susp' = susp
      BY <3>1 DEF Open
    <3>2. CASE \E q, src : Upsert(q, "cleared", src)
      BY <3>2, UpsertOpens
    <3>3. QED
      BY <2>1, <3>1, <3>2
  <2>3. CASE Return(t)
    BY <2>1, <2>2, <2>3, QuietReturns
  <2>4. CASE loc[t].stage = "finish" /\ Goto(t, "complete") /\ loc' = loc
    <3>1. Open = {}
      BY <1>0, <2>1, <2>4 DEF Quiet, Clear
    <3>2. pc'[t] = "complete" /\ \A s \in Threads \ {t} : pc'[s] = pc[s]
      BY <2>4 DEF LifecycleTypes, Goto
    <3>3. QED
      BY <2>1, <2>2, <2>4, <3>1, <3>2, QuietClears
  <2>5. QED
    BY <1>3, <2>3, <2>4 DEF ClearTool
<1>4. CASE Complete(t)
  <2>1. pc[t] = "complete" /\ Return(t) /\ eager' = eager /\ Open' = Open
    BY <1>4 DEF Complete, Open
  <2>2. Open = {}
    BY <1>0, <2>1 DEF Quiet, Clear
  <2>3. \A s \in Threads \ {t} : pc'[s] = pc[s] /\ loc'[s] = loc[s]
    BY <2>1 DEF LifecycleTypes, Return, Goto
  <2>4. QED
    BY <2>1, <2>2, <2>3, ReturnIsQuiet, QuietMoves
<1>5. QED
  BY <1>1, <1>2, <1>3, <1>4 DEF Completing

\* What is answered is what is open, and it is closed.
LEMMA QuietAnswered ==
  ASSUME Inv, QuietInv, ~eager, Answering
  PROVE  QuietInv'
<1> USE DEF Inv
<1> DEFINE t == "answer"
<1>0. t \in Threads /\ AnswerHolds /\ Quiet(t) /\ \A p, q \in Open : p = q
  BY DEF Threads, QuietInv
<1>1. CASE \E s \in Rebuilt : Look(s)
  <2>1. PICK s \in Rebuilt : Look(s)
    BY <1>1
  <2>2. /\ pc[t] = "look" /\ pc'[t] = "hydrate"
        /\ run' = run /\ eager' = eager /\ Open' = Open
        /\ \A u \in Threads \ {t} : pc'[u] = pc[u] /\ loc'[u] = loc[u]
    BY <1>0, <2>1 DEF Look, Goto, store, Open, LifecycleTypes
  <2>3. Quiet(t)' /\ (run' = "completed" => Open' = {})
    BY <2>2 DEF QuietInv, Quiet, Clear, Asking, Replying
  <2>4. QED
    BY <1>0, <2>2, <2>3, QuietMoves
<1>2. CASE Hydrate
  <2>1. pc[t] = "hydrate" /\ run' = run /\ eager' = eager /\ Open' = Open
    BY <1>2 DEF Hydrate, store, Open
  <2>2. CASE loc[t].seen.q # loc[t].want
    <3>1. Return(t)
      BY <1>2, <2>2 DEF Hydrate
    <3>2. \A s \in Threads \ {t} : pc'[s] = pc[s] /\ loc'[s] = loc[s]
      BY <3>1 DEF LifecycleTypes, Return, Goto
    <3>3. run' = "completed" => Open' = {}
      BY <2>1 DEF QuietInv
    <3>4. QED
      BY <1>0, <2>1, <3>1, <3>2, <3>3, ReturnIsQuiet, QuietMoves
  <2>3. CASE loc[t].seen.q = loc[t].want
    <3>1. /\ pc' = [pc EXCEPT ![t] = IF loc[t].seen.src = "tool" THEN "permit" ELSE "resolve"]
          /\ loc' = [loc EXCEPT ![t] = [loc[t] EXCEPT !.ans = loc[t].seen.q, !.asrc = loc[t].seen.src,
                                                      !.seen = NoPending]]
      BY <1>2, <2>3 DEF Hydrate, Goto
    <3>2. /\ loc'[t].ans = loc[t].seen.q /\ pc'[t] \in {"permit", "resolve"}
          /\ \A u \in Threads \ {t} : pc'[u] = pc[u] /\ loc'[u] = loc[u]
      BY <1>0, <3>1 DEF LifecycleTypes, Locals
    <3>3. loc[t].seen.q \in Open
      BY <1>0, <2>1, <2>3 DEF AnswerHolds, Questions, NoQ
    <3>4. Quiet(t)'
      BY <1>0, <2>1, <3>2, <3>3 DEF Quiet, Clear, Asking, Replying
    <3>5. run # "completed"
      BY <3>3 DEF QuietInv
    <3>6. QED
      BY <1>0, <2>1, <3>2, <3>4, <3>5, QuietMoves
  <2>4. QED
    BY <2>2, <2>3
<1>3. CASE Resolve \/ Permitted
  <2>1. /\ pc[t] \in {"resolve", "permitted"} /\ loc' = loc /\ run' = run /\ eager' = eager
        /\ \E label \in {"verdict", "continue", "loop"} : pc' = [pc EXCEPT ![t] = label]
        /\ \E src : Upsert(loc[t].ans, "resolved", src)
    BY <1>3 DEF Resolve, Permitted, Goto
  <2>2. Open' = {}
    BY <1>0, <2>1, UpsertOpens DEF Quiet, Replying
  <2>3. /\ pc'[t] \in {"verdict", "continue", "loop"}
        /\ \A u \in Threads \ {t} : pc'[u] = pc[u]
    BY <1>0, <2>1 DEF LifecycleTypes
  <2>4. QED
    BY <1>0, <2>1, <2>2, <2>3, QuietClears
<1>4. CASE RejectPlan \/ ToolFails
  <2>1. pc[t] \in {"verdict", "tool"} /\ Return(t) /\ run' = run /\ eager' = eager /\ Open' = Open
    BY <1>4 DEF RejectPlan, ToolFails, store, Open
  <2>2. QED
    BY <1>0, <2>1, QuietReturns
<1>5. CASE ApprovePlan \/ LoopCompletes
  <2>1. /\ pc[t] \in {"verdict", "loop"} /\ pc'[t] \in {"execute", "clear_cache"}
        /\ run' = run /\ eager' = eager /\ Open' = Open
        /\ \A u \in Threads \ {t} : pc'[u] = pc[u] /\ loc'[u] = loc[u]
    BY <1>0, <1>5 DEF ApprovePlan, LoopCompletes, Goto, store, Open, LifecycleTypes
  <2>2. Open = {}
    BY <1>0, <2>1 DEF Quiet, Clear
  <2>3. QED
    BY <1>0, <2>1, <2>2, QuietClears
<1>6. CASE Permit \/ ToolRuns
  <2>1. pc[t] \in {"permit", "tool"} /\ run' = run /\ eager' = eager /\ Open' = Open
    BY <1>6 DEF Permit, ToolRuns, store, Open
  <2>2. CASE Return(t)
    BY <1>0, <2>1, <2>2, QuietReturns
  <2>3. CASE (Goto(t, "tool") \/ Goto(t, "permitted")) /\ loc' = loc
    <3>1. pc'[t] \in {"tool", "permitted"} /\ \A u \in Threads \ {t} : pc'[u] = pc[u]
      BY <1>0, <2>3 DEF LifecycleTypes, Goto
    <3>2. Quiet(t)' /\ \A p, q \in Open' : p = q
      BY <1>0, <2>1, <2>3, <3>1 DEF Quiet, Clear, Asking, Replying
    <3>3. QED
      BY <1>0, <2>1, <2>3, <3>1, <3>2, QuietWorks
  <2>4. QED
    BY <1>6, <2>2, <2>3 DEF Permit, ToolRuns
<1>7. CASE LoopSuspends
  <2>1. /\ Ask(t, "tool", "resuspend") /\ susp' = susp /\ run' = run /\ eager' = eager
        /\ pc[t] = "loop"
    BY <1>7 DEF LoopSuspends, store
  <2>2. QED
    BY <1>0, <2>1, AskIsQuiet DEF Clear
<1>8. QED
  BY <1>1, <1>2, <1>3, <1>4, <1>5, <1>6, <1>7 DEF Answering

\* The user stays as patient as he was.
LEMMA EagerStays == [Next]_vars => eager' = eager
<1> SUFFICES ASSUME [Next]_vars PROVE eager' = eager
  OBVIOUS
<1>1. CASE \E t \in Threads : Storing(t) \/ Completing(t)
  BY <1>1
     DEF Storing, StoreRecord, StoreCache, ToolRecord, ToolInvocation, Waiting,
         Completing, ClearCache, ClearRecord, ClearTool, Complete
<1>2. CASE \E t \in Threads : Handling(t)
  BY <1>2
     DEF Handling, ToolSuspends, UpstreamFails, UpstreamReturns, Followup,
         AutoResolve, RegisterBlocked, HandleResult, FollowupEnds
<1>3. CASE Answering
  BY <1>3
     DEF Answering, Look, Hydrate, Resolve, RejectPlan, ApprovePlan, Permit,
         ToolRuns, ToolFails, Permitted, LoopCompletes, LoopSuspends
<1>4. CASE Begin \/ ProposePlan \/ Restart \/ \E q \in Questions : Submit(q)
  BY <1>4 DEF Begin, ProposePlan, Restart, Submit
<1>5. QED
  BY <1>1, <1>2, <1>3, <1>4 DEF Next, InboundStep, AnswerStep, Threads, vars

\* Every step.
LEMMA QuietStep == Inv /\ QuietInv /\ [Next]_vars => QuietInv'
<1> SUFFICES ASSUME Inv, QuietInv, [Next]_vars, ~eager PROVE QuietInv'
  BY EagerStays DEF QuietInv
<1> USE DEF Inv
<1>1. CASE \E t \in Threads : Storing(t)
  BY <1>1, QuietStored
<1>2. CASE \E t \in Threads : Handling(t)
  BY <1>2, QuietHandled
<1>3. CASE \E t \in Threads : Completing(t)
  BY <1>3, QuietCompleted
<1>4. CASE Answering
  BY <1>4, QuietAnswered
<1>5. CASE Begin
  <2>1. /\ pc["inbound"] = "idle" /\ pc'["inbound"] = "plan" /\ pc'["answer"] = pc["answer"]
        /\ loc' = loc /\ run' = "running" /\ Open' = Open
    BY <1>5 DEF Begin, Goto, Open, LifecycleTypes, Threads
  <2>2. pc["answer"] = "idle" /\ Open = {}
    BY <2>1 DEF QuietInv, Quiet, Clear, Threads
  <2>3. \A t \in Threads : Quiet(t)'
    BY <2>1, <2>2 DEF Quiet, Asking, Replying, Threads
  <2>4. QED
    BY <2>1, <2>2, <2>3 DEF QuietInv
<1>6. CASE ProposePlan
  <2>1. /\ Ask("inbound", "approval", "register") /\ susp' = susp /\ run' = run /\ eager' = eager
        /\ pc["inbound"] = "plan"
    BY <1>6 DEF ProposePlan, store
  <2>2. QED
    BY <2>1, AskIsQuiet DEF Clear, Threads
<1>7. CASE Restart
  <2>1. /\ pc'["inbound"] = "done" /\ pc'["answer"] = "idle" /\ run' = run /\ Open' = Open
    BY <1>7 DEF Restart, store, Open, Threads
  <2>2. \A t \in Threads : Quiet(t)'
    BY <2>1 DEF Quiet, Clear, Asking, Replying, Threads
  <2>3. QED
    BY <2>1, <2>2 DEF QuietInv
<1>8. CASE \E q \in Questions : Submit(q)
  <2>1. PICK q \in Questions : Submit(q)
    BY <1>8
  <2>2. /\ pc["inbound"] = "done" /\ pc'["inbound"] = "done" /\ pc'["answer"] = "look"
        /\ run' = run /\ Open' = Open
    BY <2>1 DEF Submit, Goto, store, Open, LifecycleTypes, Threads
  <2>3. \A t \in Threads : Quiet(t)'
    BY <2>2 DEF Quiet, Clear, Asking, Replying, Threads
  <2>4. QED
    BY <2>2, <2>3 DEF QuietInv
<1>9. CASE UNCHANGED vars
  BY <1>9 DEF QuietInv, Quiet, Clear, Asking, Replying, Open, vars, store
<1>10. QED
  BY <1>1, <1>2, <1>3, <1>4, <1>5, <1>6, <1>7, <1>8, <1>9
     DEF Next, InboundStep, AnswerStep, Threads

\* When the user answers after the message thread is done, the job has at most
\* one open question, and none once it is completed (suspension.rs,
\* question_state and clear_question; upstream_resolution.rs,
\* handle_upstream_result_complete), across every round, answer and restart:
\* rebuild_question, which takes the first open record it meets, has no choice.
THEOREM OneQuestionAtATime == Spec => []OneOpenQuestion
<1>1. QuietInv => OneOpenQuestion
  <2> SUFFICES ASSUME QuietInv, ~eager
               PROVE  Cardinality(Open) <= IF run = "completed" THEN 0 ELSE 1
    BY DEF OneOpenQuestion
  <2>1. CASE Open = {}
    BY <2>1, FS_EmptySet
  <2>2. CASE Open # {}
    <3>1. PICK q \in Open : Open = {q}
      BY <2>2 DEF QuietInv
    <3>2. Cardinality(Open) = 1
      BY <3>1, FS_Singleton
    <3>3. run # "completed"
      BY <2>2 DEF QuietInv
    <3>4. QED
      BY <3>2, <3>3
  <2>3. QED
    BY <2>1, <2>2
<1>2. QED
  BY InitInv, StepInv, QuietBegins, QuietStep, <1>1, PTL DEF Spec
=============================================================================
