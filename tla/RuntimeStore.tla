---------------------------- MODULE RuntimeStore ----------------------------
(***************************************************************************)
(* runtime/state_store.rs and runtime/reducer.rs: the records of the jobs, *)
(* in memory and on disk, with either backend.  A mutex is held during     *)
(* every call, so calls do not overlap; the process can end between any    *)
(* two writes of one.  The JSON backend writes all of its state to a new   *)
(* file and renames it; SQLite writes row after row, each on its own.      *)
(*                                                                         *)
(* A job has one run and, in the model, one record of every other kind;    *)
(* its id stands for the ids of all of them, of its plan and its question. *)
(* A record is what it is compared by: the current turn of a run, the      *)
(* status of the others.  The last 200 names of events and the projection  *)
(* hints, which are only shown, are left out; of a hint SQLite stores a    *)
(* row that no start reads.  A write that fails is the end of the process. *)
(***************************************************************************)
EXTENDS Naturals, FiniteSets, SequencesExt, Retain

CONSTANTS
  Jobs, ChatOf,    (* the jobs, and the session each belongs to             *)
  Tables,          (* kinds of records besides runs and turns, in the order *)
                   (* delete_session goes through them                      *)
  MessageIds,      (* message_id of what is appended to the transcript      *)
  Backends,        (* backends one is chosen from                           *)
  MaxEvents, MaxDeletes, MaxCrashes    (* bounds                            *)

\* No kind of record is called like another write or event, and no session
\* like that of a call that is of none.
ASSUME StoreAssumption ==
  /\ Backends \subseteq {"json", "sqlite"}
  /\ Tables \in Seq(Range(Tables))
  /\ Range(Tables) \cap {"run", "turn", "message", "hint", "none", "save", "row", "sequence",
                          "transcript", "title", "retitle", "return"} = {}
  /\ \A j \in Jobs : ChatOf[j] # "none"

VARIABLES
  backend,     (* "json" or "sqlite"                                        *)
  mem,         (* RuntimeStateSnapshot                                      *)
  sequence,    (* next_sequence                                             *)
  disk,        (* the file, or the tables                                   *)
  call,        (* the call under way: what it does, and the writes to come  *)
  jobs,        (* "new", "running" (its handler records) or "over" (the     *)
               (* process its handler was in has ended)                     *)
  owed,        (* jobs whose turn was recorded and whose run comes next     *)
  left,        (* events, deletions and crashes still to come               *)
  issued,      (* history: the largest number append has returned           *)
  gone         (* history: jobs deleted with their session of which nothing *)
               (* was recorded since                                        *)

storeVars == <<backend, mem, sequence, disk, call, jobs, owed, left, issued, gone>>

Chats == {ChatOf[j] : j \in Jobs}
JobsOf(chat) == {j \in Jobs : ChatOf[j] = chat}

\* rows: [kind, job, is]; questions and plans: the jobs the index has a
\* suspension, and a task, of; runs: jobs whose run the index has
EmptySnapshot == [rows |-> {}, transcript |-> <<>>, titles |-> {},
                  runs |-> {}, questions |-> {}, plans |-> {}]

Row(kind, j, is) == [kind |-> kind, job |-> j, is |-> is]
Upserted(rows, row) == {r \in rows : r.kind # row.kind \/ r.job # row.job} \cup {row}
Has(rows, kind, j) == \E r \in rows : r.kind = kind /\ r.job = j

\* The events an emitter records.
Events ==
  [type : {"run"}, job : Jobs, is : {"none", "turn"}]
    \cup [type : {"turn"} \cup Range(Tables), job : Jobs, is : {"open", "done"}]
    \cup [type : {"message"}, job : Jobs, is : MessageIds]
    \cup [type : {"hint"}, job : Jobs, is : {"shown"}]

\* reduce_event
Reduce(s, e) ==
  CASE e.type = "run" ->
         [s EXCEPT !.rows = Upserted(@, Row("run", e.job, e.is)), !.runs = @ \cup {e.job}]
    [] e.type = "turn" ->
         [s EXCEPT !.rows = Upserted(IF Has(@, "run", e.job) THEN Upserted(@, Row("run", e.job, "turn")) ELSE @,
                                     Row("turn", e.job, e.is))]
    [] e.type \in Range(Tables) ->
         [s EXCEPT !.rows = Upserted(@, Row(e.type, e.job, e.is)),
                   !.plans = IF e.type = "task" THEN @ \cup {e.job} ELSE @,
                   !.questions = IF e.type = "suspension" THEN @ \cup {e.job} ELSE @]
    [] e.type = "message" -> [s EXCEPT !.transcript = Append(@, [id |-> e.is, job |-> e.job])]
    [] e.type = "hint" -> s

\* The runs delete_session finds, and purge_session_from_snapshot
RunsOf(s, chat) == {j \in JobsOf(chat) : Has(s.rows, "run", j)}

Purge(s, chat) ==
  LET found == RunsOf(s, chat) IN
  [s EXCEPT !.rows = {r \in @ : r.job \notin found},
            !.runs = @ \ found,
            !.transcript = KeepOnly(@, {m \in Range(@) : m.job \notin found}),
            !.titles = @ \ {chat}]

-----------------------------------------------------------------------------
\* What is asked of a snapshot: tasks/query.rs by way of the index, and the
\* sessions and their history of anima-web/src/web_snapshot.rs.

RunByJob(s, j) == {r \in s.rows : r.kind = "run" /\ r.job = j /\ j \in s.runs}
ActiveTurn(s, j) == {r \in s.rows : r.kind = "turn" /\ r.job = j /\ Row("run", j, "turn") \in s.rows}
TasksForPlan(s, j) == {r \in s.rows : r.kind = "task" /\ r.job = j /\ j \in s.plans}
SuspensionByQuestion(s, j) == {r \in s.rows : r.kind = "suspension" /\ r.job = j /\ j \in s.questions}
RecordsOf(s, j) == {r \in s.rows : r.job = j /\ r.kind \notin {"run", "turn"}}

History(s, chat) == SelectSeq(s.transcript, LAMBDA m : Has(s.rows, "run", m.job) /\ ChatOf[m.job] = chat)
Sessions(s) == {[chat |-> c, title |-> c \in s.titles, history |-> History(s, c)] :
                  c \in {ChatOf[r.job] : r \in {x \in s.rows : x.kind = "run"}}}

Answers(s) ==
  [sessions |-> Sessions(s),
   jobs |-> [j \in Jobs |-> <<RunByJob(s, j), ActiveTurn(s, j), TasksForPlan(s, j),
                              SuspensionByQuestion(s, j), RecordsOf(s, j)>>]]

-----------------------------------------------------------------------------
\* Mutant: the questions' index is not rebuilt.
LoadWithoutQuestions(d) ==
  LET of(kind) == {r.job : r \in {x \in d.rows : x.kind = kind}} IN
  [EmptySnapshot EXCEPT !.rows = d.rows, !.transcript = d.transcript, !.titles = d.titles,
                        !.runs = of("run"), !.plans = of("task")]

\* What a start finds.  The tables of SQLite have no index; it is built
\* from the rows.

LoadSnapshot(d) ==
  LET of(kind) == {r.job : r \in {x \in d.rows : x.kind = kind}} IN
  [EmptySnapshot EXCEPT !.rows = d.rows, !.transcript = d.transcript, !.titles = d.titles,
                        !.runs = of("run"), !.questions = of("suspension"), !.plans = of("task")]

Restored == IF backend = "json" THEN disk.snapshot ELSE LoadSnapshot(disk)

EmptyDisk == IF backend = "json" THEN [snapshot |-> EmptySnapshot, sequence |-> 0]
             ELSE [rows |-> {}, transcript |-> <<>>, titles |-> {}, sequence |-> 0]

NoEvent == [type |-> "none"]
NoCall == [todo |-> <<>>, event |-> NoEvent, chat |-> "none", found |-> {}]

StoreInit ==
  /\ backend \in Backends
  /\ mem = EmptySnapshot /\ sequence = 0
  /\ disk = EmptyDisk
  /\ call = NoCall
  /\ jobs = [j \in Jobs |-> "new"] /\ owed = {}
  /\ left = [events |-> MaxEvents, deletes |-> MaxDeletes, crashes |-> MaxCrashes]
  /\ issued = 0 /\ gone = {}

Locked == call.todo # <<>>

\* Mutant: a message is stored without the number it got.
AppendUncounted(e) ==
  /\ ~Locked
  /\ sequence' = sequence + 1
  /\ call' = [NoCall EXCEPT !.event = e,
                !.todo = IF backend = "json" THEN <<"save", "return">>
                         ELSE IF e.type = "message" THEN <<"row", "return">> ELSE <<"row", "sequence", "return">>]
  /\ mem' = IF backend = "json" THEN Reduce(mem, e) ELSE mem
  /\ gone' = gone \ {e.job}
  /\ UNCHANGED <<backend, disk, issued>>

\* append.  JSON reduces and then saves; SQLite writes and then reduces.
Append_(e) ==
  /\ ~Locked
  /\ sequence' = sequence + 1
  /\ call' = [NoCall EXCEPT !.event = e,
                !.todo = IF backend = "json" THEN <<"save", "return">> ELSE <<"row", "sequence", "return">>]
  /\ mem' = IF backend = "json" THEN Reduce(mem, e) ELSE mem
  /\ gone' = gone \ {e.job}
  /\ UNCHANGED <<backend, disk, issued>>

\* A handler records the run of its job first.  What it records later does
\* not depend on the run being there still.
Record(e) ==
  /\ left.events > 0
  /\ e \in Events
  /\ e.job \notin owed
  /\ jobs[e.job] = "running" \/ (jobs[e.job] = "new" /\ e.type = "run" /\ e.is = "none")
  /\ Append_(e)
  /\ jobs' = [jobs EXCEPT ![e.job] = "running"]
  /\ owed' = IF e.type = "turn" THEN owed \cup {e.job} ELSE owed
  /\ left' = [left EXCEPT !.events = @ - 1]

\* upsert_turn: the run of the turn, by a call of its own.
RecordRunOfTurn(j) ==
  /\ j \in owed
  /\ Append_([type |-> "run", job |-> j, is |-> "turn"])
  /\ owed' = owed \ {j}
  /\ UNCHANGED <<jobs, left>>

\* Mutant: the run goes last.
DeleteRunLast(chat) ==
  /\ ~Locked /\ left.deletes > 0
  /\ left' = [left EXCEPT !.deletes = @ - 1]
  /\ mem' = Purge(mem, chat)
  /\ LET found == RunsOf(mem, chat) IN
     call' = [NoCall EXCEPT !.chat = chat, !.found = found,
                !.todo = IF backend = "sqlite"
                         THEN Tables \o <<"turn", "run", "transcript", "title", "return">>
                         ELSE IF found # {} THEN <<"save", "return">> ELSE <<"return">>]
  /\ UNCHANGED <<backend, sequence, disk, jobs, owed, issued, gone>>

\* delete_session: the snapshot, then what is written.
DeleteSession(chat) ==
  /\ ~Locked /\ left.deletes > 0
  /\ left' = [left EXCEPT !.deletes = @ - 1]
  /\ mem' = Purge(mem, chat)
  /\ LET found == RunsOf(mem, chat) IN
     call' = [NoCall EXCEPT !.chat = chat, !.found = found,
                !.todo = IF backend = "sqlite"
                         THEN <<"run", "turn">> \o Tables \o <<"transcript", "title", "return">>
                         ELSE IF found # {} THEN <<"save", "return">> ELSE <<"return">>]
  /\ UNCHANGED <<backend, sequence, disk, jobs, owed, issued, gone>>

\* set_session_title and delete_session_title
SetTitle(chat, on) ==
  /\ ~Locked /\ left.deletes > 0
  /\ on # (chat \in mem.titles)
  /\ left' = [left EXCEPT !.deletes = @ - 1]
  /\ mem' = [mem EXCEPT !.titles = IF on THEN @ \cup {chat} ELSE @ \ {chat}]
  /\ call' = [NoCall EXCEPT !.chat = chat, !.todo = <<IF backend = "json" THEN "save" ELSE "retitle", "return">>]
  /\ UNCHANGED <<backend, sequence, disk, jobs, owed, issued, gone>>

-----------------------------------------------------------------------------
\* The writes of a call.

ToDo(write) == Locked /\ Head(call.todo) = write
Done == call' = [call EXCEPT !.todo = Tail(@)]

\* persist_state: the rename puts all of it in the place of the last file.
Save ==
  /\ ToDo("save") /\ Done
  /\ disk' = [snapshot |-> mem, sequence |-> sequence]

\* SqliteStore.append: an INSERT is refused when the id is there already.
Inserted(messages, m) == IF m \in Range(messages) THEN messages ELSE Append(messages, m)

\* persist_event, its row.  A hint's row is not one a start reads.
StoreRow ==
  /\ ToDo("row") /\ Done
  /\ LET e == call.event IN
     disk' = CASE e.type = "message" ->
                    [disk EXCEPT !.transcript = Inserted(@, [id |-> e.is, job |-> e.job])]
               [] e.type = "hint" -> disk
               [] OTHER -> [disk EXCEPT !.rows = Upserted(@, Row(e.type, e.job, e.is))]

StoreSequence == ToDo("sequence") /\ Done /\ disk' = [disk EXCEPT !.sequence = sequence]

\* delete_session goes through a table row by row.
Kinds == {"run", "turn"} \cup Range(Tables)

DeleteRows ==
  /\ Locked /\ Head(call.todo) \in Kinds
  /\ LET hit == {r \in disk.rows : r.kind = Head(call.todo) /\ r.job \in call.found} IN
     \/ \E r \in hit : disk' = [disk EXCEPT !.rows = @ \ {r}] /\ UNCHANGED call
     \/ hit = {} /\ Done /\ UNCHANGED disk

\* Mutant: the messages of one job only.
DeleteOneTranscript ==
  /\ ToDo("transcript") /\ Done
  /\ LET hit(m) == m.job \in call.found IN
     disk' = IF \E m \in Range(disk.transcript) : hit(m)
             THEN [disk EXCEPT !.transcript = RemoveFirstMatch(@, hit)] ELSE disk

DeleteTranscript ==
  /\ ToDo("transcript")
  /\ LET hit(m) == m.job \in call.found IN
     IF \E m \in Range(disk.transcript) : hit(m)
     THEN disk' = [disk EXCEPT !.transcript = RemoveFirstMatch(@, hit)] /\ UNCHANGED call
     ELSE Done /\ UNCHANGED disk

DeleteTitle == ToDo("title") /\ Done /\ disk' = [disk EXCEPT !.titles = @ \ {call.chat}]

Retitle == ToDo("retitle") /\ Done /\ disk' = [disk EXCEPT !.titles = mem.titles]

Write ==
  /\ Save \/ StoreRow \/ StoreSequence \/ DeleteRows \/ DeleteTranscript \/ DeleteTitle \/ Retitle
  /\ UNCHANGED <<backend, mem, sequence, jobs, owed, left, issued, gone>>

\* The end of a call: append returns its number.
Return ==
  /\ ToDo("return")
  /\ call' = NoCall
  /\ gone' = gone \cup call.found
  /\ IF call.event = NoEvent
     THEN UNCHANGED <<mem, issued>>
     ELSE /\ issued' = sequence
          /\ mem' = IF backend = "json" THEN mem ELSE Reduce(mem, call.event)
  /\ UNCHANGED <<backend, sequence, disk, jobs, owed, left>>

\* The process ends, at any point, and is started again.  No handler of it
\* is resumed, and what comes next are new jobs.
Restart ==
  /\ left.crashes > 0
  /\ left' = [left EXCEPT !.crashes = @ - 1]
  /\ mem' = Restored
  /\ sequence' = disk.sequence
  /\ call' = NoCall
  /\ jobs' = [j \in Jobs |-> IF jobs[j] = "running" THEN "over" ELSE jobs[j]]
  /\ owed' = {}
  /\ UNCHANGED <<backend, disk, issued, gone>>

StoreNext ==
  \/ \E e \in Events : Record(e)
  \/ \E j \in Jobs : RecordRunOfTurn(j)
  \/ \E chat \in Chats : DeleteSession(chat) \/ \E on \in BOOLEAN : SetTitle(chat, on)
  \/ Write \/ Return \/ Restart

StoreSpec == StoreInit /\ [][StoreNext]_storeVars

-----------------------------------------------------------------------------
\* The messages of each beginning of a transcript as the table has them, where
\* an id that is there already is refused.
Stored(messages) ==
  LET table[n \in 0 .. Len(messages)] == IF n = 0 THEN <<>> ELSE Inserted(table[n - 1], messages[n])
  IN  table

AsTable(messages) == Stored(messages)[Len(messages)]

\* What a restart would change of the answers: nothing, but that a run whose
\* turn has just been recorded does not name it yet, and that a message whose
\* id was there is gone.
Behind == owed \cup (IF call.event.type \in {"turn", "run"} THEN {call.event.job} ELSE {})

Seen(s) ==
  Answers([s EXCEPT
    !.rows = {IF r.kind = "run" /\ r.job \in Behind THEN [r EXCEPT !.is = "none"] ELSE r : r \in @},
    !.transcript = AsTable(@)])

\* A start finds what was answered before it: with SQLite all that was
\* recorded, and of the event being recorded all or nothing, whatever was
\* recorded, deleted and restarted before; JSON, which saves before it lets
\* go of the mutex, all that append has returned from.  During a deletion
\* ShownWhole says what a start finds (append, load_snapshot, reduce_event).
RestartLosesNothing ==
  LET settled == call.chat = "none" /\ (backend = "json" => ~Locked) IN
  settled => Seen(Restored) \in {Seen(mem)} \cup
               (IF call.event = NoEvent THEN {} ELSE {Seen(Reduce(mem, call.event))})

\* A session a start would list has lost nothing of a job it lists to a
\* deletion that did not get to its end: the run goes before the rest
\* (delete_session).
ShownWhole ==
  [][LET lost == {r \in disk.rows : ~Has(disk'.rows, r.kind, r.job)} IN
     backend = "sqlite" =>
       \A r \in lost : r.kind # "run" => ~Has(disk.rows, "run", r.job)]_storeVars

\* Of a job deleted with its session nothing is left, in memory or after a
\* restart, unless its handler still recorded something (delete_session and
\* purge_session_from_snapshot).
NothingLeftOfDeleted ==
  \A s \in {mem, Restored}, j \in gone :
    (\A r \in s.rows : r.job # j) /\ (\A m \in Range(s.transcript) : m.job # j)

\* A number append has returned is not returned again, by this process or
\* the next (next_sequence, read back by init and load_persisted_state).
SequenceNeverReused == sequence >= issued
=============================================================================
