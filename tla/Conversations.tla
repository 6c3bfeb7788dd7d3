--------------------------- MODULE Conversations ---------------------------
(***************************************************************************)
(* What the runtime remembers of a conversation, in three places: memory   *)
(* (agent/core.rs), the session store (channel/session.rs) and the context *)
(* manager (context/manager.rs).  Messages are taken from the bus by one   *)
(* thread; a message that had to ask is finished by the thread that brings *)
(* the answer, while later ones are being taken.                           *)
(***************************************************************************)
EXTENDS Naturals, FiniteSets, SequencesExt

CONSTANTS
  WebChats,        (* how many chats of the web there are                   *)
  MaxSessions, MaxHistory,
  MaxMessages      (* bound: how many messages are sent                     *)

ASSUME TalkAssumption ==
  /\ WebChats \in Nat /\ MaxHistory \in Nat /\ MaxMessages \in Nat
  /\ MaxSessions \in Nat \ {0}

CliChat == <<"cli", 0>>
TalkChats == {CliChat} \cup {<<"web", n>> : n \in 1..WebChats}
Messages == 1..MaxMessages
NoChat == <<"none", 0>>

VARIABLES
  direct,      (* tools are registered: no session is created upstream      *)
  memory,      (* SessionContexts, the first inserted first                 *)
  sessions,    (* the session store: Session records                        *)
  byKey,       (* by_routing_key: chat -> id                                *)
  context,     (* session:{chat}:history of the context manager             *)
  chatOf,      (* the chat of each message sent                             *)
  inbound,     (* the bus                                                   *)
  stage,        (* what each message's thread does next                      *)
  read,        (* the history a thread read and has to write back           *)
  loop,        (* the message of the inbound thread, or 0                   *)
  quit         (* has the CLI's user left?                                  *)

talkVars == <<direct, memory, sessions, byKey, context, chatOf, inbound, stage, read, loop, quit>>

\* The routing key of a chat is written as the chat: each determines the other.
Session(id, key) == [id |-> id, key |-> key, history |-> <<>>]

TalkInit ==
  /\ direct \in BOOLEAN
  /\ memory = <<>>
  /\ sessions = {Session(CliChat, CliChat)}
  /\ byKey = [c \in {CliChat} |-> CliChat]
  /\ context = [c \in TalkChats |-> <<>>]
  /\ chatOf = [m \in Messages |-> NoChat]
  /\ inbound = <<>> /\ loop = 0 /\ quit = FALSE
  /\ stage = [m \in Messages |-> "unsent"]
  /\ read = [m \in Messages |-> <<>>]

Goto(m, step) == stage' = [stage EXCEPT ![m] = step]

Remembered(c) == \E i \in DOMAIN memory : memory[i].chat = c
MemoryOf(c) == CHOOSE i \in DOMAIN memory : memory[i].chat = c

\* add_to_history: a session nobody has is not made
AddToHistory(id, entry) ==
  {IF s.id = id THEN [s EXCEPT !.history = Append(@, entry)] ELSE s : s \in sessions}

-----------------------------------------------------------------------------
\* send_message_impl, and a line of CliChannel.handle_line
Publish(m, c) ==
  /\ stage[m] = "unsent" /\ \A n \in 1..(m - 1) : stage[n] # "unsent"
  /\ chatOf' = [chatOf EXCEPT ![m] = c]
  /\ inbound' = Append(inbound, m)
  /\ Goto(m, "queued")

SendFromWeb(m, c) ==
  /\ c # CliChat
  /\ Publish(m, c)
  /\ UNCHANGED <<direct, memory, sessions, byKey, context, read, loop, quit>>

HandleLine(m) ==
  /\ ~quit
  /\ Publish(m, CliChat)
  /\ sessions' = AddToHistory(CliChat, <<"user", m>>)
  /\ UNCHANGED <<direct, memory, byKey, context, read, loop, quit>>

\* close_session
CloseSession(id) ==
  /\ sessions' = {s \in sessions : s.id # id}
  /\ byKey' = LET keys == {s.key : s \in {t \in sessions : t.id = id}}
              IN  [k \in DOMAIN byKey \ keys |-> byKey[k]]

QuitCommand ==
  /\ ~quit
  /\ quit' = TRUE
  /\ CloseSession(CliChat)
  /\ UNCHANGED <<direct, memory, context, chatOf, inbound, stage, read, loop>>

-----------------------------------------------------------------------------
TakeMessage ==
  /\ loop = 0 /\ inbound # <<>>
  /\ loop' = Head(inbound)
  /\ inbound' = Tail(inbound)
  /\ Goto(Head(inbound), "context")
  /\ UNCHANGED <<direct, memory, sessions, byKey, context, chatOf, read, quit>>

\* ensure_context, its part in memory
EnsureContext(m) ==
  /\ stage[m] = "context"
  /\ memory' = IF Remembered(chatOf[m]) THEN memory
               ELSE Append(IF Len(memory) >= MaxSessions THEN Tail(memory) ELSE memory,
                           [chat |-> chatOf[m], upstream |-> 0, history |-> <<>>])
  /\ Goto(m, "session")
  /\ UNCHANGED <<direct, sessions, byKey, context, chatOf, inbound, read, loop, quit>>

\* find_or_create_session, create_session: the new id is no chat's
\* Mutant: the routing key is not looked up.
FoundById(m) == \E s \in sessions : s.id = chatOf[m]

Found(m) == FoundById(m) \/ chatOf[m] \in DOMAIN byKey

FindOrCreateSession(m) ==
  /\ stage[m] = "session"
  /\ IF Found(m) THEN UNCHANGED <<sessions, byKey>>
     ELSE /\ sessions' = sessions \cup {Session(<<"store", m>>, chatOf[m])}
          /\ byKey' = [k \in DOMAIN byKey \cup {chatOf[m]} |->
                         IF k = chatOf[m] THEN <<"store", m>> ELSE byKey[k]]
  /\ Goto(m, "record")
  /\ UNCHANGED <<direct, memory, context, chatOf, inbound, read, loop, quit>>

\* append_history: nothing when the chat was evicted
AppendHistory(m, role) ==
  memory' = [i \in DOMAIN memory |->
    IF memory[i].chat # chatOf[m] THEN memory[i]
    ELSE LET h == Append(memory[i].history, <<role, m>>)
         IN  [memory[i] EXCEPT !.history = IF Len(h) > MaxHistory THEN Tail(h) ELSE h]]

\* An entry goes into memory, the session store and, read and written back in
\* two steps, the context manager.
Role(m) == IF stage[m] \in {"record", "recording"} THEN "user" ELSE "assistant"

RecordEntry(m) ==
  /\ stage[m] \in {"record", "finish"}
  /\ AppendHistory(m, Role(m))
  /\ sessions' = AddToHistory(chatOf[m], <<Role(m), m>>)
  /\ read' = [read EXCEPT ![m] = context[chatOf[m]]]
  /\ Goto(m, IF stage[m] = "record" THEN "recording" ELSE "finishing")
  /\ UNCHANGED <<direct, byKey, context, chatOf, inbound, loop, quit>>

\* The inbound thread is free when its message is done, or asked.
Free(m) == loop' = IF loop = m THEN 0 ELSE loop

AddToSessionHistory(m) ==
  /\ stage[m] \in {"recording", "finishing"}
  /\ context' = [context EXCEPT ![chatOf[m]] = Append(read[m], <<Role(m), m>>)]
  /\ read' = [read EXCEPT ![m] = <<>>]
  /\ IF stage[m] = "recording" THEN Goto(m, "upstream") /\ UNCHANGED loop
     ELSE Goto(m, "done") /\ Free(m)
  /\ UNCHANGED <<direct, memory, sessions, byKey, chatOf, inbound, quit>>

-----------------------------------------------------------------------------
StoreUpstream(c, id) ==
  memory' = [i \in DOMAIN memory |-> IF memory[i].chat = c THEN [memory[i] EXCEPT !.upstream = id] ELSE memory[i]]

\* prepare_inbound_session with tools: the session key is the session
UseSessionKey(m) ==
  /\ stage[m] = "upstream" /\ direct
  /\ StoreUpstream(chatOf[m], chatOf[m][2] + 1)
  /\ Goto(m, "work")
  /\ UNCHANGED <<direct, sessions, byKey, context, chatOf, inbound, read, loop, quit>>

\* get_or_create_opencode_session: the request can fail, which ends the message
\* Mutant: the existing one is not looked up.
ExistingLost(c) == 0

ExistingUpstream(c) == IF Remembered(c) THEN memory[MemoryOf(c)].upstream ELSE 0

UseExisting(m) ==
  /\ stage[m] = "upstream" /\ ~direct
  /\ ExistingUpstream(chatOf[m]) # 0
  /\ Goto(m, "work")
  /\ UNCHANGED <<direct, memory, sessions, byKey, context, chatOf, inbound, read, loop, quit>>

RequestUpstream(m) ==
  /\ stage[m] = "upstream" /\ ~direct
  /\ ExistingUpstream(chatOf[m]) = 0
  /\ Goto(m, "requested")
  /\ UNCHANGED <<direct, memory, sessions, byKey, context, chatOf, inbound, read, loop, quit>>

\* extract_created_opencode_session_id, store_opencode_session_id
Created(m) ==
  /\ stage[m] = "requested"
  /\ \/ StoreUpstream(chatOf[m], m) /\ Goto(m, "work") /\ UNCHANGED loop
     \/ Goto(m, "done") /\ Free(m) /\ UNCHANGED memory
  /\ UNCHANGED <<direct, sessions, byKey, context, chatOf, inbound, read, quit>>

\* The plan is executed: it answers, asks, or fails.
Work(m) ==
  /\ stage[m] = "work"
  /\ \/ Goto(m, "finish") /\ UNCHANGED loop
     \/ Goto(m, "asked") /\ Free(m)
     \/ Goto(m, "done") /\ Free(m)
  /\ UNCHANGED <<direct, memory, sessions, byKey, context, chatOf, inbound, read, quit>>

\* The user's answer is followed up by the thread that brings it.
Answer(m) ==
  /\ stage[m] = "asked"
  /\ Goto(m, "work")
  /\ UNCHANGED <<direct, memory, sessions, byKey, context, chatOf, inbound, read, loop, quit>>

Handle(m) ==
  \/ EnsureContext(m) \/ FindOrCreateSession(m) \/ RecordEntry(m) \/ AddToSessionHistory(m)
  \/ UseSessionKey(m) \/ UseExisting(m) \/ RequestUpstream(m) \/ Created(m) \/ Work(m)

TalkNext ==
  \/ \E m \in Messages : HandleLine(m) \/ Handle(m) \/ Answer(m) \/ \E c \in TalkChats : SendFromWeb(m, c)
  \/ QuitCommand \/ TakeMessage

TalkSpec == TalkInit /\ [][TalkNext]_talkVars

-----------------------------------------------------------------------------
\* All messages of a chat go to one session upstream for as long as the chat
\* is remembered (get_or_create_opencode_session, store_opencode_session_id).
UpstreamKept ==
  [][\A i \in DOMAIN memory : \A j \in DOMAIN memory' :
       (memory[i].upstream # 0 /\ memory'[j].chat = memory[i].chat)
         => (memory'[j].upstream = memory[i].upstream)]_talkVars

\* A chat has one session in the store, and the index leads to it
\* (find_or_create_session, close_session).
OneSessionPerKey ==
  /\ \A s, t \in sessions : s.key = t.key => s = t
  /\ \A s \in sessions : s.key \in DOMAIN byKey /\ byKey[s.key] = s.id
  /\ \A k \in DOMAIN byKey : \E s \in sessions : s.id = byKey[k]

\* What the context manager has recorded of a chat stays recorded, though
\* add_to_session_history reads and writes it back (manager.rs).
EntriesKept ==
  [][\A c \in TalkChats : IsPrefix(context[c], context'[c])]_talkVars
=============================================================================
