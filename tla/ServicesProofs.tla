--------------------------- MODULE ServicesProofs ---------------------------
(***************************************************************************)
(* What Conversations, RuntimeLifecycle and PlanExecution promise, for any *)
(* number of chats, messages, signals and tasks: the session store and its *)
(* index agree, a chat keeps its session upstream for as long as it is     *)
(* remembered, stop leaves no answer behind, and a plan or a batch reports *)
(* what happened to its tasks.                                             *)
(***************************************************************************)
EXTENDS Conversations, RuntimeLifecycle, PlanExecution, SequenceLemmas

-----------------------------------------------------------------------------
(* Conversations.                                                           *)

\* Where a message is between being taken and the start of its work: only the
\* inbound thread's own message is there, one at a time.
Preparing == {"context", "session", "record", "recording", "upstream", "requested"}

Stages == Preparing \cup {"unsent", "queued", "work", "asked", "finish", "finishing", "done"}

Entries == {"user", "assistant"} \X Messages
SessionIds == TalkChats \cup ({"store"} \X Messages)
SessionRecords == [id : SessionIds, key : TalkChats, history : Seq(Entries)]
Contexts == [chat : TalkChats, upstream : Nat, history : Seq(Entries)]

TalkTypes ==
  /\ direct \in BOOLEAN
  /\ sessions \in SUBSET SessionRecords
  /\ memory \in Seq(Contexts)
  /\ stage \in [Messages -> Stages]
  /\ chatOf \in [Messages -> TalkChats \cup {NoChat}]
  /\ inbound \in Seq(Messages)
  /\ \A m \in Messages : stage[m] # "unsent" => chatOf[m] \in TalkChats
  /\ \A i \in DOMAIN inbound : stage[inbound[i]] # "unsent"

\* The index leads from the key of a session to that session, and back.
IndexLeads ==
  /\ \A s, t \in sessions : s.key = t.key => s = t
  /\ \A s \in sessions : s.key \in DOMAIN byKey /\ byKey[s.key] = s.id
  /\ \A k \in DOMAIN byKey : \E s \in sessions : s.key = k /\ s.id = byKey[k]

\* A chat is remembered once; with tools its session is known beforehand; and
\* while one is being requested the chat has none.
UpstreamKnown ==
  /\ \A i, j \in DOMAIN memory : memory[i].chat = memory[j].chat => i = j
  /\ \A m \in Messages : stage[m] \in Preparing => loop = m
  /\ direct => \A i \in DOMAIN memory : memory[i].upstream \in {0, memory[i].chat[2] + 1}
  /\ direct => \A m \in Messages : stage[m] # "requested"
  /\ \A m \in Messages : stage[m] = "requested" =>
       \A i \in DOMAIN memory : memory[i].chat = chatOf[m] => memory[i].upstream = 0

TalkInv == TalkTypes /\ IndexLeads /\ UpstreamKnown

\* Rewriting the entries of the memory one by one leaves it a memory.
LEMMA Rewritten ==
  ASSUME memory \in Seq(Contexts), NEW F, F = [i \in DOMAIN memory |-> F[i]],
         \A i \in DOMAIN memory : F[i] \in Contexts
  PROVE  F \in Seq(Contexts) /\ DOMAIN F = DOMAIN memory
<1>1. DOMAIN memory = 1..Len(memory) /\ Len(memory) \in Nat
  OBVIOUS
<1>2. F \in [1..Len(memory) -> Contexts]
  BY <1>1
<1>3. QED
  BY <1>1, <1>2

\* The chat and the session of a remembered chat, member by member.
LEMMA EntryOfMemory ==
  ASSUME memory \in Seq(Contexts), NEW i \in DOMAIN memory
  PROVE  /\ memory[i] \in Contexts
         /\ memory[i].chat \in TalkChats /\ memory[i].upstream \in Nat
         /\ memory[i].history \in Seq(Entries)
         /\ memory[i] = [chat |-> memory[i].chat, upstream |-> memory[i].upstream,
                         history |-> memory[i].history]
<1>1. memory[i] \in Contexts
  OBVIOUS
<1>2. QED
  BY <1>1 DEF Contexts

\* A chat's own number is a natural one.
LEMMA ChatNumber == \A c \in TalkChats : c[2] \in Nat
  BY TalkAssumption DEF TalkChats, CliChat

\* The session store starts with the CLI's own session, which its index has.
LEMMA TalkInitInv == TalkInit => TalkInv
<1> SUFFICES ASSUME TalkInit PROVE TalkInv
  OBVIOUS
<1>1. CliChat \in TalkChats
  BY DEF TalkChats
<1>2. <<>> \in Seq(Entries) /\ <<>> \in Seq(Contexts) /\ <<>> \in Seq(Messages)
  OBVIOUS
<1>3. Session(CliChat, CliChat) \in SessionRecords
  BY <1>1, <1>2 DEF Session, SessionRecords, SessionIds
<1>4. TalkTypes
  BY <1>1, <1>2, <1>3 DEF TalkTypes, TalkInit, Stages
<1>5. IndexLeads
  BY DEF IndexLeads, TalkInit, Session
<1>6. UpstreamKnown
  BY <1>2 DEF UpstreamKnown, TalkInit, Preparing
<1>7. QED
  BY <1>4, <1>5, <1>6 DEF TalkInv

-----------------------------------------------------------------------------
\* An entry added to a history changes neither a session's id nor its key.
LEMMA HistoryAdded ==
  ASSUME TalkTypes, IndexLeads, NEW id, NEW entry \in Entries,
         sessions' = AddToHistory(id, entry), byKey' = byKey
  PROVE  sessions' \in SUBSET SessionRecords /\ IndexLeads'
<1> DEFINE Told(s) == IF s.id = id THEN [s EXCEPT !.history = Append(@, entry)] ELSE s
<1>1. sessions' = {Told(s) : s \in sessions}
  BY DEF AddToHistory
<1>2. \A s \in sessions : /\ Told(s) \in SessionRecords
                          /\ Told(s).id = s.id /\ Told(s).key = s.key
  <2> TAKE s \in sessions
  <2>1. s \in SessionRecords
    BY DEF TalkTypes
  <2>2. s.history \in Seq(Entries) /\ Append(s.history, entry) \in Seq(Entries)
    BY <2>1, AppendProperties DEF SessionRecords
  <2>3. QED
    BY <2>1, <2>2 DEF SessionRecords
<1> HIDE DEF Told
<1>3. QED
  BY <1>1, <1>2 DEF IndexLeads

\* The actions that neither open, close nor write to a session.
LeavesSessions == UNCHANGED <<sessions, byKey>>

\* A step keeps the sessions typed, and the index leading to them.
LEMMA StepIndex ==
  ASSUME TalkInv, TalkNext
  PROVE  sessions' \in SUBSET SessionRecords /\ IndexLeads'
<1> USE DEF TalkInv
<1>0. ASSUME LeavesSessions PROVE sessions' \in SUBSET SessionRecords /\ IndexLeads'
  BY <1>0 DEF LeavesSessions, TalkTypes, IndexLeads
<1>1. ASSUME NEW m \in Messages, HandleLine(m)
      PROVE  sessions' \in SUBSET SessionRecords /\ IndexLeads'
  BY <1>1, HistoryAdded DEF HandleLine, Entries
<1>2. ASSUME NEW m \in Messages, RecordEntry(m)
      PROVE  sessions' \in SUBSET SessionRecords /\ IndexLeads'
  <2>1. <<Role(m), m>> \in Entries
    BY DEF Role, Entries
  <2>2. QED
    BY <1>2, <2>1, HistoryAdded DEF RecordEntry
<1>3. ASSUME NEW m \in Messages, FindOrCreateSession(m)
      PROVE  sessions' \in SUBSET SessionRecords /\ IndexLeads'
  <2>1. CASE Found(m)
    BY <1>0, <1>3, <2>1 DEF FindOrCreateSession, LeavesSessions
  <2>2. CASE ~Found(m)
    <3> DEFINE made == Session(<<"store", m>>, chatOf[m])
    <3>1. chatOf[m] \in TalkChats /\ chatOf[m] \notin DOMAIN byKey
      BY <1>3, <2>2 DEF FindOrCreateSession, TalkTypes, Found
    <3>2. /\ made \in SessionRecords
          /\ made.id = <<"store", m>> /\ made.key = chatOf[m]
      BY <3>1 DEF Session, SessionRecords, SessionIds
    <3>3. /\ sessions' = sessions \cup {made}
          /\ byKey' = [k \in DOMAIN byKey \cup {chatOf[m]} |->
                         IF k = chatOf[m] THEN <<"store", m>> ELSE byKey[k]]
      BY <1>3, <2>2 DEF FindOrCreateSession
    <3> HIDE DEF made
    <3>4. \A s \in sessions : s.key # chatOf[m]
      BY <3>1 DEF IndexLeads
    <3>5. \A s, t \in sessions' : s.key = t.key => s = t
      BY <3>2, <3>3, <3>4 DEF IndexLeads
    <3>6. \A s \in sessions' : s.key \in DOMAIN byKey' /\ byKey'[s.key] = s.id
      BY <3>2, <3>3, <3>4 DEF IndexLeads
    <3>7. \A k \in DOMAIN byKey' : \E s \in sessions' : s.key = k /\ s.id = byKey'[k]
      BY <3>1, <3>2, <3>3 DEF IndexLeads
    <3>8. QED
      BY <3>2, <3>3, <3>5, <3>6, <3>7 DEF IndexLeads, TalkTypes
  <2>3. QED
    BY <2>1, <2>2
<1>4. ASSUME QuitCommand PROVE sessions' \in SUBSET SessionRecords /\ IndexLeads'
  <2> DEFINE keys == {s.key : s \in {t \in sessions : t.id = CliChat}}
  <2>1. /\ sessions' = {s \in sessions : s.id # CliChat}
        /\ byKey' = [k \in DOMAIN byKey \ keys |-> byKey[k]]
    BY <1>4 DEF QuitCommand, CloseSession
  <2>2. \A s \in sessions : s.id # CliChat => s.key \notin keys
    BY DEF IndexLeads
  <2>3. \A k \in DOMAIN byKey \ keys : byKey[k] # CliChat
    BY DEF IndexLeads
  <2> HIDE DEF keys
  <2>4. QED
    BY <2>1, <2>2, <2>3 DEF IndexLeads, TalkTypes
<1>5. ASSUME NEW m \in Messages, NEW c \in TalkChats, SendFromWeb(m, c) PROVE LeavesSessions
  BY <1>5 DEF SendFromWeb, LeavesSessions
<1>6. ASSUME TakeMessage PROVE LeavesSessions
  BY <1>6 DEF TakeMessage, LeavesSessions
<1>7. ASSUME NEW m \in Messages,
             \/ EnsureContext(m) \/ AddToSessionHistory(m) \/ UseSessionKey(m) \/ UseExisting(m)
             \/ RequestUpstream(m) \/ Created(m) \/ Work(m) \/ Answer(m)
      PROVE  LeavesSessions
  BY <1>7 DEF EnsureContext, AddToSessionHistory, UseSessionKey, UseExisting, RequestUpstream,
              Created, Work, Answer, LeavesSessions
<1>8. QED
  BY <1>0, <1>1, <1>2, <1>3, <1>4, <1>5, <1>6, <1>7 DEF TalkNext, Handle

-----------------------------------------------------------------------------
\* Entry j of the memory is after the step what entry i was before it, but for
\* its history.
ButHistory(i, j) == memory'[j].chat = memory[i].chat /\ memory'[j].upstream = memory[i].upstream

\* Noting an entry keeps every chat and its session upstream.
LEMMA EntryNoted ==
  ASSUME TalkTypes, NEW m \in Messages, NEW role \in {"user", "assistant"}, AppendHistory(m, role)
  PROVE  /\ memory' \in Seq(Contexts) /\ DOMAIN memory' = DOMAIN memory
         /\ \A i \in DOMAIN memory : ButHistory(i, i)
<1> DEFINE Longer(i) == Append(memory[i].history, <<role, m>>)
           Noted(i) == IF memory[i].chat # chatOf[m] THEN memory[i]
                       ELSE [memory[i] EXCEPT !.history = IF Len(Longer(i)) > MaxHistory
                                                          THEN Tail(Longer(i)) ELSE Longer(i)]
<1>1. memory' = [i \in DOMAIN memory |-> Noted(i)]
  BY DEF AppendHistory
<1>2. \A i \in DOMAIN memory : /\ Noted(i) \in Contexts
                               /\ Noted(i).chat = memory[i].chat
                               /\ Noted(i).upstream = memory[i].upstream
  <2> TAKE i \in DOMAIN memory
  <2>1. /\ memory[i] \in Contexts /\ memory[i].history \in Seq(Entries)
    BY EntryOfMemory DEF TalkTypes
  <2>2. <<role, m>> \in Entries
    BY DEF Entries
  <2>3. Longer(i) \in Seq(Entries) /\ Longer(i) # <<>> /\ Tail(Longer(i)) \in Seq(Entries)
    BY <2>1, <2>2, AppendProperties, HeadTailProperties
  <2> DEFINE told == IF Len(Longer(i)) > MaxHistory THEN Tail(Longer(i)) ELSE Longer(i)
  <2>4. told \in Seq(Entries)
    BY <2>3
  <2> HIDE DEF told
  <2>5. /\ [memory[i] EXCEPT !.history = told] \in Contexts
        /\ [memory[i] EXCEPT !.history = told].chat = memory[i].chat
        /\ [memory[i] EXCEPT !.history = told].upstream = memory[i].upstream
    BY <2>1, <2>4 DEF Contexts
  <2>6. QED
    BY <2>1, <2>5 DEF told
<1> HIDE DEF Noted
<1>3. DOMAIN memory' = DOMAIN memory /\ \A i \in DOMAIN memory : memory'[i] = Noted(i)
  BY <1>1
<1>4. memory' = [i \in DOMAIN memory |-> memory'[i]]
  BY <1>1, <1>3
<1>5. \A i \in DOMAIN memory : memory'[i] \in Contexts
  BY <1>2, <1>3
<1>6. memory \in Seq(Contexts)
  BY DEF TalkTypes
<1>7. memory' \in Seq(Contexts)
  BY <1>4, <1>5, <1>6, Rewritten
<1>8. QED
  BY <1>2, <1>3, <1>7 DEF ButHistory

\* Noting a chat's session upstream keeps every chat, and changes only that.
LEMMA UpstreamNoted ==
  ASSUME TalkTypes, NEW c, NEW id \in Nat, StoreUpstream(c, id)
  PROVE  /\ memory' \in Seq(Contexts) /\ DOMAIN memory' = DOMAIN memory
         /\ \A i \in DOMAIN memory : memory[i].chat # c => ButHistory(i, i)
         /\ \A i \in DOMAIN memory : memory[i].chat = c =>
              memory'[i].chat = c /\ memory'[i].upstream = id
<1> DEFINE Noted(i) == IF memory[i].chat = c THEN [memory[i] EXCEPT !.upstream = id] ELSE memory[i]
<1>1. memory' = [i \in DOMAIN memory |-> Noted(i)]
  BY DEF StoreUpstream
<1>2. \A i \in DOMAIN memory : /\ Noted(i) \in Contexts
                               /\ Noted(i).chat = memory[i].chat
                               /\ memory[i].chat = c => Noted(i).upstream = id
                               /\ memory[i].chat # c => Noted(i).upstream = memory[i].upstream
  <2> TAKE i \in DOMAIN memory
  <2>1. memory[i] \in Contexts
    BY EntryOfMemory DEF TalkTypes
  <2>2. QED
    BY <2>1 DEF Contexts
<1> HIDE DEF Noted
<1>3. DOMAIN memory' = DOMAIN memory /\ \A i \in DOMAIN memory : memory'[i] = Noted(i)
  BY <1>1
<1>4. memory' = [i \in DOMAIN memory |-> memory'[i]]
  BY <1>1, <1>3
<1>5. \A i \in DOMAIN memory : memory'[i] \in Contexts
  BY <1>2, <1>3
<1>6. memory \in Seq(Contexts)
  BY DEF TalkTypes
<1>7. memory' \in Seq(Contexts)
  BY <1>4, <1>5, <1>6, Rewritten
<1>8. QED
  BY <1>2, <1>3, <1>7 DEF ButHistory

\* A chat that is not remembered is added with no session upstream, in the
\* place of the oldest when there is no more room.
LEMMA ChatAdded ==
  ASSUME TalkTypes, UpstreamKnown, NEW m \in Messages, EnsureContext(m)
  PROVE  /\ memory' \in Seq(Contexts)
         /\ \A i, j \in DOMAIN memory' : memory'[i].chat = memory'[j].chat => i = j
         /\ \A j \in DOMAIN memory' :
              \/ \E i \in DOMAIN memory : ButHistory(i, j)
              \/ /\ memory'[j].chat = chatOf[m] /\ memory'[j].upstream = 0
                 /\ \A i \in DOMAIN memory : memory[i].chat # chatOf[m]
<1>0. memory \in Seq(Contexts) /\ chatOf[m] \in TalkChats
  BY DEF TalkTypes, EnsureContext
<1>1. CASE Remembered(chatOf[m])
  <2>1. memory' = memory
    BY <1>1 DEF EnsureContext
  <2>2. QED
    BY <1>0, <2>1 DEF ButHistory, UpstreamKnown
<1>2. CASE ~Remembered(chatOf[m])
  <2> DEFINE full == Len(memory) >= MaxSessions
             kept == IF full THEN Tail(memory) ELSE memory
             added == [chat |-> chatOf[m], upstream |-> 0, history |-> <<>>]
             shift == IF full THEN 1 ELSE 0
  <2>1. memory' = Append(kept, added)
    BY <1>2 DEF EnsureContext
  <2>2. added \in Contexts /\ added.chat = chatOf[m] /\ added.upstream = 0
    BY <1>0 DEF Contexts
  <2>3. /\ kept \in Seq(Contexts) /\ shift \in Nat
        /\ \A j \in 1..Len(kept) : j + shift \in DOMAIN memory /\ kept[j] = memory[j + shift]
    <3>1. CASE full
      <4>1. memory # <<>>
        BY <3>1, TalkAssumption
      <4>2. QED
        BY <1>0, <3>1, <4>1, HeadTailProperties
    <3>2. CASE ~full
      BY <1>0, <3>2
    <3>3. QED
      BY <3>1, <3>2
  <2>4. \A i \in DOMAIN memory : memory[i].chat # chatOf[m]
    BY <1>2 DEF Remembered
  <2> HIDE DEF kept, added, shift
  <2>5. /\ memory' \in Seq(Contexts) /\ DOMAIN memory' = 1..(Len(kept) + 1) /\ Len(kept) \in Nat
        /\ \A j \in 1..Len(kept) : memory'[j] = memory[j + shift]
        /\ memory'[Len(kept) + 1] = added
    BY <2>1, <2>2, <2>3, AppendProperties
  <2>6. \A j \in DOMAIN memory' :
          \/ j \in 1..Len(kept) /\ ButHistory(j + shift, j) /\ j + shift \in DOMAIN memory
          \/ j = Len(kept) + 1 /\ memory'[j].chat = chatOf[m] /\ memory'[j].upstream = 0
    BY <2>2, <2>3, <2>5 DEF ButHistory
  <2>7. \A i, j \in DOMAIN memory' : memory'[i].chat = memory'[j].chat => i = j
    <3> SUFFICES ASSUME NEW i \in DOMAIN memory', NEW j \in DOMAIN memory',
                        memory'[i].chat = memory'[j].chat
                 PROVE  i = j
      OBVIOUS
    <3>1. CASE i \in 1..Len(kept) /\ j \in 1..Len(kept)
      <4>1. /\ memory[i + shift].chat = memory[j + shift].chat
            /\ i + shift \in DOMAIN memory /\ j + shift \in DOMAIN memory
        BY <2>3, <2>5, <3>1
      <4>2. i + shift = j + shift
        BY <4>1 DEF UpstreamKnown
      <4>3. QED
        BY <2>3, <2>5, <4>2
    <3>2. CASE ~(i \in 1..Len(kept) /\ j \in 1..Len(kept))
      BY <2>4, <2>5, <2>6, <3>2 DEF ButHistory
    <3>3. QED
      BY <3>1, <3>2
  <2>8. QED
    BY <2>4, <2>5, <2>6, <2>7
<1>3. QED
  BY <1>1, <1>2

\* The steps that leave the memory as it is.
LeavesMemory(m) ==
  \/ FindOrCreateSession(m) \/ AddToSessionHistory(m) \/ UseExisting(m) \/ RequestUpstream(m)
  \/ Work(m) \/ Answer(m) \/ HandleLine(m)
  \/ \E c \in TalkChats : SendFromWeb(m, c)

\* A step keeps the memory typed and a chat's session upstream what it was,
\* unless it had none.
LEMMA StepMemory ==
  ASSUME TalkInv, TalkNext
  PROVE  /\ memory' \in Seq(Contexts)
         /\ \A i, j \in DOMAIN memory' : memory'[i].chat = memory'[j].chat => i = j
         /\ \A i \in DOMAIN memory, j \in DOMAIN memory' :
              (memory[i].upstream # 0 /\ memory'[j].chat = memory[i].chat)
                => (memory'[j].upstream = memory[i].upstream)
<1> DEFINE Fine ==
      /\ memory' \in Seq(Contexts)
      /\ \A i, j \in DOMAIN memory' : memory'[i].chat = memory'[j].chat => i = j
      /\ \A i \in DOMAIN memory, j \in DOMAIN memory' :
           (memory[i].upstream # 0 /\ memory'[j].chat = memory[i].chat)
             => (memory'[j].upstream = memory[i].upstream)
<1>1. TalkTypes /\ UpstreamKnown
  BY DEF TalkInv
<1>2. ASSUME UNCHANGED memory PROVE Fine
  BY <1>1, <1>2 DEF TalkTypes, UpstreamKnown
<1>3. ASSUME NEW m \in Messages, EnsureContext(m) PROVE Fine
  <2>1. \A i, j \in DOMAIN memory : memory[i].chat = memory[j].chat => i = j
    BY <1>1 DEF UpstreamKnown
  <2>2. QED
    BY <1>1, <1>3, <2>1, ChatAdded DEF ButHistory
<1>4. ASSUME NEW m \in Messages, RecordEntry(m) PROVE Fine
  <2>1. Role(m) \in {"user", "assistant"} /\ AppendHistory(m, Role(m))
    BY <1>4 DEF Role, RecordEntry
  <2>2. \A i, j \in DOMAIN memory : memory[i].chat = memory[j].chat => i = j
    BY <1>1 DEF UpstreamKnown
  <2>3. /\ memory' \in Seq(Contexts) /\ DOMAIN memory' = DOMAIN memory
        /\ \A i \in DOMAIN memory : ButHistory(i, i)
    BY <1>1, <2>1, EntryNoted
  <2>4. QED
    BY <2>2, <2>3 DEF ButHistory
<1>5. ASSUME NEW c, NEW id \in Nat, StoreUpstream(c, id),
             \A i \in DOMAIN memory : memory[i].chat = c => memory[i].upstream \in {0, id}
      PROVE  Fine
  <2>1. \A i, j \in DOMAIN memory : memory[i].chat = memory[j].chat => i = j
    BY <1>1 DEF UpstreamKnown
  <2>2. /\ memory' \in Seq(Contexts) /\ DOMAIN memory' = DOMAIN memory
        /\ \A i \in DOMAIN memory : memory[i].chat # c => ButHistory(i, i)
        /\ \A i \in DOMAIN memory : memory[i].chat = c =>
             memory'[i].chat = c /\ memory'[i].upstream = id
    BY <1>1, <1>5, UpstreamNoted
  <2>3. QED
    BY <1>5, <2>1, <2>2 DEF ButHistory
<1>6. ASSUME NEW m \in Messages, UseSessionKey(m) PROVE Fine
  <2>1. chatOf[m] \in TalkChats
    BY <1>1, <1>6 DEF TalkTypes, UseSessionKey
  <2>2. chatOf[m][2] + 1 \in Nat
    BY <2>1, ChatNumber
  <2>3. \A i \in DOMAIN memory : memory[i].chat = chatOf[m] =>
          memory[i].upstream \in {0, chatOf[m][2] + 1}
    BY <1>1, <1>6 DEF UpstreamKnown, UseSessionKey
  <2>4. StoreUpstream(chatOf[m], chatOf[m][2] + 1)
    BY <1>6 DEF UseSessionKey
  <2>5. QED
    BY <1>5, <2>2, <2>3, <2>4
<1>7. ASSUME NEW m \in Messages, Created(m) PROVE Fine
  <2>1. CASE StoreUpstream(chatOf[m], m)
    <3>1. m \in Nat
      BY TalkAssumption DEF Messages
    <3>2. \A i \in DOMAIN memory : memory[i].chat = chatOf[m] => memory[i].upstream \in {0, m}
      BY <1>1, <1>7 DEF UpstreamKnown, Created
    <3>3. QED
      BY <1>5, <2>1, <3>1, <3>2
  <2>2. QED
    BY <1>2, <1>7, <2>1 DEF Created
<1>8. ASSUME NEW m \in Messages, LeavesMemory(m) PROVE UNCHANGED memory
  BY <1>8 DEF LeavesMemory, FindOrCreateSession, AddToSessionHistory, UseExisting, RequestUpstream,
              Work, Answer, HandleLine, SendFromWeb
<1>9. ASSUME QuitCommand \/ TakeMessage PROVE UNCHANGED memory
  BY <1>9 DEF QuitCommand, TakeMessage
<1> HIDE DEF Fine
<1>10. Fine
  BY <1>2, <1>3, <1>4, <1>6, <1>7, <1>8, <1>9 DEF TalkNext, Handle, LeavesMemory
<1>11. QED
  BY <1>10 DEF Fine

\* A message goes from one of its stages to another.
LEMMA Moves ==
  ASSUME TalkTypes, NEW m \in Messages, NEW step \in Stages, Goto(m, step)
  PROVE  /\ stage' \in [Messages -> Stages] /\ stage'[m] = step
         /\ \A n \in Messages \ {m} : stage'[n] = stage[n]
BY DEF TalkTypes, Goto

\* A message that has been sent keeps its chat.
LEMMA ChatStays ==
  ASSUME TalkTypes, UNCHANGED <<chatOf, inbound, direct>>, NEW m \in Messages, stage[m] # "unsent",
         NEW step \in Stages \ {"unsent"}, Goto(m, step),
         sessions' \in SUBSET SessionRecords, memory' \in Seq(Contexts)
  PROVE  TalkTypes'
<1>1. /\ stage' \in [Messages -> Stages]
      /\ \A n \in Messages \ {m} : stage'[n] = stage[n]
  BY Moves
<1>2. \A n \in Messages : stage'[n] # "unsent" => chatOf[n] \in TalkChats
  BY <1>1 DEF TalkTypes
<1>3. stage'[m] # "unsent"
  BY Moves
<1>4. \A i \in DOMAIN inbound : stage'[inbound[i]] # "unsent"
  BY <1>1, <1>3 DEF TalkTypes
<1>5. QED
  BY <1>1, <1>2, <1>4 DEF TalkTypes

\* A step keeps the types.
LEMMA StepTalkTypes == TalkInv /\ TalkNext => TalkTypes'
<1> SUFFICES ASSUME TalkInv, TalkNext PROVE TalkTypes'
  OBVIOUS
<1>0. TalkTypes /\ sessions' \in SUBSET SessionRecords /\ memory' \in Seq(Contexts)
  BY StepIndex, StepMemory DEF TalkInv
<1>1. ASSUME NEW m \in Messages, NEW c \in TalkChats, Publish(m, c), UNCHANGED direct
      PROVE  TalkTypes'
  <2>1. /\ stage' \in [Messages -> Stages]
        /\ \A n \in Messages \ {m} : stage'[n] = stage[n]
    BY <1>0, <1>1, Moves DEF Publish, Stages
  <2>2. chatOf' \in [Messages -> TalkChats \cup {NoChat}] /\ chatOf'[m] \in TalkChats
        /\ \A n \in Messages \ {m} : chatOf'[n] = chatOf[n]
    BY <1>0, <1>1 DEF Publish, TalkTypes
  <2>3. /\ inbound' \in Seq(Messages) /\ DOMAIN inbound' = 1..(Len(inbound) + 1)
        /\ \A i \in 1..Len(inbound) : inbound'[i] = inbound[i]
        /\ inbound'[Len(inbound) + 1] = m /\ Len(inbound) \in Nat
    BY <1>0, <1>1, AppendProperties DEF Publish, TalkTypes
  <2>4. \A n \in Messages : stage'[n] # "unsent" => chatOf'[n] \in TalkChats
    BY <1>0, <2>1, <2>2 DEF TalkTypes
  <2>5. stage'[m] # "unsent"
    BY <1>0, <1>1, Moves DEF Publish, Stages
  <2>6. \A i \in DOMAIN inbound : inbound[i] \in Messages /\ stage'[inbound[i]] # "unsent"
    BY <1>0, <2>1, <2>5 DEF TalkTypes
  <2>7. DOMAIN inbound = 1..Len(inbound)
    BY <1>0 DEF TalkTypes
  <2>8. \A i \in DOMAIN inbound' : stage'[inbound'[i]] # "unsent"
    BY <2>3, <2>5, <2>6, <2>7
  <2>9. QED
    BY <1>0, <1>1, <2>1, <2>2, <2>3, <2>4, <2>8 DEF TalkTypes
<1>2. ASSUME NEW m \in Messages, HandleLine(m) PROVE TalkTypes'
  BY <1>1, <1>2 DEF HandleLine, TalkChats
<1>3. ASSUME NEW m \in Messages, NEW c \in TalkChats, SendFromWeb(m, c) PROVE TalkTypes'
  BY <1>1, <1>3 DEF SendFromWeb
<1>4. ASSUME QuitCommand PROVE TalkTypes'
  BY <1>0, <1>4 DEF QuitCommand, TalkTypes
<1>5. ASSUME TakeMessage PROVE TalkTypes'
  <2> DEFINE m == Head(inbound)
  <2>1. m \in Messages /\ inbound' \in Seq(Messages)
    BY <1>0, <1>5, HeadTailProperties DEF TakeMessage, TalkTypes
  <2>2. Goto(m, "context") /\ "context" \in Stages
    BY <1>5 DEF TakeMessage, Stages, Preparing
  <2>3. /\ stage' \in [Messages -> Stages]
        /\ \A n \in Messages \ {m} : stage'[n] = stage[n]
    BY <1>0, <2>1, <2>2, Moves
  <2>4. stage[m] # "unsent" /\ stage'[m] # "unsent"
    BY <1>0, <1>5, <2>1, <2>2, Moves DEF TakeMessage, TalkTypes
  <2>5. \A i \in DOMAIN inbound' : i + 1 \in DOMAIN inbound /\ inbound'[i] = inbound[i + 1]
    BY <1>0, <1>5, HeadTailProperties DEF TakeMessage, TalkTypes
  <2>6. \A i \in DOMAIN inbound : inbound[i] \in Messages /\ stage'[inbound[i]] # "unsent"
    BY <1>0, <2>3, <2>4 DEF TalkTypes
  <2>7. \A n \in Messages : stage'[n] # "unsent" => chatOf[n] \in TalkChats
    BY <1>0, <2>3, <2>4 DEF TalkTypes
  <2> HIDE DEF m
  <2>8. QED
    BY <1>0, <1>5, <2>1, <2>3, <2>5, <2>6, <2>7 DEF TakeMessage, TalkTypes
<1>6. ASSUME NEW m \in Messages, Handle(m) \/ Answer(m) PROVE TalkTypes'
  <2>1. \E step \in Stages \ {"unsent"} : Goto(m, step)
    BY <1>6 DEF Handle, Answer, EnsureContext, FindOrCreateSession, RecordEntry, AddToSessionHistory,
                UseSessionKey, UseExisting, RequestUpstream, Created, Work, Stages, Preparing
  <2>2. stage[m] # "unsent" /\ UNCHANGED <<chatOf, direct>>
    BY <1>6 DEF Handle, Answer, EnsureContext, FindOrCreateSession, RecordEntry, AddToSessionHistory,
                UseSessionKey, UseExisting, RequestUpstream, Created, Work
  <2>3. UNCHANGED inbound
    BY <1>6 DEF Handle, Answer, EnsureContext, FindOrCreateSession, RecordEntry, AddToSessionHistory,
                UseSessionKey, UseExisting, RequestUpstream, Created, Work
  <2>4. QED
    BY <1>0, <2>1, <2>2, <2>3, ChatStays
<1>7. QED
  BY <1>2, <1>3, <1>4, <1>5, <1>6 DEF TalkNext

-----------------------------------------------------------------------------
\* The message being prepared is the inbound thread's.
OneIsPrepared == \A m \in Messages : stage[m] \in Preparing => loop = m

\* A thread frees the inbound thread only of its own message, when it is done
\* or asked.
LEMMA StepPrepared == TalkInv /\ TalkNext => OneIsPrepared'
<1> SUFFICES ASSUME TalkInv, TalkNext PROVE OneIsPrepared'
  OBVIOUS
<1>0. TalkTypes /\ OneIsPrepared
  BY DEF TalkInv, UpstreamKnown, OneIsPrepared
<1>1. ASSUME NEW m \in Messages, NEW step \in Stages, Goto(m, step), UNCHANGED loop,
             stage[m] \in Preparing \/ step \notin Preparing
      PROVE  OneIsPrepared'
  <2>1. /\ stage'[m] = step
        /\ \A n \in Messages \ {m} : stage'[n] = stage[n]
    BY <1>0, <1>1, Moves
  <2>2. QED
    BY <1>0, <1>1, <2>1 DEF OneIsPrepared
<1>2. ASSUME NEW m \in Messages, NEW step \in Stages, Goto(m, step), Free(m), step \notin Preparing
      PROVE  OneIsPrepared'
  <2>1. /\ stage'[m] = step
        /\ \A n \in Messages \ {m} : stage'[n] = stage[n]
    BY <1>0, <1>2, Moves
  <2>2. QED
    BY <1>0, <1>2, <2>1 DEF OneIsPrepared, Free
<1>3. ASSUME NEW m \in Messages, NEW c \in TalkChats, Publish(m, c), UNCHANGED loop PROVE OneIsPrepared'
  BY <1>1, <1>3 DEF Publish, Stages, Preparing
<1>4. ASSUME NEW m \in Messages, HandleLine(m) PROVE OneIsPrepared'
  BY <1>3, <1>4 DEF HandleLine, TalkChats
<1>5. ASSUME NEW m \in Messages, NEW c \in TalkChats, SendFromWeb(m, c) PROVE OneIsPrepared'
  BY <1>3, <1>5 DEF SendFromWeb
<1>6. ASSUME TakeMessage PROVE OneIsPrepared'
  <2> DEFINE m == Head(inbound)
  <2>1. m \in Messages
    BY <1>0, <1>6, HeadTailProperties DEF TakeMessage, TalkTypes
  <2>2. \A n \in Messages \ {m} : stage'[n] = stage[n]
    BY <1>0, <1>6, <2>1, Moves DEF TakeMessage, Stages, Preparing
  <2>3. \A n \in Messages : stage[n] \notin Preparing
    BY <1>0, <1>6, TalkAssumption DEF TakeMessage, OneIsPrepared, Messages
  <2>4. QED
    BY <1>6, <2>2, <2>3 DEF TakeMessage, OneIsPrepared
<1>7. ASSUME QuitCommand PROVE OneIsPrepared'
  BY <1>0, <1>7 DEF QuitCommand, OneIsPrepared
<1>8. ASSUME NEW m \in Messages,
             \/ EnsureContext(m) \/ FindOrCreateSession(m) \/ RecordEntry(m) \/ UseSessionKey(m)
             \/ UseExisting(m) \/ RequestUpstream(m) \/ Answer(m)
      PROVE  OneIsPrepared'
  BY <1>1, <1>8 DEF EnsureContext, FindOrCreateSession, RecordEntry, UseSessionKey, UseExisting,
                    RequestUpstream, Answer, Stages, Preparing
<1>9. ASSUME NEW m \in Messages, AddToSessionHistory(m) \/ Created(m) \/ Work(m) PROVE OneIsPrepared'
  BY <1>1, <1>2, <1>9 DEF AddToSessionHistory, Created, Work, Stages, Preparing
<1>10. QED
  BY <1>4, <1>5, <1>6, <1>7, <1>8, <1>9 DEF TalkNext, Handle

\* The three parts of UpstreamKnown that are about a chat's session upstream.
ToolsKnow == direct => \A i \in DOMAIN memory : memory[i].upstream \in {0, memory[i].chat[2] + 1}
ToolsRequestNothing == direct => \A m \in Messages : stage[m] # "requested"
NoneWhileRequested ==
  \A m \in Messages : stage[m] = "requested" =>
    \A i \in DOMAIN memory : memory[i].chat = chatOf[m] => memory[i].upstream = 0
Known == ToolsKnow /\ ToolsRequestNothing /\ NoneWhileRequested

\* No message begins to be requested, and none that is changes its chat.
RequestsNothingNew ==
  \A n \in Messages : stage'[n] = "requested" => stage[n] = "requested" /\ chatOf'[n] = chatOf[n]

\* A step keeps what is known of the sessions upstream.
LEMMA StepKnown == TalkInv /\ TalkNext => Known'
<1> SUFFICES ASSUME TalkInv, TalkNext PROVE Known'
  OBVIOUS
<1>0. /\ TalkTypes /\ UpstreamKnown /\ Known /\ OneIsPrepared
      /\ \A i, j \in DOMAIN memory : memory[i].chat = memory[j].chat => i = j
  BY DEF TalkInv, UpstreamKnown, Known, ToolsKnow, ToolsRequestNothing, NoneWhileRequested, OneIsPrepared
<1>1. ASSUME UNCHANGED <<memory, direct>>, RequestsNothingNew PROVE Known'
  BY <1>0, <1>1 DEF Known, ToolsKnow, ToolsRequestNothing, NoneWhileRequested, RequestsNothingNew
<1>2. ASSUME NEW m \in Messages, NEW step \in Stages \ {"requested"}, Goto(m, step), UNCHANGED chatOf
      PROVE  RequestsNothingNew
  BY <1>0, <1>2, Moves DEF RequestsNothingNew
<1>3. ASSUME NEW m \in Messages, stage[m] \in Preparing,
             NEW step \in Stages \ {"requested"}, Goto(m, step), UNCHANGED chatOf
      PROVE  \A n \in Messages : stage'[n] # "requested"
  BY <1>0, <1>3, Moves DEF OneIsPrepared, Preparing
<1>4. ASSUME NEW m \in Messages, NEW c \in TalkChats, Publish(m, c), UNCHANGED <<memory, direct>>
      PROVE  Known'
  <2>1. /\ stage'[m] = "queued"
        /\ \A n \in Messages \ {m} : stage'[n] = stage[n]
    BY <1>0, <1>4, Moves DEF Publish, Stages
  <2>2. \A n \in Messages \ {m} : chatOf'[n] = chatOf[n]
    BY <1>0, <1>4 DEF Publish, TalkTypes
  <2>3. RequestsNothingNew
    BY <2>1, <2>2 DEF RequestsNothingNew
  <2>4. QED
    BY <1>1, <1>4, <2>3
<1>5. ASSUME NEW m \in Messages, HandleLine(m) PROVE Known'
  BY <1>4, <1>5 DEF HandleLine, TalkChats
<1>6. ASSUME NEW m \in Messages, NEW c \in TalkChats, SendFromWeb(m, c) PROVE Known'
  BY <1>4, <1>6 DEF SendFromWeb
<1>7. ASSUME QuitCommand PROVE Known'
  BY <1>1, <1>7 DEF QuitCommand, RequestsNothingNew
<1>8. ASSUME TakeMessage PROVE Known'
  <2>1. Head(inbound) \in Messages
    BY <1>0, <1>8, HeadTailProperties DEF TakeMessage, TalkTypes
  <2>2. QED
    BY <1>1, <1>2, <1>8, <2>1 DEF TakeMessage, Stages, Preparing
<1>9. ASSUME NEW m \in Messages, EnsureContext(m) PROVE Known'
  <2>1. \A n \in Messages : stage'[n] # "requested"
    BY <1>3, <1>9 DEF EnsureContext, Stages, Preparing
  <2>2. \A j \in DOMAIN memory' : (\E i \in DOMAIN memory : ButHistory(i, j)) \/ memory'[j].upstream = 0
    BY <1>0, <1>9, ChatAdded
  <2>3. ToolsKnow'
    BY <1>0, <1>9, <2>2 DEF EnsureContext, Known, ToolsKnow, ButHistory
  <2>4. QED
    BY <2>1, <2>3 DEF Known, ToolsRequestNothing, NoneWhileRequested
<1>10. ASSUME NEW m \in Messages, RecordEntry(m) PROVE Known'
  <2>1. Role(m) \in {"user", "assistant"} /\ AppendHistory(m, Role(m))
    BY <1>10 DEF Role, RecordEntry
  <2>2. DOMAIN memory' = DOMAIN memory /\ \A i \in DOMAIN memory : ButHistory(i, i)
    BY <1>0, <2>1, EntryNoted
  <2>3. RequestsNothingNew
    BY <1>2, <1>10 DEF RecordEntry, Stages, Preparing
  <2>4. QED
    BY <1>0, <1>10, <2>2, <2>3
    DEF RecordEntry, Known, ToolsKnow, ToolsRequestNothing, NoneWhileRequested, RequestsNothingNew, ButHistory
<1>11. ASSUME NEW m \in Messages, UseSessionKey(m) PROVE Known'
  <2>1. \A n \in Messages : stage'[n] # "requested"
    BY <1>3, <1>11 DEF UseSessionKey, Stages, Preparing
  <2>2. chatOf[m] \in TalkChats
    BY <1>0, <1>11 DEF TalkTypes, UseSessionKey
  <2> DEFINE id == chatOf[m][2] + 1
  <2>3. id \in Nat /\ StoreUpstream(chatOf[m], id)
    BY <1>11, <2>2, ChatNumber DEF UseSessionKey
  <2>4. /\ DOMAIN memory' = DOMAIN memory
        /\ \A i \in DOMAIN memory : memory[i].chat # chatOf[m] => ButHistory(i, i)
        /\ \A i \in DOMAIN memory : memory[i].chat = chatOf[m] =>
             memory'[i].chat = chatOf[m] /\ memory'[i].upstream = id
    BY <1>0, <2>3, UpstreamNoted
  <2>5. ToolsKnow'
    BY <1>0, <1>11, <2>4 DEF UseSessionKey, Known, ToolsKnow, ButHistory
  <2>6. QED
    BY <2>1, <2>5 DEF Known, ToolsRequestNothing, NoneWhileRequested
<1>12. ASSUME NEW m \in Messages, Created(m) PROVE Known'
  <2>1. \A n \in Messages : stage'[n] # "requested"
    BY <1>3, <1>12 DEF Created, Stages, Preparing
  <2>2. ~direct /\ UNCHANGED direct
    BY <1>0, <1>12 DEF Created, Known, ToolsRequestNothing
  <2>3. QED
    BY <2>1, <2>2 DEF Known, ToolsKnow, ToolsRequestNothing, NoneWhileRequested
<1>13. ASSUME NEW m \in Messages, RequestUpstream(m) PROVE Known'
  <2>1. /\ stage'[m] = "requested"
        /\ \A n \in Messages \ {m} : stage'[n] = stage[n]
    BY <1>0, <1>13, Moves DEF RequestUpstream, Stages, Preparing
  <2>2. \A i \in DOMAIN memory : memory[i].chat = chatOf[m] => memory[i].upstream = 0
    <3> SUFFICES ASSUME NEW i \in DOMAIN memory, memory[i].chat = chatOf[m]
                 PROVE  memory[i].upstream = 0
      OBVIOUS
    <3>1. Remembered(chatOf[m])
      BY DEF Remembered
    <3>2. MemoryOf(chatOf[m]) = i
      BY <1>0 DEF MemoryOf
    <3>3. QED
      BY <1>13, <3>1, <3>2 DEF RequestUpstream, ExistingUpstream
  <2>3. ~direct /\ UNCHANGED <<direct, memory, chatOf>>
    BY <1>13 DEF RequestUpstream
  <2>4. QED
    BY <1>0, <2>1, <2>2, <2>3 DEF Known, ToolsKnow, ToolsRequestNothing, NoneWhileRequested
<1>14. ASSUME NEW m \in Messages,
              FindOrCreateSession(m) \/ AddToSessionHistory(m) \/ UseExisting(m) \/ Work(m) \/ Answer(m)
       PROVE  Known'
  <2>1. RequestsNothingNew
    BY <1>2, <1>14 DEF FindOrCreateSession, AddToSessionHistory, UseExisting, Work, Answer,
                       Stages, Preparing
  <2>2. UNCHANGED <<memory, direct>>
    BY <1>14 DEF FindOrCreateSession, AddToSessionHistory, UseExisting, Work, Answer
  <2>3. QED
    BY <1>1, <2>1, <2>2
<1>15. QED
  BY <1>5, <1>6, <1>7, <1>8, <1>9, <1>10, <1>11, <1>12, <1>13, <1>14 DEF TalkNext, Handle

\* Every step keeps the invariant.
LEMMA StepTalkInv == TalkInv /\ [TalkNext]_talkVars => TalkInv'
<1> SUFFICES ASSUME TalkInv, [TalkNext]_talkVars PROVE TalkInv'
  OBVIOUS
<1>1. CASE TalkNext
  <2>1. TalkTypes' /\ IndexLeads'
    BY <1>1, StepTalkTypes, StepIndex
  <2>2. OneIsPrepared' /\ Known'
    BY <1>1, StepPrepared, StepKnown
  <2>3. \A i, j \in DOMAIN memory' : memory'[i].chat = memory'[j].chat => i = j
    BY <1>1, StepMemory
  <2>4. UpstreamKnown'
    BY <2>2, <2>3 DEF UpstreamKnown, OneIsPrepared, Known, ToolsKnow, ToolsRequestNothing, NoneWhileRequested
  <2>5. QED
    BY <2>1, <2>4 DEF TalkInv
<1>2. CASE UNCHANGED talkVars
  BY <1>2 DEF TalkInv, TalkTypes, IndexLeads, UpstreamKnown, talkVars
<1>3. QED
  BY <1>1, <1>2

\* The invariant holds in every reachable state.
LEMMA TalkInvHolds == TalkSpec => []TalkInv
  BY TalkInitInv, StepTalkInv, PTL DEF TalkSpec

\* A chat has one session in the store and the index leads to it, whatever
\* the threads that find, make, write to and close sessions do in between
\* (find_or_create_session, add_to_history, close_session).
THEOREM OneSessionEach == TalkSpec => []OneSessionPerKey
<1>1. TalkInv => OneSessionPerKey
  BY DEF TalkInv, IndexLeads, OneSessionPerKey
<1>2. QED
  BY <1>1, TalkInvHolds, PTL

\* A chat that is remembered keeps its session upstream: no request made for
\* it is answered after it has got one, and with tools its key decides
\* (get_or_create_opencode_session, store_opencode_session_id).
THEOREM UpstreamIsKept == TalkSpec => UpstreamKept
<1> DEFINE Stays ==
      \A i \in DOMAIN memory : \A j \in DOMAIN memory' :
        (memory[i].upstream # 0 /\ memory'[j].chat = memory[i].chat)
          => (memory'[j].upstream = memory[i].upstream)
<1>1. TalkInv /\ TalkNext => [Stays]_talkVars
  BY StepMemory
<1>2. TalkInv /\ [TalkNext]_talkVars => [Stays]_talkVars
  BY <1>1
<1>3. QED
  BY <1>2, TalkInvHolds, PTL DEF TalkSpec, UpstreamKept

-----------------------------------------------------------------------------
(* RuntimeLifecycle, of a runtime that is started once.                     *)

RunTypes ==
  /\ starts \in Nat
  /\ taker \in [Threads -> Waiting \cup Letters]
  /\ out \in Seq(Letters) /\ letters \in Seq(Letters) /\ signals \in Seq(Signals)
  /\ fate \in [Letters -> {"unsent", "refused", "queued", "out", "lost", "sent"}]
  /\ main \in {"idle", "joining", "closing", "draining"}

\* No inbound thread has a message any more.
TakersEnded == \A i \in Threads : taker[i] \in {"none", "ended"}

\* Where stop is when the bus is closed, and what has ended by then.
StopOrder ==
  /\ coreRunning => main = "idle" /\ {"taker", "forwarder"} \subseteq joins
  /\ started => coreRunning
  /\ (main = "idle" /\ "forwarder" \in joins) => coreRunning
  /\ main # "idle" => "forwarder" \in joins
  /\ main = "joining" /\ "taker" \notin joins => TakersEnded
  /\ main \in {"closing", "draining"} => TakersEnded
  /\ main = "idle" /\ "forwarder" \notin joins => TakersEnded /\ (starts > 0 => forwarder = "ended")
  /\ closed => TakersEnded /\ main \notin {"joining", "closing"} /\ ~coreRunning
  /\ starts = 0 => main = "idle" /\ joins = {} /\ forwarder = "none" /\ ~started /\ ~closed
  /\ starts > 0 => forwarder # "none"
  /\ \A i \in Threads : taker[i] # "none" => i = starts

\* An answer on its way is on the bus, or came too late for a thread that had
\* stopped waiting.
AnswersKnown ==
  /\ \A m \in Letters : fate[m] # "lost" /\ (fate[m] = "out" => m \in Range(out))
  /\ forwarder \in {"woken", "ended"} => Range(out) \subseteq late
  /\ forwarder = "ended" => closed
  /\ forwarder = "none" => out = <<>>

StartedOnce == starts <= 1 => StopOrder /\ AnswersKnown

RunInv == RunTypes /\ StartedOnce

\* Nothing runs before the first start.
LEMMA RunInitInv == RunInit => RunInv
<1> SUFFICES ASSUME RunInit PROVE RunInv
  OBVIOUS
<1>1. RunTypes
  BY DEF RunInit, RunTypes, Waiting
<1>2. StopOrder
  BY DEF RunInit, StopOrder, TakersEnded
<1>3. AnswersKnown
  BY DEF RunInit, AnswersKnown
<1>4. QED
  BY <1>1, <1>2, <1>3 DEF RunInv, StartedOnce

\* A step keeps the types.
LEMMA StepRunTypes == RunInv /\ RunNext => RunTypes'
<1> SUFFICES ASSUME RunTypes, RunNext PROVE RunTypes'
  BY DEF RunInv
<1> USE DEF RunTypes, Waiting
<1>1. CASE Start
  BY <1>1 DEF Start
<1>2. CASE Stop \/ JoinTaker \/ JoinController \/ Close \/ JoinForwarder
  BY <1>2 DEF Stop, JoinTaker, JoinController, Close, JoinForwarder
<1>3. CASE TakeSignal
  BY <1>3, HeadTailProperties DEF TakeSignal
<1>4. CASE Forward
  BY <1>4, HeadTailProperties DEF Forward
<1>5. CASE ControllerTimesOut \/ ControllerGoesOn \/ ForwarderTimesOut \/ ForwarderGoesOn
  BY <1>5 DEF ControllerTimesOut, ControllerGoesOn, ForwarderTimesOut, ForwarderGoesOn
<1>6. ASSUME NEW m \in Letters, ProcessMessage(m) PROVE RunTypes'
  BY <1>6, AppendProperties DEF ProcessMessage
<1>7. ASSUME NEW s \in Signals, Signal(s) PROVE RunTypes'
  BY <1>7 DEF Signal
<1>8. ASSUME NEW i \in Threads, TakeLetter(i) PROVE RunTypes'
  BY <1>8, HeadTailProperties DEF TakeLetter
<1>9. ASSUME NEW i \in Threads, TakerTimesOut(i) \/ TakerGoesOn(i) PROVE RunTypes'
  BY <1>9 DEF TakerTimesOut, TakerGoesOn
<1>10. ASSUME NEW i \in Threads, Reply(i) PROVE RunTypes'
  BY <1>10, AppendProperties DEF Reply
<1>11. QED
  BY <1>1, <1>2, <1>3, <1>4, <1>5, <1>6, <1>7, <1>8, <1>9, <1>10 DEF RunNext

\* Stop waits for the inbound thread before it closes the bus, and for the
\* outbound one after.
LEMMA StepStopOrder ==
  ASSUME "shutdown" \notin Signals, RunTypes, StopOrder, AnswersKnown, RunNext, starts' <= 1
  PROVE  StopOrder'
<1> USE DEF StopOrder, TakersEnded
<1>1. CASE Start
  BY <1>1 DEF Start, RunTypes
<1>2. CASE Stop
  BY <1>2 DEF Stop
<1>3. CASE JoinTaker
  BY <1>3 DEF JoinTaker
<1>4. CASE JoinController
  BY <1>4 DEF JoinController
<1>5. CASE Close
  BY <1>5 DEF Close
<1>6. CASE JoinForwarder
  BY <1>6 DEF JoinForwarder
<1>7. CASE TakeSignal
  <2>1. Head(signals) # "shutdown"
    BY <1>7, HeadTailProperties DEF TakeSignal, RunTypes
  <2>2. QED
    BY <1>7, <2>1 DEF TakeSignal
<1>8. CASE ControllerTimesOut \/ ControllerGoesOn
  BY <1>8 DEF ControllerTimesOut, ControllerGoesOn
<1>9. CASE Forward \/ ForwarderTimesOut \/ ForwarderGoesOn
  BY <1>9 DEF Forward, ForwarderTimesOut, ForwarderGoesOn
<1>10. ASSUME NEW m \in Letters, ProcessMessage(m) PROVE StopOrder'
  BY <1>10 DEF ProcessMessage
<1>11. ASSUME NEW s \in Signals, Signal(s) PROVE StopOrder'
  BY <1>11 DEF Signal
<1>12. ASSUME NEW i \in Threads, TakeLetter(i) \/ TakerTimesOut(i) \/ TakerGoesOn(i) \/ Reply(i)
       PROVE  StopOrder'
  <2>1. /\ taker[i] \notin {"none", "ended"}
        /\ \A j \in Threads \ {i} : taker'[j] = taker[j]
    BY <1>12, RunAssumption DEF TakeLetter, TakerTimesOut, TakerGoesOn, Reply, RunTypes, Waiting
  <2>2. UNCHANGED <<started, coreRunning, closed, main, starts, forwarder, joins>>
    BY <1>12 DEF TakeLetter, TakerTimesOut, TakerGoesOn, Reply
  <2>3. ~TakersEnded
    BY <2>1
  <2>4. i = starts
    BY <2>1
  <2>5. QED
    BY <2>1, <2>2, <2>3, <2>4
<1>13. QED
  BY <1>1, <1>2, <1>3, <1>4, <1>5, <1>6, <1>7, <1>8, <1>9, <1>10, <1>11, <1>12 DEF RunNext

\* An answer is put on the bus while it is open, and what is on the bus when
\* the outbound thread ends came after it had stopped waiting.
LEMMA StepAnswers ==
  ASSUME RunTypes, StopOrder, AnswersKnown, RunNext, starts' <= 1
  PROVE  AnswersKnown'
<1> USE DEF AnswersKnown
<1>1. CASE Start
  BY <1>1 DEF Start, StopOrder
<1>2. CASE Stop \/ JoinTaker \/ JoinController \/ Close \/ JoinForwarder
  BY <1>2 DEF Stop, JoinTaker, JoinController, Close, JoinForwarder
<1>3. CASE TakeSignal \/ ControllerTimesOut \/ ControllerGoesOn
  BY <1>3 DEF TakeSignal, ControllerTimesOut, ControllerGoesOn
<1>4. CASE Forward
  <2>1. /\ Head(out) \in Letters /\ Range(Tail(out)) \subseteq Range(out)
        /\ Range(out) \subseteq {Head(out)} \cup Range(Tail(out))
    BY <1>4, TailRange DEF Forward, RunTypes
  <2>2. QED
    BY <1>4, <2>1 DEF Forward, RunTypes
<1>5. CASE ForwarderTimesOut
  <2>1. Range(out) = {}
    BY <1>5 DEF ForwarderTimesOut, Range
  <2>2. QED
    BY <1>5, <2>1 DEF ForwarderTimesOut
<1>6. CASE ForwarderGoesOn
  <2>1. out = <<>> => Range(out) = {}
    BY DEF Range
  <2>2. QED
    BY <1>6, <2>1 DEF ForwarderGoesOn
<1>7. ASSUME NEW m \in Letters, ProcessMessage(m) PROVE AnswersKnown'
  BY <1>7 DEF ProcessMessage, RunTypes
<1>8. ASSUME NEW s \in Signals, Signal(s) PROVE AnswersKnown'
  BY <1>8 DEF Signal
<1>9. ASSUME NEW i \in Threads, TakeLetter(i) \/ TakerTimesOut(i) \/ TakerGoesOn(i) PROVE AnswersKnown'
  BY <1>9 DEF TakeLetter, TakerTimesOut, TakerGoesOn
<1>10. ASSUME NEW i \in Threads, Reply(i) PROVE AnswersKnown'
  <2>1. taker[i] \in Letters /\ taker[i] \notin {"none", "ended"}
    BY <1>10, RunAssumption DEF Reply, Waiting
  <2>2. ~closed /\ forwarder \notin {"none", "ended"}
    <3>1. ~TakersEnded /\ i = starts
      BY <2>1 DEF StopOrder, TakersEnded
    <3>2. i > 0
      BY RunAssumption DEF Threads
    <3>3. QED
      BY <3>1, <3>2 DEF StopOrder
  <2>3. Range(out') = Range(out) \cup {taker[i]}
    BY <1>10, <2>1, <2>2, AppendRange DEF Reply, RunTypes
  <2>4. fate' = [fate EXCEPT ![taker[i]] = "out"]
    BY <1>10, <2>2 DEF Reply
  <2>5. \A m \in Letters : fate'[m] # "lost" /\ (fate'[m] = "out" => m \in Range(out'))
    BY <2>1, <2>3, <2>4 DEF RunTypes
  <2>6. forwarder' = forwarder /\ (forwarder = "woken" => late' = late \cup {taker[i]})
    BY <1>10 DEF Reply
  <2>7. QED
    BY <2>2, <2>3, <2>5, <2>6
<1>11. QED
  BY <1>1, <1>2, <1>3, <1>4, <1>5, <1>6, <1>7, <1>8, <1>9, <1>10 DEF RunNext

LEMMA StepRunInv ==
  ASSUME "shutdown" \notin Signals, RunInv, [RunNext]_runVars
  PROVE  RunInv'
<1>1. CASE RunNext
  <2>1. RunTypes'
    BY <1>1, StepRunTypes
  <2>2. starts' <= 1 => starts <= 1
    <3>1. starts \in Nat /\ (starts' = starts \/ starts' = starts + 1)
      BY <1>1 DEF RunInv, RunTypes, RunNext, Start, Stop, JoinTaker, JoinController, Close, JoinForwarder,
         TakeSignal, ControllerTimesOut, ControllerGoesOn, Forward, ForwarderTimesOut, ForwarderGoesOn,
         ProcessMessage, Signal, TakeLetter, TakerTimesOut, TakerGoesOn, Reply
    <3>2. QED
      BY <3>1
  <2>3. StartedOnce'
    BY <1>1, <2>2, StepStopOrder, StepAnswers DEF RunInv, StartedOnce
  <2>4. QED
    BY <2>1, <2>3 DEF RunInv
<1>2. CASE UNCHANGED runVars
  BY <1>2 DEF RunInv, RunTypes, StartedOnce, StopOrder, TakersEnded, AnswersKnown, runVars
<1>3. QED
  BY <1>1, <1>2

\* When stop returns for the first time, every answer the inbound thread
\* worked out has been sent on, or came when the outbound thread had stopped
\* waiting; nobody having sent the signal that ends the inbound thread without
\* stop waiting for it (RuntimeBootstrap.stop).
THEOREM AnswersLeaveAtStop ==
  ASSUME "shutdown" \notin Signals
  PROVE  RunSpec => [](starts <= 1 => AnswersLeave)
<1>1. RunInv /\ [RunNext]_runVars => RunInv'
  BY StepRunInv
<1>2. RunInv => (starts <= 1 => AnswersLeave)
  <2> SUFFICES ASSUME RunInv, starts <= 1, main = "idle", "forwarder" \notin joins,
                      NEW m \in Letters
               PROVE  fate[m] # "lost" /\ (fate[m] = "out" => m \in late)
    BY DEF AnswersLeave
  <2>1. StopOrder /\ AnswersKnown /\ starts \in Nat
    BY DEF RunInv, StartedOnce, RunTypes
  <2>2. forwarder \in {"none", "ended"}
    BY <2>1 DEF StopOrder
  <2>3. out = <<>> => Range(out) = {}
    BY DEF Range
  <2>4. QED
    BY <2>1, <2>2, <2>3 DEF AnswersKnown
<1>3. QED
  BY <1>1, <1>2, RunInitInv, PTL DEF RunSpec

-----------------------------------------------------------------------------
(* PlanExecution.  The groups are blocks of successive tasks, so that what  *)
(* has been handed over, and what has been taken, is a part of the plan     *)
(* from its start: groups before the one in hand, and some of that one.     *)

Outcomes == {"success", "failure", "timed out", "closed", "late"}

\* The first task of a group, and the first after it.
First(g) == groups[g][1]
After(g) == groups[g][1] + Len(groups[g])

Blocks ==
  /\ groups \in Seq(Seq(PlanTasks))
  /\ \A g \in DOMAIN groups :
       /\ groups[g] # <<>>
       /\ \A i \in DOMAIN groups[g] : groups[g][i] = First(g) + i - 1
  /\ \A g, h \in DOMAIN groups : g < h => After(g) <= First(h)
  /\ \A g \in DOMAIN groups : /\ g = 1 => First(g) = 1
                              /\ g + 1 \in DOMAIN groups => First(g + 1) = After(g)
                              /\ plan = "Batch" /\ g = Len(groups) => After(g) = PlanSize + 1
  /\ plan = "Batch" => groups # <<>>

PlanExecutionTypes ==
  /\ group \in Nat \ {0} /\ group <= Len(groups) + 1
  /\ handed \in Seq(PlanTasks) /\ \A i \in DOMAIN handed : handed[i] = i
  /\ answer \in [PlanTasks -> Outcomes \cup {"none"}]
  /\ taken \in Seq(Outcomes)
  /\ verdict \in {"none", "success", "failure", "batch"}

\* How far the group in hand has come.
InTheGroup ==
  group <= Len(groups) =>
    /\ First(group) <= Len(taken) + 1 /\ Len(taken) <= Len(handed) /\ Len(handed) < After(group)
    /\ Len(taken) + 1 > First(group) => Len(handed) + 1 = After(group)

\* What is over, and with what.
GroupsOver ==
  plan # "Batch" =>
    /\ \A i \in DOMAIN taken : answer[i] = taken[i]
    /\ \A g \in DOMAIN groups : g < group => \A t \in Range(groups[g]) : answer[t] = "success"
    /\ \A i \in DOMAIN taken : group > Len(groups) \/ i < First(group) => taken[i] = "success"
    /\ group > Len(groups) \/ verdict # "none" => Len(handed) = Len(taken)

VerdictTold ==
  /\ verdict = "success" => group > Len(groups)
  /\ verdict = "failure" => /\ group <= Len(groups) /\ Len(taken) + 1 = After(group)
                            /\ \E i \in DOMAIN taken : taken[i] # "success"
  /\ verdict \in {"success", "failure"} => plan # "Batch"
  /\ verdict = "batch" => plan = "Batch" /\ (failFast \/ OutOfReach \/ Len(taken) = PlanSize)
  /\ plan = "Batch" => group <= Len(groups)

BatchCounted ==
  plan = "Batch" => counted.successful = Cardinality({i \in DOMAIN taken : taken[i] = "success"})

Accounted ==
  /\ Blocks /\ PlanExecutionTypes /\ InTheGroup /\ GroupsOver /\ VerdictTold /\ BatchCounted
  /\ counted \in [{"successful", "failed", "timed_out"} -> Nat]

\* A run of successive tasks.
LEMMA ChunkIs ==
  ASSUME BatchAssumption, NEW t \in Nat \ {0}, t <= PlanSize, NEW n \in Nat \ {0}
  PROVE  /\ Chunk(t, n) \in Seq(PlanTasks) /\ Chunk(t, n) # <<>>
         /\ Len(Chunk(t, n)) = IF t + n - 1 > PlanSize THEN PlanSize - t + 1 ELSE n
         /\ Chunk(t, n)[1] = t
         /\ \A i \in DOMAIN Chunk(t, n) : Chunk(t, n)[i] = t + i - 1
<1> DEFINE m == IF t + n - 1 > PlanSize THEN PlanSize - t + 1 ELSE n
<1>1. m \in Nat \ {0} /\ t + m - 1 <= PlanSize
  BY DEF BatchAssumption
<1>2. Chunk(t, n) = [i \in 1..m |-> t + i - 1]
  BY DEF Chunk
<1> HIDE DEF m
<1>3. \A i \in 1..m : t + i - 1 \in PlanTasks
  BY <1>1 DEF BatchAssumption, PlanTasks
<1>4. [i \in 1..m |-> t + i - 1] \in Seq(PlanTasks) /\ Len([i \in 1..m |-> t + i - 1]) = m
  BY <1>1, <1>3
<1>5. Chunk(t, n) # <<>> /\ DOMAIN Chunk(t, n) = 1..m
  BY <1>1, <1>2, <1>4
<1>6. Chunk(t, n)[1] = t /\ \A i \in DOMAIN Chunk(t, n) : Chunk(t, n)[i] = t + i - 1
  BY <1>1, <1>2, <1>5
<1>7. Len(Chunk(t, n)) = IF t + n - 1 > PlanSize THEN PlanSize - t + 1 ELSE n
  BY <1>2, <1>4 DEF m
<1>8. QED
  BY <1>2, <1>4, <1>5, <1>6, <1>7

\* The groups of a batch: the number of chunks is the size over max_concurrent,
\* rounded up.
LEMMA ChunkCount ==
  ASSUME BatchAssumption
  PROVE  LET n == (PlanSize + MaxConcurrent - 1) \div MaxConcurrent IN
         /\ n \in Nat \ {0}
         /\ (n - 1) * MaxConcurrent + 1 <= PlanSize /\ PlanSize <= n * MaxConcurrent
         /\ \A c \in 1..n : (c - 1) * MaxConcurrent + 1 \in Nat \ {0} /\ (c - 1) * MaxConcurrent + 1 <= PlanSize
         /\ \A c, d \in 1..n : c < d => c * MaxConcurrent <= (d - 1) * MaxConcurrent
<1> DEFINE n == (PlanSize + MaxConcurrent - 1) \div MaxConcurrent
           r == (PlanSize + MaxConcurrent - 1) % MaxConcurrent
<1>1. /\ PlanSize + MaxConcurrent - 1 = MaxConcurrent * n + r
      /\ n \in Int /\ r \in Int /\ 0 <= r /\ r < MaxConcurrent
  BY DEF BatchAssumption
<1> HIDE DEF n, r
<1>2. PlanSize <= n * MaxConcurrent /\ n * MaxConcurrent <= PlanSize + MaxConcurrent - 1
  BY <1>1 DEF BatchAssumption
<1>3. n > 0
  BY <1>1, <1>2 DEF BatchAssumption
<1>4. (n - 1) * MaxConcurrent + 1 <= PlanSize
  BY <1>1, <1>2 DEF BatchAssumption
<1>5. \A c, d \in Nat : c <= d => c * MaxConcurrent <= d * MaxConcurrent
  BY DEF BatchAssumption
<1>6. \A c \in 1..n : (c - 1) * MaxConcurrent + 1 \in Nat \ {0} /\ (c - 1) * MaxConcurrent + 1 <= PlanSize
  <2> TAKE c \in 1..n
  <2>1. c - 1 \in Nat /\ n - 1 \in Nat /\ c - 1 <= n - 1
    BY <1>1, <1>3
  <2>2. (c - 1) * MaxConcurrent <= (n - 1) * MaxConcurrent /\ (c - 1) * MaxConcurrent >= 0 * MaxConcurrent
    BY <1>5, <2>1
  <2>3. (c - 1) * MaxConcurrent \in Int /\ (n - 1) * MaxConcurrent \in Int /\ 0 * MaxConcurrent = 0
    BY <2>1 DEF BatchAssumption
  <2>4. QED
    BY <1>4, <2>2, <2>3 DEF BatchAssumption
<1>7. \A c, d \in 1..n : c < d => c * MaxConcurrent <= (d - 1) * MaxConcurrent
  BY <1>1, <1>5
<1>8. QED
  BY <1>1, <1>2, <1>3, <1>4, <1>6, <1>7 DEF n

\* One group of some tasks from the first on, not the whole of a batch.
LEMMA OneBlock ==
  ASSUME BatchAssumption, NEW c \in Seq(PlanTasks), groups = <<c>>, plan # "Batch",
         c # <<>>, \A i \in DOMAIN c : c[i] = i
  PROVE  Blocks
<1>1. Len(groups) = 1 /\ DOMAIN groups = {1} /\ groups[1] = c /\ groups \in Seq(Seq(PlanTasks))
  OBVIOUS
<1>2. 1 \in DOMAIN c
  BY EmptySeq
<1>3. First(1) = 1
  BY <1>1, <1>2 DEF First
<1>4. QED
  BY <1>1, <1>3 DEF Blocks

\* A group for every task.
LEMMA EachBlock ==
  ASSUME BatchAssumption, groups = Each, plan # "Batch"
  PROVE  Blocks
<1>1. /\ DOMAIN groups = PlanTasks /\ PlanTasks = 1..PlanSize /\ PlanSize \in Nat \ {0}
      /\ \A t \in PlanTasks : groups[t] = <<t>> /\ <<t>> \in Seq(PlanTasks)
  BY DEF Each, PlanTasks, BatchAssumption
<1>2. groups \in Seq(Seq(PlanTasks)) /\ Len(groups) = PlanSize
  BY <1>1 DEF Each
<1>3. \A g \in DOMAIN groups : /\ First(g) = g /\ After(g) = g + 1 /\ groups[g] # <<>>
                               /\ \A i \in DOMAIN groups[g] : i = 1 /\ groups[g][i] = g
  <2> TAKE g \in DOMAIN groups
  <2>1. groups[g] = <<g>>
    BY <1>1
  <2>2. Len(<<g>>) = 1 /\ DOMAIN <<g>> = {1} /\ <<g>>[1] = g /\ <<g>> # <<>>
    OBVIOUS
  <2>3. QED
    BY <2>1, <2>2 DEF First, After
<1>4. \A g, h \in DOMAIN groups : g < h => After(g) <= First(h)
  BY <1>1, <1>3
<1>5. \A g \in DOMAIN groups : \A i \in DOMAIN groups[g] : groups[g][i] = First(g) + i - 1
  BY <1>1, <1>3
<1>6. QED
  BY <1>1, <1>2, <1>3, <1>4, <1>5 DEF Blocks

\* Two groups, of the tasks up to one and of the others.
LEMMA TwoBlocks ==
  ASSUME BatchAssumption, NEW n \in 1..(PlanSize - 1), plan # "Batch",
         groups = <<Chunk(1, n), Chunk(n + 1, PlanSize)>>
  PROVE  Blocks
<1>1. /\ PlanSize \in Nat /\ n \in Nat \ {0} /\ n < PlanSize
  BY DEF BatchAssumption
<1> DEFINE c == Chunk(1, n)
           d == Chunk(n + 1, PlanSize)
<1>2. /\ c \in Seq(PlanTasks) /\ c # <<>> /\ Len(c) = n /\ c[1] = 1
      /\ \A i \in DOMAIN c : c[i] = 1 + i - 1
  <2>1. /\ Chunk(1, n) \in Seq(PlanTasks) /\ Chunk(1, n) # <<>>
        /\ Len(Chunk(1, n)) = (IF 1 + n - 1 > PlanSize THEN PlanSize - 1 + 1 ELSE n)
        /\ Chunk(1, n)[1] = 1
        /\ \A i \in DOMAIN Chunk(1, n) : Chunk(1, n)[i] = 1 + i - 1
    <3>1. 1 \in Nat \ {0} /\ 1 <= PlanSize
      BY <1>1
    <3>2. QED
      BY ONLY <1>1, <3>1, BatchAssumption, ChunkIs
  <2>2. QED
    BY <1>1, <2>1
<1>3. /\ d \in Seq(PlanTasks) /\ d # <<>> /\ Len(d) = PlanSize - n /\ d[1] = n + 1
      /\ \A i \in DOMAIN d : d[i] = n + 1 + i - 1
  <2>1. n + 1 \in Nat \ {0} /\ n + 1 <= PlanSize /\ PlanSize \in Nat \ {0}
    BY <1>1
  <2>2. /\ Chunk(n + 1, PlanSize) \in Seq(PlanTasks) /\ Chunk(n + 1, PlanSize) # <<>>
        /\ Len(Chunk(n + 1, PlanSize)) =
             IF (n + 1) + PlanSize - 1 > PlanSize THEN PlanSize - (n + 1) + 1 ELSE PlanSize
        /\ Chunk(n + 1, PlanSize)[1] = n + 1
        /\ \A i \in DOMAIN Chunk(n + 1, PlanSize) : Chunk(n + 1, PlanSize)[i] = n + 1 + i - 1
    BY <2>1, ChunkIs
  <2>3. (IF (n + 1) + PlanSize - 1 > PlanSize THEN PlanSize - (n + 1) + 1 ELSE PlanSize) = PlanSize - n
    BY <1>1
  <2>4. QED
    BY ONLY <2>2, <2>3 DEF d
<1> HIDE DEF c, d
<1>4. groups = <<c, d>>
  BY DEF c, d
<1>5. /\ groups \in Seq(Seq(PlanTasks)) /\ Len(groups) = 2 /\ DOMAIN groups = {1, 2}
      /\ groups[1] = c /\ groups[2] = d
  BY <1>2, <1>3, <1>4
<1>6. First(1) = 1 /\ After(1) = n + 1 /\ First(2) = n + 1
  BY <1>1, <1>2, <1>3, <1>5 DEF First, After
<1>7. \A g \in DOMAIN groups :
        groups[g] # <<>> /\ \A i \in DOMAIN groups[g] : groups[g][i] = First(g) + i - 1
  <2>1. groups[1] # <<>> /\ \A i \in DOMAIN groups[1] : groups[1][i] = First(1) + i - 1
    BY <1>2, <1>5, <1>6
  <2>2. groups[2] # <<>> /\ \A i \in DOMAIN groups[2] : groups[2][i] = First(2) + i - 1
    BY <1>3, <1>5, <1>6
  <2>3. QED
    BY <1>5, <2>1, <2>2
<1>8. \A g, h \in DOMAIN groups : g < h => After(g) <= First(h)
  BY <1>1, <1>5, <1>6
<1>9. \A g \in DOMAIN groups : /\ g = 1 => First(g) = 1
                               /\ g + 1 \in DOMAIN groups => First(g + 1) = After(g)
  BY <1>1, <1>5, <1>6
<1>10. QED
  BY <1>5, <1>7, <1>8, <1>9 DEF Blocks

\* The chunks of a batch.
LEMMA BatchBlocks ==
  ASSUME BatchAssumption, groups = Chunks
  PROVE  Blocks
<1> DEFINE n == (PlanSize + MaxConcurrent - 1) \div MaxConcurrent
           Place(g) == (g - 1) * MaxConcurrent + 1
<1>1. /\ n \in Nat \ {0} /\ Place(n) <= PlanSize /\ PlanSize <= n * MaxConcurrent
      /\ \A c \in 1..n : Place(c) \in Nat \ {0} /\ Place(c) <= PlanSize
      /\ \A c, d \in 1..n : c < d => c * MaxConcurrent <= (d - 1) * MaxConcurrent
  BY ChunkCount
<1>2. /\ groups = [c \in 1..n |-> Chunk(Place(c), MaxConcurrent)]
      /\ DOMAIN groups = 1..n /\ \A c \in 1..n : groups[c] = Chunk(Place(c), MaxConcurrent)
  BY DEF Chunks
<1>3. PlanSize \in Nat \ {0} /\ MaxConcurrent \in Nat \ {0}
  BY DEF BatchAssumption
<1>4. \A c \in Nat : Place(c) + MaxConcurrent - 1 = c * MaxConcurrent /\ c * MaxConcurrent \in Nat
  BY <1>3
<1>5. \A c \in Nat : Place(c + 1) = c * MaxConcurrent + 1
  BY <1>3
<1> HIDE DEF n
<1>6. ASSUME NEW g \in 1..n
      PROVE  /\ groups[g] \in Seq(PlanTasks) /\ groups[g] # <<>> /\ First(g) = Place(g)
             /\ \A i \in DOMAIN groups[g] : groups[g][i] = First(g) + i - 1
             /\ After(g) = IF g * MaxConcurrent > PlanSize THEN PlanSize + 1 ELSE g * MaxConcurrent + 1
  <2> DEFINE p == Place(g)
  <2>1. p \in Nat \ {0} /\ p <= PlanSize /\ p + MaxConcurrent - 1 = g * MaxConcurrent /\ g * MaxConcurrent \in Nat
    BY <1>1, <1>4
  <2>2. groups[g] = Chunk(p, MaxConcurrent)
    BY <1>2
  <2> HIDE DEF p
  <2>3. /\ groups[g] \in Seq(PlanTasks) /\ groups[g] # <<>> /\ First(g) = p
        /\ \A i \in DOMAIN groups[g] : groups[g][i] = First(g) + i - 1
        /\ Len(groups[g]) = IF p + MaxConcurrent - 1 > PlanSize THEN PlanSize - p + 1 ELSE MaxConcurrent
    <3>1. /\ Chunk(p, MaxConcurrent) \in Seq(PlanTasks) /\ Chunk(p, MaxConcurrent) # <<>>
          /\ Len(Chunk(p, MaxConcurrent)) =
               IF p + MaxConcurrent - 1 > PlanSize THEN PlanSize - p + 1 ELSE MaxConcurrent
          /\ Chunk(p, MaxConcurrent)[1] = p
          /\ \A i \in DOMAIN Chunk(p, MaxConcurrent) : Chunk(p, MaxConcurrent)[i] = p + i - 1
      BY <1>3, <2>1, ChunkIs
    <3>2. First(g) = p
      BY <2>2, <3>1 DEF First
    <3>3. QED
      BY ONLY <2>2, <3>1, <3>2
  <2>4. After(g) = IF g * MaxConcurrent > PlanSize THEN PlanSize + 1 ELSE g * MaxConcurrent + 1
    BY <1>3, <2>1, <2>3 DEF After, First
  <2>5. QED
    BY <2>3, <2>4 DEF p
<1>7. groups \in Seq(Seq(PlanTasks)) /\ Len(groups) = n
  <2>1. groups \in [1..n -> Seq(PlanTasks)]
    BY <1>2, <1>6
  <2>2. QED
    BY ONLY <1>1, <2>1, SeqDef, LenProperties
<1>8. \A g, h \in DOMAIN groups : g < h => After(g) <= First(h)
  <2> SUFFICES ASSUME NEW g \in 1..n, NEW h \in 1..n, g < h PROVE After(g) <= First(h)
    BY <1>2
  <2>1. g * MaxConcurrent <= (h - 1) * MaxConcurrent /\ Place(h) = (h - 1) * MaxConcurrent + 1
    BY <1>1
  <2>2. (h - 1) * MaxConcurrent \in Nat /\ g * MaxConcurrent \in Nat
    BY <1>1, <1>4
  <2> HIDE DEF Place
  <2>3. First(h) = Place(h) /\ Place(h) <= PlanSize
    BY <1>1, <1>6
  <2>4. After(g) = IF g * MaxConcurrent > PlanSize THEN PlanSize + 1 ELSE g * MaxConcurrent + 1
    BY <1>6
  <2>5. QED
    BY <1>3, <2>1, <2>2, <2>3, <2>4
<1>9. \A g \in DOMAIN groups : /\ g = 1 => First(g) = 1
                               /\ g + 1 \in DOMAIN groups => First(g + 1) = After(g)
                               /\ g = Len(groups) => After(g) = PlanSize + 1
  <2> SUFFICES ASSUME NEW g \in 1..n
               PROVE  /\ g = 1 => First(g) = 1
                      /\ g + 1 \in 1..n => First(g + 1) = After(g)
                      /\ g = n => After(g) = PlanSize + 1
    BY <1>2, <1>7
  <2>0. g * MaxConcurrent \in Nat /\ g \in Nat
    BY <1>4
  <2>1. Place(1) = 1
    BY <1>3
  <2>2. g + 1 \in 1..n => Place(g + 1) = g * MaxConcurrent + 1 /\ Place(g + 1) <= PlanSize
    BY <1>1, <1>5
  <2> HIDE DEF Place
  <2>3. \A k \in 1..n : First(k) = Place(k)
    BY <1>6
  <2>4. After(g) = IF g * MaxConcurrent > PlanSize THEN PlanSize + 1 ELSE g * MaxConcurrent + 1
    BY <1>6
  <2>5. g = n => After(g) = PlanSize + 1
    BY <1>1, <1>3, <2>0, <2>4
  <2>6. QED
    BY <1>3, <2>0, <2>1, <2>2, <2>3, <2>4, <2>5
<1>10. groups # <<>>
  BY <1>1, <1>7
<1>11. QED
  BY <1>2, <1>6, <1>7, <1>8, <1>9, <1>10 DEF Blocks

\* Every plan is made of blocks.
LEMMA PlansAreBlocks ==
  ASSUME BatchAssumption, groups \in GroupsOf(plan),
         plan \in {"Single", "SpecialistRoute", "Sequential", "Parallel", "Batch", "Orchestrated", "Direct"}
  PROVE  Blocks
<1>0. PlanSize \in Nat \ {0} /\ PlanTasks = 1..PlanSize /\ 1 \in PlanTasks
  BY DEF BatchAssumption, PlanTasks
<1>1. CASE plan \in {"Single", "SpecialistRoute"}
  <2>1. groups = << <<1>> >>
    BY <1>1 DEF GroupsOf
  <2>2. <<1>> \in Seq(PlanTasks) /\ <<1>> # <<>> /\ \A i \in DOMAIN <<1>> : <<1>>[i] = i
    BY <1>0
  <2>3. QED
    BY <1>1, <2>1, <2>2, OneBlock
<1>2. CASE plan = "Sequential"
  BY <1>2, EachBlock DEF GroupsOf
<1>3. CASE plan = "Parallel"
  <2> DEFINE c == [t \in PlanTasks |-> t]
  <2>1. c \in Seq(PlanTasks) /\ c # <<>> /\ \A i \in DOMAIN c : c[i] = i
    <3>1. c \in Seq(PlanTasks) /\ Len(c) = PlanSize
      BY <1>0
    <3>2. QED
      BY <1>0, <3>1
  <2>2. groups = <<c>>
    BY <1>3 DEF GroupsOf
  <2> HIDE DEF c
  <2>3. QED
    BY <1>3, <2>1, <2>2, OneBlock
<1>4. CASE plan = "Batch"
  BY <1>4, BatchBlocks DEF GroupsOf
<1>5. CASE plan = "Orchestrated"
  <2>1. \/ groups = Each
        \/ \E n \in 1..(PlanSize - 1) : groups = <<Chunk(1, n), Chunk(n + 1, PlanSize)>>
    BY <1>5 DEF GroupsOf
  <2>2. QED
    BY <1>5, <2>1, EachBlock, TwoBlocks
<1>6. CASE plan = "Direct"
  <2>1. groups = <<>>
    BY <1>6 DEF GroupsOf
  <2>2. groups \in Seq(Seq(PlanTasks)) /\ DOMAIN groups = {}
    BY <2>1
  <2>3. QED
    BY <1>6, <2>2 DEF Blocks
<1>7. QED
  BY <1>1, <1>2, <1>3, <1>4, <1>5, <1>6

LEMMA PlanBegins ==
  ASSUME BatchAssumption, PlanInit
  PROVE  Accounted
<1>1. Blocks
  BY PlansAreBlocks DEF PlanInit
<1>2. /\ group = 1 /\ handed = <<>> /\ taken = <<>> /\ verdict = "none"
      /\ answer = [t \in PlanTasks |-> "none"]
      /\ counted = [successful |-> 0, failed |-> 0, timed_out |-> 0]
  BY DEF PlanInit
<1>3. Len(groups) \in Nat /\ Len(handed) = 0 /\ Len(taken) = 0 /\ DOMAIN taken = {} /\ DOMAIN handed = {}
  BY <1>1, <1>2 DEF Blocks
<1>4. PlanExecutionTypes
  <2>1. handed \in Seq(PlanTasks) /\ taken \in Seq(Outcomes)
    BY <1>2
  <2>2. QED
    BY <1>2, <1>3, <2>1 DEF PlanExecutionTypes
<1>5. InTheGroup
  <2> SUFFICES ASSUME 1 <= Len(groups)
               PROVE  First(1) = 1 /\ After(1) \in Nat /\ 0 < After(1)
    BY <1>2, <1>3 DEF InTheGroup
  <2>1. 1 \in DOMAIN groups
    BY <1>1 DEF Blocks
  <2>2. First(1) = 1 /\ groups[1] \in Seq(PlanTasks)
    BY <1>1, <2>1 DEF Blocks
  <2>3. QED
    BY <2>2 DEF After, First
<1>6. GroupsOver
  <2>1. \A g \in DOMAIN groups : ~(g < 1)
    BY <1>1, <1>3 DEF Blocks
  <2>2. QED
    BY <1>2, <1>3, <2>1 DEF GroupsOver
<1>7. VerdictTold
  <2>1. plan = "Batch" => Len(groups) >= 1
    BY <1>1, <1>3, EmptySeq DEF Blocks
  <2>2. QED
    BY <1>2, <2>1 DEF VerdictTold
<1>8. BatchCounted
  <2>1. {i \in DOMAIN taken : taken[i] = "success"} = {}
    BY <1>3
  <2>2. QED
    BY <1>2, <2>1, FS_EmptySet DEF BatchCounted
<1>9. counted \in [{"successful", "failed", "timed_out"} -> Nat]
  BY <1>2
<1>10. QED
  BY <1>1, <1>4, <1>5, <1>6, <1>7, <1>8, <1>9 DEF Accounted

\* The group in hand, and how far it has come.
LEMMA GroupInHand ==
  ASSUME Accounted, Running
  PROVE  /\ group \in DOMAIN groups /\ group \in Nat \ {0} /\ group <= Len(groups) /\ Len(groups) \in Nat
         /\ DOMAIN groups = 1..Len(groups)
         /\ InHand \in Seq(PlanTasks) /\ Len(InHand) \in Nat \ {0} /\ DOMAIN InHand = 1..Len(InHand)
         /\ First(group) \in Nat \ {0} /\ Before(group) = First(group) - 1
         /\ After(group) = First(group) + Len(InHand)
         /\ Len(handed) \in Nat /\ Len(taken) \in Nat
         /\ DOMAIN handed = 1..Len(handed) /\ DOMAIN taken = 1..Len(taken)
         /\ First(group) <= Len(taken) + 1 /\ Len(taken) <= Len(handed) /\ Len(handed) < After(group)
         /\ Len(taken) + 1 > First(group) => Len(handed) + 1 = After(group)
         /\ \A i \in DOMAIN InHand : InHand[i] = First(group) + i - 1
<1>1. /\ group \in Nat \ {0} /\ group <= Len(groups) /\ Len(groups) \in Nat
      /\ group \in DOMAIN groups /\ DOMAIN groups = 1..Len(groups)
  BY DEF Accounted, PlanExecutionTypes, Blocks, Running
<1>2. /\ InHand \in Seq(PlanTasks) /\ InHand # <<>>
      /\ \A i \in DOMAIN InHand : InHand[i] = First(group) + i - 1
  BY <1>1 DEF Accounted, Blocks, InHand
<1>3. Len(InHand) \in Nat \ {0} /\ DOMAIN InHand = 1..Len(InHand)
  BY <1>2, EmptySeq
<1>4. First(group) \in Nat \ {0} /\ After(group) = First(group) + Len(InHand) /\ Before(group) = First(group) - 1
  <2>1. InHand[1] \in PlanTasks
    BY <1>2, <1>3, ElementOfSeq
  <2>2. InHand = groups[group] /\ InHand[1] \in Nat \ {0}
    BY <2>1 DEF InHand, PlanTasks
  <2>3. QED
    BY ONLY <2>2 DEF First, After, Before
<1>5. /\ Len(handed) \in Nat /\ Len(taken) \in Nat
      /\ DOMAIN handed = 1..Len(handed) /\ DOMAIN taken = 1..Len(taken)
  BY DEF Accounted, PlanExecutionTypes
<1>6. QED
  BY <1>1, <1>2, <1>3, <1>4, <1>5 DEF Accounted, InTheGroup

\* A result is of a task that was handed over.
LEMMA TakenWereHanded ==
  ASSUME Accounted, NEW i \in DOMAIN taken, plan # "Batch"
  PROVE  i \in PlanTasks /\ i \in DOMAIN handed /\ handed[i] = i /\ taken[i] \in Outcomes
<1>1. /\ Len(handed) \in Nat /\ Len(taken) \in Nat /\ group \in Nat /\ Len(groups) \in Nat
      /\ DOMAIN handed = 1..Len(handed) /\ DOMAIN taken = 1..Len(taken)
  BY DEF Accounted, PlanExecutionTypes, Blocks
<1>2. Len(taken) <= Len(handed)
  <2>1. CASE group <= Len(groups)
    BY <2>1 DEF Accounted, InTheGroup
  <2>2. CASE ~(group <= Len(groups))
    <3>1. group > Len(groups)
      BY <1>1, <2>2
    <3>2. Len(handed) = Len(taken)
      BY <3>1 DEF Accounted, GroupsOver
    <3>3. QED
      BY <1>1, <3>2
  <2>3. QED
    BY <2>1, <2>2
<1>3. i \in 1..Len(handed)
  BY <1>1, <1>2
<1>4. handed[i] = i /\ handed[i] \in PlanTasks
  BY <1>1, <1>3, ElementOfSeq DEF Accounted, PlanExecutionTypes
<1>5. taken[i] \in Outcomes
  BY ElementOfSeq DEF Accounted, PlanExecutionTypes
<1>6. QED
  BY <1>1, <1>3, <1>4, <1>5

\* A group is of tasks of the plan.
LEMMA GroupsHoldTasks ==
  ASSUME Accounted
  PROVE  \A g \in DOMAIN groups : groups[g] \in Seq(PlanTasks) /\ Range(groups[g]) \subseteq PlanTasks
<1>1. \A g \in DOMAIN groups : groups[g] \in Seq(PlanTasks)
  BY DEF Accounted, Blocks
<1>2. QED
  BY <1>1 DEF Range

\* Where a group begins and ends.
LEMMA FirstsAndAfters ==
  ASSUME Accounted
  PROVE  \A g \in DOMAIN groups :
           /\ First(g) \in Nat \ {0} /\ groups[g] \in Seq(PlanTasks) /\ Len(groups[g]) \in Nat \ {0}
           /\ DOMAIN groups[g] = 1..Len(groups[g])
           /\ After(g) = First(g) + Len(groups[g]) /\ After(g) \in Nat
<1> TAKE g \in DOMAIN groups
<1>1. groups[g] \in Seq(PlanTasks) /\ groups[g] # <<>>
  BY DEF Accounted, Blocks
<1>2. Len(groups[g]) \in Nat \ {0} /\ DOMAIN groups[g] = 1..Len(groups[g])
  BY ONLY <1>1, EmptySeq
<1>3. groups[g][1] \in PlanTasks
  BY ONLY <1>1, <1>2, ElementOfSeq
<1>4. groups[g][1] \in Nat \ {0}
  BY <1>3 DEF PlanTasks
<1>5. QED
  BY ONLY <1>1, <1>2, <1>4 DEF First, After

\* The next task whose result is taken was handed over.
LEMMA AnswerOfNext ==
  ASSUME Accounted, Running, AllHanded, ~AllTaken
  PROVE  answer[Next1] = "none" \/ answer[Next1] \in Outcomes
<1>1. /\ Len(handed) \in Nat /\ Len(taken) \in Nat /\ Len(taken) <= Len(handed)
      /\ DOMAIN handed = 1..Len(handed)
  BY GroupInHand
<1>2. Len(taken) # Len(handed)
  BY DEF AllHanded, AllTaken
<1>3. Len(taken) + 1 \in DOMAIN handed
  BY <1>1, <1>2
<1>4. Next1 \in PlanTasks
  BY <1>3, ElementOfSeq DEF Next1, Accounted, PlanExecutionTypes
<1>5. QED
  BY <1>4 DEF Accounted, PlanExecutionTypes

\* A task is handed over.
LEMMA SubmitAccounts ==
  ASSUME BatchAssumption, Accounted, Submit
  PROVE  Accounted'
<1> DEFINE n == Len(handed)
<1>1. /\ Running /\ verdict = "none" /\ n # Before(group) + Len(InHand)
      /\ handed' = Append(handed, InHand[n - Before(group) + 1])
      /\ UNCHANGED <<plan, groups, failFast, group, answer, taken, counted, verdict>>
  BY DEF Submit, AllHanded, Running
<1>2. /\ group \in DOMAIN groups /\ First(group) \in Nat \ {0} /\ Before(group) = First(group) - 1
      /\ InHand \in Seq(PlanTasks) /\ Len(InHand) \in Nat \ {0} /\ DOMAIN InHand = 1..Len(InHand)
      /\ After(group) = First(group) + Len(InHand) /\ n \in Nat /\ Len(taken) \in Nat
      /\ First(group) <= Len(taken) + 1 /\ Len(taken) <= n /\ n < After(group)
      /\ Len(taken) + 1 > First(group) => n + 1 = After(group)
      /\ \A i \in DOMAIN InHand : InHand[i] = First(group) + i - 1
      /\ group <= Len(groups)
  BY <1>1, GroupInHand
<1>3. n + 1 < After(group) /\ Len(taken) + 1 = First(group)
  <2> DEFINE p == First(group)
             w == Len(InHand)
             k == Len(taken)
             e == After(group)
  <2>1. /\ p \in Nat /\ w \in Nat /\ n \in Nat /\ k \in Nat /\ e = p + w
        /\ n # p - 1 + w /\ p <= k + 1 /\ n < e /\ (k + 1 > p => n + 1 = e)
    BY <1>1, <1>2
  <2> HIDE DEF p, w, k, e, n
  <2>2. n + 1 < e /\ k + 1 = p
    BY ONLY <2>1
  <2>3. QED
    BY <2>2 DEF p, k, e
<1>4. n - Before(group) + 1 \in DOMAIN InHand
  BY <1>2, <1>3
<1>5. InHand[n - Before(group) + 1] = n + 1 /\ n + 1 \in PlanTasks
  <2>1. InHand[n - Before(group) + 1] = First(group) + (n - Before(group) + 1) - 1
    BY <1>2, <1>4
  <2>2. InHand[n - Before(group) + 1] \in PlanTasks
    BY <1>2, <1>4, ElementOfSeq
  <2>3. QED
    BY <1>2, <2>1, <2>2
<1>6. handed \in Seq(PlanTasks) /\ \A i \in DOMAIN handed : handed[i] = i
  BY DEF Accounted, PlanExecutionTypes
<1>7. /\ handed' \in Seq(PlanTasks) /\ Len(handed') = n + 1 /\ DOMAIN handed' = 1..(n + 1)
      /\ \A i \in 1..(n + 1) : handed'[i] = i
  <2>1. handed' = Append(handed, n + 1)
    BY <1>1, <1>5
  <2>2. QED
    BY <1>2, <1>5, <1>6, <2>1, AppendProperties
<1>8. PlanExecutionTypes'
  BY <1>1, <1>7 DEF Accounted, PlanExecutionTypes
<1>9. First(group)' = First(group) /\ After(group)' = After(group)
  BY <1>1 DEF First, After
<1> HIDE DEF n
<1>10. InTheGroup'
  <2>1. /\ First(group) <= Len(taken) + 1 /\ Len(taken) <= n + 1 /\ n + 1 < After(group)
        /\ ~(Len(taken) + 1 > First(group))
    BY ONLY <1>2, <1>3
  <2>2. QED
    BY ONLY <1>1, <1>7, <1>9, <2>1 DEF InTheGroup
<1>11. GroupsOver'
  BY <1>1, <1>2, <1>9 DEF Accounted, GroupsOver, First
<1>12. VerdictTold'
  BY <1>1 DEF Accounted, VerdictTold
<1>13. Blocks' /\ BatchCounted' /\ counted' \in [{"successful", "failed", "timed_out"} -> Nat]
  BY <1>1 DEF Accounted, Blocks, BatchCounted, First, After
<1>14. QED
  BY <1>8, <1>10, <1>11, <1>12, <1>13 DEF Accounted

\* The pool answers a task.
LEMMA AnswerAccounts ==
  ASSUME Accounted, NEW task \in PlanTasks, PoolAnswers(task)
  PROVE  Accounted'
<1>1. PICK o \in {"success", "failure", "timed out", "closed"} : answer' = [answer EXCEPT ![task] = o]
  BY DEF PoolAnswers
<1>2. /\ answer[task] = "none" /\ o \in Outcomes
      /\ plan' = plan /\ groups' = groups /\ failFast' = failFast /\ group' = group
      /\ handed' = handed /\ taken' = taken /\ counted' = counted /\ verdict' = verdict
  BY DEF PoolAnswers, Outcomes, planVars
<1>3. answer \in [PlanTasks -> Outcomes \cup {"none"}]
  BY DEF Accounted, PlanExecutionTypes
<1>4. /\ answer' \in [PlanTasks -> Outcomes \cup {"none"}]
      /\ \A u \in PlanTasks : answer[u] # "none" => answer'[u] = answer[u]
  BY ONLY <1>1, <1>2, <1>3
<1>5. PlanExecutionTypes'
  BY <1>2, <1>4 DEF Accounted, PlanExecutionTypes
<1>6. GroupsOver'
  <2> SUFFICES ASSUME plan # "Batch" PROVE GroupsOver'
    BY <1>2 DEF GroupsOver
  <2>1. /\ \A i \in DOMAIN taken : answer[i] = taken[i]
        /\ \A g \in DOMAIN groups : g < group => \A u \in Range(groups[g]) : answer[u] = "success"
    BY DEF Accounted, GroupsOver
  <2>2. \A i \in DOMAIN taken : i \in PlanTasks /\ answer[i] # "none"
    <3> TAKE i \in DOMAIN taken
    <3>1. taken[i] \in Outcomes
      BY TakenWereHanded
    <3>2. answer[i] # "none"
      BY <2>1, <3>1 DEF Outcomes
    <3>3. i \in PlanTasks
      BY TakenWereHanded
    <3>4. QED
      BY <3>2, <3>3
  <2>3. \A g \in DOMAIN groups : \A u \in Range(groups[g]) : u \in PlanTasks
    <3>1. \A g \in DOMAIN groups : Range(groups[g]) \subseteq PlanTasks
      BY GroupsHoldTasks
    <3>2. QED
      BY <3>1
  <2>4. \A i \in DOMAIN taken : answer'[i] = taken[i]
    BY <1>4, <2>1, <2>2
  <2>5. \A g \in DOMAIN groups : g < group => \A u \in Range(groups[g]) : answer'[u] = "success"
    BY <1>4, <2>1, <2>3
  <2>6. QED
    BY <1>2, <2>4, <2>5 DEF Accounted, GroupsOver, First
<1>7. Blocks' /\ BatchCounted' /\ counted' \in [{"successful", "failed", "timed_out"} -> Nat]
  BY <1>2 DEF Accounted, Blocks, BatchCounted, First, After
<1>8. InTheGroup'
  BY <1>2 DEF Accounted, InTheGroup, First, After
<1>9. VerdictTold'
  BY <1>2 DEF Accounted, VerdictTold, First, After, OutOfReach
<1>10. QED
  BY <1>5, <1>6, <1>7, <1>8, <1>9 DEF Accounted

\* A result is taken: by a batch for what it finds, by another plan for what it
\* is.
LEMMA TakeAccounts ==
  ASSUME Accounted, Running, AllHanded, ~AllTaken, NEW o \in Outcomes,
         plan # "Batch" => o = answer[Next1] /\ counted' = counted,
         plan = "Batch" => counted' = Counting(o),
         taken' = Append(taken, o),
         UNCHANGED <<plan, groups, failFast, group, handed, answer, verdict>>
  PROVE  Accounted'
<1> DEFINE k == Len(taken)
           n == Len(handed)
           p == First(group)
           e == After(group)
<1>1. /\ p \in Nat /\ k \in Nat /\ n \in Nat /\ e \in Nat /\ group <= Len(groups)
      /\ n = e - 1 /\ k # e - 1 /\ p <= k + 1 /\ k <= n
      /\ DOMAIN handed = 1..n /\ DOMAIN taken = 1..k
  <2>1. /\ Len(handed) = Before(group) + Len(InHand)
        /\ Len(taken) # Before(group) + Len(InHand)
    BY DEF AllHanded, AllTaken
  <2>2. /\ group \in Nat \ {0} /\ group <= Len(groups)
        /\ Len(InHand) \in Nat \ {0}
        /\ First(group) \in Nat \ {0} /\ Before(group) = First(group) - 1
        /\ After(group) = First(group) + Len(InHand)
        /\ Len(handed) \in Nat /\ Len(taken) \in Nat
        /\ DOMAIN handed = 1..Len(handed) /\ DOMAIN taken = 1..Len(taken)
        /\ First(group) <= Len(taken) + 1 /\ Len(taken) <= Len(handed) /\ Len(handed) < After(group)
    BY GroupInHand
  <2>3. QED
    BY ONLY <2>1, <2>2 DEF p, k, n, e
<1>2. /\ taken' \in Seq(Outcomes) /\ Len(taken') = k + 1 /\ DOMAIN taken' = 1..(k + 1)
      /\ taken'[k + 1] = o /\ \A i \in 1..k : taken'[i] = taken[i]
  BY <1>1, AppendProperties DEF Accounted, PlanExecutionTypes
<1>3. First(group)' = p /\ After(group)' = e /\ verdict = "none"
  BY DEF First, After, Running
<1> HIDE DEF k, n, p, e
<1>4. k + 1 <= n /\ k + 1 \in 1..n
  BY <1>1
<1>5. PlanExecutionTypes'
  BY <1>2 DEF Accounted, PlanExecutionTypes
<1>6. InTheGroup'
  <2>1. p <= k + 1 + 1 /\ k + 1 <= n /\ n < e /\ n + 1 = e
    BY <1>1, <1>4
  <2>2. QED
    BY ONLY <1>2, <1>3, <2>1, handed' = handed, group' = group, groups' = groups DEF InTheGroup, n
<1>7. GroupsOver'
  <2> SUFFICES ASSUME plan # "Batch" PROVE GroupsOver'
    BY DEF GroupsOver
  <2>1. o = answer[k + 1]
    BY <1>1, <1>4 DEF Accounted, PlanExecutionTypes, Next1, k
  <2>2. \A i \in DOMAIN taken' : answer[i] = taken'[i]
    BY <1>1, <1>2, <2>1 DEF Accounted, GroupsOver
  <2>3. \A i \in DOMAIN taken' : group > Len(groups) \/ i < p => taken'[i] = "success"
    <3> SUFFICES ASSUME NEW i \in 1..(k + 1), group > Len(groups) \/ i < p PROVE taken'[i] = "success"
      BY <1>2
    <3>1. Len(groups) \in Nat /\ group \in Nat
      BY DEF Accounted, Blocks, PlanExecutionTypes
    <3>2. i < p /\ i \in 1..k
      BY ONLY <1>1, <3>1, i \in 1..(k + 1), group > Len(groups) \/ i < p
    <3>3. taken[i] = "success"
      BY <1>1, <3>2 DEF Accounted, GroupsOver, p
    <3>4. QED
      BY <1>2, <3>2, <3>3
  <2>4. ~(group > Len(groups) \/ verdict # "none")
    BY <1>1, <1>3 DEF Accounted, PlanExecutionTypes, Blocks
  <2>5. QED
    BY <1>3, <2>2, <2>3, <2>4 DEF Accounted, GroupsOver
<1>8. VerdictTold'
  BY <1>3 DEF Accounted, VerdictTold
<1>9. counted' \in [{"successful", "failed", "timed_out"} -> Nat]
  <2>1. CASE plan # "Batch"
    BY <2>1 DEF Accounted
  <2>2. CASE plan = "Batch"
    <3>1. counted.successful \in Nat /\ counted.failed \in Nat /\ counted.timed_out \in Nat
      BY DEF Accounted
    <3>2. QED
      BY <2>2, <3>1 DEF Counting
  <2>3. QED
    BY <2>1, <2>2
<1>10. BatchCounted'
  <2> SUFFICES ASSUME plan = "Batch"
               PROVE  counted'.successful = Cardinality({i \in DOMAIN taken' : taken'[i] = "success"})
    BY DEF BatchCounted
  <2> DEFINE S == {i \in DOMAIN taken : taken[i] = "success"}
  <2>1. IsFiniteSet(S) /\ k + 1 \notin S /\ counted.successful = Cardinality(S)
    <3>1. IsFiniteSet(1..k)
      BY <1>1, FS_Interval
    <3>2. QED
      BY <1>1, <3>1, FS_Subset DEF Accounted, BatchCounted
  <2>2. counted'.successful = counted.successful + (IF o = "success" THEN 1 ELSE 0)
    BY DEF Counting
  <2>3. CASE o = "success"
    <3>1. {i \in DOMAIN taken' : taken'[i] = "success"} = S \cup {k + 1}
      BY <1>1, <1>2, <2>3
    <3>2. Cardinality(S \cup {k + 1}) = Cardinality(S) + 1
      BY <2>1, FS_AddElement
    <3>3. QED
      BY <2>1, <2>2, <2>3, <3>1, <3>2
  <2>4. CASE o # "success"
    <3>1. {i \in DOMAIN taken' : taken'[i] = "success"} = S
      BY <1>1, <1>2, <2>4
    <3>2. counted.successful \in Nat
      BY DEF Accounted
    <3>3. counted'.successful = counted.successful
      BY <2>2, <2>4, <3>2
    <3>4. QED
      BY <2>1, <3>1, <3>3
  <2>5. QED
    BY <2>3, <2>4
<1>11. Blocks'
  BY DEF Accounted, Blocks, First, After
<1>12. QED
  BY <1>5, <1>6, <1>7, <1>8, <1>9, <1>10, <1>11 DEF Accounted

\* The results of the group in hand are all taken.
LEMMA GroupTaken ==
  ASSUME Accounted, Running, AllTaken
  PROVE  /\ Len(taken) \in Nat /\ Len(handed) = Len(taken) /\ Len(taken) + 1 = After(group)
         /\ \A t \in Range(InHand) : t \in DOMAIN taken
<1> DEFINE k == Len(taken)
           n == Len(handed)
           p == First(group)
           w == Len(InHand)
           e == After(group)
<1>1. /\ p \in Nat \ {0} /\ k \in Nat /\ n \in Nat /\ w \in Nat /\ e = p + w
      /\ k <= n /\ n < e /\ DOMAIN taken = 1..k /\ DOMAIN InHand = 1..w
      /\ \A i \in DOMAIN InHand : InHand[i] = p + i - 1
  BY GroupInHand
<1>2. k = p - 1 + w
  BY GroupInHand DEF AllTaken
<1> HIDE DEF k, n, p, w, e
<1>3. n = k /\ k + 1 = e
  BY <1>1, <1>2
<1>4. \A t \in Range(InHand) : t \in DOMAIN taken
  BY <1>1, <1>2 DEF Range
<1>5. QED
  BY <1>1, <1>3, <1>4 DEF k, n, e

\* The group after it begins where it ended.
LEMMA NextGroupBegins ==
  ASSUME Accounted, Running, AllTaken, group' = group + 1, verdict' = "none",
         UNCHANGED <<groups, handed, answer, taken>>
  PROVE  InTheGroup' /\ PlanExecutionTypes'
<1>1. /\ Len(taken) \in Nat /\ Len(handed) = Len(taken) /\ Len(taken) + 1 = After(group)
  BY GroupTaken
<1>2. /\ group \in Nat \ {0} /\ group \in DOMAIN groups /\ group <= Len(groups) /\ Len(groups) \in Nat
      /\ DOMAIN groups = 1..Len(groups)
  BY GroupInHand
<1>3. PlanExecutionTypes'
  BY <1>2 DEF Accounted, PlanExecutionTypes
<1>4. ASSUME group + 1 <= Len(groups)
      PROVE  First(group + 1) = Len(taken) + 1 /\ First(group + 1) < After(group + 1)
  <2>1. group + 1 \in DOMAIN groups
    BY <1>2, <1>4
  <2>2. First(group + 1) = After(group)
    BY <1>2, <2>1 DEF Accounted, Blocks
  <2>3. groups[group + 1] \in Seq(PlanTasks) /\ groups[group + 1] # <<>>
    BY <2>1 DEF Accounted, Blocks
  <2>4. Len(groups[group + 1]) \in Nat \ {0}
    BY ONLY <2>3, EmptySeq
  <2>5. groups[group + 1][1] = Len(taken) + 1
    BY <1>1, <2>2 DEF First
  <2>6. QED
    <3> DEFINE w == Len(groups[group + 1])
               k == Len(taken)
    <3>1. w \in Nat \ {0} /\ k \in Nat
      BY <1>1, <2>4
    <3>2. First(group + 1) = k + 1 /\ After(group + 1) = k + 1 + w
      BY <2>5 DEF First, After
    <3> HIDE DEF w, k
    <3>3. First(group + 1) = k + 1 /\ First(group + 1) < After(group + 1)
      BY ONLY <3>1, <3>2
    <3>4. QED
      BY <3>3 DEF k
<1>5. InTheGroup'
  <2>1. First(group)' = First(group + 1) /\ After(group)' = After(group + 1)
    BY DEF First, After
  <2>2. SUFFICES ASSUME group + 1 <= Len(groups)
        PROVE  /\ First(group)' <= Len(taken) + 1 /\ Len(taken) <= Len(handed) /\ Len(handed) < After(group)'
               /\ ~(Len(taken) + 1 > First(group)')
    BY <1>1 DEF InTheGroup
  <2>3. Len(taken) + 1 < After(group + 1) /\ First(group + 1) = Len(taken) + 1
    BY <1>4, <2>2
  <2>4. After(group + 1) \in Int
    <3>1. groups[group + 1] \in Seq(PlanTasks)
      BY <1>2, <2>2 DEF Accounted, Blocks
    <3>2. Len(groups[group + 1]) \in Nat /\ groups[group + 1][1] = Len(taken) + 1
      BY <2>3, <3>1 DEF First
    <3>3. QED
      BY ONLY <1>1, <3>2 DEF After
  <2>5. QED
    BY ONLY <1>1, <2>1, <2>3, <2>4
<1>6. QED
  BY <1>3, <1>5

\* A group of a plan that is not a batch ends.
LEMMA EndGroupAccounts ==
  ASSUME Accounted, EndGroup
  PROVE  Accounted'
<1>1. /\ Running /\ verdict = "none" /\ plan # "Batch" /\ AllTaken
      /\ UNCHANGED <<plan, groups, failFast, handed, answer, taken, counted>>
  BY DEF EndGroup, Running
<1>2. /\ Len(taken) \in Nat /\ Len(handed) = Len(taken) /\ Len(taken) + 1 = After(group)
      /\ \A t \in Range(InHand) : t \in DOMAIN taken
  BY <1>1, GroupTaken
<1>3. group \in Nat \ {0} /\ group <= Len(groups) /\ Len(groups) \in Nat /\ DOMAIN groups = 1..Len(groups)
  BY <1>1, GroupInHand
<1>4. Blocks' /\ BatchCounted' /\ counted' \in [{"successful", "failed", "timed_out"} -> Nat]
  BY <1>1 DEF Accounted, Blocks, BatchCounted, First, After
<1>5. CASE GroupFails
  <2>1. verdict' = "failure" /\ group' = group
    BY <1>5 DEF EndGroup
  <2>2. PlanExecutionTypes'
    BY <1>1, <2>1 DEF Accounted, PlanExecutionTypes
  <2>3. InTheGroup'
    BY <1>1, <2>1 DEF Accounted, InTheGroup, First, After
  <2>4. GroupsOver'
    BY <1>1, <1>2, <2>1 DEF Accounted, GroupsOver, First
  <2>5. VerdictTold'
    <3>1. \E i \in DOMAIN taken : taken[i] # "success"
      BY <1>5 DEF GroupFails
    <3>2. After(group)' = After(group)
      BY <1>1, <2>1 DEF After
    <3>3. QED
      BY <1>1, <1>2, <1>3, <2>1, <3>1, <3>2 DEF VerdictTold
  <2>6. QED
    BY <1>4, <2>2, <2>3, <2>4, <2>5 DEF Accounted
<1>6. CASE ~GroupFails
  <2>1. verdict' = "none" /\ group' = group + 1
    BY <1>1, <1>6 DEF EndGroup
  <2>2. \A i \in DOMAIN taken : taken[i] = "success"
    BY <1>6 DEF GroupFails
  <2>3. PlanExecutionTypes' /\ InTheGroup'
    BY <1>1, <2>1, NextGroupBegins
  <2>4. \A g \in DOMAIN groups : g < group + 1 => \A t \in Range(groups[g]) : answer[t] = "success"
    <3> SUFFICES ASSUME NEW g \in DOMAIN groups, g < group + 1, NEW t \in Range(groups[g])
                 PROVE  answer[t] = "success"
      OBVIOUS
    <3>1. g < group \/ g = group
      BY <1>3
    <3>2. CASE g < group
      BY <1>1, <3>2 DEF Accounted, GroupsOver
    <3>3. CASE g = group
      <4>1. t \in DOMAIN taken
        BY <1>2, <3>3 DEF InHand
      <4>2. QED
        BY <1>1, <2>2, <4>1 DEF Accounted, GroupsOver
    <3>4. QED
      BY <3>1, <3>2, <3>3
  <2>5. GroupsOver'
    <3>1. \A i \in DOMAIN taken : answer[i] = taken[i]
      BY <1>1 DEF Accounted, GroupsOver
    <3>2. QED
      BY ONLY <1>1, <1>2, <2>1, <2>2, <2>4, <3>1 DEF GroupsOver
  <2>6. VerdictTold'
    BY <1>1, <2>1 DEF Accounted, VerdictTold
  <2>7. QED
    BY <1>4, <2>3, <2>5, <2>6 DEF Accounted
<1>7. QED
  BY <1>5, <1>6

\* The plan ends after its last group.
LEMMA EndPlanAccounts ==
  ASSUME Accounted, EndPlan
  PROVE  Accounted'
<1>1. /\ verdict' = "success" /\ group > Len(groups)
      /\ UNCHANGED <<plan, groups, failFast, group, handed, answer, taken, counted>>
  BY DEF EndPlan
<1>2. plan # "Batch"
  <2>1. group \in Nat /\ Len(groups) \in Nat
    BY DEF Accounted, PlanExecutionTypes, Blocks
  <2>2. QED
    BY <1>1, <2>1 DEF Accounted, VerdictTold
<1>3. Blocks' /\ PlanExecutionTypes' /\ InTheGroup'
  BY <1>1 DEF Accounted, Blocks, PlanExecutionTypes, InTheGroup, First, After
<1>4. BatchCounted' /\ counted' \in [{"successful", "failed", "timed_out"} -> Nat]
  BY <1>1 DEF Accounted, BatchCounted
<1>5. GroupsOver'
  BY <1>1, <1>2 DEF Accounted, GroupsOver, First
<1>6. VerdictTold'
  BY <1>1, <1>2 DEF VerdictTold
<1>7. QED
  BY <1>3, <1>4, <1>5, <1>6 DEF Accounted

\* A chunk of a batch ends.
LEMMA EndChunkAccounts ==
  ASSUME BatchAssumption, Accounted, EndChunk
  PROVE  Accounted'
<1>1. /\ Running /\ verdict = "none" /\ plan = "Batch" /\ (AllTaken \/ Aborts(counted))
      /\ UNCHANGED <<plan, groups, failFast, handed, answer, taken, counted>>
  BY DEF EndChunk, Running
<1>2. /\ group \in Nat \ {0} /\ group <= Len(groups) /\ Len(groups) \in Nat
      /\ group \in DOMAIN groups /\ Len(taken) \in Nat
  BY <1>1, GroupInHand
<1>3. Blocks' /\ BatchCounted' /\ GroupsOver' /\ counted' \in [{"successful", "failed", "timed_out"} -> Nat]
  BY <1>1 DEF Accounted, Blocks, BatchCounted, GroupsOver, First, After
<1>4. CASE OutOfReach \/ Aborts(counted) \/ group = Len(groups)
  <2>1. verdict' = "batch" /\ group' = group
    BY <1>4 DEF EndChunk
  <2>2. PlanExecutionTypes' /\ InTheGroup'
    BY <1>1, <2>1 DEF Accounted, PlanExecutionTypes, InTheGroup, First, After
  <2>3. failFast \/ OutOfReach \/ Len(taken) = PlanSize
    <3>1. SUFFICES ASSUME ~Aborts(counted), group = Len(groups) PROVE Len(taken) = PlanSize
      BY <1>4 DEF Aborts
    <3>2. Len(taken) + 1 = After(group)
      BY <1>1, <3>1, GroupTaken
    <3>3. After(group) = PlanSize + 1
      BY <1>1, <1>2, <3>1 DEF Accounted, Blocks
    <3>4. QED
      BY <1>2, <3>2, <3>3, BatchAssumption
  <2>4. VerdictTold'
    BY <1>1, <1>2, <2>1, <2>3 DEF VerdictTold, OutOfReach
  <2>5. QED
    BY <1>3, <2>2, <2>4 DEF Accounted
<1>5. CASE ~(OutOfReach \/ Aborts(counted) \/ group = Len(groups))
  <2>1. verdict' = "none" /\ group' = group + 1 /\ AllTaken
    BY <1>1, <1>5 DEF EndChunk
  <2>2. PlanExecutionTypes' /\ InTheGroup'
    BY <1>1, <2>1, NextGroupBegins
  <2>3. group + 1 <= Len(groups)
    BY <1>2, <1>5
  <2>4. VerdictTold'
    BY <1>1, <2>1, <2>3 DEF VerdictTold
  <2>5. QED
    BY <1>3, <2>2, <2>4 DEF Accounted
<1>6. QED
  BY <1>4, <1>5

\* Every step accounts for the tasks.
LEMMA PlanStep ==
  ASSUME BatchAssumption, Accounted, [PlanNext]_planVars
  PROVE  Accounted'
<1>1. CASE Submit
  BY <1>1, SubmitAccounts
<1>2. CASE Take
  <2>1. /\ Running /\ AllHanded /\ ~AllTaken /\ plan # "Batch" /\ answer[Next1] # "none"
        /\ taken' = Append(taken, answer[Next1])
        /\ UNCHANGED <<plan, groups, failFast, group, handed, answer, counted, verdict>>
    BY <1>2 DEF Take
  <2>2. answer[Next1] \in Outcomes
    BY <2>1, AnswerOfNext
  <2>3. QED
    BY <2>1, <2>2, TakeAccounts
<1>3. CASE EndGroup
  BY <1>3, EndGroupAccounts
<1>4. CASE EndPlan
  BY <1>4, EndPlanAccounts
<1>5. CASE TakeOfBatch
  <2>1. /\ Running /\ AllHanded /\ ~AllTaken /\ plan = "Batch"
        /\ UNCHANGED <<plan, groups, failFast, group, handed, answer, verdict>>
    BY <1>5 DEF TakeOfBatch
  <2>2. PICK o \in {"late", answer[Next1]} \ {"none"} : taken' = Append(taken, o) /\ counted' = Counting(o)
    BY <1>5 DEF TakeOfBatch
  <2>3. o \in Outcomes
    <3>1. o = "late" => o \in Outcomes
      BY DEF Outcomes
    <3>2. answer[Next1] = "none" \/ answer[Next1] \in Outcomes
      BY <2>1, AnswerOfNext
    <3>3. QED
      BY <2>2, <3>1, <3>2
  <2>4. QED
    BY <2>1, <2>2, <2>3, TakeAccounts
<1>6. CASE EndChunk
  BY <1>6, EndChunkAccounts
<1>7. CASE \E t \in PlanTasks : PoolAnswers(t)
  BY <1>7, AnswerAccounts
<1>8. CASE UNCHANGED planVars
  <2>1. /\ plan' = plan /\ groups' = groups /\ failFast' = failFast /\ group' = group /\ handed' = handed
        /\ answer' = answer /\ taken' = taken /\ counted' = counted /\ verdict' = verdict
    BY <1>8 DEF planVars
  <2>2. Blocks' /\ PlanExecutionTypes' /\ InTheGroup'
    BY <2>1 DEF Accounted, Blocks, PlanExecutionTypes, InTheGroup, First, After
  <2>3. GroupsOver' /\ VerdictTold' /\ BatchCounted' /\ counted' \in [{"successful", "failed", "timed_out"} -> Nat]
    BY <2>1 DEF Accounted, GroupsOver, VerdictTold, BatchCounted, OutOfReach, First, After
  <2>4. QED
    BY <2>2, <2>3 DEF Accounted
<1>9. QED
  BY <1>1, <1>2, <1>3, <1>4, <1>5, <1>6, <1>7, <1>8 DEF PlanNext

\* A plan that is not a batch: what is true of its groups is true of its tasks.
LEMMA AccountedTasks ==
  ASSUME Accounted
  PROVE  TasksAreAccountedFor
<1> SUFFICES ASSUME plan # "Batch"
             PROVE  /\ verdict # "none" => \A t \in Range(handed) : answer[t] # "none"
                    /\ \A g \in DOMAIN groups, h \in DOMAIN groups :
                         (g < h /\ Range(groups[h]) \cap Range(handed) # {})
                           => \A t \in Range(groups[g]) : answer[t] = "success"
                    /\ verdict # "none" =>
                         (verdict = "success"
                            <=> \A g \in DOMAIN groups : \A t \in Range(groups[g]) : answer[t] = "success")
  BY DEF TasksAreAccountedFor
<1>1. /\ group \in Nat \ {0} /\ Len(groups) \in Nat /\ DOMAIN groups = 1..Len(groups)
      /\ Len(handed) \in Nat /\ Len(taken) \in Nat
      /\ DOMAIN handed = 1..Len(handed) /\ DOMAIN taken = 1..Len(taken)
      /\ \A i \in DOMAIN handed : handed[i] = i
  BY DEF Accounted, PlanExecutionTypes, Blocks
<1>2. \A t \in Range(handed) : t \in 1..Len(handed)
  BY <1>1 DEF Range
<1>3. verdict # "none" => \A t \in Range(handed) : answer[t] # "none"
  <2> SUFFICES ASSUME verdict # "none", NEW t \in Range(handed) PROVE answer[t] # "none"
    OBVIOUS
  <2>1. t \in DOMAIN taken
    BY <1>1, <1>2 DEF Accounted, GroupsOver
  <2>2. answer[t] = taken[t] /\ taken[t] \in Outcomes
    BY <2>1, TakenWereHanded DEF Accounted, GroupsOver
  <2>3. QED
    BY <2>2 DEF Outcomes
<1>4. \A g \in DOMAIN groups, h \in DOMAIN groups :
        (g < h /\ Range(groups[h]) \cap Range(handed) # {}) => \A t \in Range(groups[g]) : answer[t] = "success"
  <2> SUFFICES ASSUME NEW g \in DOMAIN groups, NEW h \in DOMAIN groups, g < h,
                      NEW u \in Range(groups[h]), u \in Range(handed)
               PROVE  \A t \in Range(groups[g]) : answer[t] = "success"
    OBVIOUS
  <2>1. h <= group
    <3> SUFFICES ASSUME group < h PROVE FALSE
      BY <1>1
    <3>1. group \in DOMAIN groups /\ group <= Len(groups)
      BY <1>1
    <3>2. Len(handed) < After(group) /\ After(group) <= First(h)
      BY <3>1 DEF Accounted, InTheGroup, Blocks
    <3>3. u \in 1..Len(handed) /\ First(h) <= u
      <4>1. PICK i \in DOMAIN groups[h] : u = groups[h][i]
        BY DEF Range
      <4>2. u = First(h) + i - 1
        BY <4>1 DEF Accounted, Blocks
      <4>3. groups[h] \in Seq(PlanTasks)
        BY GroupsHoldTasks
      <4>4. i \in 1..Len(groups[h]) /\ Len(groups[h]) \in Nat
        BY <4>1, <4>3
      <4>5. First(h) \in Int
        <5>1. 1 \in DOMAIN groups[h]
          BY <4>4, <4>3
        <5>2. groups[h][1] \in PlanTasks
          BY <4>3, <5>1, ElementOfSeq
        <5>3. QED
          BY <5>2 DEF First, PlanTasks
      <4>6. First(h) <= u
        BY ONLY <4>2, <4>4, <4>5
      <4>7. QED
        BY <1>2, <4>6
    <3>4. After(group) \in Int /\ First(h) \in Int
      BY <3>1, FirstsAndAfters
    <3>5. QED
      BY ONLY <1>1, <3>2, <3>3, <3>4
  <2>2. g < group
    BY <1>1, <2>1
  <2>3. QED
    BY <2>2 DEF Accounted, GroupsOver
<1>5. verdict = "success" => \A g \in DOMAIN groups : \A t \in Range(groups[g]) : answer[t] = "success"
  <2>1. verdict = "success" => \A g \in DOMAIN groups : g < group
    BY <1>1 DEF Accounted, VerdictTold
  <2>2. QED
    BY <2>1 DEF Accounted, GroupsOver
<1>6. ASSUME verdict # "none", verdict # "success"
      PROVE  \E g \in DOMAIN groups : \E t \in Range(groups[g]) : answer[t] # "success"
  <2>1. verdict = "failure"
    BY <1>6 DEF Accounted, PlanExecutionTypes, VerdictTold
  <2>2. /\ group <= Len(groups) /\ Len(taken) + 1 = After(group)
    BY <2>1 DEF Accounted, VerdictTold
  <2>3. PICK i \in DOMAIN taken : taken[i] # "success"
    BY <2>1 DEF Accounted, VerdictTold
  <2>4. group \in DOMAIN groups
    BY <1>1, <2>2
  <2>5. ~(i < First(group)) /\ answer[i] # "success"
    BY <2>3 DEF Accounted, GroupsOver
  <2>6. /\ First(group) \in Nat \ {0} /\ groups[group] \in Seq(PlanTasks) /\ Len(groups[group]) \in Nat
        /\ DOMAIN groups[group] = 1..Len(groups[group])
        /\ After(group) = First(group) + Len(groups[group])
        /\ \A j \in DOMAIN groups[group] : groups[group][j] = First(group) + j - 1
    BY <2>4, FirstsAndAfters DEF Accounted, Blocks
  <2>7. i - First(group) + 1 \in 1..Len(groups[group]) /\ First(group) + (i - First(group) + 1) - 1 = i
    BY ONLY <1>1, <2>2, <2>3, <2>5, <2>6
  <2>8. groups[group][i - First(group) + 1] = i
    BY <2>6, <2>7
  <2>9. i \in Range(groups[group])
    BY <2>6, <2>7, <2>8 DEF Range
  <2>10. QED
    BY <2>4, <2>5, <2>9
<1>7. QED
  BY <1>3, <1>4, <1>5, <1>6

\* A batch: the tasks that did not succeed are those taken less those counted.
LEMMA AccountedBatch ==
  ASSUME BatchAssumption, Accounted
  PROVE  GivesUpRightly
<1> DEFINE S == {i \in DOMAIN taken : taken[i] = "success"}
           F == {i \in DOMAIN taken : taken[i] # "success"}
           k == Len(taken)
<1> SUFFICES ASSUME plan = "Batch", verdict = "batch", ~failFast, k < PlanSize
             PROVE  Cardinality(F) > PlanSize - SuccessesWanted
  BY DEF GivesUpRightly
<1>1. k \in Nat /\ DOMAIN taken = 1..k
  BY DEF Accounted, PlanExecutionTypes
<1>2. OutOfReach
  <2>1. k # PlanSize
    <3>1. PlanSize \in Nat /\ k \in Nat /\ k < PlanSize
      BY <1>1 DEF BatchAssumption
    <3> HIDE DEF k
    <3>2. QED
      BY ONLY <3>1
  <2>2. failFast \/ OutOfReach \/ k = PlanSize
    BY DEF Accounted, VerdictTold
  <2>3. QED
    BY <2>1, <2>2
<1>3. /\ IsFiniteSet(1..k) /\ Cardinality(1..k) = k
  <2> HIDE DEF k
  <2>1. 1 \in Int /\ k \in Int /\ k - 1 + 1 = k /\ (1 > k <=> k = 0)
    BY <1>1
  <2>2. IsFiniteSet(1..k) /\ Cardinality(1..k) = IF 1 > k THEN 0 ELSE k - 1 + 1
    BY <2>1, FS_Interval
  <2>3. QED
    BY <2>1, <2>2
<1>4. S \subseteq 1..k /\ F = (1..k) \ S
  BY <1>1
<1>5. counted.successful = Cardinality(S) /\ counted.successful \in Nat
  BY DEF Accounted, BatchCounted
<1>6. counted.successful + (PlanSize - k) < SuccessesWanted
  BY <1>2 DEF OutOfReach
<1> HIDE DEF S, F, k
<1>7. IsFiniteSet(S)
  BY <1>3, <1>4, FS_Subset
<1>8. Cardinality(F) = k - Cardinality(S)
  <2>1. Cardinality((1..k) \ S) = Cardinality(1..k) - Cardinality((1..k) \cap S)
    BY <1>3, <1>7, FS_Difference
  <2>2. (1..k) \cap S = S
    BY <1>4
  <2>3. QED
    BY <1>3, <1>4, <2>1, <2>2
<1>9. QED
  BY <1>1, <1>5, <1>6, <1>8 DEF BatchAssumption

\* Neither a plan nor a batch reports what did not happen to its tasks
\* (execute_plan, ParallelPool.execute, execute_orchestration_plan,
\* execute_batch), for every number of tasks, chunk size and successes wanted.
THEOREM PlansAreAccountedFor == PlanSpec => []PlanIsAccountedFor
<1>1. PlanInit => Accounted
  BY PlanBegins, BatchAssumption
<1>2. Accounted /\ [PlanNext]_planVars => Accounted'
  BY PlanStep, BatchAssumption
<1>3. Accounted => PlanIsAccountedFor
  BY AccountedTasks, AccountedBatch, BatchAssumption DEF PlanIsAccountedFor
<1>4. QED
  BY <1>1, <1>2, <1>3, PTL DEF PlanSpec
=============================================================================
