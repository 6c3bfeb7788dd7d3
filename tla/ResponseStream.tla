---------------------------- MODULE ResponseStream ----------------------------
(***************************************************************************)
(* A streamed reply on its way into the agentic loop: the adapter of the      *)
(* provider turns what comes over the wire into stream events                *)
(* (provider/anthropic.rs and provider/opencode.rs pass them on,              *)
(* provider/openai_compat.rs makes them up from chat-completion chunks), and  *)
(* streaming/executor.rs accumulates them into a ParsedResponse.              *)
(*                                                                         *)
(* One thread pulls the events, so a chunk is one step.  A tool call is a     *)
(* number, its input the sequence of the fragments it is sent in.            *)
(***************************************************************************)
EXTENDS Integers, Sequences, FiniteSets, SequencesExt

CONSTANTS Sources,      \* the adapters of this instance
          Calls,        \* the tool calls a message may hold, by adapter
          Fragments,    \* fragments of every call's input
          MaxTexts,     \* bound: pieces of text in a message
          LateText      \* text may follow a tool call

ASSUME StreamAssumption ==
  /\ Sources \subseteq {"events", "chunks"}
  /\ Fragments \in Nat \ {0}

VARIABLES
    src,       \* which adapter
    wire,      \* fragments sent of every call that has begun, in that order
    closed,    \* calls whose block was ended (adapter "events")
    texts,     \* pieces of text sent
    adapter,   \* text_block_open, tool_block_indices, next_block_idx
    acc,       \* text_buf and the StreamAccumulator
    result     \* the ParsedResponse, "none" before; "error" or "failed" instead

streamVars == <<src, wire, closed, texts, adapter, acc, result>>

\* StreamEvent, the kinds that change anything
TextDelta          == [type |-> "text"]
ToolStart(i, c)    == [type |-> "start", index |-> i, call |-> c]
InputDelta(i, f)   == [type |-> "input", index |-> i, fragment |-> f]
BlockStop(blocks)  == [type |-> "stop", blocks |-> blocks]

Begun    == {wire[k].call : k \in DOMAIN wire}
Place(c) == CHOOSE k \in DOMAIN wire : wire[k].call = c
FragmentsOf(c) == wire[Place(c)].fragments
IndexOf(c)     == wire[Place(c)].index
WholeInput(c) == [i \in 1 .. Fragments |-> <<c, i>>]

-----------------------------------------------------------------------------
(* The accumulator.                                                        *)

\* on_tool_start: a second start at an index replaces what was there
OnToolStart(a, e) ==
    [a EXCEPT !.tools = [i \in DOMAIN @ \cup {e.index} |->
        IF i = e.index THEN [call |-> e.call, buf |-> <<>>, complete |-> FALSE] ELSE @[i]]]

\* Mutant: a fragment goes to the block started last.
DeltaToLast(a, e) ==
    IF DOMAIN a.tools = {} THEN a
    ELSE LET last == CHOOSE i \in DOMAIN a.tools : \A j \in DOMAIN a.tools : j <= i
         IN  [a EXCEPT !.tools[last].buf = Append(@, e.fragment)]

\* on_input_delta: an index that holds no tool is ignored
OnInputDelta(a, e) ==
    IF e.index \in DOMAIN a.tools
    THEN [a EXCEPT !.tools[e.index].buf = Append(@, e.fragment)] ELSE a

\* on_tool_stop, of one block or of several in a row
OnToolStop(a, e) ==
    [a EXCEPT !.tools = [i \in DOMAIN a.tools |->
        [a.tools[i] EXCEPT !.complete = @ \/ i \in e.blocks]]]

\* consume_stream_events, consume_runtime_stream: one event
Consume(a, e) ==
    CASE e.type = "text"  -> [a EXCEPT !.text = @ + 1]
      [] e.type = "start" -> OnToolStart(a, e)
      [] e.type = "input" -> OnInputDelta(a, e)
      [] e.type = "stop"  -> OnToolStop(a, e)

\* The fragments of one call, all of them and in order, are a JSON value;
\* anything else is not.
Parses(buf) == \E c \in Calls[src] : buf = WholeInput(c)

NoResponse(s)     == [status |-> s, text |-> 0, uses |-> <<>>]
Response(a, by)   == [status |-> "ok", text |-> a.text,
                      uses |-> [k \in DOMAIN by |-> [call  |-> a.tools[by[k]].call,
                                                     input |-> a.tools[by[k]].buf]]]

Ascending(S) == CHOOSE s \in [1 .. Cardinality(S) -> S] : \A j, k \in DOMAIN s : j < k => s[j] < s[k]

\* drain_ready, and the response made of it: the complete blocks by index; one
\* that does not parse fails the response, an incomplete one is left out.
Drain(a) ==
    LET done == {i \in DOMAIN a.tools : a.tools[i].complete} IN
    IF \E i \in done : ~Parses(a.tools[i].buf) THEN NoResponse("error")
    ELSE Response(a, Ascending(done))

-----------------------------------------------------------------------------
(* The adapters.                                                           *)

StreamInit ==
    /\ src \in Sources
    /\ wire = <<>> /\ closed = {} /\ texts = 0
    /\ adapter = [textOpen |-> FALSE, order |-> <<>>, next |-> 0]
    /\ acc = [text |-> 0, tools |-> <<>>]
    /\ result = NoResponse("none")

Open(c) == c \in Begun /\ c \notin closed
SendFragment(c) ==
    wire' = [k \in DOMAIN wire |-> IF wire[k].call = c
                                   THEN [wire[k] EXCEPT !.fragments = @ + 1] ELSE wire[k]]

MayText == result.status = "none" /\ texts < MaxTexts /\ (LateText \/ wire = <<>>)

\* Events as they are: every block has an index of its own, and the blocks may
\* overlap.
EventText ==
    /\ src = "events" /\ MayText
    /\ texts' = texts + 1
    /\ acc' = Consume(acc, TextDelta)
    /\ adapter' = [adapter EXCEPT !.next = @ + 1]
    /\ UNCHANGED <<src, wire, closed, result>>

EventStart(c) ==
    /\ src = "events" /\ result.status = "none" /\ c \in Calls[src] \ Begun
    /\ wire' = Append(wire, [call |-> c, fragments |-> 0, index |-> adapter.next])
    /\ adapter' = [adapter EXCEPT !.next = @ + 1]
    /\ acc' = Consume(acc, ToolStart(adapter.next, c))
    /\ UNCHANGED <<src, closed, texts, result>>

EventDelta(c) ==
    /\ src = "events" /\ result.status = "none" /\ Open(c) /\ FragmentsOf(c) < Fragments
    /\ SendFragment(c)
    /\ acc' = Consume(acc, InputDelta(IndexOf(c), <<c, FragmentsOf(c) + 1>>))
    /\ UNCHANGED <<src, closed, texts, adapter, result>>

EventStop(c) ==
    /\ src = "events" /\ result.status = "none" /\ Open(c) /\ FragmentsOf(c) = Fragments
    /\ closed' = closed \cup {c}
    /\ acc' = Consume(acc, BlockStop({IndexOf(c)}))
    /\ UNCHANGED <<src, wire, texts, adapter, result>>

\* A chunk with text opens a text block unless one is open.
ChunkText ==
    /\ src = "chunks" /\ MayText
    /\ texts' = texts + 1
    /\ adapter' = IF adapter.textOpen THEN adapter
                  ELSE [adapter EXCEPT !.textOpen = TRUE, !.next = @ + 1]
    /\ acc' = Consume(acc, TextDelta)
    /\ UNCHANGED <<src, wire, closed, result>>

\* The place of a call's block is computed from its place in the iteration
\* order of a HashSet, which is any order, and any other after an insertion.
Offset(a) == IF a.next > Len(a.order) THEN a.next - Len(a.order) ELSE 0
BlockOf(a, c) == (CHOOSE k \in DOMAIN a.order : a.order[k] = c) - 1 + Offset(a)

\* A chunk with a fragment of a call, the first of which opens its block.
ChunkCall(c) ==
    /\ src = "chunks" /\ result.status = "none" /\ c \in Calls[src]
    /\ c \in Begun => FragmentsOf(c) < Fragments
    /\ IF c \in Begun
       THEN /\ SendFragment(c)
            /\ adapter' = [adapter EXCEPT !.textOpen = FALSE]
            /\ acc' = Consume(acc, InputDelta(BlockOf(adapter', c), <<c, FragmentsOf(c) + 1>>))
       ELSE \E order \in SetToSeqs(Begun \cup {c}) :
            /\ wire' = Append(wire, [call |-> c, fragments |-> 1, index |-> adapter.next])
            /\ adapter' = [textOpen |-> FALSE, order |-> order, next |-> adapter.next + 1]
            /\ acc' = Consume(Consume(acc, ToolStart(adapter.next, c)), InputDelta(BlockOf(adapter', c), <<c, 1>>))
    /\ UNCHANGED <<src, closed, texts, result>>

\* The end of the message, with all it began sent: finish_reason closes the
\* blocks the adapter knows of, and the iterator ends.
Finished == result.status = "none" /\ \A c \in Begun : FragmentsOf(c) = Fragments

EventFinish ==
    /\ src = "events" /\ Finished /\ Begun = closed
    /\ result' = Drain(acc)
    /\ UNCHANGED <<src, wire, closed, texts, adapter, acc>>

ChunkFinish ==
    /\ src = "chunks" /\ Finished
    /\ acc' = Consume(acc, BlockStop({i - 1 + Offset(adapter) : i \in DOMAIN adapter.order}))
    /\ result' = Drain(acc')
    /\ UNCHANGED <<src, wire, closed, texts, adapter>>

\* The connection breaks: an error of the reader ends the iterator like an end
\* of the message, and what has come is the response.  An error event, or an
\* event that cannot be read, fails it.
BreakOff ==
    /\ result.status = "none"
    /\ result' \in {Drain(acc), NoResponse("failed")}
    /\ UNCHANGED <<src, wire, closed, texts, adapter, acc>>

StreamNext ==
    \/ EventText \/ ChunkText \/ EventFinish \/ ChunkFinish \/ BreakOff
    \/ \E c \in Calls[src] : EventStart(c) \/ EventDelta(c) \/ EventStop(c) \/ ChunkCall(c)

StreamSpec == StreamInit /\ [][StreamNext]_streamVars

-----------------------------------------------------------------------------
(* Properties.                                                             *)

\* A tool of the response has the input its call was sent with, and the tools
\* come in the order their blocks began, also when blocks overlap, and when the
\* stream breaks off; no response fails because inputs got mixed
\* (streaming/executor.rs:254-275).
InputsAsSent ==
    /\ result.status # "error"
    /\ result.status = "ok" =>
         /\ \A k \in DOMAIN result.uses : result.uses[k].input = WholeInput(result.uses[k].call)
         /\ \A j, k \in DOMAIN result.uses :
              j < k => Place(result.uses[j].call) < Place(result.uses[k].call)

=============================================================================
