----------------------------- MODULE MCAgentTurn -----------------------------
(* A turn for TLC, in three parts told apart by `part`, which is chosen at   *)
(* the start: the loop over replies that are whole, with a tool of each kind *)
(* it tells apart; one reply on its way through the stream; and what becomes *)
(* of the turn, with two follow-ups and results of two fingerprints.         *)
EXTENDS AgenticLoop, TurnOutcome, ResponseStream

VARIABLE part

\* "search" is met by two rules of one priority and by one of a lower priority
MCRules == << [matches |-> {"search"},          decision |-> "allow", priority |-> 0],
              [matches |-> {"read"},            decision |-> "allow", priority |-> 1],
              [matches |-> {"search", "write"}, decision |-> "ask",   priority |-> 1],
              [matches |-> {"search"},          decision |-> "deny",  priority |-> 1] >>

\* Two overlapping calls where the provider numbers the blocks; where the
\* adapter does, one call or two.
OneChunked == [events |-> {1, 2}, chunks |-> {1}]

MCInit ==
  /\ part \in {"loop", "stream", "outcome"}
  /\ Init /\ (part # "loop" => config = [kind |-> "initial", compact |-> FALSE, keep |-> 1])
  /\ StreamInit /\ (part # "stream" => src = "events")
  /\ OutcomeInit

OnlyLoop    == part = "loop" /\ UNCHANGED <<part, streamVars, outcomeVars>>
OnlyStream  == part = "stream" /\ UNCHANGED <<part, vars, outcomeVars>>
OnlyOutcome == part = "outcome" /\ UNCHANGED <<part, vars, streamVars>>

LoopTurn    == OnlyLoop /\ Turn
LoopAnswer  == OnlyLoop /\ Answer
Streamed    == OnlyStream /\ StreamNext
OutcomeStep == OnlyOutcome /\ OutcomeNext
OutcomeWork == OnlyOutcome /\ Work
OutcomeAsks == OnlyOutcome /\ RegisterBlocked

turnVars == <<part, vars, streamVars, outcomeVars>>

MCSpec ==
  /\ MCInit
  /\ [][LoopTurn \/ LoopAnswer \/ Streamed \/ OutcomeStep]_turnVars
  /\ WF_turnVars(LoopTurn) /\ WF_turnVars(OutcomeWork) /\ SF_turnVars(OutcomeAsks)

\* LoopTurn ends (TurnEnds of AgenticLoop) and the handler of a message returns
\* (HandlerReturns of TurnOutcome): run_loop, process_inbound_message_flow.
TurnsEnd == (part = "loop" => TurnEnds) /\ (part = "outcome" => HandlerReturns)
=============================================================================
