------------------------ MODULE MCQuestionLifecycle ------------------------
(* QuestionLifecycle with its properties.                                  *)
EXTENDS QuestionLifecycle

\* Every variable has its type, and the handler's locals name real questions.
TypeOK ==
    /\ susp \in [Questions -> [status : {"none", "active", "resolved", "cleared"},
                               src : AnySource]]
    /\ inv \subseteq Questions /\ toolCache \subseteq Questions /\ shown \subseteq Questions
    /\ run \in {"none", "running", "completed"}
    /\ rounds \in 0 .. MaxRounds
    /\ cache \in [q : Questions \cup {NoQ}, src : AnySource]
    /\ pc \in [Threads -> Labels]
    /\ \A t \in Threads : loc[t].q \in Questions \cup {NoQ}
                          /\ loc[t].ans \in Questions \cup {NoQ}
    /\ asked \in [Questions -> AnySource]
    /\ restarts \in 0 .. MaxRestarts

\* submit_question_answer returns.
AnswersReturn == pc["answer"] # "idle" ~> pc["answer"] = "idle"

\* A question that was announced does not stay open for ever.
AnnouncedSettles == \A q \in Questions : q \in shown ~> q \notin Open

\* Neither the one who answers nor the one who asked waits for ever.
QuestionsSettle == AnswersReturn /\ AnnouncedSettles

\* tests/subtask_blocked_protocol.rs:253 of anima-runtime: the answer to a
\* blocked subtask is resolved, and goes on, as that of a blocked subtask.
BlockedAsAsked ==
    \A q \in Questions : asked[q] = "blocked" /\ goneOn[q] # NoSource => goneOn[q] = "blocked"

=============================================================================
