---------------------------- MODULE MCTurnOutcome ----------------------------
(* TurnOutcome for TLC: two follow-ups, results of two fingerprints.         *)
EXTENDS TurnOutcome
=============================================================================
