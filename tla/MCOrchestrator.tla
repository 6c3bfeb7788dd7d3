--------------------------- MODULE MCOrchestrator ---------------------------
(* Orchestrator with three sub-tasks.                                        *)
EXTENDS Orchestrator

CONSTANTS a, b, c

ThreeSpecs == <<a, b, c>>
=============================================================================
