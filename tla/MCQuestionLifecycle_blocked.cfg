SPECIFICATION Spec
CONSTANTS
    MaxQuestions = 2
    MaxRounds = 1
    MaxRestarts = 0
INVARIANTS
    BlockedAsAsked
CHECK_DEADLOCK FALSE
