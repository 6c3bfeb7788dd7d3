SPECIFICATION OutcomeSpec
CONSTANTS
  Backend = "json"
  MaxRounds = 2
  Fingerprints = {"p", "q"}
  MaxAnswers = 3
  MaxRestarts = 2
CHECK_DEADLOCK FALSE
INVARIANT
  FailureIsShown
