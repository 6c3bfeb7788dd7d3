SPECIFICATION MCSpec
CONSTANTS
  Tool = {"read", "search", "write"}
  Registered = {"read", "search", "write"}
  Safe = {"read", "search"}
  Mode = "rules"
  Rules <- MCRules
  Policy = "none"
  MaxIterations = 2
  Window = 6
  Buffer = 2
  Keeps = {1, 2}
  MaxUses = 2
  MaxSuspensions = 1
  Sources = {"events", "chunks"}
  Calls <- OneChunked
  Fragments = 2
  MaxTexts = 2
  LateText = FALSE
  Backend = "json"
  MaxRounds = 2
  Fingerprints = {"p", "q"}
  MaxAnswers = 3
  MaxRestarts = 2
CHECK_DEADLOCK FALSE
INVARIANTS
  
  RunsOnceAsAllowed
  InputsAsSent
  EndShownTruly
PROPERTIES
  TurnsEnd
  EndedStays
