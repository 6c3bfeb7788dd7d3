SPECIFICATION FairSpec
CONSTANTS
    MaxQuestions = 2
    MaxRounds = 1
    MaxRestarts = 1
CHECK_DEADLOCK FALSE
INVARIANTS
  OneUsePerOpening
  OneOpenQuestion
  ContinuedAsAsked
PROPERTIES
  QuestionsSettle
