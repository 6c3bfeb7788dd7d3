SPECIFICATION FairSpec
CONSTANTS
  c1 = c1
  c2 = c2
  c3 = c3
  w1 = w1
  w2 = w2
  w3 = w3
  Calls = {c1, c2}
  Workers = {w1, w2}
  NoCall = NoCall
  NoWorker = NoWorker
  Free = Free
  FirstPool <- OneWorker
  MinSize = 1
  MaxSize = 2
  MaxWait = 1
  IndexModulus = 2
INVARIANTS
  OneTaskPerWorker
  MetricsMatchAnswers
  
PROPERTIES
  ImplementsDispatch
  CallsEnd
