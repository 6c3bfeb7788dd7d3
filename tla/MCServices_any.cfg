SPECIFICATION ServicesSpec
CONSTANTS
  Jobs = {"j1", "j2", "j3"}
  ChatOf <- MCChatOf
  Tables <- MCTables
  MessageIds = {"m"}
  Backends = {"json", "sqlite"}
  MaxEvents = 4
  MaxDeletes = 2
  MaxCrashes = 1
  CacheThreads = {"t1"}
  CacheKeys = {"k1", "k2", "k3"}
  MaxEntries = 2
  TierKeys = {"k1", "k2", "k3"}
  TierValues = {1, 2}
  NotThere = NotThere
  MaxInMemory = 2
  PromotionThreshold = 1
  WritesFail = FALSE
  WebChats = 2
  MaxSessions = 2
  MaxHistory = 3
  MaxMessages = 3
  PlanSize = 4
  MaxConcurrent = 2
  SuccessesWanted = 2
  Letters = {"m1", "m2", "m3"}
  Signals = {"pause"}
  MaxStarts = 1
CHECK_DEADLOCK FALSE
INVARIANTS
  RestartLosesNothing
  SequenceNeverReused
  NothingLeftOfDeleted
  
  OneSessionPerKey
  PlanIsAccountedFor
  
PROPERTIES
  ShownWhole
  KeepsTheRecent
  UpstreamKept
