SPECIFICATION MCSpec
CONSTANTS
  t1 = t1
  t2 = t2
  t3 = t3
  Senders = {t1, t2, t3}
  Capacity = 2
  MaxMessages = 2
  Manual = Manual
  FailureThreshold = 2
  SuccessThreshold = 2
  Timeout = 1
  HalfOpenMaxCalls = 2
  m1 = m1
  m2 = m2
  m3 = m3
  m4 = m4
  m5 = m5
  ra = ra
  rb = rb
  rc = rc
  NoRoute = NoRoute
  Msgs = {m1, m2, m3, m4, m5}
  Routes = {ra, rb, rc}
  Levels = {1, 5}
  RouteOf <- MCRouteOf
  LevelOf <- MCLevelOf
  a = a
  b = b
  Dispatchers <- Two
  Start <- MCStart
  Weight <- MCWeight
  Hash <- MCHash
  Configs <- MCConfigs
  Ids = {a, b}
  Keys = {1}
  NoKey = NoKey
  NoTarget = NoTarget
CHECK_DEADLOCK FALSE
INVARIANTS
  NothingLostUnseen
  DropsAreCounted
  OvershootBound
  LoadHasAnOwner
  OpenCircuitSheds
  TurnsAreShared
PROPERTIES
  SendReturns
  Cooldown
  CircuitsClose
