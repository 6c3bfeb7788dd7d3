SPECIFICATION FairSpec
CONSTANTS
  m1 = m1
  m2 = m2
  m3 = m3
  ra = ra
  rb = rb
  NoMsg = NoMsg
  NoRoute = NoRoute
  Outbound = Outbound
  Scheduler = Scheduler
  Controller = Controller
  Threads = {Outbound, Scheduler, Controller}
  Msgs = {m1, m2}
  BusMsgs = {m1}
  Routes = {ra, rb}
  Levels = {1, 5}
  MaxCommands = 2
  RouteOf <- MCRouteOf
  LevelOf <- MCLevelOf
  MaxRetries <- MCMaxRetries
  Retryable <- MCRetryable
  BacksOff <- SomeBackoff
CHECK_DEADLOCK FALSE
INVARIANTS
  OnePlace
PROPERTIES
  EveryMessageHandled
