SPECIFICATION Spec
CONSTANTS
  Ids = {1, 2}
  Bodies <- MCBodies
  Requests = {r1, r2}
  AppSubscriptionCount = 1
  StoreFaults = {"read", "write", "send", "event"}
  MaxFaults = 1
  MaxEvents = 1
  Terms = {t1, t2}
  MaxBusy = 2
  Confirms = {c1}
  AppTerminationTimeout = 2
  NoSub = NoSub
  Nothing = Nothing
INVARIANTS
  TypeOK
  SubscriptionLimit
  ToldWhenQuiet
  NothingLeft
PROPERTIES
  GivesTime
  TerminationEnds
  JobReleased
