CONSTANTS
  e1 = e1
  e2 = e2
  e3 = e3
  m1 = m1
  m2 = m2
  w1 = w1
  w2 = w2
  Focus = {"watch", "eviction", "policies"}
  Seasons = {1, 2, 3}
  Episodes = {1, 2}
  MaxLookahead = 4
  AncestorDepth = 2
  Pids = {1, 2, 3, 4, 5}
  DayMinutes = 6
  Root = Root
  SubDirs = {d1, d2}
  Child = Child
  BusyDirs = {d1}
  Changes = {2}
  MaxDirs = 2
  WatchesRefused = TRUE
  MayMove = TRUE
  QueueCap = 1
  MaxTouches = 1
  MaxOpen = 2
  Entries <- Cached
  MountOf <- CachedOn
  SizeOf <- OneByte
  Sweepers = {m1}
  Workers = {w1, w2}
  WorkerMount <- OnM1
  Pending <- OneAndNone
  Eviction <- Configured
  Legacy <- NoMaximum
  DiskTotal = 4
  FirstHits <- HitInTurn
  StartTime = 2
  MaxTurns = 2
SPECIFICATION Spec
CHECK_DEADLOCK FALSE
INVARIANTS
  HousekeepingTypeOK NoLeakedWatch
  PredictsFollowing PrefetchReach FilterIsExact WindowIsStretch
PROPERTIES
  EventsDispatched SweepReclaims NoOverEviction
