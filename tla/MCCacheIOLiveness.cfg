CONSTANTS
  Paths = {a}
  Slots = {s1, s2}
  MaxConcurrentCopies = 1
  DeferredTtl = "never"
  Crashes = FALSE
  NoJob = NoJob
  MaxVersion = 2
  MaxCallers = 1
  CheckOnHit = FALSE
  Maintenance = TRUE
  Watch = FALSE
  Evictors = {}
  Failures = FALSE
  NoFile = NoFile
  NoRow = NoRow
  NoPath = NoPath
SPECIFICATION FairSpec
PROPERTIES StaleRowsResolved EveryJobLeaves ValidationNotBlocked
