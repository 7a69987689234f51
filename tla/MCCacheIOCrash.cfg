CONSTANTS
  Paths = {a}
  Slots = {s1, s2}
  MaxConcurrentCopies = 1
  DeferredTtl = "elapses"
  Crashes = TRUE
  NoJob = NoJob
  MaxVersion = 2
  MaxCallers = 1
  CheckOnHit = FALSE
  Maintenance = TRUE
  Watch = TRUE
  Evictors = {}
  Failures = TRUE
  NoFile = NoFile
  NoRow = NoRow
  NoPath = NoPath
SPECIFICATION Spec
SYMMETRY Symmetry
INVARIANTS
  DedupAirtight HandleMatchesCopy
  TornOnlyIfOverwritten NoPartialLeft
PROPERTY LifecycleSpec
