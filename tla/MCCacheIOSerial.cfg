CONSTANTS
  Paths = {a}
  Slots = {s1, s2}
  MaxConcurrentCopies = 1
  DeferredTtl = "elapses"
  Crashes = FALSE
  NoJob = NoJob
  MaxVersion = 2
  MaxCallers = 1
  CheckOnHit = TRUE
  Maintenance = TRUE
  Watch = TRUE
  Evictors = {"ipc"}
  Failures = TRUE
  NoFile = NoFile
  NoRow = NoRow
  NoPath = NoPath
SPECIFICATION Spec
SYMMETRY Symmetry
INVARIANTS TypeOK FreshIsIntact PublishedIsClosed NoOrphanRow
