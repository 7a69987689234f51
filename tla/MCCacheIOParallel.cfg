CONSTANTS
  Paths = {a}
  Slots = {s1, s2, s3}
  MaxConcurrentCopies = 2
  DeferredTtl = "never"
  Crashes = FALSE
  NoJob = NoJob
  MaxVersion = 2
  MaxCallers = 1
  CheckOnHit = FALSE
  Maintenance = TRUE
  Watch = FALSE
  Evictors = {"sweep"}
  Failures = FALSE
  NoFile = NoFile
  NoRow = NoRow
  NoPath = NoPath
SPECIFICATION Spec
SYMMETRY Symmetry
INVARIANT PublishedIsClosed
