CONSTANTS
  a1 = a1
  a2 = a2
  b1 = b1
  t1 = t1
  t2 = t2
  Focus = {"discovery", "telemetry", "rivals", "heirs"}
  Threads = {f1}
  MaxSession = 2
  MaxBumps = 2
  MaxNow = 1
  Window = 0
  Clients = {c1}
  Files = {f1}
  Kinds = {"Replace"}
  InfoLogged = FALSE
  ChanCap = 2
  RingCap = 1
  MaxSent = 3
  Daemons <- Hosts
  Instance <- HostNames
  Conf <- HostTargets
  Dirs = {t1, t2}
  MayCrash <- Hosts
  MaxCrashes = 1
  MayBlock = {a2}
  Nobody = Nobody
SPECIFICATION Spec
CHECK_DEADLOCK FALSE
INVARIANTS
  ServicesTypeOK CountsConserved LastBucketFlushed
  NoLineMissed RingKeepsLogs NoPhantomCopy NeverUndercounts
  OneServerPerTarget
PROPERTIES
  EveryClientLeaves UnmountsOnlyOwn ServerUndisturbed ShutdownEnds
