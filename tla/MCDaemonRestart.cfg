CONSTANTS
  a1 = a1
  a2 = a2
  b1 = b1
  t1 = t1
  t2 = t2
  Focus = {"rivals"}
  Threads = {f1}
  MaxSession = 2
  MaxBumps = 2
  MaxNow = 1
  Window = 0
  Clients = {c1}
  Files = {f1}
  Kinds = {"Replace"}
  InfoLogged = FALSE
  ChanCap = 2
  RingCap = 1
  MaxSent = 3
  Daemons <- OneHost
  Instance <- OneName
  Conf <- OneTarget
  Dirs = {t1}
  MayCrash <- OneHost
  MaxCrashes = 1
  MayBlock = {}
  Nobody = Nobody
SPECIFICATION RestartSpec
CHECK_DEADLOCK FALSE
PROPERTY RestartRecovers
