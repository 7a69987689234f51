CONSTANTS
  e1 = e1
  Paths <- Film
  Upcoming <- FilmUpcoming
  Fds = {f1, f2}
  Size = 2
  Floor = 1
  MinAccess = 2
  CheckOnHit = TRUE
  OnHit = TRUE
  Cap = 0
  External = TRUE
  MaxEvents = 2
  NoPath = NoPath
  NoEntry = NoEntry
SPECIFICATION FairSpec
INVARIANTS TypeOK PendingIsOpen MapsMatchDescriptors
PROPERTY PendingResolved
