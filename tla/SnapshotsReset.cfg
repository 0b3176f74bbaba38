CONSTANTS
  c1 = c1
  c2 = c2
  Conns = {c1, c2}
  Persistent = TRUE
  ArrivalTick = 225
  TilesEvery = 5
  PingTTL = 2
  MaxPings = 1
  ResetAfter = 2
  MaxAge = 6
  MaxEvents = 4
  MaxChat = 1
  MaxWorlds = 3
  Versions <- AllVersions
  Ids = {3, 30}
  Central = FALSE
  MaxTick = 2
SPECIFICATION MCSpec
CHECK_DEADLOCK FALSE
SYMMETRY Symmetry
INVARIANT NothingStale
INVARIANT MapCurrent
INVARIANT MigratedWhole
PROPERTY NeverTorn
PROPERTY ProgressKept
