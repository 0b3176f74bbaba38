CONSTANTS
  furnace = furnace
  sawmill = sawmill
  none = none
  Kinds = {sawmill}
  MaxWorkers <- Employs
  Furnace = furnace
  None = none
  CrewMax = 3
  MaxPopulation = 2
  MinParty = 1
  MaxParty = 1
  StayHome = 1
  MaxId = 5
  MaxBuildings = 2
  PerTick = 1
  Accounts = {"ann", "bob"}
  NoOne = NoOne
  MaxGroup = 2
  SiteCrew = 2
  Trade = 1
  LogsNeeded = 2
  RoomCost = 1
  RaiseCost = 1
  FitCost = 1
  Salvage = 1
  TopLevel = 2
  WoodAtFirst = 1
  MaxWood = 1
  MaxKey = 3
  MaxSession = 2
SPECIFICATION MCSpec
CHECK_DEADLOCK FALSE
INVARIANT NamesResolve
INVARIANT CrewsFit
INVARIANT PostsCountTheirWorkers
PROPERTY RoomsObeyTheirAccount
