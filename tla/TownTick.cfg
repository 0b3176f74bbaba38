CONSTANTS
  TicksPerDay = 2
  ArrivalTick = 1
  BirthTick = 1
  GraceDay = 2
  BirthDay = 2
  WinDays = 4
  DiseaseTicks = 3
  BlizzardTicks = 2
  OfferTicks = 1
  MigrantWait = 2
  TripTicks = 2
  MaxPopulation = 3
  FoodPerPerson = 1
  Scaled <- Targets
  Reward <- Rewards
  MaxCycles = 2
  Stages = 1
  Invests = 2
  DigPrice <- Dig
  Wares = {"wood"}
  Loads = {1}
  SellPrice <- One
  BuyPrice <- One
  Housed = 2
  Counts = {1, 2}
  Fortunes <- Fates
  MaxStock = 1
  W = 4
  H = 1
  Terrain0 <- TerrainMC
  Deposit0 = 1
  FurnaceAt <- AtMC
  People = {1, 2}
  Size <- SizeMC
  Cost <- CostMC
  BenchCost = 1
  RoadCost = 1
  Logs = 1
  RefundPct = 40
  DiscountPct = 80
  BonusPct = 12
  MaxLevel = 2
  MaxBench = 1
  MatureLevel = 2
  MaxBurn = 1
  FuelPenalty = 150
  SnowMax = 1
  Wood0 = 5
  MaxIds = 2
  MaxGiven = 3
  MaxDrag = 2
  Drifts <- DriftMC
  DayTicks = 4
  FirstTick = 1
  Laws = {"LongShifts", "ExtraRations", "CommunalMeals"}
  MaxLaws = 3
  LawDay = 2
  LawRest = 2
  Towns <- MCTowns
  Rosters <- MCRosters
  Rations <- MCRations
  MaxPot = 3000
  MaxOrders = 1
  LastTick = 7
  Width = 8
  Height = 4
  Places <- MCPlaces
  Grounds <- MCGrounds
  MaxErrands = 2
  MaxTicks = 60
  Here <- Home
  Drift = 79
SPECIFICATION MCSpec
CHECK_DEADLOCK FALSE
INVARIANT NothingOverdue
PROPERTY GoalsAhead
PROPERTY WayOut
INVARIANT FootprintsApart
INVARIANT LandHolds
INVARIANT StoresAccountedFor
PROPERTY FedWhileItLasts
INVARIANT BunkedNeverTired
INVARIANT WalksInTime
