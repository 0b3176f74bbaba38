CONSTANTS
  DayTicks = 4
  FirstTick = 1
  Laws = {"LongShifts", "ExtraRations", "CommunalMeals"}
  MaxLaws = 3
  LawDay = 2
  LawRest = 2
  Towns <- MCTowns
  Rosters <- MCRosters
  Rations <- MCRations
  MaxPot = 3000
  MaxOrders = 1
  LastTick = 8
SPECIFICATION NeedsSpec
CHECK_DEADLOCK FALSE
INVARIANT PictureIsMechanic
