CONSTANTS
  TicksPerDay = 3
  ArrivalTick = 0
  BirthTick = 1
  IllnessTick = 2
  SickTicks = 4
  Care = 1
  Mourning = 1
  MaxParty = 1
  StayHome = 1
  Nobody = 0
  MaxId = 3
SPECIFICATION LifeSpec
CHECK_DEADLOCK FALSE
INVARIANT CouplesMutual
