CONSTANTS
  ana = ana
  bek = bek
  hers = hers
  phone = phone
  laptop = laptop
  global = global
  Accounts = {ana, bek}
  Registered0 = {ana}
  Devices = {hers, phone, laptop}
  AccountOf <- Owners
  Central = global
  MaxInvites = 1
  MaxBoots <- Boots2
  Hosts = {ana}
  TicksPerDay = 3
  ArrivalTick = 0
  BirthTick = 1
  IllnessTick = 2
  SickTicks = 4
  Care = 1
  Mourning = 1
  MaxParty = 1
  StayHome = 1
  Nobody = 0
  MaxId = 3
SPECIFICATION MCSpec
CHECK_DEADLOCK FALSE
INVARIANT AdmittedByRight
INVARIANT OnePopup
PROPERTY VisitReturns
PROPERTY TroublesPass
