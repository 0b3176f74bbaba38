CONSTANTS
  ana = ana
  phone = phone
  laptop = laptop
  global = global
  Accounts = {ana}
  Conns = {phone, laptop}
  AccountOf <- TwoDevices
  Central = global
  Settlers = {1, 2, 3, 4}
  Born <- BornToAna
  Graduated = {ana}
  GroupCap = 2
  MaxPopulation = 4
  MaxWorlds = 4
  MaxThreads = 6
  Cases <- MCCases
SPECIFICATION MCSpec
CHECK_DEADLOCK FALSE
INVARIANT EachInOneWorld
INVARIANT GroupWithinCap
INVARIANT ToldWorldsSaved
PROPERTY CallsReturn
