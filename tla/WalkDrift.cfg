CONSTANTS
  Width = 8
  Height = 4
  Places <- MCPlaces
  Grounds <- MCGrounds
  MaxErrands = 2
  MaxTicks = 60
  Here <- Home
  Drift = 95
SPECIFICATION WalkSpec
CHECK_DEADLOCK FALSE
PROPERTY WalksEnd
