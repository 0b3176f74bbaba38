CONSTANTS
  ana = ana
  bek = bek
  none = none
  Accounts = {ana}
  NoAccount = none
  OwnerAccount = none
  Central = FALSE
  Persistent = TRUE
  MaxSessions = 1
  MaxConnections = 2
  MaxLives = 2
  Conns = {1}
  ConnectionCap = 1
  MaxUp = 3
  MaxDown = 3
SPECIFICATION MCSpec
INVARIANT RosterMatchesConnections
INVARIANT OneIdentityPerPlayer
INVARIANT AuthorityRule
INVARIANT NoGhostCommand
INVARIANT NothingLostOnTheWay
PROPERTY SessionsKeepFaith
PROPERTY GhostsReaped
PROPERTY EveryoneLetGo
CHECK_DEADLOCK FALSE
