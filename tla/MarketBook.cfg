INIT MCInit
NEXT MCNext
CONSTANTS
  ana = ana
  bek = bek
  lola = lola
  anasWorld = anasWorld
  beksWorld = beksWorld
  lolasWorld = lolasWorld
  centralWorld = centralWorld
  Accounts = {ana, bek, lola}
  Worlds = {anasWorld, beksWorld, lolasWorld, centralWorld}
  CentralWorlds = {centralWorld}
  Plays <- OutAndAbout
  Stock0 <- StartOfFour
  Amounts = {1, 2}
  Prices = {1}
  MaxOrders = 1
  Failing = FALSE
  Crashing = FALSE
  MaxPosts = 2
CHECK_DEADLOCK FALSE
INVARIANT GoodsAndGoldKept
INVARIANT ReadsStillTrue
