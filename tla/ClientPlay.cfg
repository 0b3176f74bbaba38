SPECIFICATION MCSpec
CONSTANTS
  Scenes <- MCScenes
  MaxVersion = 2
  MaxInbox = 2
  Kinds = {"tent", "mill"}
  Houses = {"mine"}
  Crewed = {"mine"}
  Folk = {"ann"}
  Width = 3
  Height = 2
  MaxRoad = 3
\* MaxVersion ends the snapshots, and with them what a quiet game can do.
CHECK_DEADLOCK FALSE
INVARIANT PlaysWhereItSays
INVARIANT ToolsHold
PROPERTY DrawsTheSnapshot
PROPERTY OutageEnds
