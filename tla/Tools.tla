----------------------------------- MODULE Tools -----------------------------------
(***************************************************************************)
(* What the player holds over the map (src/client: input.rs, touch.rs,      *)
(* roads.rs, ui/buildbar.rs, ui/placement.rs, ui/selection.rs, roster/).    *)
(*                                                                         *)
(* Three tools share the click: placing a kind of building, moving a        *)
(* building, painting a road.  A click with one of the first two drops a    *)
(* ghost that the confirm bar commits; a road is a stroke over many frames, *)
(* committed from a bar of its own.  Mouse, finger, hotkeys and the buttons *)
(* of four panels change the tools, each clearing some of the others; chat  *)
(* and the modal panels hold the input back, not equally for all.  With no  *)
(* tool armed a click selects, or orders the survivor selected.             *)
(***************************************************************************)
EXTENDS Integers, Sequences, Functions

CONSTANTS
  Kinds,      \* kinds of building on the build bar
  Houses,     \* the buildings a player may select
  Crewed,     \* those of them that take workers
  Folk,       \* survivors
  Width, Height,  \* bound: the corner of the map strokes are painted in
  MaxRoad     \* bound: MAX_ROAD_TILES_PER_COMMAND
ASSUME ToolsAssumption == /\ Crewed \subseteq Houses /\ MaxRoad \in Nat \ {0}
                          /\ Width \in Nat \ {0} /\ Height \in Nat \ {0}

VARIABLES
  armed,     \* BuildMode
  moving,    \* RelocateMode
  ghost,     \* PendingPlace, see NoGhost
  road,      \* RoadMode
  tiles, dragging, erasing,   \* RoadPaint
  chosen,    \* Selection: a building
  person,    \* SurvivorSelection
  dock,      \* BuildPanelOpen
  modals,    \* of "chat", "research", "social", those open
  town       \* the snapshot: its buildings, its survivors, whether the game runs
toolsVars == <<armed, moving, ghost, road, tiles, dragging, erasing, chosen, person, dock, modals, town>>
paint    == <<tiles, dragging, erasing>>
modes    == <<armed, moving, ghost, road>>
picks    == <<chosen, person>>
outside  == <<dock, modals, town>>

\* PendingPlaceData: moves is the building being moved, or "none" for a new one of kind.
NoGhost == [kind |-> "none", facing |-> 0, moves |-> "none"]
Grid    == (0 .. Width - 1) \X (0 .. Height - 1)
Active  == road # "Off"

ToolsInit ==
  /\ armed = "none" /\ moving = "none" /\ ghost = NoGhost /\ road = "Off"
  /\ tiles = <<>> /\ dragging = FALSE /\ erasing = FALSE
  /\ chosen = "none" /\ person = "none" /\ dock = FALSE /\ modals = {}
  /\ town = [houses |-> Houses, folk |-> Folk, runs |-> TRUE]

\* A finger is not held back by the research panel.
Blocked(device) == modals \cap (IF device = "mouse" THEN {"chat", "research", "social"} ELSE {"chat", "social"}) # {}

\* RoadPaint::reset leaves erasing alone.
Wiped == tiles' = <<>> /\ dragging' = FALSE /\ UNCHANGED erasing

(* ------------------------------- the modes ----------------------------- *)

Toggled(held, x) == IF held = x THEN "none" ELSE x

Hotkey ==
  /\ ~Blocked("mouse")
  /\ \E k \in Kinds : armed' = Toggled(armed, k)
  /\ ghost' = NoGhost
  /\ UNCHANGED <<moving, road, paint, picks, outside>>

\* One key press, heard by every panel that is open as well; nothing orders the systems, so a
\* panel may have closed before the tools, or the dock, look at it.
Escape ==
  /\ \/ Blocked("mouse") /\ UNCHANGED <<modes, paint, picks>>
     \/ /\ armed' = "none" /\ moving' = "none" /\ ghost' = NoGhost /\ road' = "Off"
        /\ Wiped /\ chosen' = "none" /\ person' = "none"
  /\ modals' = {} /\ \/ dock' = FALSE
                     \/ dock' = dock /\ "chat" \in modals
  /\ UNCHANGED town

RightClick ==
  /\ ~Blocked("mouse")
  /\ \/ ghost # NoGhost /\ ghost' = NoGhost /\ UNCHANGED <<armed, moving, road, paint, picks>>
     \/ ghost = NoGhost /\ tiles # <<>> /\ Wiped /\ UNCHANGED <<modes, picks>>
     \/ ghost = NoGhost /\ tiles = <<>> /\ Active /\ road' = "Off"
        /\ UNCHANGED <<armed, moving, ghost, paint, picks>>
     \/ /\ ghost = NoGhost /\ tiles = <<>> /\ ~Active
        /\ IF armed # "none" \/ moving # "none"
             THEN armed' = "none" /\ moving' = "none" /\ UNCHANGED picks
             ELSE chosen' = "none" /\ person' = "none" /\ UNCHANGED <<armed, moving>>
        /\ UNCHANGED <<ghost, road, paint>>
  /\ UNCHANGED outside

\* build_buttons; without the wood nothing is chosen.
BuildButton ==
  /\ dock
  /\ \E k \in Kinds : armed' = Toggled(armed, k) /\ dock' = (armed = k)
  /\ ghost' = NoGhost /\ road' = "Off" /\ Wiped
  /\ UNCHANGED <<moving, picks, modals, town>>

RoadTool_KeepsStroke ==
  /\ dock
  /\ \E r \in {"Draw", "Erase"} : road' = IF road = r THEN "Off" ELSE r
  /\ armed' = "none" /\ ghost' = NoGhost /\ moving' = "none"
  /\ UNCHANGED <<paint, picks, outside>>
RoadTool ==
  /\ dock
  /\ \E r \in {"Draw", "Erase"} : road' = IF road = r THEN "Off" ELSE r
  /\ Wiped /\ armed' = "none" /\ ghost' = NoGhost /\ moving' = "none"
  /\ UNCHANGED <<picks, outside>>

Dock == dock' = ~dock /\ UNCHANGED <<modes, paint, picks, modals, town>>

Chat     == /\ modals' = IF "chat" \in modals THEN modals \ {"chat"} ELSE modals \cup {"chat"}
            /\ UNCHANGED <<modes, paint, picks, dock, town>>
Research == /\ "chat" \notin modals
            /\ modals' = IF "research" \in modals THEN modals \ {"research"} ELSE modals \cup {"research"}
            /\ UNCHANGED <<modes, paint, picks, dock, town>>
Social   == /\ modals' = IF "social" \in modals THEN modals \ {"social"} ELSE modals \cup {"social"}
            /\ UNCHANGED <<modes, paint, picks, dock, town>>

(* ------------------------------ the confirm bar ------------------------ *)

Confirm == /\ ghost # NoGhost            \* sends Place, or RelocateFacing
           /\ armed' = "none" /\ moving' = "none" /\ ghost' = NoGhost
           /\ UNCHANGED <<road, paint, picks, outside>>
Cancel  == Confirm                       \* sends nothing
Turn    == /\ ghost # NoGhost
           /\ ghost' = [ghost EXCEPT !.facing = (@ + 1) % 4]
           /\ UNCHANGED <<armed, moving, road, paint, picks, outside>>

(* -------------------------------- a click ------------------------------ *)

\* The drop of a ghost on a tile the sim would allow; the heading of the last drop is kept.
Dropped ==
  IF moving # "none"
    THEN /\ moving \in town.houses
         /\ \E now \in 0 .. 3 :           \* the building's own heading, for a first drop
              ghost' = [kind |-> moving, moves |-> moving, facing |-> IF ghost # NoGhost THEN ghost.facing ELSE now]
    ELSE ghost' = [kind |-> armed, moves |-> "none", facing |-> ghost.facing]

\* resolve_world_click: what is near the point clicked, and is it nearer than the building there.
Resolve ==
  \/ \E p \in town.folk : person' = Toggled(person, p) /\ UNCHANGED chosen
  \/ \E b \in town.houses \cup {"none"} :
       IF person # "none" /\ (b = "none" \/ b \in Crewed)
         THEN UNCHANGED picks             \* sends Bury, ChopTile or MoveSurvivor; AssignSurvivor
         ELSE person' = "none" /\ chosen' = b

Click ==
  /\ ~Blocked("mouse") /\ town.runs /\ ~Active
  /\ IF moving # "none" \/ armed # "none"
       THEN Dropped /\ UNCHANGED picks
       ELSE Resolve /\ UNCHANGED ghost
  /\ UNCHANGED <<armed, moving, road, paint, outside>>

\* touch_control's release; a tap beyond the edge of the map lets go of what is selected.
Tap ==
  /\ ~Blocked("finger") /\ ~dragging /\ town.runs
  /\ \/ (moving # "none" \/ armed # "none") /\ Dropped /\ UNCHANGED picks
     \/ moving = "none" /\ armed = "none" /\ Resolve /\ UNCHANGED ghost
     \/ armed = "none" /\ chosen' = "none" /\ person' = "none" /\ UNCHANGED ghost
  /\ ~Active            \* with the road tool armed the press began a stroke
  /\ UNCHANGED <<armed, moving, road, paint, outside>>

(* -------------------------------- a stroke ----------------------------- *)

Sign(a, b) == IF a < b THEN 1 ELSE -1
Gap(a, b)  == IF a < b THEN b - a ELSE a - b

\* line_tiles: Bresenham's line, both ends included; it steps along its longer side.
LineTiles(a, b) ==
  LET dx == Gap(a[1], b[1])
      dy == - Gap(a[2], b[2])
      longer == IF dx < -dy THEN -dy ELSE dx
      pen[k \in 0 .. longer] ==
        IF k = 0 THEN <<a[1], a[2], dx + dy>>
        ELSE LET x == pen[k - 1][1]
                 y == pen[k - 1][2]
                 err == pen[k - 1][3]
                 goX == 2 * err >= dy
                 goY == 2 * err <= dx
             IN  <<IF goX THEN x + Sign(a[1], b[1]) ELSE x,
                   IF goY THEN y + Sign(a[2], b[2]) ELSE y,
                   err + (IF goX THEN dy ELSE 0) + (IF goY THEN dx ELSE 0)>>
  IN  [k \in 1 .. longer + 1 |-> <<pen[k - 1][1], pen[k - 1][2]>>]

\* The stroke after the pointer is seen at a tile: the line from where it was last.
Painted(stroke, to) ==
  LET line == LineTiles(IF stroke = <<>> THEN to ELSE stroke[Len(stroke)], to)
      done[k \in 0 .. Len(line)] ==
        IF k = 0 THEN stroke
        ELSE IF Len(done[k - 1]) >= MaxRoad \/ line[k] \in Range(done[k - 1]) THEN done[k - 1]
             ELSE Append(done[k - 1], line[k])
  IN  done[Len(line)]

\* The first frame of a press, a mouse's or a finger's, over a tile or beyond the map.
Press ==
  /\ Active
  /\ \/ ~Blocked("mouse") /\ town.runs
     \/ ~Blocked("finger")
  /\ \/ \E t \in Grid : tiles' = Painted(<<>>, t)
     \/ tiles' = <<>>
  /\ dragging' = TRUE /\ erasing' = (road = "Erase")
  /\ UNCHANGED <<modes, picks, outside>>

Drag ==
  /\ Active /\ dragging
  /\ \/ ~Blocked("mouse") /\ town.runs
     \/ ~Blocked("finger")
  /\ \E t \in Grid : tiles' = Painted(tiles, t)
  /\ UNCHANGED <<dragging, erasing, modes, picks, outside>>

\* A mouse's release is only seen while its tool is armed and the game runs; a finger's, or
\* the loss of its gesture, whenever the input is not held back.
Release ==
  /\ dragging
  /\ \/ ~Blocked("mouse") /\ Active /\ town.runs
     \/ ~Blocked("finger")
  /\ dragging' = FALSE
  /\ UNCHANGED <<tiles, erasing, modes, picks, outside>>

RoadConfirm == /\ ~dragging /\ tiles # <<>>      \* sends BuildRoad or RemoveRoad; the tool stays armed
               /\ Wiped /\ UNCHANGED <<modes, picks, outside>>

(* ------------------------------ the panels ----------------------------- *)

Demolish == /\ chosen # "none" /\ chosen' = "none"
            /\ UNCHANGED <<person, modes, paint, outside>>
Relocate == /\ chosen # "none" /\ moving' = chosen
            /\ UNCHANGED <<armed, ghost, road, paint, picks, outside>>

RosterRow == /\ \E p \in town.folk : person' = Toggled(person, p)
             /\ UNCHANGED <<chosen, modes, paint, outside>>
CloseCard == /\ person # "none" /\ person' = "none"   \* Unassign's buttons let go of the survivor too
             /\ UNCHANGED <<chosen, modes, paint, outside>>
AssignHere == /\ chosen \in Crewed /\ person # "none" /\ person' = "none"
              /\ UNCHANGED <<chosen, modes, paint, outside>>

(* ------------------------------ the snapshot --------------------------- *)

\* selection_panel_update and update_card drop what the snapshot no longer has.
Kept(held, there) == IF held \in there THEN held ELSE "none"
Snapshot ==
  /\ \E h \in SUBSET town.houses, f \in SUBSET town.folk, r \in {TRUE, town.runs} :
       /\ town' = [houses |-> h, folk |-> f, runs |-> r]
       /\ chosen' = Kept(chosen, h) /\ person' = Kept(person, f)
  /\ UNCHANGED <<modes, paint, dock, modals>>

\* Leaving the game; the dock is left as it is.
PutAway ==
  /\ armed' = "none" /\ moving' = "none" /\ ghost' = NoGhost /\ road' = "Off"
  /\ tiles' = <<>> /\ dragging' = FALSE /\ erasing' = FALSE
  /\ chosen' = "none" /\ person' = "none" /\ modals' = {}
  /\ town' = [houses |-> Houses, folk |-> Folk, runs |-> TRUE] /\ UNCHANGED dock

ToolsNext == \/ Hotkey \/ Escape \/ RightClick \/ BuildButton \/ RoadTool \/ Dock
             \/ Chat \/ Research \/ Social
             \/ Confirm \/ Cancel \/ Turn \/ Click \/ Tap \/ Press \/ Drag \/ Release \/ RoadConfirm
             \/ Demolish \/ Relocate \/ RosterRow \/ CloseCard \/ AssignHere \/ Snapshot \/ PutAway

ToolsSpec == ToolsInit /\ [][ToolsNext]_toolsVars

(* ------------------------------ properties ----------------------------- *)

\* What the confirm bar would commit is what the tool in hand stands for: never a ghost left
\* by a tool put away or changed since (buildbar.rs:69, input.rs:374).
GhostOfItsTool ==
  ghost # NoGhost => IF ghost.moves = "none" THEN armed = ghost.kind ELSE moving = ghost.moves

\* A stroke on the ground is the armed road tool's, laid by the one that paints and torn up
\* by the one that erases, through switches of tool in the middle of a drag (roads.rs:60).
StrokeOfItsTool == tiles # <<>> => Active /\ (erasing <=> road = "Erase")

\* A stroke has no gap however far the pointer jumps between two frames: with wood for only
\* part of it, what the server lays is one road (roads.rs:89, roads.rs:52).
StrokeUnbroken ==
  \A i \in 2 .. Len(tiles) :
     \E j \in 1 .. i - 1 : Gap(tiles[i][1], tiles[j][1]) <= 1 /\ Gap(tiles[i][2], tiles[j][2]) <= 1

\* What one press of the confirm bar commits is what the player sees in hand: the ghost and
\* the stroke of the tool that is armed, and a stroke the server can lay as one road.
ToolsHold == GhostOfItsTool /\ StrokeOfItsTool /\ StrokeUnbroken
====================================================================================
