------------------------------- MODULE TownProofs -------------------------------
(***************************************************************************)
(* What holds of every personal world, whatever its calendar, its goals,   *)
(* its prices, its size and its terrain.                                    *)
(*                                                                         *)
(* Of the ground: buildings never share a tile, each stands on ground of   *)
(* its kind, roads run over open ground, and a wood has trees.  None of    *)
(* these is inductive alone: a room placed on open ground stays there      *)
(* because open ground never turns into anything else, which needs that    *)
(* only woods change, which needs the shape of tiles and rooms.            *)
(*                                                                         *)
(* Of the books: what is in store was credited for, and what was credited  *)
(* the land has lost, but for a log per person and felled wood.  Every     *)
(* action is weighed alone: what it takes from the store, what it adds to  *)
(* what rooms and roads would give back, what it leaves in hands.          *)
(*                                                                         *)
(* Of the days: nothing outstays its deadline, there is always something   *)
(* to aim at, and the Tunnel is the way out that Graduation describes.     *)
(* A tick is one action of many phases, so a lemma says of each what it    *)
(* leaves alone and which deadlines it has seen to; the tick is their      *)
(* composition.                                                            *)
(*                                                                         *)
(* Of the people: who has a bunk every night is never tired, and nobody    *)
(* goes hungry past a pot that would feed him.  Fatigue has no bound that  *)
(* every step keeps, so the invariant gives one for each hour of the day:  *)
(* what the hardest shift puts on since dawn, less what a bunk takes off   *)
(* since dusk.                                                             *)
(***************************************************************************)
EXTENDS Town, Land, Needs, Counting, FiniteSetTheorems, TLAPS

(* The ground *)

Kind == DOMAIN Cost
Site == [kind : Kind, at : Tile, level : Int, bench : Int, left : Int]

\* The shape the proofs need of the tiles, the rooms and the people.
Shape ==
  /\ terrain \in [Tile -> {"Snow", "Forest", "Coal"}]
  /\ deposit \in [Tile -> Nat]
  /\ road \in [Tile -> BOOLEAN]
  /\ rooms \in [DOMAIN rooms -> Site]
  /\ Furnace \in DOMAIN rooms /\ rooms[Furnace].kind = "Furnace"
  /\ nextId \in Nat \ {0}
  /\ \A b \in DOMAIN rooms : b \in Int /\ b < nextId
  /\ IsFiniteSet(Living)

IInv == Shape /\ FootprintsApart /\ GroundHolds /\ ForestHasTimber

\* The buildings stand where they stood, as what they were.
Standing ==
  /\ DOMAIN rooms' = DOMAIN rooms
  /\ \A b \in DOMAIN rooms : rooms'[b].kind = rooms[b].kind /\ rooms'[b].at = rooms[b].at

\* Only woods change, and into open ground.
Yielding == \A t \in Tile : \/ terrain'[t] = terrain[t]
                            \/ terrain[t] = "Forest" /\ terrain'[t] = "Snow"

\* An empty map with no buildings satisfies the invariant.
LEMMA Init_IInv == ASSUME Init PROVE IInv
<1> USE LandAssumption
<1>1. Shape
  BY DEF Init, Shape, Site, Kind, Furnace, Living, Tile
<1>2. FootprintsApart
  BY DEF Init, FootprintsApart, Furnace
<1>3. GroundHolds
  <2>1. \A b \in DOMAIN rooms : b = Furnace /\ rooms[b].kind = "Furnace" /\ rooms[b].at = FurnaceAt
    BY DEF Init
  <2>2. \A t \in Tile : t \in Foot("Furnace", FurnaceAt) => terrain[t] = "Snow"
    BY DEF Init, Foot
  <2>3. \A t \in Tile : ~road[t]
    BY DEF Init
  <2> QED BY <2>1, <2>2, <2>3 DEF GroundHolds, Under, FitGround
<1>4. ForestHasTimber
  BY DEF Init, ForestHasTimber
<1> QED BY <1>1, <1>2, <1>3, <1>4 DEF IInv

\* What stands on its ground stays on it while rooms stand, woods give way and roads lie still.
LEMMA StandingHolds ==
  ASSUME IInv, Standing, Yielding, road' = road
  PROVE  FootprintsApart' /\ GroundHolds'
<1>1. \A b \in DOMAIN rooms : Under(b)' = Under(b)
  BY DEF Standing, Under, Foot, Tile
<1>2. FootprintsApart'
  BY <1>1 DEF IInv, FootprintsApart, Standing
<1>3. \A b \in DOMAIN rooms, t \in Tile : t \in Under(b) => FitGround(rooms[b].kind, t)'
  BY DEF IInv, GroundHolds, FitGround, Yielding, Standing
<1>4. \A b \in DOMAIN rooms : Under(b) \subseteq Tile
  BY DEF Under, Foot
<1>5. ASSUME NEW b \in DOMAIN rooms, rooms'[b].kind = "CoalMine"
      PROVE  \E t \in Under(b) : terrain'[t] = "Coal"
  <2>1. PICK t \in Under(b) : terrain[t] = "Coal"
    BY <1>5 DEF IInv, GroundHolds, Standing
  <2> QED BY <1>4, <2>1 DEF Yielding
<1>6. \A t \in Tile : road'[t] => terrain'[t] = "Snow"
  BY DEF IInv, GroundHolds, Yielding
<1>7. DOMAIN rooms' = DOMAIN rooms /\ \A b \in DOMAIN rooms : rooms'[b].kind = rooms[b].kind
  BY DEF Standing
<1> QED BY <1>1, <1>2, <1>3, <1>5, <1>6, <1>7 DEF GroundHolds, FitGround

\* A step that leaves the tiles' terrain and roads, and every room's place, alone.
LEMMA StillHolds ==
  ASSUME IInv, terrain' = terrain, deposit' = deposit, road' = road, Standing,
         rooms' \in [DOMAIN rooms -> Site], nextId' = nextId, IsFiniteSet(Living')
  PROVE  IInv'
<1>1. FootprintsApart' /\ GroundHolds'
  BY StandingHolds DEF Yielding
<1>2. Shape'
  BY DEF IInv, Shape, Standing
<1>3. ForestHasTimber'
  BY DEF IInv, ForestHasTimber
<1> QED BY <1>1, <1>2, <1>3 DEF IInv

\* A step that builds and takes down nothing leaves every building standing where it was.
LEMMA SameRooms == ASSUME IInv, rooms' = rooms PROVE Standing /\ rooms' \in [DOMAIN rooms -> Site]
BY DEF IInv, Shape, Standing

\* A clear footprint keeps off every room but the ones ignored, and is of the right ground.
LEMMA ClearGround ==
  ASSUME NEW k \in Kind, NEW p \in Tile, NEW ignore, FootprintClear(k, p, ignore)
  PROVE  /\ \A b \in DOMAIN rooms \ ignore : Foot(k, p) \cap Under(b) = {}
         /\ \A t \in Tile : t \in Foot(k, p) => FitGround(k, t)
         /\ k = "CoalMine" => \E t \in Foot(k, p) : terrain[t] = "Coal"
BY DEF FootprintClear

\* Placing a building keeps the invariant.
LEMMA PlaceKeeps == ASSUME IInv, NEW k \in Rooms, NEW p \in Tile, Place(k, p) PROVE IInv'
<1> DEFINE new == [kind |-> k, at |-> p, level |-> 1, bench |-> 0, left |-> 1]
<1>1. /\ DOMAIN rooms' = DOMAIN rooms \cup {nextId} /\ nextId \notin DOMAIN rooms
      /\ rooms'[nextId] = new /\ \A b \in DOMAIN rooms : rooms'[b] = rooms[b]
  BY DEF Place, IInv, Shape
<1>2. terrain' = terrain /\ deposit' = deposit /\ road' = road /\ folk' = folk /\ nextId' = nextId + 1
  BY DEF Place, ground
<1>3. k \in Kind /\ new \in Site
  BY DEF Rooms, Kind, Site
<1>4. Shape'
  <2>1. rooms' \in [DOMAIN rooms' -> Site]
    BY <1>1, <1>3 DEF Place, IInv, Shape
  <2> QED BY <2>1, <1>1, <1>2 DEF IInv, Shape, Living, Furnace
<1>5. /\ \A b \in DOMAIN rooms : Under(b)' = Under(b)
      /\ \A b : b = nextId => Under(b)' = Foot(k, p)
  BY <1>1 DEF Under, Foot, Tile
<1>6. /\ \A b \in DOMAIN rooms : Foot(k, p) \cap Under(b) = {}
      /\ \A t \in Tile : t \in Foot(k, p) => FitGround(k, t)
      /\ k = "CoalMine" => \E t \in Foot(k, p) : terrain[t] = "Coal"
  <2>1. FootprintClear(k, p, {})
    BY DEF Place
  <2> QED BY <2>1, <1>3, ClearGround
<1>7. FootprintsApart'
  BY <1>1, <1>5, <1>6 DEF IInv, FootprintsApart
<1>8. GroundHolds'
  BY <1>1, <1>2, <1>5, <1>6 DEF IInv, GroundHolds, FitGround
<1>9. ForestHasTimber'
  BY <1>2 DEF IInv, ForestHasTimber
<1> QED BY <1>4, <1>7, <1>8, <1>9 DEF IInv

\* Taking a building down keeps the invariant.
LEMMA DemolishKeeps == ASSUME IInv, NEW b \in DOMAIN rooms, Demolish(b) PROVE IInv'
<1>1. /\ DOMAIN rooms' = DOMAIN rooms \ {b} /\ \A c \in DOMAIN rooms' : rooms'[c] = rooms[c]
      /\ b # Furnace
  BY DEF Demolish, Rooms, IInv, Shape
<1>2. terrain' = terrain /\ deposit' = deposit /\ road' = road /\ folk' = folk /\ nextId' = nextId
  BY DEF Demolish, ground
<1>3. Shape'
  <2>1. rooms' \in [DOMAIN rooms' -> Site]
    BY <1>1 DEF Demolish, IInv, Shape
  <2> QED BY <2>1, <1>1, <1>2 DEF IInv, Shape, Living, Furnace
<1>4. \A c \in DOMAIN rooms' : Under(c)' = Under(c)
  BY <1>1 DEF Under, Foot, Tile
<1>5. FootprintsApart'
  BY <1>1, <1>4 DEF IInv, FootprintsApart
<1>6. GroundHolds'
  BY <1>1, <1>2, <1>4 DEF IInv, GroundHolds, FitGround
<1> QED BY <1>2, <1>3, <1>5, <1>6 DEF IInv, ForestHasTimber

\* A room that moves keeps off the others; the ground it leaves is its own alone.
LEMMA RelocateKeeps == ASSUME IInv, NEW b \in DOMAIN rooms, NEW p \in Tile, Relocate(b, p) PROVE IInv'
<1> DEFINE k == rooms[b].kind
<1>1. /\ DOMAIN rooms' = DOMAIN rooms /\ \A c \in DOMAIN rooms : rooms'[c].kind = rooms[c].kind
      /\ rooms'[b].at = p /\ \A c \in DOMAIN rooms \ {b} : rooms'[c].at = rooms[c].at
      /\ rooms' \in [DOMAIN rooms -> Site]
  BY DEF Relocate, IInv, Shape, Site
<1>2. terrain' = terrain /\ deposit' = deposit /\ road' = road /\ folk' = folk /\ nextId' = nextId
  BY DEF Relocate, ground
<1>3. Shape'
  BY <1>1, <1>2 DEF IInv, Shape, Living
<1>4. /\ \A c \in DOMAIN rooms \ {b} : Under(c)' = Under(c)
      /\ Under(b)' = Foot(k, p)
  BY <1>1 DEF Under, Foot, Tile
<1>5. /\ \A c \in DOMAIN rooms \ {b} : Foot(k, p) \cap Under(c) = {}
      /\ \A t \in Tile : t \in Foot(k, p) => FitGround(k, t)
      /\ k = "CoalMine" => \E t \in Foot(k, p) : terrain[t] = "Coal"
  <2>1. FootprintClear(k, p, {b}) /\ k \in Kind
    BY DEF Relocate, CanRelocate, IInv, Shape, Site
  <2> QED BY <2>1, ClearGround
<1>6. FootprintsApart'
  BY <1>1, <1>4, <1>5 DEF IInv, FootprintsApart
<1>7. GroundHolds'
  BY <1>1, <1>2, <1>4, <1>5 DEF IInv, GroundHolds, FitGround
<1> QED BY <1>2, <1>3, <1>6, <1>7 DEF IInv, ForestHasTimber

\* The commands that alter a room in place, and those that alter none.
LEMMA InPlaceKeeps ==
  ASSUME IInv, NEW b \in DOMAIN rooms, RotateBuilding(b) \/ UpgradeBuilding(b) \/ UpgradeFurnishing(b)
  PROVE  IInv'
<1>1. terrain' = terrain /\ deposit' = deposit /\ road' = road /\ nextId' = nextId /\ folk' = folk
  BY DEF RotateBuilding, UpgradeBuilding, UpgradeFurnishing, ground
<1>2. Standing /\ rooms' \in [DOMAIN rooms -> Site]
  <2>0. rooms \in [DOMAIN rooms -> Site]
    BY DEF IInv, Shape
  <2>1. CASE RotateBuilding(b)
    BY <2>0, <2>1 DEF RotateBuilding, Standing, Site
  <2>2. CASE UpgradeBuilding(b)
    <3> DEFINE l == rooms[b].level + 1
               up == [kind |-> rooms[b].kind, at |-> rooms[b].at, level |-> l,
                      bench |-> rooms[b].bench, left |-> 1]
    <3>1. rooms' = [rooms EXCEPT ![b] = up]
      BY <2>0, <2>2 DEF UpgradeBuilding, Site
    <3>2. up \in Site
      BY <2>0 DEF Site
    <3> QED BY <2>0, <3>1, <3>2 DEF Standing
  <2>3. CASE UpgradeFurnishing(b)
    BY <2>0, <2>3 DEF UpgradeFurnishing, Standing, Site
  <2> QED BY <2>1, <2>2, <2>3
<1>3. IsFiniteSet(Living')
  BY <1>1 DEF IInv, Shape, Living
<1> QED BY <1>1, <1>2, <1>3, StillHolds

\* The orders of people - postings, walks, axes, shovels, the furnace - touch no ground and no building.
LEMMA PeopleKeep ==
  ASSUME IInv, \/ \E s \in Living, here \in BOOLEAN : AssignSurvivor(s, here)
               \/ LetGo
               \/ \E s \in Living : MoveSurvivor(s) \/ Leave(s)
               \/ \E s \in Living, t \in Tile : ChopTile(s, t) \/ ClearSnow(s, t)
               \/ \E l \in 0..MaxBurn : SetFurnaceLevel(l)
  PROVE  IInv'
<1>1. terrain' = terrain /\ deposit' = deposit /\ road' = road /\ nextId' = nextId /\ rooms' = rooms
  BY DEF AssignSurvivor, LetGo, MoveSurvivor, Leave, ChopTile, ClearSnow, SetFurnaceLevel, Sent, ground
<1>2. DOMAIN folk' \subseteq DOMAIN folk
  BY DEF AssignSurvivor, LetGo, MoveSurvivor, Leave, ChopTile, ClearSnow, SetFurnaceLevel, Sent, Living
<1>3. IsFiniteSet(Living')
  BY <1>2, FS_Subset DEF IInv, Shape, Living
<1> QED BY <1>1, <1>3, SameRooms, StillHolds

\* A road is laid where no building stands, and only there; nothing else of the tiles moves.
LEMMA RoadsKeep ==
  ASSUME IInv, NEW drag \in Drags, BuildRoad(drag) \/ RemoveRoad(drag)
  PROVE  IInv'
<1>1. terrain' = terrain /\ deposit' = deposit /\ nextId' = nextId /\ rooms' = rooms /\ folk' = folk
  BY DEF BuildRoad, RemoveRoad
<1>2. road' \in [Tile -> BOOLEAN] /\ \A t \in Tile : road'[t] => terrain[t] = "Snow"
  <2>1. CASE BuildRoad(drag)
    <3>1. \A i \in DOMAIN drag : CanLayRoad(drag[i]) => terrain[drag[i]] = "Snow"
      BY DEF CanLayRoad
    <3> QED BY <2>1, <3>1 DEF BuildRoad, IInv, GroundHolds, Shape
  <2>2. CASE RemoveRoad(drag)
    BY <2>2 DEF RemoveRoad, IInv, GroundHolds, Shape
  <2> QED BY <2>1, <2>2
<1>3. Standing
  BY SameRooms, <1>1
<1>4. FootprintsApart'
  BY <1>1 DEF IInv, FootprintsApart, Under, Foot, Tile
<1>5. GroundHolds'
  BY <1>1, <1>2 DEF IInv, GroundHolds, FitGround, Under, Foot, Tile
<1> QED BY <1>1, <1>2, <1>4, <1>5 DEF IInv, Shape, ForestHasTimber, Living

\* A crew's unit is drawn from a tile that has one.
LEMMA YieldsAreThere ==
  ASSUME IInv, NEW b \in DOMAIN rooms, NEW t \in Yields(b)
  PROVE  t \in Tile /\ deposit[t] \in Nat /\ deposit[t] > 0 /\ terrain[t] # "Snow"
<1>1. t \in Nearest(Land, rooms[b].at) \/ t \in Richest(b)
  BY DEF Yields
<1>2. t \in Timber(Land) \/ t \in Seams(b)
  BY <1>1 DEF Nearest, Richest
<1>3. t \in Tile /\ deposit[t] > 0 /\ terrain[t] # "Snow"
  BY <1>2 DEF Timber, Land, Seams, Under, Foot
<1> QED BY <1>3 DEF IInv, Shape

\* A tick's crew leaves every room where it is, whatever it finishes.
LEMMA WorksStand ==
  ASSUME IInv, NEW b \in DOMAIN rooms \cup {-1}, NEW work \in Works(b)
  PROVE  /\ work.rooms \in [DOMAIN rooms -> Site]
         /\ \A c \in DOMAIN rooms : work.rooms[c].kind = rooms[c].kind /\ work.rooms[c].at = rooms[c].at
         /\ \/ work.from = Nowhere
            \/ work.from \in Tile /\ deposit[work.from] \in Nat \ {0} /\ terrain[work.from] # "Snow"
<1>0. rooms \in [DOMAIN rooms -> Site]
  BY DEF IInv, Shape
<1>1. CASE work = [rooms |-> rooms, from |-> Nowhere]
  BY <1>0, <1>1
<1>2. CASE b \in DOMAIN rooms /\ work = [rooms |-> Finished(b), from |-> Nowhere]
  BY <1>0, <1>2 DEF Finished, Site
<1>3. CASE b \in DOMAIN rooms /\ \E t \in Yields(b) : work = [rooms |-> rooms, from |-> t]
  BY <1>0, <1>3, YieldsAreThere
<1> QED BY <1>1, <1>2, <1>3 DEF Works

\* The tiles' part of the invariant, of a land that may be between two of them.
Wooded(land) ==
  /\ land.terrain \in [Tile -> {"Snow", "Forest", "Coal"}] /\ land.deposit \in [Tile -> Nat]
  /\ \A t \in Tile : /\ land.terrain[t] = "Forest" => land.deposit[t] > 0
                     /\ land.terrain[t] = "Snow" => land.deposit[t] = 0

Gives(land, later) == \A t \in Tile : \/ later.terrain[t] = land.terrain[t]
                                      \/ land.terrain[t] = "Forest" /\ later.terrain[t] = "Snow"

\* One log taken from a tile that has one leaves a wooded land.
LEMMA DrawnHolds ==
  ASSUME IInv, NEW t,
         t = Nowhere \/ (t \in Tile /\ deposit[t] \in Nat \ {0} /\ terrain[t] # "Snow")
  PROVE  Wooded(Drawn(t)) /\ Gives(Land, Drawn(t))
<1>1. Wooded(Land)
  BY DEF IInv, Shape, ForestHasTimber, Wooded, Land
<1>2. CASE t = Nowhere
  BY <1>1, <1>2 DEF Drawn, Gives
<1>3. CASE t # Nowhere
  <2>1. /\ Drawn(t).deposit = [deposit EXCEPT ![t] = @ - 1]
        /\ Drawn(t).terrain = IF terrain[t] = "Forest" /\ deposit[t] = 1
                              THEN [terrain EXCEPT ![t] = "Snow"] ELSE terrain
    BY <1>3 DEF Drawn
  <2>2. deposit \in [Tile -> Nat] /\ terrain \in [Tile -> {"Snow", "Forest", "Coal"}]
    BY DEF IInv, Shape
  <2> QED BY <1>1, <1>3, <2>1, <2>2 DEF Wooded, Gives, Land
<1> QED BY <1>2, <1>3

\* A tick's strokes, however many axes fall on one tile, leave a wooded land.
LEMMA FelledHolds ==
  ASSUME IInv, NEW land, Wooded(land), NEW there \in SUBSET Living
  PROVE  Wooded(Felled(there, land)) /\ Gives(land, Felled(there, land))
<1> DEFINE who(t)   == {s \in there : Fells(s) /\ folk[s].chop = t}
           struck   == {t \in Timber(land) : \E s \in there : Fells(s) /\ folk[s].chop = t}
           bare     == {t \in struck : land.deposit[t] <= Cardinality(who(t))}
           dep      == [t \in Tile |-> IF t \in bare THEN 0
                          ELSE IF t \in struck THEN land.deposit[t] - Cardinality(who(t)) ELSE land.deposit[t]]
           ter      == [t \in Tile |-> IF t \in bare THEN "Snow" ELSE land.terrain[t]]
<1>1. \A t : Cardinality(who(t)) \in Nat
  <2>1. \A t : IsFiniteSet(who(t))
    BY FS_Subset DEF IInv, Shape
  <2> QED BY <2>1, FS_CardinalityType
<1>2. Felled(there, land) = [deposit |-> dep, terrain |-> ter]
  BY DEF Felled
<1>3. \A t \in struck : t \in Tile /\ land.terrain[t] = "Forest"
  BY DEF Timber
<1> HIDE DEF who
<1>4. dep \in [Tile -> Nat] /\ \A t \in Tile : ter[t] = "Forest" => dep[t] > 0
  BY <1>1, <1>3 DEF Wooded
<1>5. ter \in [Tile -> {"Snow", "Forest", "Coal"}] /\ \A t \in Tile : ter[t] = "Snow" => dep[t] = 0
  BY <1>3 DEF Wooded
<1>6. \A t \in Tile : ter[t] = land.terrain[t] \/ (land.terrain[t] = "Forest" /\ ter[t] = "Snow")
  BY <1>3
<1> HIDE DEF dep, ter
<1> QED BY <1>2, <1>4, <1>5, <1>6 DEF Wooded, Gives

\* A tick fells, mines, builds and walks; it moves no room and opens only woods.
LEMMA TickKeeps ==
  ASSUME IInv, NEW b \in DOMAIN rooms \cup {-1}, NEW there \in SUBSET Living, Tick(b, there)
  PROVE  IInv'
<1> DEFINE brought == Cardinality({s \in there : Brings(s)})
           rest(w) == w.rooms[Furnace].left - brought
           moved(tree) == [s \in Living |-> Step(s, s \in there, tree)]
<1>0. PICK work \in Works(b) :
        \E done, deep, tree : Turn(there, work, done, deep, Felled(there, Drawn(work.from)), tree)
  BY DEF Tick
<1>1. PICK tree :
        /\ deposit' = Felled(there, Drawn(work.from)).deposit
        /\ terrain' = Felled(there, Drawn(work.from)).terrain
        /\ \/ rooms' = work.rooms
           \/ rooms' = [work.rooms EXCEPT ![Furnace].left = IF rest(work) > 0 THEN rest(work) ELSE 0]
        /\ folk' = Relieved(moved(tree)) \/ folk' = moved(tree)
        /\ road' = road /\ nextId' = nextId
  <2>1. PICK done, deep, tree : Turn(there, work, done, deep, Felled(there, Drawn(work.from)), tree)
    BY <1>0
  <2>2. /\ deposit' = Felled(there, Drawn(work.from)).deposit
        /\ terrain' = Felled(there, Drawn(work.from)).terrain
        /\ folk' = Relieved(moved(tree)) \/ folk' = moved(tree)
        /\ road' = road /\ nextId' = nextId
    BY <2>1 DEF Turn
  <2>3. \/ rooms' = work.rooms
        \/ rooms' = [work.rooms EXCEPT ![Furnace].left = IF rest(work) > 0 THEN rest(work) ELSE 0]
    BY <2>1 DEF Turn
  <2> QED BY <2>2, <2>3
<1> DEFINE land == Drawn(work.from)
<1>2. /\ work.rooms \in [DOMAIN rooms -> Site]
      /\ \A c \in DOMAIN rooms : work.rooms[c].kind = rooms[c].kind /\ work.rooms[c].at = rooms[c].at
      /\ Wooded(land) /\ Gives(Land, land)
  BY WorksStand, DrawnHolds
<1>3. Wooded(Felled(there, land)) /\ Gives(land, Felled(there, land))
  BY <1>2, FelledHolds
<1>4. Yielding /\ ForestHasTimber' /\ terrain' \in [Tile -> {"Snow", "Forest", "Coal"}]
      /\ deposit' \in [Tile -> Nat]
  <2> HIDE DEF land
  <2>1. deposit' = Felled(there, land).deposit /\ terrain' = Felled(there, land).terrain
    BY <1>1 DEF land
  <2>2. Wooded(Felled(there, land)) /\ Gives(land, Felled(there, land)) /\ Gives(Land, land)
    BY <1>2, <1>3
  <2>3. ForestHasTimber' /\ terrain' \in [Tile -> {"Snow", "Forest", "Coal"}] /\ deposit' \in [Tile -> Nat]
    BY <2>1, <2>2 DEF Wooded, ForestHasTimber, Tile
  <2>4. Yielding
    BY <2>1, <2>2 DEF Gives, Yielding, Land
  <2> QED BY <2>3, <2>4
<1>5. Standing /\ rooms' \in [DOMAIN rooms -> Site]
  <2>1. brought \in Nat
    BY FS_Subset, FS_CardinalityType DEF IInv, Shape
  <2>2. CASE rooms' = work.rooms
    BY <1>2, <2>2 DEF Standing
  <2>3. CASE rooms' = [work.rooms EXCEPT ![Furnace].left = IF rest(work) > 0 THEN rest(work) ELSE 0]
    <3>1. work.rooms[Furnace].left \in Int /\ Furnace \in DOMAIN rooms
      BY <1>2 DEF IInv, Shape, Site
    <3>2. rest(work) \in Int
      BY <2>1, <3>1
    <3> HIDE DEF rest
    <3> QED BY <1>2, <2>3, <3>1, <3>2 DEF Standing, Site
  <2> QED BY <1>1, <2>2, <2>3
<1>6. IsFiniteSet(Living')
  BY <1>1 DEF IInv, Shape, Living, Relieved
<1>7. FootprintsApart' /\ GroundHolds'
  BY <1>1, <1>4, <1>5, StandingHolds
<1>8. Shape'
  BY <1>1, <1>4, <1>5, <1>6 DEF IInv, Shape, Standing
<1> QED BY <1>4, <1>7, <1>8 DEF IInv

\* Every step keeps the invariant.
LEMMA Next_IInv == ASSUME IInv, [Next]_vars PROVE IInv'
<1>1. CASE Command
  <2>1. CASE \E k \in Rooms, p \in Tile : Place(k, p)
    BY <2>1, PlaceKeeps
  <2>2. CASE \E b \in DOMAIN rooms : Demolish(b)
    BY <2>2, DemolishKeeps
  <2>3. CASE \E b \in DOMAIN rooms : RotateBuilding(b) \/ UpgradeBuilding(b) \/ UpgradeFurnishing(b)
    BY <2>3, InPlaceKeeps
  <2>4. CASE \E b \in DOMAIN rooms, p \in Tile : Relocate(b, p)
    BY <2>4, RelocateKeeps
  <2>5. CASE \E drag \in Drags : BuildRoad(drag) \/ RemoveRoad(drag)
    BY <2>5, RoadsKeep
  <2>6. CASE \/ \E s \in Living, here \in BOOLEAN : AssignSurvivor(s, here)
             \/ LetGo
             \/ \E s \in Living : MoveSurvivor(s)
             \/ \E s \in Living, t \in Tile : ChopTile(s, t) \/ ClearSnow(s, t)
             \/ \E l \in 0..MaxBurn : SetFurnaceLevel(l)
    BY <2>6, PeopleKeep
  <2> QED BY <1>1, <2>1, <2>2, <2>3, <2>4, <2>5, <2>6 DEF Command
<1>2. CASE \E s \in Living : Leave(s)
  BY <1>2, PeopleKeep
<1>3. CASE \E b \in DOMAIN rooms \cup {-1}, there \in SUBSET {s \in Living : Going(s)} : Tick(b, there)
  BY <1>3, TickKeeps
<1>4. CASE UNCHANGED vars
  <2>1. terrain' = terrain /\ deposit' = deposit /\ road' = road /\ rooms' = rooms /\ nextId' = nextId /\ folk' = folk
    BY <1>4 DEF vars, ground
  <2> QED BY <2>1, SameRooms, StillHolds DEF IInv, Shape, Living
<1> QED BY <1>1, <1>2, <1>3, <1>4 DEF Next

\* The invariant holds of every reachable state, on maps of every size.
THEOREM GroundInductive == Spec => []IInv
<1>1. Init => IInv
  BY Init_IInv
<1>2. IInv /\ [Next]_vars => IInv'
  BY Next_IInv
<1> QED BY <1>1, <1>2, PTL DEF Spec

\* No two buildings ever share a tile, however they are placed and moved about.
THEOREM FootprintsNeverMeet == Spec => []FootprintsApart
<1>1. IInv => FootprintsApart
  BY DEF IInv
<1> QED BY <1>1, GroundInductive, PTL

\* Every building and every road keeps the ground it was allowed on, and the mill, the errand and
\* the axe leave no bare wood and no trees on open ground.
THEOREM GroundNeverGivesWay == Spec => []LandHolds
<1>1. IInv => LandHolds
  BY DEF IInv, LandHolds
<1> QED BY <1>1, GroundInductive, PTL

-----------------------------------------------------------------------------
(* The books *)

\* A product of naturals is one, and grows with either.
LEMMA Grows ==
  ASSUME NEW a \in Nat, NEW b \in Nat, NEW c \in Nat, b <= c
  PROVE  /\ a * b \in Nat /\ b * a = a * b /\ a * b <= a * c
<1>1. PICK d \in Nat : c = b + d
  <2>1. c - b \in Nat /\ c = b + (c - b)
    OBVIOUS
  <2> QED BY <2>1
<1>2. a * d \in Nat /\ a * b \in Nat
  OBVIOUS
<1>3. a * (b + d) = a * b + a * d
  OBVIOUS
<1> QED BY <1>1, <1>2, <1>3

\* What the assumptions say of each constant.
LEMMA Constants ==
  /\ BenchCost \in Nat /\ RoadCost \in Nat /\ RefundPct \in Nat /\ BonusPct \in Nat /\ MaxBench \in Nat
  /\ FuelPenalty \in Nat /\ SnowMax \in Nat /\ Wood0 \in Nat /\ Logs \in Nat \ {0} /\ Deposit0 \in Nat \ {0}
  /\ MaxLevel \in Nat \ {0} /\ MaxBurn \in Nat \ {0} /\ DiscountPct \in 0..100 /\ RefundPct <= 100
  /\ W \in Nat \ {0} /\ H \in Nat \ {0}
  /\ \A k \in Kind : Cost[k] \in Nat
BY LandAssumption, PriceAssumption DEF Kind

\* A level makes a room no worse, and the last level is the best.
LEMMA FactorIs ==
  ASSUME NEW l \in 1..MaxLevel
  PROVE  /\ LevelFactor(l) \in Nat /\ 100 <= LevelFactor(l) /\ LevelFactor(l) <= LevelFactor(MaxLevel)
         /\ LevelFactor(MaxLevel) \in Nat /\ LevelFactor(l + 1) = LevelFactor(l) + BonusPct
<1>1. BonusPct \in Nat /\ MaxLevel \in Nat
  BY Constants
<1>2. l - 1 \in Nat /\ MaxLevel - 1 \in Nat /\ l - 1 <= MaxLevel - 1 /\ l \in Nat
  BY <1>1
<1>3. BonusPct * (l - 1) \in Nat /\ BonusPct * (l - 1) <= BonusPct * (MaxLevel - 1)
      /\ BonusPct * (MaxLevel - 1) \in Nat
  BY <1>1, <1>2, Grows
<1>4. BonusPct * (l + 1 - 1) = BonusPct * (l - 1) + BonusPct
  BY <1>1, <1>2
<1> QED BY <1>3, <1>4, <1>1 DEF LevelFactor

\* What tearing a room down gives back.
LEMMA RefundIs ==
  ASSUME NEW k \in Kind, NEW l \in 1..MaxLevel
  PROVE  /\ Refund(k, l) \in Nat
         /\ Refund(k, l + 1) = Refund(k, l) + Cost[k] * (RefundPct * BonusPct)
<1>1. Cost[k] \in Nat /\ RefundPct \in Nat /\ BonusPct \in Nat
  BY Constants
<1>2. LevelFactor(l) \in Nat /\ LevelFactor(l + 1) = LevelFactor(l) + BonusPct
  BY FactorIs
<1>3. \A c, r, f, b \in Nat : c * r * f \in Nat /\ c * r * (f + b) = c * r * f + c * (r * b)
  OBVIOUS
<1> QED BY <1>1, <1>2, <1>3 DEF Refund

\* Whatever the discount, a new room costs what it would give back at least, and its full price at most.
LEMMA RoomPriceIs ==
  ASSUME NEW k \in Kind, NEW l \in 0..MaxLevel
  PROVE  /\ Price(k, l) \in Nat /\ Refund(k, 1) \in Nat
         /\ Refund(k, 1) <= Price(k, l) /\ Price(k, l) <= Cost[k] * Log
<1> DEFINE saved == (100 - DiscountPct) * LevelFactor(l)
           most  == (100 - DiscountPct) * LevelFactor(MaxLevel)
           rate  == IF l = 0 THEN 10000 ELSE IF saved > 9000 THEN 1000 ELSE 10000 - saved
<1>1. Cost[k] \in Nat /\ RefundPct \in Nat /\ RefundPct <= 100 /\ MaxLevel \in Nat \ {0}
      /\ 100 - DiscountPct \in Nat
  BY Constants
<1>2. l # 0 => saved \in Nat /\ saved <= most
  <2> SUFFICES ASSUME l # 0 PROVE saved \in Nat /\ saved <= most
    OBVIOUS
  <2>1. l \in 1..MaxLevel
    BY <1>1
  <2>2. LevelFactor(l) \in Nat /\ LevelFactor(MaxLevel) \in Nat /\ LevelFactor(l) <= LevelFactor(MaxLevel)
    BY <2>1, FactorIs
  <2> QED BY <2>2, <1>1, Grows
<1>3. most + RefundPct * 100 <= 10000
  BY PriceAssumption DEF Log
<1>4. most \in Nat
  <2>1. LevelFactor(MaxLevel) \in Nat
    BY FactorIs, <1>1
  <2> QED BY <2>1, <1>1, Grows
<1>5. rate \in Nat /\ RefundPct * 100 \in Nat /\ RefundPct * 100 <= rate /\ rate <= 10000
  <2> HIDE DEF saved, most
  <2> QED BY <1>1, <1>2, <1>3, <1>4
<1>6. LevelFactor(1) = 100
  <2>1. BonusPct \in Nat
    BY Constants
  <2> QED BY <2>1 DEF LevelFactor
<1>7. Refund(k, 1) = Cost[k] * (RefundPct * 100)
  BY <1>1, <1>6 DEF Refund
<1>8. Price(k, l) = Cost[k] * rate
  BY DEF Price
<1> HIDE DEF rate
<1>9. Cost[k] * (RefundPct * 100) \in Nat /\ Cost[k] * (RefundPct * 100) <= Cost[k] * rate
      /\ Cost[k] * rate \in Nat /\ Cost[k] * rate <= Cost[k] * 10000
  BY <1>1, <1>5, Grows
<1> QED BY <1>7, <1>8, <1>9 DEF Log

\* Raising a room costs no less than it adds to what the room would give back.
LEMMA RaisePays ==
  ASSUME NEW k \in Kind, NEW l \in 1..MaxLevel
  PROVE  /\ UpgradeCost(k, l + 1) \in Nat
         /\ Refund(k, l + 1) <= Refund(k, l) + UpgradeCost(k, l + 1)
<1>1. Cost[k] \in Nat /\ RefundPct * BonusPct \in Nat /\ l \in Nat /\ 2 <= l + 1
  <2>1. RefundPct \in Nat /\ BonusPct \in Nat /\ Cost[k] \in Nat /\ MaxLevel \in Nat
    BY Constants
  <2> QED BY <2>1
<1>2. Cost[k] * 2 <= Cost[k] * (l + 1) /\ Cost[k] * (l + 1) \in Nat
  BY <1>1, Grows
<1>3. \A n, m \in Nat : n * 2 <= m => n <= (m + 1) \div 2 /\ (m + 1) \div 2 \in Nat
  OBVIOUS
<1>4. Cost[k] <= (Cost[k] * (l + 1) + 1) \div 2 /\ (Cost[k] * (l + 1) + 1) \div 2 \in Nat
  BY <1>1, <1>2, <1>3
<1>5. Cost[k] * (RefundPct * BonusPct) <= Cost[k] * 10000 /\ Cost[k] * (RefundPct * BonusPct) \in Nat
  <2>1. RefundPct * BonusPct <= 10000
    BY PriceAssumption DEF Log
  <2> QED BY <2>1, <1>1, Grows
<1>6. UpgradeCost(k, l + 1) = ((Cost[k] * (l + 1) + 1) \div 2) * 10000
  BY DEF UpgradeCost, Log
<1>7. Refund(k, l) \in Nat /\ Refund(k, l + 1) = Refund(k, l) + Cost[k] * (RefundPct * BonusPct)
  BY RefundIs
<1>8. \A c, u, x, r \in Nat : c <= u /\ x <= c * 10000 => u * 10000 \in Nat /\ r + x <= r + u * 10000
  OBVIOUS
<1> QED BY <1>1, <1>4, <1>5, <1>6, <1>7, <1>8

Person == [walk : BOOLEAN, chop : Tile \cup {Nowhere}, carry : BOOLEAN, post : BOOLEAN]

\* What TypeOK says, in the parts that steps disturb one by one, and three facts it does not say:
\* nobody is there who was not at first, logs are counted, and a seam stays a seam.
RoomsFit  == \A b \in DOMAIN rooms : b \in 0..(nextId - 1) /\ rooms[b] \in Room
HearthFit == rooms[Furnace].at = FurnaceAt
StoresFit == wood \in Nat /\ coal \in Nat /\ burn \in 0..MaxBurn /\ lit \in BOOLEAN
SnowFits  == snow \in [Drifts -> 0..SnowMax]
FolkFit   == Living \subseteq People /\ \A s \in Living : folk[s] \in Person
OrdersFit == \A t \in DOMAIN orders : t \in Tile /\ orders[t] \in People
SeamsStay == gathered \in Nat /\ \A t \in Tile : terrain[t] = "Coal" <=> Terrain0[t] = "Coal"

Fit == RoomsFit /\ HearthFit /\ StoresFit /\ SnowFits /\ FolkFit /\ OrdersFit /\ SeamsStay

\* The parts make the whole.
LEMMA FitIsTypeOK == ASSUME IInv, Fit PROVE TypeOK
<1>1. terrain \in [Tile -> {"Snow", "Forest", "Coal"}] /\ deposit \in [Tile -> Nat] /\ road \in [Tile -> BOOLEAN]
      /\ Furnace \in DOMAIN rooms /\ rooms[Furnace].kind = "Furnace" /\ nextId \in Nat \ {0}
  BY DEF IInv, Shape
<1> QED BY <1>1 DEF Fit, RoomsFit, HearthFit, StoresFit, SnowFits, FolkFit, OrdersFit, Person, TypeOK

\* The larger and the smaller of two.
LEMMA TwoNumbers ==
  ASSUME NEW m \in Int, NEW n \in Int
  PROVE  /\ Max({m, n}) = IF m > n THEN m ELSE n
         /\ Min({m, n}) = IF m < n THEN m ELSE n
<1>1. \E x \in {m, n} : \A y \in {m, n} : x >= y
  OBVIOUS
<1>2. \E x \in {m, n} : \A y \in {m, n} : x <= y
  OBVIOUS
<1>3. Max({m, n}) \in {m, n} /\ \A y \in {m, n} : Max({m, n}) >= y
  BY <1>1 DEF Max
<1>4. Min({m, n}) \in {m, n} /\ \A y \in {m, n} : Min({m, n}) <= y
  BY <1>2 DEF Min
<1> QED BY <1>3, <1>4

\* The site of a room or of the furnace never needs more than Logs.
LEMMA RoomIs == Room = [kind : Kind, at : Tile, level : 1..MaxLevel, bench : 0..MaxBench, left : 0..Logs]
<1>1. Logs \in Nat \ {0}
  BY Constants
<1>2. Max({Logs, 1}) = Logs
  BY <1>1, TwoNumbers
<1> QED BY <1>2 DEF Room, Kind

\* A world begins with an empty map, a cold furnace and people with nothing to do.
LEMMA InitFits == ASSUME Init PROVE Fit
<1>0. /\ Logs \in Nat \ {0} /\ MaxLevel \in Nat \ {0} /\ MaxBench \in Nat /\ Wood0 \in Nat /\ MaxBurn \in Nat
      /\ SnowMax \in Nat
  BY Constants
<1>1. RoomsFit /\ HearthFit
  <2>1. rooms = [b \in {Furnace} |-> [kind |-> "Furnace", at |-> FurnaceAt, level |-> 1, bench |-> 0, left |-> Logs]]
        /\ nextId = 1
    BY DEF Init
  <2>2. [kind |-> "Furnace", at |-> FurnaceAt, level |-> 1, bench |-> 0, left |-> Logs] \in Room
    BY <1>0, RoomIs, LandAssumption DEF Kind
  <2> QED BY <2>1, <2>2 DEF RoomsFit, HearthFit, Furnace
<1>2. StoresFit
  <2>1. wood = Wood0 * 10000 /\ coal = 0 /\ burn = 0 /\ lit = FALSE
    BY DEF Init, Log
  <2>2. wood \in Nat /\ coal \in Nat /\ burn \in 0..MaxBurn
    BY <1>0, <2>1
  <2>3. lit \in BOOLEAN
    <3>1. lit = FALSE BY <2>1
    <3> QED BY Zenon, <3>1
  <2> QED BY <2>2, <2>3 DEF StoresFit
<1>3. SnowFits
  BY <1>0 DEF Init, SnowFits
<1>4. FolkFit /\ OrdersFit /\ SeamsStay
  BY DEF Init, FolkFit, OrdersFit, SeamsStay, Living, Person
<1> QED BY <1>1, <1>2, <1>3, <1>4 DEF Fit

\* Placing, raising and fitting take no more wood than there is.
LEMMA PlaceFits == ASSUME IInv, Fit, NEW k \in Rooms, NEW p \in Tile, Place(k, p) PROVE Fit'
<1> DEFINE new == [kind |-> k, at |-> p, level |-> 1, bench |-> 0, left |-> 1]
<1>0. Logs \in Nat \ {0} /\ MaxLevel \in Nat \ {0} /\ MaxBench \in Nat /\ k \in Kind
  BY Constants DEF Rooms, Kind
<1>1. /\ DOMAIN rooms' = DOMAIN rooms \cup {nextId} /\ nextId \notin DOMAIN rooms
      /\ rooms'[nextId] = new /\ \A b \in DOMAIN rooms : rooms'[b] = rooms[b]
      /\ nextId' = nextId + 1 /\ nextId \in Nat \ {0} /\ Furnace \in DOMAIN rooms
  BY DEF Place, IInv, Shape
<1>2. new \in Room
  BY <1>0, RoomIs
<1>3. RoomsFit' /\ HearthFit'
  <2>1. HearthFit'
    BY <1>1 DEF Fit, HearthFit
  <2>2. ASSUME NEW b \in DOMAIN rooms' PROVE b \in 0..(nextId' - 1) /\ rooms'[b] \in Room
    <3>1. CASE b = nextId
      BY <1>1, <1>2, <3>1
    <3>2. CASE b \in DOMAIN rooms
      <4>1. b \in 0..(nextId - 1) /\ rooms[b] \in Room
        BY <3>2 DEF Fit, RoomsFit
      <4> QED BY <1>1, <3>2, <4>1
    <3> QED BY <1>1, <3>1, <3>2
  <2> QED BY <2>1, <2>2 DEF RoomsFit, Room, Tile
<1>4. StoresFit'
  <2>1. PICK l \in WarehouseLevels : wood' = wood - Price(k, l)
    BY DEF Place
  <2>2. l \in 0..MaxLevel
    BY <1>0, RoomIs DEF WarehouseLevels, Fit, RoomsFit
  <2>3. Price(k, l) \in Nat /\ Price(k, l) <= Cost[k] * Log
    BY <1>0, <2>2, RoomPriceIs
  <2>4. wood >= Cost[k] * Log /\ Cost[k] \in Nat
    BY <1>0, Constants DEF Place
  <2>5. Cost[k] * Log \in Nat
    BY <2>4 DEF Log
  <2>6. wood' \in Nat
    BY <2>1, <2>3, <2>4, <2>5 DEF Fit, StoresFit
  <2> QED BY <2>6 DEF Place, Fit, StoresFit
<1>5. SnowFits' /\ FolkFit' /\ OrdersFit' /\ SeamsStay'
  <2>1. snow' = snow /\ folk' = folk /\ orders' = orders /\ gathered' = gathered /\ terrain' = terrain
    BY DEF Place, ground
  <2> QED BY <2>1 DEF Fit, SnowFits, FolkFit, OrdersFit, SeamsStay, Living
<1> QED BY <1>3, <1>4, <1>5 DEF Fit

\* A step that leaves the people, the snow and the seams alone.
LEMMA OnlyRooms ==
  ASSUME Fit, RoomsFit', HearthFit', StoresFit',
         snow' = snow, folk' = folk, orders' = orders, gathered' = gathered, terrain' = terrain
  PROVE  Fit'
BY DEF Fit, SnowFits, FolkFit, OrdersFit, SeamsStay, Living

\* What is given back is wood.
LEMMA DemolishFits == ASSUME IInv, Fit, NEW b \in DOMAIN rooms, Demolish(b) PROVE Fit'
<1>1. /\ DOMAIN rooms' = DOMAIN rooms \ {b} /\ \A c \in DOMAIN rooms' : rooms'[c] = rooms[c]
      /\ b # Furnace /\ Furnace \in DOMAIN rooms /\ nextId' = nextId
  BY DEF Demolish, Rooms, IInv, Shape
<1>2. RoomsFit' /\ HearthFit'
  BY <1>1 DEF Fit, RoomsFit, HearthFit, Room, Furnace, Tile
<1>3. StoresFit'
  <2>1. rooms[b].kind \in Kind /\ rooms[b].level \in 1..MaxLevel
    BY RoomIs DEF Fit, RoomsFit
  <2>2. Refund(rooms[b].kind, rooms[b].level) \in Nat
    BY <2>1, RefundIs
  <2> QED BY <2>2 DEF Demolish, Fit, StoresFit
<1>4. snow' = snow /\ folk' = folk /\ orders' = orders /\ gathered' = gathered /\ terrain' = terrain
  BY DEF Demolish, ground
<1> QED BY <1>2, <1>3, <1>4, OnlyRooms

\* Moving, turning, raising and fitting leave a room a room.
LEMMA InPlaceFits ==
  ASSUME IInv, Fit, NEW b \in DOMAIN rooms,
         \/ \E p \in Tile : Relocate(b, p)
         \/ RotateBuilding(b) \/ UpgradeBuilding(b) \/ UpgradeFurnishing(b)
  PROVE  Fit'
<1>0. Logs \in Nat \ {0} /\ MaxLevel \in Nat \ {0} /\ MaxBench \in Nat /\ BenchCost \in Nat
  BY Constants
<1>1. snow' = snow /\ folk' = folk /\ orders' = orders /\ gathered' = gathered /\ terrain' = terrain
      /\ nextId' = nextId
  BY DEF Relocate, RotateBuilding, UpgradeBuilding, UpgradeFurnishing, ground
<1>2. rooms \in [DOMAIN rooms -> Site] /\ Furnace \in DOMAIN rooms /\ rooms[Furnace].kind = "Furnace"
  BY DEF IInv, Shape
<1>3. rooms[b] \in Room /\ rooms[b].level \in 1..MaxLevel /\ rooms[b].bench \in 0..MaxBench /\ rooms[b].kind \in Kind
  BY RoomIs DEF Fit, RoomsFit
<1> DEFINE Held(r) == /\ rooms' = [rooms EXCEPT ![b] = r] /\ r \in Room
                      /\ (b = Furnace => r.at = rooms[b].at)
<1>4. ASSUME NEW r, Held(r) PROVE RoomsFit' /\ HearthFit'
  <2>1. DOMAIN rooms' = DOMAIN rooms /\ rooms'[b] = r /\ \A c \in DOMAIN rooms \ {b} : rooms'[c] = rooms[c]
    BY <1>2, <1>4
  <2> QED BY <2>1, <1>1, <1>2, <1>4 DEF Fit, RoomsFit, HearthFit, Room, Tile
<1>5. CASE \E p \in Tile : Relocate(b, p)
  <2>1. PICK p \in Tile : Relocate(b, p)
    BY <1>5
  <2>2. b # Furnace
    BY <2>1, <1>2 DEF Relocate, CanRelocate, Rooms
  <2>3. Held([rooms[b] EXCEPT !.at = p, !.left = 1])
    <3>1. [rooms[b] EXCEPT !.at = p, !.left = 1] \in Room
      <4>1. p \in Tile /\ 1 \in 0..Logs
        BY <2>1, <1>0
      <4> HIDE DEF Held
      <4> QED BY <4>1, <1>3, RoomIs
    <3>2. rooms' = [rooms EXCEPT ![b] = [rooms[b] EXCEPT !.at = p, !.left = 1]]
      BY <2>1, <1>2, <1>3, RoomIs DEF Relocate
    <3> QED BY <2>2, <3>1, <3>2
  <2>4. StoresFit'
    BY <2>1 DEF Relocate, Fit, StoresFit, stores
  <2> QED BY <2>3, <2>4, <1>1, <1>4, OnlyRooms
<1>6. CASE RotateBuilding(b)
  <2>1. Held([rooms[b] EXCEPT !.left = 1])
    BY <1>6, <1>0, <1>2, <1>3, RoomIs DEF RotateBuilding
  <2>2. StoresFit'
    BY <1>6 DEF RotateBuilding, Fit, StoresFit, stores
  <2> QED BY <2>1, <2>2, <1>1, <1>4, OnlyRooms
<1>7. CASE UpgradeBuilding(b)
  <2> DEFINE l == rooms[b].level + 1
  <2>1. Held([kind |-> rooms[b].kind, at |-> rooms[b].at, level |-> l, bench |-> rooms[b].bench, left |-> 1])
    BY <1>7, <1>0, <1>2, <1>3, RoomIs DEF UpgradeBuilding
  <2>2. UpgradeCost(rooms[b].kind, l) \in Nat
    BY <1>3, RaisePays
  <2>3. wood' = wood - UpgradeCost(rooms[b].kind, l) /\ wood >= UpgradeCost(rooms[b].kind, l)
        /\ coal' = coal /\ burn' = burn /\ lit' = lit
    BY <1>7 DEF UpgradeBuilding
  <2>4. StoresFit'
    BY <2>2, <2>3 DEF Fit, StoresFit
  <2> QED BY <2>1, <2>4, <1>1, <1>4, OnlyRooms
<1>8. CASE UpgradeFurnishing(b)
  <2> DEFINE next == rooms[b].bench + 1
  <2>1. Held([rooms[b] EXCEPT !.bench = next])
    BY <1>8, <1>0, <1>2, <1>3, RoomIs DEF UpgradeFurnishing
  <2>2. FittingCost(next) \in Nat
    <3>1. BenchCost * next \in Nat
      BY <1>0, <1>3, Grows
    <3> QED BY <3>1 DEF FittingCost, Log
  <2>3. wood' = wood - FittingCost(next) /\ wood >= FittingCost(next) /\ coal' = coal /\ burn' = burn /\ lit' = lit
    BY <1>8 DEF UpgradeFurnishing
  <2>4. StoresFit'
    BY <2>2, <2>3 DEF Fit, StoresFit
  <2> QED BY <2>1, <2>4, <1>1, <1>4, OnlyRooms
<1> QED BY <1>5, <1>6, <1>7, <1>8

\* A map has finitely many tiles.
LEMMA TileFinite == IsFiniteSet(Tile)
<1>1. W \in Nat \ {0} /\ H \in Nat \ {0}
  BY Constants
<1>2. 0 \in Int /\ W - 1 \in Int /\ H - 1 \in Int
  BY <1>1
<1>3. IsFiniteSet(0..(W - 1)) /\ IsFiniteSet(0..(H - 1))
  BY <1>2, FS_Interval
<1> QED BY <1>3, FS_Product DEF Tile

\* What a drag could lay, and what there is wood for.
Able(drag)  == {i \in DOMAIN drag : CanLayRoad(drag[i])}
Rank(drag, j) == Cardinality({m \in Able(drag) : m <= j})
Afforded(drag) == {j \in Able(drag) : Rank(drag, j) * RoadCost * Log <= wood}
Paved(drag) == {drag[i] : i \in Afforded(drag)}

\* A drag lays no more than is paid for, on tiles with no road.
LEMMA PavedIs ==
  ASSUME NEW drag \in Drags, wood \in Nat
  PROVE  /\ Paved(drag) \subseteq Tile /\ IsFiniteSet(Paved(drag)) /\ Cardinality(Paved(drag)) \in Nat
         /\ \A t \in Paved(drag) : ~road[t]
         /\ Cardinality(Paved(drag)) * RoadCost * Log <= wood
<1> DEFINE A == Able(drag)   J == Afforded(drag)   P == Paved(drag)
<1>1. PICK n \in 1..MaxDrag : drag \in [1..n -> Tile]
  BY DEF Drags
<1>2. A \subseteq 1..n /\ J \subseteq A /\ IsFiniteSet(A) /\ IsFiniteSet(J) /\ J \in SUBSET Nat
  <2>1. n \in Nat /\ DOMAIN drag = 1..n /\ 1 \in Int /\ n \in Int
    BY <1>1
  <2>2. IsFiniteSet(1..n)
    BY <2>1, FS_Interval
  <2>3. A \in SUBSET (1..n) /\ J \in SUBSET (1..n) /\ J \subseteq A
    BY <2>1 DEF Able, Afforded
  <2> QED BY <2>1, <2>2, <2>3, FS_Subset
<1>3. P \subseteq Tile /\ \A t \in P : ~road[t]
  <2>1. \A i \in J : drag[i] \in Tile /\ ~road[drag[i]]
    BY <1>1, <1>2 DEF Afforded, Able, CanLayRoad
  <2> QED BY <2>1 DEF Paved
<1>4. IsFiniteSet(P) /\ Cardinality(P) \in Nat /\ Cardinality(J) \in Nat /\ Cardinality(P) <= Cardinality(J)
  <2> DEFINE f == [j \in J |-> drag[j]]
  <2>1. f \in Surjection(J, P)
    BY DEF Surjection, Paved
  <2> HIDE DEF f, J, P
  <2>2. IsFiniteSet(P) /\ Cardinality(P) <= Cardinality(J)
    BY <1>2, <2>1, FS_Surjection
  <2> QED BY <1>2, <2>2, FS_CardinalityType
<1>5. RoadCost \in Nat
  BY Constants
<1>6. CASE J = {}
  <2>1. P = {}
    BY <1>6 DEF Paved
  <2>2. Cardinality(P) = 0
    BY <2>1, FS_EmptySet
  <2> QED BY <1>3, <1>4, <1>5, <2>2 DEF Log
<1>7. CASE J # {}
  <2>1. PICK m \in J : \A j \in J : j <= m
    BY <1>2, <1>7, GreatestNatural
  <2> DEFINE R == {i \in A : i <= m}
  <2>2. J \in SUBSET R /\ R \in SUBSET A
    BY <1>2, <2>1
  <2>3. IsFiniteSet(R) /\ Cardinality(J) <= Cardinality(R) /\ Cardinality(R) \in Nat
    BY <1>2, <2>2, FS_Subset, FS_CardinalityType
  <2>4. Rank(drag, m) = Cardinality(R) /\ Rank(drag, m) * RoadCost * 10000 <= wood
    BY <2>1 DEF Afforded, Rank, Log
  <2>5. Cardinality(P) <= Cardinality(R)
    BY <1>4, <2>3
  <2>6. RoadCost * Cardinality(P) <= RoadCost * Cardinality(R) /\ RoadCost * Cardinality(P) \in Nat
        /\ RoadCost * Cardinality(P) = Cardinality(P) * RoadCost
    BY <1>4, <1>5, <2>3, <2>5, Grows
  <2>7. RoadCost * Cardinality(R) = Cardinality(R) * RoadCost /\ RoadCost * Cardinality(R) \in Nat
    BY <1>5, <2>3
  <2>8. Cardinality(P) * RoadCost * 10000 <= wood
    BY <2>4, <2>6, <2>7
  <2> QED BY <1>3, <1>4, <2>8 DEF Log
<1> QED BY <1>6, <1>7

\* What a drag would lift.
Torn(drag) == {t \in {drag[i] : i \in DOMAIN drag} : road[t]}

\* What is lifted is road, and finitely much.
LEMMA TornIs ==
  ASSUME NEW drag \in Drags
  PROVE  Torn(drag) \subseteq {t \in Tile : road[t]} /\ IsFiniteSet(Torn(drag)) /\ Cardinality(Torn(drag)) \in Nat
<1>1. PICK n \in 1..MaxDrag : drag \in [1..n -> Tile]
  BY DEF Drags
<1>2. Torn(drag) \subseteq {t \in Tile : road[t]}
  BY <1>1 DEF Torn
<1>3. Torn(drag) \in SUBSET Tile
  BY <1>2
<1> QED BY <1>2, <1>3, TileFinite, FS_Subset, FS_CardinalityType

\* A drag that lays or lifts leaves the stores in order and touches no room and nobody.
LEMMA RoadsFit ==
  ASSUME IInv, Fit, NEW drag \in Drags, BuildRoad(drag) \/ RemoveRoad(drag)
  PROVE  Fit'
<1>0. wood \in Nat /\ RoadCost \in Nat /\ RefundPct \in Nat /\ SnowMax \in Nat
  BY Constants DEF Fit, StoresFit
<1>1. /\ rooms' = rooms /\ nextId' = nextId /\ coal' = coal /\ burn' = burn /\ lit' = lit /\ folk' = folk
      /\ orders' = orders /\ gathered' = gathered /\ terrain' = terrain
  BY DEF BuildRoad, RemoveRoad
<1>2. CASE BuildRoad(drag)
  <2>1. /\ wood' = wood - Cardinality(Paved(drag)) * RoadCost * Log
        /\ snow' = [t \in Drifts |-> IF t \in Paved(drag) THEN 0 ELSE snow[t]]
    BY <1>2 DEF BuildRoad, Paved, Afforded, Rank, Able
  <2>2. Cardinality(Paved(drag)) * RoadCost * Log <= wood /\ Cardinality(Paved(drag)) \in Nat
    BY <1>0, PavedIs
  <2>3. Cardinality(Paved(drag)) * RoadCost * Log \in Nat
    BY <1>0, <2>2 DEF Log
  <2>4. wood' \in Nat
    BY <1>0, <2>1, <2>2, <2>3
  <2>5. SnowFits'
    BY <1>0, <2>1 DEF Fit, SnowFits
  <2> QED BY <1>1, <2>4, <2>5 DEF Fit, RoomsFit, Room, Tile, HearthFit, StoresFit, FolkFit, Living, OrdersFit, SeamsStay
<1>3. CASE RemoveRoad(drag)
  <2>1. wood' = wood + Cardinality(Torn(drag)) * RoadRefund /\ snow' = snow
    BY <1>3 DEF RemoveRoad, Torn
  <2>2. Cardinality(Torn(drag)) * RoadRefund \in Nat
    <3>1. RoadRefund \in Nat
      BY <1>0 DEF RoadRefund
    <3> QED BY <3>1, TornIs
  <2>3. wood' \in Nat
    BY <1>0, <2>1, <2>2
  <2> QED BY <1>1, <2>1, <2>3 DEF Fit, RoomsFit, Room, Tile, HearthFit, StoresFit, SnowFits, FolkFit, Living, OrdersFit, SeamsStay
<1> QED BY <1>2, <1>3

\* Orders to people, and their leaving, keep the store and the people in order.
LEMMA PeopleFit ==
  ASSUME IInv, Fit,
         \/ \E s \in Living, here \in BOOLEAN : AssignSurvivor(s, here)
         \/ LetGo
         \/ \E s \in Living : MoveSurvivor(s) \/ Leave(s)
         \/ \E s \in Living, t \in Tile : ChopTile(s, t) \/ ClearSnow(s, t)
         \/ \E l \in 0..MaxBurn : SetFurnaceLevel(l)
  PROVE  Fit'
<1>1. rooms' = rooms /\ nextId' = nextId /\ coal' = coal /\ gathered' = gathered /\ terrain' = terrain /\ snow' = snow
      /\ lit' = lit
  BY DEF AssignSurvivor, LetGo, MoveSurvivor, Leave, ChopTile, ClearSnow, SetFurnaceLevel, Sent, ground, stores
<1>2. RoomsFit' /\ HearthFit' /\ SnowFits' /\ SeamsStay'
  BY <1>1 DEF Fit, RoomsFit, Room, Tile, HearthFit, SnowFits, SeamsStay
<1>3. /\ wood \in Nat /\ coal \in Nat /\ burn \in 0..MaxBurn /\ lit \in BOOLEAN /\ MaxBurn \in Nat
      /\ Living \subseteq People /\ \A s \in Living : folk[s] \in Person
  BY Constants DEF Fit, StoresFit, FolkFit
<1> DEFINE Quiet == burn' = burn /\ orders' = orders
<1>4. ASSUME NEW s \in Living, NEW who \in Person, Sent(s, who) PROVE Fit'
  <2>1. Pocket(s) \in Nat
    BY DEF Pocket, Log
  <2>2. wood' \in Nat /\ burn' = burn /\ orders' = orders /\ folk' = [folk EXCEPT ![s] = who]
    BY <1>3, <1>4, <2>1 DEF Sent
  <2>3. StoresFit' /\ OrdersFit'
    BY <1>1, <1>3, <2>2 DEF StoresFit, Fit, OrdersFit, Tile
  <2>4. FolkFit'
    BY <1>3, <2>2 DEF FolkFit, Living, Person, Tile
  <2> QED BY <1>2, <2>3, <2>4 DEF Fit
<1>5. CASE \E s \in Living, here \in BOOLEAN : AssignSurvivor(s, here)
  <2>1. PICK s \in Living, here \in BOOLEAN : AssignSurvivor(s, here)
    BY <1>5
  <2>2. [folk[s] EXCEPT !.chop = Nowhere, !.carry = FALSE, !.post = here] \in Person
    BY <1>3, <2>1 DEF Person
  <2> QED BY <1>4, <2>1, <2>2 DEF AssignSurvivor
<1>6. CASE LetGo
  <2>1. folk' = [folk EXCEPT ![Max({s \in Living : folk[s].post})].post = FALSE] /\ wood' = wood /\ burn' = burn
        /\ orders' = orders
    BY <1>6 DEF LetGo, stores
  <2>2. FolkFit'
    BY <1>3, <2>1 DEF FolkFit, Living, Person, Tile
  <2> QED BY <1>1, <1>2, <1>3, <2>1, <2>2 DEF Fit, StoresFit, OrdersFit, Tile
<1>7. CASE \E s \in Living : MoveSurvivor(s)
  <2>1. PICK s \in Living : MoveSurvivor(s)
    BY <1>7
  <2>2. [Idle(s) EXCEPT !.walk = TRUE] \in Person
    BY <1>3, <2>1 DEF Person, Idle
  <2> QED BY <1>4, <2>1, <2>2 DEF MoveSurvivor
<1>8. CASE \E s \in Living : Leave(s)
  <2>1. PICK s \in Living : Leave(s)
    BY <1>8
  <2>2. folk' = [p \in Living \ {s} |-> folk[p]] /\ wood' = wood /\ burn' = burn /\ orders' = orders
    BY <2>1 DEF Leave, stores
  <2>3. FolkFit'
    BY <1>3, <2>2 DEF FolkFit, Living, Person, Tile
  <2> QED BY <1>1, <1>2, <1>3, <2>2, <2>3 DEF Fit, StoresFit, OrdersFit, Tile
<1>9. CASE \E s \in Living, t \in Tile : ChopTile(s, t)
  <2>1. PICK s \in Living, t \in Tile : ChopTile(s, t)
    BY <1>9
  <2>2. [Idle(s) EXCEPT !.chop = t] \in Person
    BY <1>3, <2>1 DEF Person, Idle
  <2> QED BY <1>4, <2>1, <2>2 DEF ChopTile
<1>10. CASE \E s \in Living, t \in Tile : ClearSnow(s, t)
  <2>1. PICK s \in Living, t \in Tile : ClearSnow(s, t)
    BY <1>10
  <2>2. /\ folk' = [folk EXCEPT ![s] = [Idle(s) EXCEPT !.walk = TRUE]] /\ wood' = wood /\ burn' = burn
        /\ orders' = [u \in DOMAIN orders \cup {t} |-> IF u = t THEN s ELSE orders[u]]
    BY <2>1 DEF ClearSnow, stores
  <2>3. FolkFit'
    <3>1. [Idle(s) EXCEPT !.walk = TRUE] \in Person
      BY <1>3, <2>1 DEF Person, Idle
    <3> QED BY <1>3, <2>2, <3>1 DEF FolkFit, Living, Person, Tile
  <2>4. OrdersFit'
    BY <1>3, <2>1, <2>2 DEF Fit, OrdersFit, Tile
  <2> QED BY <1>1, <1>2, <1>3, <2>2, <2>3, <2>4 DEF Fit, StoresFit
<1>11. CASE \E l \in 0..MaxBurn : SetFurnaceLevel(l)
  <2>1. PICK l \in 0..MaxBurn : SetFurnaceLevel(l)
    BY <1>11
  <2>2. burn' = Min({l, MaxBurn}) /\ wood' = wood /\ folk' = folk /\ orders' = orders
    BY <2>1 DEF SetFurnaceLevel
  <2>3. burn' \in 0..MaxBurn
    <3>1. l \in Int /\ MaxBurn \in Int /\ 0 <= l /\ l <= MaxBurn
      BY <1>3, <2>1
    <3>2. Min({l, MaxBurn}) = l
      BY <3>1, TwoNumbers
    <3> QED BY <2>2, <3>1, <3>2
  <2> QED BY <1>1, <1>2, <1>3, <2>2, <2>3 DEF Fit, StoresFit, FolkFit, Living, Person, Tile, OrdersFit
<1> QED BY <1>5, <1>6, <1>7, <1>8, <1>9, <1>10, <1>11

\* The fire takes from the stores what they hold.
LEMMA BurnedIs ==
  ASSUME StoresFit
  PROVE  /\ Burned.coal \in Nat /\ Burned.coal <= coal
         /\ Burned.wood \in Nat /\ Burned.wood <= wood /\ Burned.lit \in BOOLEAN
<1>1. wood \in Nat /\ coal \in Nat /\ burn \in Nat /\ FuelPenalty \in Nat
  BY Constants DEF StoresFit
<1> DEFINE logs == burn * (Log \div 100) * FuelPenalty
<1>2. logs \in Nat
  <2>1. Log \div 100 = 100
    BY DEF Log
  <2>2. burn * 100 \in Nat
    BY <1>1
  <2>3. (burn * 100) * FuelPenalty \in Nat
    BY <1>1, <2>2, Grows
  <2> QED BY <2>1, <2>3
<1> HIDE DEF logs
<1>3. Burned = CASE burn = 0     -> [coal |-> coal, wood |-> wood, lit |-> FALSE]
                 [] burn > 0 /\ coal >= burn -> [coal |-> coal - burn, wood |-> wood, lit |-> TRUE]
                 [] burn > 0 /\ coal < burn /\ wood >= logs -> [coal |-> coal, wood |-> wood - logs, lit |-> TRUE]
                 [] OTHER        -> [coal |-> coal, wood |-> wood, lit |-> FALSE]
  BY DEF Burned, logs
<1>4. \/ Burned = [coal |-> coal, wood |-> wood, lit |-> FALSE]
      \/ coal >= burn /\ Burned = [coal |-> coal - burn, wood |-> wood, lit |-> TRUE]
      \/ wood >= logs /\ Burned = [coal |-> coal, wood |-> wood - logs, lit |-> TRUE]
  BY <1>1, <1>2, <1>3
<1>5. Burned.lit \in BOOLEAN
  <2>1. Burned.lit = FALSE \/ Burned.lit = TRUE
    BY <1>4
  <2> QED BY <2>1, Zenon
<1> QED BY <1>1, <1>2, <1>4, <1>5

\* A crew leaves every room of the kind and the level it was, and itself a room.
LEMMA WorksFit ==
  ASSUME IInv, Fit, NEW b \in DOMAIN rooms \cup {-1}, NEW work \in Works(b)
  PROVE  \A c \in DOMAIN rooms : /\ work.rooms[c] \in Room
                                 /\ work.rooms[c].kind = rooms[c].kind /\ work.rooms[c].level = rooms[c].level
                                 /\ work.rooms[c].at = rooms[c].at
<1>1. \A c \in DOMAIN rooms : rooms[c] \in Room
  BY DEF Fit, RoomsFit
<1>2. CASE work.rooms = rooms
  BY <1>1, <1>2
<1>3. CASE b \in DOMAIN rooms /\ work.rooms = Finished(b)
  <2>1. rooms \in [DOMAIN rooms -> Site] /\ Logs \in Nat
    BY Constants DEF IInv, Shape
  <2>2. [rooms[b] EXCEPT !.left = 0] \in Room
    BY <1>1, <1>3, <2>1, RoomIs
  <2> QED BY <1>1, <1>2, <1>3, <2>1, <2>2, RoomIs DEF Finished
<1> QED BY <1>2, <1>3 DEF Works

\* Snow stays within its bounds, fallen or swept.
LEMMA SnowsFit ==
  ASSUME Fit, NEW fall \in 0..1, NEW b, NEW deep \in Swept(Fallen(fall), b)
  PROVE  deep \in [Drifts -> 0..SnowMax]
<1>1. SnowMax \in Nat /\ snow \in [Drifts -> 0..SnowMax]
  BY Constants DEF Fit, SnowFits
<1>2. \A t \in Drifts : Min({snow[t] + fall, SnowMax}) \in 0..SnowMax
  <2> SUFFICES ASSUME NEW t \in Drifts PROVE Min({snow[t] + fall, SnowMax}) \in 0..SnowMax
    OBVIOUS
  <2>1. snow[t] \in 0..SnowMax /\ snow[t] + fall \in Nat /\ SnowMax \in Int
    BY <1>1
  <2> DEFINE depth == snow[t] + fall
  <2>2. depth \in Nat /\ SnowMax \in Nat
    BY <1>1, <2>1
  <2> HIDE DEF depth
  <2>3. Min({depth, SnowMax}) = IF depth < SnowMax THEN depth ELSE SnowMax
    BY <2>2, TwoNumbers
  <2>4. Min({depth, SnowMax}) \in 0..SnowMax
    BY <2>2, <2>3
  <2> QED BY <2>4 DEF depth
<1>3. Fallen(fall) \in [Drifts -> 0..SnowMax]
  BY <1>2 DEF Fallen
<1>4. \/ deep = Fallen(fall)
      \/ \E t \in Drifts : Fallen(fall)[t] > 0 /\ deep = [Fallen(fall) EXCEPT ![t] = @ - 1]
  BY DEF Swept
<1> QED BY <1>1, <1>3, <1>4

\* What one makes of a tick: no log comes to a hand but a felled one.
LEMMA StepFits ==
  ASSUME NEW s, folk[s] \in Person, NEW there, NEW tree \in Tile \cup {Nowhere}
  PROVE  /\ Step(s, s \in there, tree) \in Person
         /\ Step(s, s \in there, tree).carry => folk[s].carry \/ (s \in there /\ Fells(s) /\ Fetches(s))
<1> DEFINE me == IF s \in there THEN [folk[s] EXCEPT !.walk = FALSE] ELSE folk[s]
           other == IF Fetches(s) /\ me.chop = Nowhere /\ ~me.carry THEN [me EXCEPT !.chop = tree] ELSE me
<1>1. me \in Person /\ me.carry = folk[s].carry
  BY DEF Person
<1>2. Fetches(s) \in BOOLEAN
  BY DEF Fetches, Unbuilt, Busy
<1>3. CASE s \in there /\ Fells(s)
  <2>1. Step(s, s \in there, tree) = [me EXCEPT !.chop = Nowhere, !.carry = @ \/ Fetches(s)]
    BY <1>3 DEF Step, Brings, Fells
  <2> QED BY <1>1, <1>2, <1>3, <2>1 DEF Person
<1>4. CASE s \in there /\ Brings(s) /\ ~Fells(s)
  <2>1. Step(s, s \in there, tree) = [me EXCEPT !.carry = FALSE]
    BY <1>4 DEF Step
  <2> QED BY <1>1, <2>1 DEF Person
<1>5. CASE ~(s \in there /\ Fells(s)) /\ ~(s \in there /\ Brings(s))
  <2>1. Step(s, s \in there, tree) = other
    BY <1>5 DEF Step
  <2> QED BY <1>1, <2>1 DEF Person
<1> QED BY <1>3, <1>4, <1>5

\* The tree one looks for stands on a tile, or there is none.
LEMMA TreesAreThere == ASSUME NEW land, NEW tree \in Trees(land) PROVE tree \in Tile \cup {Nowhere}
BY DEF Trees, Nearest, Timber

\* And it is one of those left standing.
LEMMA TreesStand == ASSUME NEW land, NEW tree \in Trees(land) PROVE tree \in Timber(land) \cup {Nowhere}
BY DEF Trees, Nearest

\* The axes touch woods alone.
LEMMA AxesSpareSeams ==
  ASSUME NEW land, NEW there, NEW t \in Tile, land.terrain[t] # "Forest"
  PROVE  Felled(there, land).deposit[t] = land.deposit[t] /\ Felled(there, land).terrain[t] = land.terrain[t]
BY DEF Felled, Timber

\* A unit drawn is one less on its own tile, and a seam stays a seam.
LEMMA DrawnSeams ==
  ASSUME IInv, NEW from, NEW t \in Tile, terrain[t] # "Forest",
         from = Nowhere \/ from \in Tile
  PROVE  /\ Drawn(from).terrain[t] = terrain[t]
         /\ Drawn(from).deposit[t] = IF from # Nowhere /\ t = from THEN deposit[t] - 1 ELSE deposit[t]
<1>1. terrain \in [Tile -> {"Snow", "Forest", "Coal"}] /\ deposit \in [Tile -> Nat]
  BY DEF IInv, Shape
<1> QED BY <1>1 DEF Drawn, Land

Axes(there)  == {s \in there : Fells(s)}
Hands(there) == {s \in Axes(there) : ~Fetches(s)}
Homing(there) == {s \in there : Brings(s)}
Milled(work) == work.from # Nowhere /\ terrain[work.from] = "Forest"
Mined(work)  == work.from # Nowhere /\ ~(terrain[work.from] = "Forest")

\* What a turn makes of the stores, the rooms and the people, in the words of this proof.
LEMMA TurnIs ==
  ASSUME NEW there, NEW work, NEW done, NEW deep, NEW felled, NEW tree, Turn(there, work, done, deep, felled, tree)
  PROVE  /\ coal' = Burned.coal + (IF Mined(work) THEN 1 ELSE 0)
         /\ wood' = Burned.wood + Log * ((IF Milled(work) THEN 1 ELSE 0) + Cardinality(Hands(there)))
         /\ gathered' = gathered + (IF Milled(work) THEN 1 ELSE 0) + Cardinality(Axes(there))
         /\ \/ rooms' = work.rooms
            \/ rooms' = [work.rooms EXCEPT ![Furnace].left =
                           IF work.rooms[Furnace].left - Cardinality(Homing(there)) > 0
                           THEN work.rooms[Furnace].left - Cardinality(Homing(there)) ELSE 0]
         /\ (burn' = burn \/ burn' = 1) /\ lit' \in BOOLEAN
         /\ nextId' = nextId /\ road' = road
<1> DEFINE mill    == work.from # Nowhere /\ terrain[work.from] = "Forest"
           mine    == work.from # Nowhere /\ ~mill
           fellers == {s \in there : Fells(s)}
           hands   == {s \in fellers : ~Fetches(s)}
           brought == Cardinality({s \in there : Brings(s)})
           left    == work.rooms[Furnace].left - brought
           blaze   == brought > 0 /\ left <= 0
<1>1. /\ coal' = Burned.coal + (IF mine THEN 1 ELSE 0)
      /\ wood' = Burned.wood + Log * ((IF mill THEN 1 ELSE 0) + Cardinality(hands))
      /\ gathered' = gathered + (IF mill THEN 1 ELSE 0) + Cardinality(fellers)
  BY DEF Turn
<1>2. (mill <=> Milled(work)) /\ (mine <=> Mined(work)) /\ hands = Hands(there) /\ fellers = Axes(there)
      /\ brought = Cardinality(Homing(there))
  BY DEF Milled, Mined, Hands, Axes, Homing
<1>3. /\ coal' = Burned.coal + (IF Mined(work) THEN 1 ELSE 0)
      /\ wood' = Burned.wood + Log * ((IF Milled(work) THEN 1 ELSE 0) + Cardinality(Hands(there)))
      /\ gathered' = gathered + (IF Milled(work) THEN 1 ELSE 0) + Cardinality(Axes(there))
  <2> HIDE DEF mill, mine, fellers, hands
  <2> QED BY <1>1, <1>2
<1>4. /\ rooms' = IF brought = 0 THEN work.rooms
                  ELSE [work.rooms EXCEPT ![Furnace].left = IF left > 0 THEN left ELSE 0]
      /\ burn' = IF blaze THEN 1 ELSE burn
      /\ lit'  = (blaze \/ Burned.lit)
  BY DEF Turn
<1>5. lit' \in BOOLEAN
  BY <1>4, Zenon
<1>6. burn' = burn \/ burn' = 1
  BY <1>4
<1>8. \/ rooms' = work.rooms
      \/ rooms' = [work.rooms EXCEPT ![Furnace].left =
                           IF work.rooms[Furnace].left - Cardinality(Homing(there)) > 0
                           THEN work.rooms[Furnace].left - Cardinality(Homing(there)) ELSE 0]
  <2>1. brought = Cardinality(Homing(there))
    BY <1>2
  <2> HIDE DEF brought
  <2> QED BY <1>4, <2>1
<1>7. nextId' = nextId /\ road' = road
  BY DEF Turn
<1> HIDE DEF mill, mine, fellers, hands, brought, left, blaze
<1> QED BY <1>3, <1>5, <1>6, <1>7, <1>8

\* And of the ground and the people.
LEMMA TurnMoves ==
  ASSUME NEW there, NEW work, NEW done, NEW deep, NEW felled, NEW tree, Turn(there, work, done, deep, felled, tree)
  PROVE  /\ folk' \in {[s \in Living |-> Step(s, s \in there, tree)],
                        Relieved([s \in Living |-> Step(s, s \in there, tree)])}
         /\ snow' = [t \in Drifts |-> IF t \in done THEN 0 ELSE deep[t]]
         /\ orders' = Tended(done)
         /\ deposit' = felled.deposit /\ terrain' = felled.terrain
BY DEF Turn

\* What a tick is, by what its choices are.
Ticked(b, there, work, deep, tree) ==
  /\ work \in Works(b) /\ deep \in [Drifts -> 0..SnowMax] /\ tree \in Tile \cup {Nowhere}
  /\ tree \in Timber(Drawn(work.from)) \cup {Nowhere}
  /\ \E done : Turn(there, work, done, deep, Felled(there, Drawn(work.from)), tree)

\* A tick is one such turn.
LEMMA TickIs ==
  ASSUME Fit, NEW b, NEW there, Tick(b, there)
  PROVE  \E work, deep, tree : Ticked(b, there, work, deep, tree)
<1>1. PICK work \in Works(b), fall \in 0..1 :
        \E done : \E deep \in Swept(Fallen(fall), b) : \E tree \in Trees(Drawn(work.from)) :
          Turn(there, work, done, deep, Felled(there, Drawn(work.from)), tree)
  BY DEF Tick
<1>2. PICK done : \E deep \in Swept(Fallen(fall), b) : \E tree \in Trees(Drawn(work.from)) :
          Turn(there, work, done, deep, Felled(there, Drawn(work.from)), tree)
  BY <1>1
<1>3. PICK deep \in Swept(Fallen(fall), b), tree \in Trees(Drawn(work.from)) :
        Turn(there, work, done, deep, Felled(there, Drawn(work.from)), tree)
  BY <1>2
<1>4. deep \in [Drifts -> 0..SnowMax]
  BY SnowsFit
<1>5. tree \in Tile \cup {Nowhere} /\ tree \in Timber(Drawn(work.from)) \cup {Nowhere}
  BY TreesAreThere, TreesStand
<1> QED BY <1>1, <1>3, <1>4, <1>5 DEF Ticked

\* The people of a tick are finitely many.
LEMMA PartsAreFinite ==
  ASSUME IInv, NEW there \in SUBSET Living
  PROVE  /\ IsFiniteSet(Axes(there)) /\ IsFiniteSet(Hands(there)) /\ Axes(there) \subseteq Living
         /\ Hands(there) \subseteq Axes(there)
         /\ Cardinality(Axes(there)) \in Nat /\ Cardinality(Hands(there)) \in Nat
         /\ Cardinality(Homing(there)) \in Nat
<1>1. Axes(there) \in SUBSET Living /\ Hands(there) \in SUBSET Living /\ Homing(there) \in SUBSET Living
      /\ Hands(there) \subseteq Axes(there)
  BY DEF Axes, Hands, Homing
<1>2. IsFiniteSet(Living)
  BY DEF IInv, Shape
<1> QED BY <1>1, <1>2, FS_Subset, FS_CardinalityType

\* A tick keeps the stores, the rooms, the snow, the people and the seams in order.
LEMMA TickFits ==
  ASSUME IInv, Fit, NEW b \in DOMAIN rooms \cup {-1}, NEW there \in SUBSET Living, Tick(b, there)
  PROVE  Fit'
<1>1. PICK work, deep, tree : Ticked(b, there, work, deep, tree)
  BY TickIs
<1>2. PICK done : Turn(there, work, done, deep, Felled(there, Drawn(work.from)), tree)
  BY <1>1 DEF Ticked
<1>3. work \in Works(b) /\ deep \in [Drifts -> 0..SnowMax] /\ tree \in Tile \cup {Nowhere}
  BY <1>1 DEF Ticked
<1>4. /\ Cardinality(Axes(there)) \in Nat /\ Cardinality(Hands(there)) \in Nat /\ Cardinality(Homing(there)) \in Nat
  BY PartsAreFinite
<1>5. RoomsFit' /\ HearthFit'
  <2> DEFINE left == work.rooms[Furnace].left - Cardinality(Homing(there))
             rest == IF left > 0 THEN left ELSE 0
  <2>1. nextId' = nextId /\ (rooms' = work.rooms \/ rooms' = [work.rooms EXCEPT ![Furnace].left = rest])
    BY <1>2, TurnIs
  <2>2. /\ \A c \in DOMAIN rooms : work.rooms[c] \in Room /\ work.rooms[c].at = rooms[c].at
        /\ work.rooms \in [DOMAIN rooms -> Site] /\ Furnace \in DOMAIN rooms
    BY <1>3, WorksFit, WorksStand DEF IInv, Shape
  <2>3. rest \in 0..Logs
    <3>1. work.rooms[Furnace].left \in 0..Logs /\ Logs \in Nat
      BY <2>2, RoomIs, Constants
    <3> QED BY <3>1, <1>4
  <2> HIDE DEF rest
  <2>4. [work.rooms[Furnace] EXCEPT !.left = rest] \in Room
    BY <2>2, <2>3, RoomIs
  <2>5. DOMAIN rooms' = DOMAIN rooms /\ \A c \in DOMAIN rooms : rooms'[c] \in Room /\ rooms'[c].at = rooms[c].at
    <3>1. CASE rooms' = work.rooms
      BY <2>2, <3>1
    <3>2. CASE rooms' = [work.rooms EXCEPT ![Furnace].left = rest]
      <4>1. rooms'[Furnace] = [work.rooms[Furnace] EXCEPT !.left = rest] /\ DOMAIN rooms' = DOMAIN rooms
            /\ \A c \in DOMAIN rooms \ {Furnace} : rooms'[c] = work.rooms[c]
        BY <2>2, <3>2
      <4>2. rooms'[Furnace].at = rooms[Furnace].at
        BY <2>2, <4>1, RoomIs
      <4> QED BY <2>2, <2>4, <4>1, <4>2
    <3> QED BY <2>1, <3>1, <3>2
  <2> QED BY <2>1, <2>2, <2>5 DEF Fit, RoomsFit, HearthFit, Room, Tile
<1>6. StoresFit'
  <2>1. /\ Burned.coal \in Nat /\ Burned.wood \in Nat /\ Burned.lit \in BOOLEAN /\ burn \in 0..MaxBurn
    BY BurnedIs DEF Fit, StoresFit
  <2>2. /\ coal' = Burned.coal + (IF Mined(work) THEN 1 ELSE 0)
        /\ wood' = Burned.wood + Log * ((IF Milled(work) THEN 1 ELSE 0) + Cardinality(Hands(there)))
        /\ burn' = burn \/ burn' = 1
    BY <1>2, TurnIs
  <2>3. lit' \in BOOLEAN
    BY <1>2, TurnIs
  <2>4. coal' \in Nat
    BY <2>1, <2>2
  <2>5. wood' \in Nat
    BY <1>4, <2>1, <2>2 DEF Log
  <2>6. burn' \in 0..MaxBurn
    BY <2>1, <2>2, Constants
  <2> QED BY <2>3, <2>4, <2>5, <2>6 DEF StoresFit
<1>7. SnowFits'
  <2>1. snow' = [t \in Drifts |-> IF t \in done THEN 0 ELSE deep[t]]
    BY <1>2 DEF Turn
  <2>2. SnowMax \in Nat
    BY Constants
  <2> QED BY <1>3, <2>1, <2>2 DEF SnowFits
<1>8. FolkFit'
  <2> DEFINE moved == [s \in Living |-> Step(s, s \in there, tree)]
  <2>1. folk' = moved \/ folk' = Relieved(moved)
    BY <1>2, TurnMoves
  <2>2. \A s \in Living : moved[s] \in Person
    BY <1>3, StepFits DEF Fit, FolkFit
  <2> HIDE DEF moved
  <2>3. DOMAIN moved = Living
    BY DEF moved
  <2>4. DOMAIN Relieved(moved) = Living /\ \A s \in Living : Relieved(moved)[s] \in Person
    BY <2>2, <2>3 DEF Relieved, Person
  <2> QED BY <2>1, <2>2, <2>3, <2>4 DEF Fit, FolkFit, Living, Person, Tile
<1>9. OrdersFit'
  <2>1. orders' = Tended(done)
    BY <1>2, TurnMoves
  <2> QED BY <2>1 DEF Fit, OrdersFit, Tended, Tile
<1>10. SeamsStay'
  <2>1. gathered' \in Nat
    <3>1. gathered' = gathered + (IF Milled(work) THEN 1 ELSE 0) + Cardinality(Axes(there)) /\ gathered \in Nat
      BY <1>2, TurnIs DEF Fit, SeamsStay
    <3> QED BY <3>1, <1>4
  <2>2. terrain' = Felled(there, Drawn(work.from)).terrain
    BY <1>2 DEF Turn
  <2>3. Wooded(Drawn(work.from)) /\ Gives(Land, Drawn(work.from))
    BY <1>3, WorksStand, DrawnHolds
  <2> DEFINE land == Drawn(work.from)
  <2> HIDE DEF land
  <2>4. Gives(land, Felled(there, land))
    BY <2>3, FelledHolds DEF land
  <2>5. ASSUME NEW t \in Tile PROVE terrain'[t] = "Coal" <=> Terrain0[t] = "Coal"
    <3>1. terrain'[t] = "Coal" <=> terrain[t] = "Coal"
      BY <2>2, <2>3, <2>4 DEF Gives, Land, land
    <3> QED BY <3>1 DEF Fit, SeamsStay
  <2> QED BY <2>1, <2>5 DEF SeamsStay, Tile
<1> QED BY <1>5, <1>6, <1>7, <1>8, <1>9, <1>10 DEF Fit

\* The books, item by item: what the rooms would give back, the roads, the logs in hands.
SoldIn(r)  == [b \in DOMAIN r |-> IF r[b].kind \in Rooms THEN Refund(r[b].kind, r[b].level) ELSE 0]
ValueOf(r) == SumFunctionOnSet(SoldIn(r), DOMAIN r)
RoadsIn(r) == {t \in Tile : r[t]}
Bearers(f) == {s \in DOMAIN f : f[s].carry}
Priced(r)  == IsFiniteSet(DOMAIN r) /\ \A b \in DOMAIN r : r[b].kind \in Kind /\ r[b].level \in 1..MaxLevel

\* The worth of a world is the sum of these items, before a step and after it.
LEMMA WorthIs ==
  /\ Worth  = wood + ValueOf(rooms) + RoadRefund * Cardinality(RoadsIn(road)) + Log * Cardinality(Bearers(folk))
  /\ Worth' = wood' + ValueOf(rooms') + RoadRefund * Cardinality(RoadsIn(road')) + Log * Cardinality(Bearers(folk'))
BY DEF Worth, Sold, ValueOf, SoldIn, RoadsIn, Bearers, Living, Tile, Rooms, Refund, LevelFactor, RoadRefund, Log

\* The rooms that stand have a price ...
LEMMA PricedNow == ASSUME IInv, Fit PROVE Priced(rooms)
<1>1. \A b \in DOMAIN rooms : b \in 0..(nextId - 1) /\ rooms[b].kind \in Kind /\ rooms[b].level \in 1..MaxLevel
  BY RoomIs DEF Fit, RoomsFit
<1>2. 0 \in Int /\ nextId - 1 \in Int
  BY DEF IInv, Shape
<1>3. DOMAIN rooms \in SUBSET (0..(nextId - 1))
  BY <1>1
<1>4. IsFiniteSet(DOMAIN rooms)
  BY <1>2, <1>3, FS_Interval, FS_Subset
<1> QED BY <1>1, <1>4 DEF Priced

\* ... and so have those that stand after a step.
LEMMA PricedThen == ASSUME IInv', Fit' PROVE Priced(rooms')
<1>0. Room' = Room
  BY DEF Room, Tile
<1>1. \A b \in DOMAIN rooms' : b \in 0..(nextId' - 1) /\ rooms'[b].kind \in Kind /\ rooms'[b].level \in 1..MaxLevel
  BY <1>0, RoomIs DEF Fit, RoomsFit
<1>2. 0 \in Int /\ nextId' - 1 \in Int
  BY DEF IInv, Shape
<1>3. DOMAIN rooms' \in SUBSET (0..(nextId' - 1))
  BY <1>1
<1>4. IsFiniteSet(DOMAIN rooms')
  BY <1>2, <1>3, FS_Interval, FS_Subset
<1> QED BY <1>1, <1>4 DEF Priced

\* The value of rooms that have a price is a number.
LEMMA SoldIs ==
  ASSUME NEW r, Priced(r)
  PROVE  ValueOf(r) \in Int /\ \A b \in DOMAIN r : SoldIn(r)[b] \in Nat
<1>1. \A b \in DOMAIN r : SoldIn(r)[b] \in Nat
  BY RefundIs DEF SoldIn, Priced
<1> HIDE DEF SoldIn
<1> QED BY <1>1, SumInt DEF ValueOf, Priced

\* The value of a room more, or of one less.
LEMMA ValueWithout ==
  ASSUME NEW r, NEW q, Priced(r), NEW y \in DOMAIN r, DOMAIN q = DOMAIN r \ {y}, \A x \in DOMAIN q : q[x] = r[x]
  PROVE  ValueOf(r) = ValueOf(q) + SoldIn(r)[y] /\ ValueOf(q) \in Int
<1> DEFINE f == SoldIn(r)   g == SoldIn(q)
<1>1. IsFiniteSet(DOMAIN r) /\ \A x \in DOMAIN r : f[x] \in Int
  BY SoldIs DEF Priced
<1>2. \A x \in DOMAIN q : g[x] = f[x]
  BY DEF SoldIn
<1>3. IsFiniteSet(DOMAIN q)
  BY <1>1, FS_RemoveElement
<1>4. \A x \in DOMAIN q : f[x] \in Int /\ g[x] = f[x]
  BY <1>1, <1>2
<1> HIDE DEF f, g
<1>5. SumFunctionOnSet(f, DOMAIN r) = f[y] + SumFunctionOnSet(f, DOMAIN r \ {y})
      /\ SumFunctionOnSet(f, DOMAIN r \ {y}) \in Int
  <2> DEFINE S == DOMAIN r
  <2>1. IsFiniteSet(S) /\ (\A x \in S : f[x] \in Int) /\ y \in S
    BY <1>1
  <2> HIDE DEF S
  <2>2. /\ SumFunctionOnSet(f, S) \in Int
        /\ SumFunctionOnSet(f, S \ {y}) \in Int
        /\ SumFunctionOnSet(f, S) = f[y] + SumFunctionOnSet(f, S \ {y})
    BY <2>1, SumAdd
  <2> QED BY <2>2 DEF S
<1>6. SumFunctionOnSet(g, DOMAIN q) = SumFunctionOnSet(f, DOMAIN q)
  BY <1>3, <1>4, SumSame
<1>7. f[y] \in Int
  BY <1>1
<1> QED BY <1>5, <1>6, <1>7 DEF ValueOf, f, g

\* The value when one room is another.
LEMMA ValueChanged ==
  ASSUME NEW r, NEW q, Priced(r), Priced(q), NEW y \in DOMAIN r, DOMAIN q = DOMAIN r,
         \A x \in DOMAIN r \ {y} : q[x].kind = r[x].kind /\ q[x].level = r[x].level
  PROVE  ValueOf(q) = ValueOf(r) + SoldIn(q)[y] - SoldIn(r)[y]
<1> DEFINE f == SoldIn(r)   g == SoldIn(q)
<1>1. IsFiniteSet(DOMAIN r) /\ \A x \in DOMAIN r : f[x] \in Int /\ g[x] \in Int
  BY SoldIs DEF Priced
<1>2. \A x \in DOMAIN r : x # y => g[x] = f[x]
  BY DEF SoldIn
<1> HIDE DEF f, g
<1>3. SumFunctionOnSet(g, DOMAIN r) = SumFunctionOnSet(f, DOMAIN r) + g[y] - f[y]
  BY <1>1, <1>2, SumChange
<1> QED BY <1>3 DEF ValueOf, f, g

\* Rooms of the same kinds and levels are worth the same.
LEMMA ValueSame ==
  ASSUME NEW r, NEW q, Priced(r), DOMAIN q = DOMAIN r,
         \A x \in DOMAIN r : q[x].kind = r[x].kind /\ q[x].level = r[x].level
  PROVE  ValueOf(q) = ValueOf(r)
<1>1. SoldIn(q) = SoldIn(r)
  BY DEF SoldIn
<1> QED BY <1>1 DEF ValueOf

\* The items are numbers.
LEMMA ItemsAre ==
  ASSUME IInv, Fit
  PROVE  /\ wood \in Nat /\ ValueOf(rooms) \in Int /\ RoadRefund \in Nat /\ gathered \in Nat
         /\ IsFiniteSet(RoadsIn(road)) /\ Cardinality(RoadsIn(road)) \in Nat
         /\ IsFiniteSet(Bearers(folk)) /\ Cardinality(Bearers(folk)) \in Nat
         /\ RoadRefund * Cardinality(RoadsIn(road)) \in Nat
         /\ Worth \in Int
<1>1. wood \in Nat /\ gathered \in Nat
  BY DEF Fit, StoresFit, SeamsStay
<1>2. ValueOf(rooms) \in Int
  BY PricedNow, SoldIs
<1>3. RoadRefund \in Nat
  BY Constants DEF RoadRefund
<1>4. RoadsIn(road) \in SUBSET Tile /\ Bearers(folk) \in SUBSET Living /\ IsFiniteSet(Living)
  BY DEF RoadsIn, Bearers, Living, IInv, Shape
<1>5. /\ IsFiniteSet(RoadsIn(road)) /\ Cardinality(RoadsIn(road)) \in Nat
      /\ IsFiniteSet(Bearers(folk)) /\ Cardinality(Bearers(folk)) \in Nat
  BY <1>4, TileFinite, FS_Subset, FS_CardinalityType
<1>6. RoadRefund * Cardinality(RoadsIn(road)) \in Nat
  BY <1>3, <1>5
<1>7. Worth \in Int
  BY <1>1, <1>2, <1>5, <1>6, WorthIs DEF Log
<1> QED BY <1>1, <1>2, <1>3, <1>5, <1>6, <1>7

\* No step makes more wood than is felled in it.
Balances == Worth' <= Worth + Log * (gathered' - gathered)

\* A new room is worth no more than is paid for it.
LEMMA PlaceBalances ==
  ASSUME IInv, Fit, IInv', Fit', NEW k \in Rooms, NEW p \in Tile, Place(k, p) PROVE Balances
<1> DEFINE new == [kind |-> k, at |-> p, level |-> 1, bench |-> 0, left |-> 1]
<1>1. /\ DOMAIN rooms' = DOMAIN rooms \cup {nextId} /\ nextId \notin DOMAIN rooms
      /\ rooms'[nextId] = new /\ \A b \in DOMAIN rooms : rooms'[b] = rooms[b]
  BY DEF Place, IInv, Shape
<1>2. road' = road /\ folk' = folk /\ gathered' = gathered
  BY DEF Place, ground
<1>3. PICK l \in WarehouseLevels : wood' = wood - Price(k, l)
  BY DEF Place
<1>4. l \in 0..MaxLevel /\ k \in Kind
  <2>1. MaxLevel \in Nat \ {0}
    BY Constants
  <2> QED BY <2>1, RoomIs DEF WarehouseLevels, Fit, RoomsFit, Rooms, Kind
<1>5. Price(k, l) \in Nat /\ Refund(k, 1) \in Nat /\ Refund(k, 1) <= Price(k, l)
  BY <1>4, RoomPriceIs
<1>6. ValueOf(rooms') = ValueOf(rooms) + SoldIn(rooms')[nextId]
  <2>1. Priced(rooms')
    BY PricedThen
  <2>2. nextId \in DOMAIN rooms' /\ DOMAIN rooms = DOMAIN rooms' \ {nextId} /\ \A x \in DOMAIN rooms : rooms[x] = rooms'[x]
    BY <1>1
  <2> QED BY <2>1, <2>2, ValueWithout
<1>7. SoldIn(rooms')[nextId] = Refund(k, 1)
  BY <1>1 DEF SoldIn
<1>8. gathered' - gathered = 0
  BY <1>2, ItemsAre
<1> QED BY <1>2, <1>3, <1>5, <1>6, <1>7, <1>8, WorthIs, ItemsAre DEF Balances, Log

\* A room torn down gives back what it was worth.
LEMMA DemolishBalances ==
  ASSUME IInv, Fit, NEW b \in DOMAIN rooms, Demolish(b) PROVE Balances
<1>1. /\ rooms' = [c \in DOMAIN rooms \ {b} |-> rooms[c]] /\ rooms[b].kind \in Rooms
      /\ wood' = wood + Refund(rooms[b].kind, rooms[b].level)
      /\ road' = road /\ folk' = folk /\ gathered' = gathered
  BY DEF Demolish, ground
<1>2. DOMAIN rooms' = DOMAIN rooms \ {b} /\ \A x \in DOMAIN rooms' : rooms'[x] = rooms[x]
  BY <1>1
<1>3. ValueOf(rooms) = ValueOf(rooms') + SoldIn(rooms)[b] /\ ValueOf(rooms') \in Int
  BY <1>2, PricedNow, ValueWithout
<1>4. SoldIn(rooms)[b] = Refund(rooms[b].kind, rooms[b].level) /\ SoldIn(rooms)[b] \in Nat
  BY <1>1, PricedNow, SoldIs DEF SoldIn
<1>5. gathered' - gathered = 0
  BY <1>1, ItemsAre
<1> QED BY <1>1, <1>3, <1>4, <1>5, WorthIs, ItemsAre DEF Balances, Log

\* Moving and turning are free, a fitting gives nothing back, and a level costs what it adds at least.
LEMMA InPlaceBalances ==
  ASSUME IInv, Fit, IInv', Fit', NEW b \in DOMAIN rooms,
         \/ \E p \in Tile : Relocate(b, p)
         \/ RotateBuilding(b) \/ UpgradeBuilding(b) \/ UpgradeFurnishing(b)
  PROVE  Balances
<1>1. road' = road /\ folk' = folk /\ gathered' = gathered /\ gathered' - gathered = 0
  <2>1. road' = road /\ folk' = folk /\ gathered' = gathered
    BY DEF Relocate, RotateBuilding, UpgradeBuilding, UpgradeFurnishing, ground
  <2> QED BY <2>1, ItemsAre
<1>2. rooms \in [DOMAIN rooms -> Site] /\ rooms[b] \in Site /\ Priced(rooms) /\ Priced(rooms')
      /\ rooms[b].kind \in Kind /\ rooms[b].level \in 1..MaxLevel
  BY PricedNow, PricedThen DEF IInv, Shape, Priced
<1> DEFINE Alike == /\ DOMAIN rooms' = DOMAIN rooms
                    /\ \A x \in DOMAIN rooms : rooms'[x].kind = rooms[x].kind /\ rooms'[x].level = rooms[x].level
<1>3. ASSUME Alike, wood' <= wood, wood' \in Int PROVE Balances
  <2>1. ValueOf(rooms') = ValueOf(rooms)
    BY <1>2, <1>3, ValueSame
  <2> QED BY <1>1, <1>3, <2>1, WorthIs, ItemsAre DEF Balances, Log
<1>4. wood \in Nat
  BY ItemsAre
<1>5. CASE \E p \in Tile : Relocate(b, p)
  <2>0. PICK p \in Tile : Relocate(b, p)
    BY <1>5
  <2>1. Alike /\ wood' = wood
    <3>1. rooms' = [rooms EXCEPT ![b].at = p, ![b].left = 1] /\ wood' = wood
      BY <2>0 DEF Relocate, stores
    <3>2. DOMAIN rooms' = DOMAIN rooms /\ \A x \in DOMAIN rooms \ {b} : rooms'[x] = rooms[x]
      BY <1>2, <3>1
    <3>3. rooms'[b].kind = rooms[b].kind /\ rooms'[b].level = rooms[b].level
      BY <1>2, <3>1 DEF Site
    <3> QED BY <3>1, <3>2, <3>3
  <2> QED BY <1>3, <1>4, <2>1
<1>6. CASE RotateBuilding(b)
  <2>1. Alike /\ wood' = wood
    BY <1>2, <1>6 DEF RotateBuilding, stores, Site
  <2> QED BY <1>3, <1>4, <2>1
<1>7. CASE UpgradeFurnishing(b)
  <2>1. Alike
    BY <1>2, <1>7 DEF UpgradeFurnishing, Site
  <2>2. FittingCost(rooms[b].bench + 1) \in Nat
    <3>1. BenchCost \in Nat /\ rooms[b].bench \in Nat
      BY RoomIs, Constants DEF Fit, RoomsFit
    <3>2. BenchCost * (rooms[b].bench + 1) \in Nat
      BY <3>1, Grows
    <3> QED BY <3>2 DEF FittingCost, Log
  <2>3. wood' = wood - FittingCost(rooms[b].bench + 1)
    BY <1>7 DEF UpgradeFurnishing
  <2>4. wood' <= wood /\ wood' \in Int
    BY <1>4, <2>2, <2>3
  <2> QED BY <1>3, <2>1, <2>4
<1>8. CASE UpgradeBuilding(b)
  <2> DEFINE k == rooms[b].kind   l == rooms[b].level
             up == [kind |-> k, at |-> rooms[b].at, level |-> l + 1, bench |-> rooms[b].bench, left |-> 1]
  <2>1. rooms' = [rooms EXCEPT ![b] = up] /\ wood' = wood - UpgradeCost(k, l + 1)
    BY <1>2, <1>8 DEF UpgradeBuilding, Site
  <2>2. DOMAIN rooms' = DOMAIN rooms /\ rooms'[b] = up /\ \A x \in DOMAIN rooms \ {b} : rooms'[x] = rooms[x]
    BY <1>2, <2>1
  <2>3. ValueOf(rooms') = ValueOf(rooms) + SoldIn(rooms')[b] - SoldIn(rooms)[b]
    BY <1>2, <2>2, ValueChanged
  <2>4. UpgradeCost(k, l + 1) \in Nat /\ Refund(k, l + 1) <= Refund(k, l) + UpgradeCost(k, l + 1)
        /\ Refund(k, l) \in Nat /\ Refund(k, l + 1) \in Int
    <3>1. UpgradeCost(k, l + 1) \in Nat /\ Refund(k, l + 1) <= Refund(k, l) + UpgradeCost(k, l + 1)
      BY <1>2, RaisePays
    <3>2. Refund(k, l) \in Nat /\ Refund(k, l + 1) = Refund(k, l) + Cost[k] * (RefundPct * BonusPct)
      BY <1>2, RefundIs
    <3>3. Cost[k] * (RefundPct * BonusPct) \in Int
      <4>1. Cost[k] \in Nat /\ RefundPct \in Nat /\ BonusPct \in Nat
        BY <1>2, Constants
      <4> QED BY <4>1
    <3> QED BY <3>1, <3>2, <3>3
  <2>5. SoldIn(rooms')[b] = (IF k \in Rooms THEN Refund(k, l + 1) ELSE 0)
        /\ SoldIn(rooms)[b] = IF k \in Rooms THEN Refund(k, l) ELSE 0
    BY <2>2 DEF SoldIn
  <2> HIDE DEF up
  <2>6. SoldIn(rooms')[b] - SoldIn(rooms)[b] <= UpgradeCost(k, l + 1)
        /\ SoldIn(rooms')[b] \in Int /\ SoldIn(rooms)[b] \in Int
    BY <2>4, <2>5
  <2> QED BY <1>1, <2>1, <2>3, <2>4, <2>6, WorthIs, ItemsAre DEF Balances, Log
<1> QED BY <1>5, <1>6, <1>7, <1>8

\* A road gives back less than it costs.
LEMMA RoadsBalance ==
  ASSUME IInv, Fit, NEW drag \in Drags, BuildRoad(drag) \/ RemoveRoad(drag)
  PROVE  Balances
<1>0. wood \in Nat /\ RoadCost \in Nat /\ RefundPct \in Nat /\ RefundPct <= 100 /\ RoadRefund \in Nat
  BY ItemsAre, Constants
<1>1. rooms' = rooms /\ folk' = folk /\ gathered' = gathered /\ gathered' - gathered = 0
  <2>1. rooms' = rooms /\ folk' = folk /\ gathered' = gathered
    BY DEF BuildRoad, RemoveRoad
  <2> QED BY <2>1, ItemsAre
<1> DEFINE R == RoadsIn(road)   C == Cardinality(R)
<1>2. IsFiniteSet(R) /\ C \in Nat
  BY ItemsAre
<1>3. CASE BuildRoad(drag)
  <2> DEFINE P == Paved(drag)   n == Cardinality(P)
  <2>1. /\ wood' = wood - n * RoadCost * Log
        /\ road' = [t \in Tile |-> road[t] \/ t \in P]
    BY <1>3 DEF BuildRoad, Paved, Afforded, Rank, Able
  <2>2. P \subseteq Tile /\ IsFiniteSet(P) /\ n \in Nat /\ \A t \in P : ~road[t]
    BY <1>0, PavedIs
  <2>3. RoadsIn(road') = R \cup P /\ R \cap P = {}
    BY <2>1, <2>2 DEF RoadsIn
  <2>4. Cardinality(RoadsIn(road')) = C + n
    <3>1. Cardinality({}) = 0
      BY FS_EmptySet
    <3> HIDE DEF P, R
    <3>2. IsFiniteSet(R) /\ IsFiniteSet(P)
      BY <1>2, <2>2
    <3>3. Cardinality(R \cup P) = Cardinality(R) + Cardinality(P) - Cardinality(R \cap P)
      BY <3>2, FS_Union
    <3>4. Cardinality(R \cap P) = 0 /\ Cardinality(R) \in Nat /\ Cardinality(P) \in Nat
      BY <1>2, <2>2, <2>3, <3>1
    <3> QED BY <2>3, <3>3, <3>4
  <2>5. RoadRefund <= RoadCost * 10000
    <3>1. RoadCost * RefundPct <= RoadCost * 100 /\ RoadCost * RefundPct \in Nat
      BY <1>0, Grows
    <3> QED BY <1>0, <3>1 DEF RoadRefund
  <2> HIDE DEF P, R, n, C
  <2>6. RoadRefund * (C + n) = RoadRefund * C + RoadRefund * n /\ RoadRefund * C \in Nat /\ RoadRefund * n \in Nat
    BY <1>0, <1>2, <2>2
  <2>7. n * RoadRefund <= n * (RoadCost * 10000) /\ RoadRefund * n = n * RoadRefund
        /\ n * (RoadCost * 10000) = n * RoadCost * 10000 /\ n * RoadCost * 10000 \in Int
    <3>1. RoadCost * 10000 \in Nat
      BY <1>0
    <3>2. n * RoadRefund <= n * (RoadCost * 10000) /\ RoadRefund * n = n * RoadRefund
      BY <1>0, <2>2, <2>5, <3>1, Grows
    <3>3. n * (RoadCost * 10000) = n * RoadCost * 10000 /\ n * RoadCost * 10000 \in Int
      BY <1>0, <2>2
    <3> QED BY <3>2, <3>3
  <2>8. Worth = wood + ValueOf(rooms) + RoadRefund * C + 10000 * Cardinality(Bearers(folk))
    BY WorthIs DEF C, R, Log
  <2>9. Worth' = wood' + ValueOf(rooms) + (RoadRefund * C + RoadRefund * n) + 10000 * Cardinality(Bearers(folk))
    BY <1>1, <2>4, <2>6, WorthIs DEF Log
  <2>10. wood' = wood - n * RoadCost * 10000 /\ ValueOf(rooms) \in Int /\ Cardinality(Bearers(folk)) \in Nat
    BY <2>1, ItemsAre DEF Log
  <2>11. Worth' <= Worth
    BY <1>0, <2>6, <2>7, <2>8, <2>9, <2>10
  <2>12. Worth \in Int
    BY ItemsAre
  <2> QED BY <1>1, <2>11, <2>12 DEF Balances, Log
<1>4. CASE RemoveRoad(drag)
  <2> DEFINE T == Torn(drag)   n == Cardinality(T)
  <2>1. wood' = wood + n * RoadRefund /\ road' = [t \in Tile |-> road[t] /\ t \notin T]
    BY <1>4 DEF RemoveRoad, Torn
  <2>2. T \subseteq R /\ IsFiniteSet(T) /\ n \in Nat
    BY TornIs DEF RoadsIn
  <2>3. RoadsIn(road') = R \ T /\ R \cap T = T
    BY <2>1, <2>2 DEF RoadsIn
  <2>4. Cardinality(RoadsIn(road')) = C - n
    <3> HIDE DEF T, R
    <3> QED BY <1>2, <2>3, FS_Difference
  <2> HIDE DEF T, R, n, C
  <2>5. RoadRefund * (C - n) = RoadRefund * C - RoadRefund * n /\ RoadRefund * C \in Nat /\ RoadRefund * n \in Nat
        /\ RoadRefund * n = n * RoadRefund
    BY <1>0, <1>2, <2>2
  <2>6. Worth = wood + ValueOf(rooms) + RoadRefund * C + 10000 * Cardinality(Bearers(folk))
    BY WorthIs DEF C, R, Log
  <2>7. Worth' = wood' + ValueOf(rooms) + (RoadRefund * C - RoadRefund * n) + 10000 * Cardinality(Bearers(folk))
    BY <1>1, <2>4, <2>5, WorthIs DEF Log
  <2>8. ValueOf(rooms) \in Int /\ Cardinality(Bearers(folk)) \in Nat /\ Worth \in Int
    BY ItemsAre
  <2>9. Worth' <= Worth
    BY <1>0, <2>1, <2>5, <2>6, <2>7, <2>8
  <2> QED BY <1>1, <2>8, <2>9 DEF Balances, Log
<1> QED BY <1>3, <1>4

\* A log in a hand is worth a log in the store: whoever is sent elsewhere loses the one for the other.
LEMMA PeopleBalance ==
  ASSUME IInv, Fit,
         \/ \E s \in Living, here \in BOOLEAN : AssignSurvivor(s, here)
         \/ LetGo
         \/ \E s \in Living : MoveSurvivor(s) \/ Leave(s)
         \/ \E s \in Living, t \in Tile : ChopTile(s, t) \/ ClearSnow(s, t)
         \/ \E l \in 0..MaxBurn : SetFurnaceLevel(l)
  PROVE  Balances
<1>1. rooms' = rooms /\ road' = road /\ gathered' = gathered
  BY DEF AssignSurvivor, LetGo, MoveSurvivor, Leave, ChopTile, ClearSnow, SetFurnaceLevel, Sent, ground
<1>2. /\ wood \in Nat /\ IsFiniteSet(Bearers(folk)) /\ Cardinality(Bearers(folk)) \in Nat /\ gathered' - gathered = 0
  BY <1>1, ItemsAre
<1>3. ASSUME wood' + Log * Cardinality(Bearers(folk')) <= wood + Log * Cardinality(Bearers(folk)),
             wood' \in Int, Cardinality(Bearers(folk')) \in Int
      PROVE  Balances
  BY <1>1, <1>2, <1>3, WorthIs, ItemsAre DEF Balances, Log
<1>4. ASSUME wood' = wood, Bearers(folk') \in SUBSET Bearers(folk) PROVE Balances
  <2>1. Cardinality(Bearers(folk')) <= Cardinality(Bearers(folk)) /\ Cardinality(Bearers(folk')) \in Nat
    BY <1>2, <1>4, FS_Subset, FS_CardinalityType
  <2> QED BY <1>2, <1>3, <1>4, <2>1 DEF Log
<1>5. \A s \in Living : folk[s] \in Person
  BY DEF Fit, FolkFit
<1>6. ASSUME NEW s \in Living, NEW who \in Person, ~who.carry, Sent(s, who) PROVE Balances
  <2>1. folk' = [folk EXCEPT ![s] = who] /\ wood' = wood + Pocket(s)
    BY <1>6 DEF Sent
  <2>2. Bearers(folk') = Bearers(folk) \ {s}
    BY <1>6, <2>1 DEF Bearers, Living
  <2>3. Cardinality(Bearers(folk')) = IF s \in Bearers(folk) THEN Cardinality(Bearers(folk)) - 1 ELSE Cardinality(Bearers(folk))
    BY <1>2, <2>2, FS_RemoveElement
  <2>4. Pocket(s) = IF s \in Bearers(folk) THEN 10000 ELSE 0
    BY <1>6 DEF Pocket, Bearers, Living, Log
  <2> QED BY <1>2, <1>3, <2>1, <2>3, <2>4 DEF Log
<1>7. CASE \E s \in Living, here \in BOOLEAN : AssignSurvivor(s, here)
  <2>1. PICK s \in Living, here \in BOOLEAN : AssignSurvivor(s, here)
    BY <1>7
  <2> DEFINE who == [folk[s] EXCEPT !.chop = Nowhere, !.carry = FALSE, !.post = here]
  <2>2. who \in Person /\ ~who.carry
    BY <1>5, <2>1 DEF Person
  <2>3. Sent(s, who)
    BY <2>1 DEF AssignSurvivor
  <2> HIDE DEF who
  <2> QED BY <1>6, <2>2, <2>3
<1>8. CASE LetGo
  <2>1. folk' = [folk EXCEPT ![Max({s \in Living : folk[s].post})].post = FALSE] /\ wood' = wood
    BY <1>8 DEF LetGo, stores
  <2>2. Bearers(folk') \in SUBSET Bearers(folk)
    BY <1>5, <2>1 DEF Bearers, Living, Person
  <2> QED BY <1>4, <2>1, <2>2
<1>9. CASE \E s \in Living : MoveSurvivor(s)
  <2>1. PICK s \in Living : MoveSurvivor(s)
    BY <1>9
  <2> DEFINE who == [Idle(s) EXCEPT !.walk = TRUE]
  <2>2. who \in Person /\ ~who.carry
    BY <1>5, <2>1 DEF Person, Idle
  <2>3. Sent(s, who)
    BY <2>1 DEF MoveSurvivor
  <2> HIDE DEF who
  <2> QED BY <1>6, <2>2, <2>3
<1>10. CASE \E s \in Living : Leave(s)
  <2>1. PICK s \in Living : Leave(s)
    BY <1>10
  <2>2. folk' = [p \in Living \ {s} |-> folk[p]] /\ wood' = wood
    BY <2>1 DEF Leave, stores
  <2>3. Bearers(folk') \in SUBSET Bearers(folk)
    BY <2>2 DEF Bearers, Living
  <2> QED BY <1>4, <2>2, <2>3
<1>11. CASE \E s \in Living, t \in Tile : ChopTile(s, t)
  <2>1. PICK s \in Living, t \in Tile : ChopTile(s, t)
    BY <1>11
  <2> DEFINE who == [Idle(s) EXCEPT !.chop = t]
  <2>2. who \in Person /\ ~who.carry
    BY <1>5, <2>1 DEF Person, Idle
  <2>3. Sent(s, who)
    BY <2>1 DEF ChopTile
  <2> HIDE DEF who
  <2> QED BY <1>6, <2>2, <2>3
<1>12. CASE \E s \in Living, t \in Tile : ClearSnow(s, t)
  <2>1. PICK s \in Living, t \in Tile : ClearSnow(s, t)
    BY <1>12
  <2>2. folk' = [folk EXCEPT ![s] = [Idle(s) EXCEPT !.walk = TRUE]] /\ wood' = wood
    BY <2>1 DEF ClearSnow, stores
  <2>3. Bearers(folk') \in SUBSET Bearers(folk)
    BY <1>5, <2>1, <2>2 DEF Bearers, Living, Person, Idle
  <2> QED BY <1>4, <2>2, <2>3
<1>13. CASE \E l \in 0..MaxBurn : SetFurnaceLevel(l)
  <2>1. folk' = folk /\ wood' = wood
    BY <1>13 DEF SetFurnaceLevel
  <2> QED BY <1>4, <2>1
<1> QED BY <1>7, <1>8, <1>9, <1>10, <1>11, <1>12, <1>13

\* Of a tick: a log comes to the store from the mill and from the axes of those who fetch none,
\* and to a hand from the others' axes.
LEMMA TickBalances ==
  ASSUME IInv, Fit, NEW b \in DOMAIN rooms \cup {-1}, NEW there \in SUBSET Living, Tick(b, there)
  PROVE  Balances
<1>1. PICK work, deep, tree : Ticked(b, there, work, deep, tree)
  BY TickIs
<1>2. PICK done : Turn(there, work, done, deep, Felled(there, Drawn(work.from)), tree)
  BY <1>1 DEF Ticked
<1>3. work \in Works(b) /\ tree \in Tile \cup {Nowhere}
  BY <1>1 DEF Ticked
<1> DEFINE mill == IF Milled(work) THEN 1 ELSE 0
           A == Axes(there)   D == Hands(there)   B == Bearers(folk)   C == Bearers(folk')
<1>4. /\ IsFiniteSet(A) /\ IsFiniteSet(D) /\ D \subseteq A /\ Cardinality(A) \in Nat /\ Cardinality(D) \in Nat
  BY PartsAreFinite
<1>5. /\ wood \in Nat /\ IsFiniteSet(B) /\ Cardinality(B) \in Nat /\ gathered \in Nat
      /\ ValueOf(rooms) \in Int /\ RoadRefund * Cardinality(RoadsIn(road)) \in Nat /\ Worth \in Int
  BY ItemsAre
<1>6. /\ wood' = Burned.wood + Log * (mill + Cardinality(D))
      /\ gathered' = gathered + mill + Cardinality(A) /\ road' = road
  BY <1>2, TurnIs
<1>7. Burned.wood \in Nat /\ Burned.wood <= wood
  BY BurnedIs DEF Fit
<1>8. ValueOf(rooms') = ValueOf(rooms)
  <2> DEFINE left == work.rooms[Furnace].left - Cardinality(Homing(there))
             rest == IF left > 0 THEN left ELSE 0
  <2>1. rooms' = work.rooms \/ rooms' = [work.rooms EXCEPT ![Furnace].left = rest]
    BY <1>2, TurnIs
  <2> HIDE DEF rest
  <2>2. \A c \in DOMAIN rooms : work.rooms[c].kind = rooms[c].kind /\ work.rooms[c].level = rooms[c].level
    BY <1>3, WorksFit
  <2>3. work.rooms \in [DOMAIN rooms -> Site]
    BY <1>3, WorksStand
  <2>4. DOMAIN rooms' = DOMAIN rooms
        /\ \A c \in DOMAIN rooms : rooms'[c].kind = rooms[c].kind /\ rooms'[c].level = rooms[c].level
    <3>1. CASE rooms' = work.rooms
      BY <2>2, <2>3, <3>1
    <3>2. CASE rooms' = [work.rooms EXCEPT ![Furnace].left = rest]
      BY <2>2, <2>3, <3>2 DEF Site
    <3> QED BY <2>1, <3>1, <3>2
  <2> QED BY <2>4, PricedNow, ValueSame
<1>9. C \in SUBSET (B \cup (A \ D))
  <2> DEFINE moved == [s \in Living |-> Step(s, s \in there, tree)]
  <2>1. folk' = moved \/ folk' = Relieved(moved)
    BY <1>2, TurnMoves
  <2>2. \A s \in Living : /\ moved[s] \in Person
                          /\ moved[s].carry => folk[s].carry \/ (s \in there /\ Fells(s) /\ Fetches(s))
    BY <1>3, StepFits DEF Fit, FolkFit
  <2> HIDE DEF moved
  <2>3. DOMAIN moved = Living
    BY DEF moved
  <2>4. DOMAIN Relieved(moved) = Living /\ \A s \in Living : Relieved(moved)[s].carry => moved[s].carry
    BY <2>2, <2>3 DEF Relieved, Person
  <2>5. DOMAIN folk' = Living /\ \A s \in Living : folk'[s].carry => moved[s].carry
    BY <2>1, <2>3, <2>4
  <2>6. \A s \in Living : s \in C => s \in B \/ (s \in A /\ s \notin D)
    BY <2>2, <2>5 DEF Bearers, Living, Axes, Hands
  <2>7. \A s \in C : s \in Living
    BY <2>5 DEF Bearers
  <2> HIDE DEF A, B, C, D
  <2> QED BY <2>6, <2>7
<1>10. Cardinality(C) \in Nat /\ Cardinality(C) <= Cardinality(B) + Cardinality(A) - Cardinality(D)
  <2> HIDE DEF A, B, C, D
  <2>1. IsFiniteSet(A \ D) /\ Cardinality(A \ D) = Cardinality(A) - Cardinality(A \cap D)
    BY <1>4, FS_Difference
  <2>2. A \cap D = D
    BY <1>4
  <2>3. IsFiniteSet(B \cup (A \ D))
        /\ Cardinality(B \cup (A \ D)) = Cardinality(B) + Cardinality(A \ D) - Cardinality(B \cap (A \ D))
    BY <1>5, <2>1, FS_Union
  <2>4. Cardinality(B \cap (A \ D)) \in Nat
    <3>1. B \cap (A \ D) \in SUBSET B
      OBVIOUS
    <3> QED BY <1>5, <3>1, FS_Subset, FS_CardinalityType
  <2>5. Cardinality(C) <= Cardinality(B \cup (A \ D)) /\ Cardinality(C) \in Nat
    BY <1>9, <2>3, FS_Subset, FS_CardinalityType
  <2>6. Cardinality(A \ D) = Cardinality(A) - Cardinality(D)
    BY <2>1, <2>2
  <2>7. Cardinality(A) \in Nat /\ Cardinality(D) \in Nat /\ Cardinality(B) \in Nat
    BY <1>4, <1>5
  <2>8. Cardinality(B \cup (A \ D)) <= Cardinality(B) + Cardinality(A) - Cardinality(D)
    BY <2>3, <2>4, <2>6, <2>7
  <2>9. Cardinality(B \cup (A \ D)) \in Int
    BY <2>3, FS_CardinalityType
  <2> QED BY <2>5, <2>7, <2>8, <2>9
<1>11. /\ Worth = wood + ValueOf(rooms) + RoadRefund * Cardinality(RoadsIn(road)) + 10000 * Cardinality(B)
       /\ Worth' = wood' + ValueOf(rooms) + RoadRefund * Cardinality(RoadsIn(road)) + 10000 * Cardinality(C)
  BY <1>6, <1>8, WorthIs DEF Log
<1>12. mill \in Nat
  OBVIOUS
<1> HIDE DEF mill, A, B, C, D
<1> QED BY <1>4, <1>5, <1>6, <1>7, <1>10, <1>11, <1>12 DEF Balances, Log

\* What has been taken from the seams, on a map whose deposits are d.
SeamIn(d) == [t \in Tile |-> IF Terrain0[t] = "Coal" THEN Deposit0 - d[t] ELSE 0]

\* The coal that was dug is the sum of what the seams have lost, before a step and after it.
LEMMA MinedIs ==
  /\ CoalMined = SumFunctionOnSet(SeamIn(deposit), Tile)
  /\ CoalMined' = SumFunctionOnSet(SeamIn(deposit'), Tile)
BY DEF CoalMined, Seam, SeamIn, Tile

\* What the seams have lost is a number.
LEMMA SeamsAre ==
  ASSUME NEW d \in [Tile -> Nat]
  PROVE  (\A t \in Tile : SeamIn(d)[t] \in Int) /\ SumFunctionOnSet(SeamIn(d), Tile) \in Int
<1>1. \A t \in Tile : SeamIn(d)[t] \in Int
  BY Constants DEF SeamIn
<1> HIDE DEF SeamIn
<1> QED BY <1>1, TileFinite, SumInt

\* No step makes coal that was not in the ground.
CoalBalances == coal' + CoalMined <= coal + CoalMined'

\* A step that leaves the coal and the deposits alone.
LEMMA CoalStays ==
  ASSUME IInv, Fit, coal' = coal, deposit' = deposit PROVE CoalBalances
<1>1. coal \in Nat /\ CoalMined \in Int
  BY MinedIs, SeamsAre DEF Fit, StoresFit, IInv, Shape
<1>2. CoalMined' = CoalMined
  BY MinedIs
<1> QED BY <1>1, <1>2 DEF CoalBalances

\* A tick brings up no more coal than the seam it comes from loses.
LEMMA TickDigs ==
  ASSUME IInv, Fit, IInv', NEW b \in DOMAIN rooms \cup {-1}, NEW there \in SUBSET Living, Tick(b, there)
  PROVE  CoalBalances
<1>1. PICK work, deep, tree : Ticked(b, there, work, deep, tree)
  BY TickIs
<1>2. PICK done : Turn(there, work, done, deep, Felled(there, Drawn(work.from)), tree)
  BY <1>1 DEF Ticked
<1>3. work \in Works(b)
  BY <1>1 DEF Ticked
<1> DEFINE from == work.from
<1>4. from = Nowhere \/ (from \in Tile /\ terrain[from] # "Snow")
  BY <1>3, WorksStand
<1>5. deposit \in [Tile -> Nat] /\ deposit' \in [Tile -> Nat] /\ terrain \in [Tile -> {"Snow", "Forest", "Coal"}]
  BY DEF IInv, Shape, Tile
<1>6. \A t \in Tile : terrain[t] = "Coal" <=> Terrain0[t] = "Coal"
  BY DEF Fit, SeamsStay
<1>7. deposit' = Felled(there, Drawn(from)).deposit
  BY <1>2 DEF Turn
<1>8. ASSUME NEW t \in Tile, Terrain0[t] = "Coal"
      PROVE  deposit'[t] = IF from # Nowhere /\ t = from THEN deposit[t] - 1 ELSE deposit[t]
  <2>1. terrain[t] # "Forest"
    BY <1>6, <1>8
  <2>2. /\ Drawn(from).terrain[t] = terrain[t]
        /\ Drawn(from).deposit[t] = IF from # Nowhere /\ t = from THEN deposit[t] - 1 ELSE deposit[t]
    BY <1>4, <2>1, DrawnSeams
  <2>3. Felled(there, Drawn(from)).deposit[t] = Drawn(from).deposit[t]
    BY <2>1, <2>2, AxesSpareSeams
  <2> QED BY <1>7, <2>2, <2>3
<1> DEFINE f == SeamIn(deposit)   g == SeamIn(deposit')
<1>9. (\A t \in Tile : f[t] \in Int /\ g[t] \in Int) /\ SumFunctionOnSet(f, Tile) \in Int
  BY <1>5, SeamsAre
<1>10. coal' = Burned.coal + (IF Mined(work) THEN 1 ELSE 0)
  BY <1>2, TurnIs
<1>11. Burned.coal \in Nat /\ Burned.coal <= coal /\ coal \in Nat
  BY BurnedIs DEF Fit, StoresFit
<1>12. CoalMined = SumFunctionOnSet(f, Tile) /\ CoalMined' = SumFunctionOnSet(g, Tile)
  BY MinedIs
<1>13. CASE Mined(work)
  <2>1. from \in Tile /\ Terrain0[from] = "Coal" /\ from # Nowhere
    BY <1>4, <1>5, <1>6, <1>13 DEF Mined
  <2>2. deposit'[from] = deposit[from] - 1 /\ deposit[from] \in Nat
    BY <1>5, <1>8, <2>1
  <2>3. g[from] = f[from] + 1
    BY <2>1, <2>2, Constants DEF SeamIn
  <2>4. \A t \in Tile : t # from => g[t] = f[t]
    BY <1>8 DEF SeamIn
  <2> HIDE DEF f, g, from
  <2>5. SumFunctionOnSet(g, Tile) = SumFunctionOnSet(f, Tile) + g[from] - f[from]
    BY <1>9, <2>1, <2>4, TileFinite, SumChange
  <2>6. SumFunctionOnSet(g, Tile) = SumFunctionOnSet(f, Tile) + 1
    BY <1>9, <2>1, <2>3, <2>5
  <2> QED BY <1>9, <1>10, <1>11, <1>12, <1>13, <2>6 DEF CoalBalances
<1>14. CASE ~Mined(work)
  <2>1. \A t \in Tile : Terrain0[t] = "Coal" => ~(from # Nowhere /\ t = from)
    BY <1>6, <1>14 DEF Mined
  <2>2. \A t \in Tile : g[t] = f[t]
    BY <1>8, <2>1 DEF SeamIn
  <2> HIDE DEF f, g
  <2>3. SumFunctionOnSet(g, Tile) = SumFunctionOnSet(f, Tile)
    BY <1>9, <2>2, TileFinite, SumSame
  <2> QED BY <1>9, <1>10, <1>11, <1>12, <1>14, <2>3 DEF CoalBalances
<1> QED BY <1>13, <1>14

\* What may have been credited for the woods of a map, and who is on the way to a tree that fell.
HadIn(ter, dep) ==
  [t \in Tile |-> IF Terrain0[t] = "Forest"
                  THEN Deposit0 - dep[t] + (IF ter[t] = "Snow" THEN Cardinality(People) ELSE 0) ELSE 0]
LateIn(who, ter) == {s \in DOMAIN who : who[s].chop # Nowhere /\ ter[who[s].chop] = "Snow"}

\* Whoever is late can still be credited a log, and nobody is late but for a wood that fell.
WoodsStay  == \A t \in Tile : terrain[t] = "Forest" => Terrain0[t] = "Forest"
ToTheWoods == \A s \in Living : folk[s].chop # Nowhere => Terrain0[folk[s].chop] = "Forest"
Credits    == gathered + Cardinality(LateIn(folk, terrain)) <= SumFunctionOnSet(HadIn(terrain, deposit), Tile)
Errands    == WoodsStay /\ ToTheWoods /\ Credits

\* The property's sum is this one.
LEMMA HadIs == ASSUME IInv PROVE SumFunctionOnSet(Had, Tile) = SumFunctionOnSet(HadIn(terrain, deposit), Tile)
<1>1. Had = [t \in Tile |-> IF Terrain0[t] = "Forest" /\ terrain[t] = "Snow"
                            THEN Lost[t] + Cardinality(People) ELSE Lost[t]]
  BY DEF Had
<1>2. Lost = [t \in Tile |-> IF Terrain0[t] = "Forest" THEN Deposit0 - deposit[t] ELSE 0]
  BY DEF Lost
<1>3. ASSUME NEW t \in Tile PROVE Had[t] = HadIn(terrain, deposit)[t]
  <2>1. deposit[t] \in Nat /\ Deposit0 \in Nat /\ Cardinality(People) \in Nat
    BY LandAssumption, FS_CardinalityType DEF IInv, Shape
  <2>2. Lost[t] = IF Terrain0[t] = "Forest" THEN Deposit0 - deposit[t] ELSE 0
    BY <1>2
  <2>3. Had[t] = IF Terrain0[t] = "Forest" /\ terrain[t] = "Snow" THEN Lost[t] + Cardinality(People) ELSE Lost[t]
    BY <1>1
  <2> QED BY <2>1, <2>2, <2>3 DEF HadIn
<1>4. Had = HadIn(terrain, deposit)
  BY <1>1, <1>3 DEF HadIn
<1> QED BY <1>4

\* What may have been credited is a number.
LEMMA HadInt ==
  ASSUME NEW ter, NEW dep \in [Tile -> Nat]
  PROVE  /\ Cardinality(People) \in Nat
         /\ \A t \in Tile : HadIn(ter, dep)[t] \in Int
         /\ SumFunctionOnSet(HadIn(ter, dep), Tile) \in Int
<1>1. Cardinality(People) \in Nat /\ Deposit0 \in Nat
  BY LandAssumption, FS_CardinalityType
<1>2. \A t \in Tile : HadIn(ter, dep)[t] \in Int
  BY <1>1 DEF HadIn
<1> HIDE DEF HadIn
<1> QED BY <1>1, <1>2, TileFinite, SumInt

\* Those who are late are some of those who live.
LEMMA LateAre ==
  ASSUME NEW who, IsFiniteSet(DOMAIN who), NEW ter
  PROVE  /\ LateIn(who, ter) \in SUBSET DOMAIN who /\ IsFiniteSet(LateIn(who, ter))
         /\ Cardinality(LateIn(who, ter)) \in Nat
<1>1. LateIn(who, ter) \in SUBSET DOMAIN who
  BY DEF LateIn
<1> QED BY <1>1, FS_Subset, FS_CardinalityType

\* A command that fells nothing, and sends nobody but to a tree that stands.
LEMMA ErrandsKept ==
  ASSUME IInv, Fit, Errands, terrain' = terrain, deposit' = deposit, gathered' = gathered,
         Living' \subseteq Living,
         \A s \in Living' : \/ folk'[s].chop \in {folk[s].chop, Nowhere}
                            \/ folk'[s].chop \in Tile /\ terrain[folk'[s].chop] = "Forest"
  PROVE  Errands'
<1>1. WoodsStay' /\ ToTheWoods'
  BY DEF Errands, WoodsStay, ToTheWoods, Tile, Nowhere
<1>2. LateIn(folk', terrain') \in SUBSET LateIn(folk, terrain)
  BY DEF LateIn, Living, Nowhere
<1>3. IsFiniteSet(Living)
  BY DEF IInv, Shape
<1> DEFINE L == LateIn(folk, terrain)   M == LateIn(folk', terrain')
           h == SumFunctionOnSet(HadIn(terrain, deposit), Tile)
<1>4. IsFiniteSet(L) /\ Cardinality(L) \in Nat
  BY <1>3, LateAre DEF Living
<1>5. Cardinality(M) \in Nat /\ Cardinality(M) <= Cardinality(L)
  BY <1>2, <1>4, FS_Subset, FS_CardinalityType
<1>6. gathered + Cardinality(L) <= h /\ h \in Int /\ gathered \in Nat
  BY HadInt DEF Errands, Credits, IInv, Shape, Fit, SeamsStay
<1>7. gathered' + Cardinality(M) <= SumFunctionOnSet(HadIn(terrain', deposit'), Tile)
  <2> HIDE DEF L, M
  <2>1. gathered + Cardinality(M) <= h
    BY <1>4, <1>5, <1>6
  <2> QED BY <2>1
<1>8. Credits'
  BY <1>7 DEF Credits, HadIn, LateIn, Tile
<1> QED BY <1>1, <1>8 DEF Errands

\* Where an errand leads after a tick: where it led, to a tree that stands, or nowhere; and whoever
\* has felled has no errand.
LEMMA StepLeads ==
  ASSUME NEW s, folk[s] \in Person, NEW there, NEW tree \in Tile \cup {Nowhere}
  PROVE  /\ Step(s, s \in there, tree).chop \in {folk[s].chop, tree, Nowhere}
         /\ s \in there /\ Fells(s) => Step(s, s \in there, tree).chop = Nowhere
<1> DEFINE me == IF s \in there THEN [folk[s] EXCEPT !.walk = FALSE] ELSE folk[s]
<1>1. me \in Person /\ me.chop = folk[s].chop
  BY DEF Person
<1>2. CASE s \in there /\ Fells(s)
  <2>1. Step(s, s \in there, tree) = [me EXCEPT !.chop = Nowhere, !.carry = @ \/ Fetches(s)]
    BY <1>2 DEF Step, Brings, Fells
  <2> HIDE DEF me
  <2> QED BY <1>1, <2>1 DEF Person
<1>3. CASE ~(s \in there /\ Fells(s))
  <2>1. Step(s, s \in there, tree) \in {[me EXCEPT !.carry = FALSE], [me EXCEPT !.chop = tree], me}
    BY <1>3 DEF Step
  <2> HIDE DEF me
  <2> QED BY <1>1, <1>3, <2>1 DEF Person
<1> QED BY <1>2, <1>3

\* What a tick leaves of a wood that stands after it: a unit less for the crew that drew one
\* there, and one for each axe.
LEMMA StandingWood ==
  ASSUME IInv, NEW from, NEW there \in SUBSET Living,
         from = Nowhere \/ (from \in Tile /\ deposit[from] \in Nat \ {0} /\ terrain[from] # "Snow"),
         NEW t \in Tile, Felled(there, Drawn(from)).terrain[t] = "Forest"
  PROVE  /\ terrain[t] = "Forest"
         /\ Felled(there, Drawn(from)).deposit[t] =
              deposit[t] - (IF from # Nowhere /\ from = t THEN 1 ELSE 0) - Cardinality({s \in Axes(there) : folk[s].chop = t})
<1> DEFINE land == Drawn(from)
           blows(u) == Cardinality({s \in there : Fells(s) /\ folk[s].chop = u})
           struck == {u \in Timber(land) : \E s \in there : Fells(s) /\ folk[s].chop = u}
           bare   == {u \in struck : land.deposit[u] <= blows(u)}
<1>1. Wooded(land) /\ Gives(Land, land)
  BY DrawnHolds
<1>2. Felled(there, land) =
        [deposit |-> [u \in Tile |-> IF u \in bare THEN 0 ELSE IF u \in struck THEN land.deposit[u] - blows(u) ELSE land.deposit[u]],
         terrain |-> [u \in Tile |-> IF u \in bare THEN "Snow" ELSE land.terrain[u]]]
  BY DEF Felled
<1>3. {s \in Axes(there) : folk[s].chop = t} = {s \in there : Fells(s) /\ folk[s].chop = t}
  BY DEF Axes
<1>4. blows(t) \in Nat
  <2>1. {s \in there : Fells(s) /\ folk[s].chop = t} \in SUBSET Living /\ IsFiniteSet(Living)
    BY DEF IInv, Shape
  <2> QED BY <2>1, FS_Subset, FS_CardinalityType
<1>5. t \notin bare /\ land.terrain[t] = "Forest"
  <2> HIDE DEF land, bare, struck, blows
  <2> QED BY <1>2 DEF land
<1>6. terrain[t] = "Forest"
  BY <1>1, <1>5 DEF Gives, Land
<1>7. t \in Timber(land)
  BY <1>1, <1>5 DEF Wooded, Timber
<1>8. Felled(there, land).deposit[t] = land.deposit[t] - blows(t)
  <2>1. CASE t \in struck
    <3> HIDE DEF land, bare, struck, blows
    <3> QED BY <1>2, <1>5, <2>1
  <2>2. CASE t \notin struck
    <3>1. {s \in there : Fells(s) /\ folk[s].chop = t} = {}
      BY <1>7, <2>2
    <3>2. blows(t) = 0
      BY <3>1, FS_EmptySet
    <3>3. land.deposit[t] \in Nat
      BY <1>1 DEF Wooded
    <3>4. Felled(there, land).deposit[t] = land.deposit[t]
      <4> HIDE DEF land, bare, struck, blows
      <4> QED BY <1>2, <1>5, <2>2
    <3> HIDE DEF land, blows
    <3> QED BY <3>2, <3>3, <3>4
  <2> QED BY <2>1, <2>2
<1>9. land.deposit[t] = deposit[t] - (IF from # Nowhere /\ from = t THEN 1 ELSE 0)
  BY DEF Drawn, Land, IInv, Shape
<1>10. blows(t) = Cardinality({s \in Axes(there) : folk[s].chop = t})
  BY <1>3
<1> HIDE DEF blows
<1> QED BY <1>6, <1>8, <1>9, <1>10

\* A tick credits for a wood no more than it lost, or than its fall allows: whoever strikes a bare
\* tile was late before, and is so no more.
LEMMA TickCredits ==
  ASSUME IInv, Fit, Errands, IInv', Fit',
         NEW b \in DOMAIN rooms \cup {-1}, NEW there \in SUBSET Living, Tick(b, there)
  PROVE  Errands'
<1>1. PICK work, deep, tree : Ticked(b, there, work, deep, tree)
  BY TickIs
<1>2. PICK done : Turn(there, work, done, deep, Felled(there, Drawn(work.from)), tree)
  BY <1>1 DEF Ticked
<1> DEFINE from == work.from
           land == Drawn(from)
           fel  == Felled(there, land)
           moved == [s \in Living |-> Step(s, s \in there, tree)]
           P == Cardinality(People)
           A == Axes(there)
           L == LateIn(folk, terrain)
           M == LateIn(folk', terrain')
           c == [s \in Living |-> IF s \in A THEN folk[s].chop ELSE folk'[s].chop]
           X == {s \in A \cup M : terrain[c[s]] # "Snow"}
           mill == IF Milled(work) THEN 1 ELSE 0
           h == HadIn(terrain, deposit)
           f == [h EXCEPT ![from] = @ + mill]
           g == HadIn(terrain', deposit')
\* The land.
<1>3. work \in Works(b) /\ tree \in Tile \cup {Nowhere} /\ tree \in Timber(land) \cup {Nowhere}
  BY <1>1 DEF Ticked
<1>4. from = Nowhere \/ (from \in Tile /\ deposit[from] \in Nat \ {0} /\ terrain[from] # "Snow")
  BY <1>3, WorksStand
<1>5. terrain' = fel.terrain /\ deposit' = fel.deposit
  BY <1>2 DEF Turn
<1>6. Wooded(land) /\ Gives(Land, land) /\ Wooded(fel) /\ Gives(land, fel)
  BY <1>4, DrawnHolds, FelledHolds
<1>7. \A t \in Tile : terrain'[t] = terrain[t] \/ (terrain[t] = "Forest" /\ terrain'[t] = "Snow")
  <2> HIDE DEF land, fel
  <2> QED BY <1>5, <1>6 DEF Gives, Land
<1>8. /\ terrain \in [Tile -> {"Snow", "Forest", "Coal"}] /\ deposit \in [Tile -> Nat]
      /\ terrain' \in [Tile -> {"Snow", "Forest", "Coal"}] /\ deposit' \in [Tile -> Nat]
      /\ \A t \in Tile : /\ terrain[t] = "Forest" => deposit[t] > 0
                         /\ terrain[t] = "Snow" => deposit[t] = 0
                         /\ terrain'[t] = "Snow" => deposit'[t] = 0
      /\ IsFiniteSet(Living)
  BY DEF IInv, Shape, ForestHasTimber, Tile
<1>9. \A t \in Tile : /\ terrain[t] = "Forest" => Terrain0[t] = "Forest"
                      /\ Terrain0[t] = "Forest" => terrain[t] \in {"Forest", "Snow"}
  BY <1>8 DEF Errands, WoodsStay, Fit, SeamsStay
<1>10. tree # Nowhere => tree \in Tile /\ Terrain0[tree] = "Forest" /\ terrain[tree] = "Forest"
  <2> HIDE DEF land
  <2> QED BY <1>3, <1>6, <1>9 DEF Timber, Gives, Land
\* The people.
<1>11. /\ DOMAIN folk' = Living
       /\ \A s \in Living : /\ folk[s].chop \in Tile \cup {Nowhere}
                            /\ folk'[s].chop \in {folk[s].chop, tree, Nowhere}
                            /\ s \in A => folk'[s].chop = Nowhere
  <2>1. folk' = moved \/ folk' = Relieved(moved)
    BY <1>2, TurnMoves
  <2>2. \A s \in Living : /\ folk[s] \in Person /\ moved[s] \in Person
                          /\ moved[s].chop \in {folk[s].chop, tree, Nowhere}
                          /\ s \in A => moved[s].chop = Nowhere
    BY <1>3, StepFits, StepLeads DEF Fit, FolkFit, Axes
  <2>3. DOMAIN moved = Living
    OBVIOUS
  <2> HIDE DEF moved
  <2>4. DOMAIN Relieved(moved) = Living /\ \A s \in Living : Relieved(moved)[s].chop \in {moved[s].chop, Nowhere}
    BY <2>2, <2>3 DEF Relieved, Person
  <2> QED BY <2>1, <2>2, <2>3, <2>4 DEF Person
<1>12. \A s \in Living : folk[s].chop # Nowhere => Terrain0[folk[s].chop] = "Forest"
  BY DEF Errands, ToTheWoods
<1>13. WoodsStay'
  BY <1>7, <1>9 DEF WoodsStay, Tile
<1>14. ToTheWoods'
  BY <1>10, <1>11, <1>12 DEF ToTheWoods, Living
<1>15. /\ A \in SUBSET Living /\ \A s \in A : folk[s].chop # Nowhere
       /\ M = {s \in Living : folk'[s].chop # Nowhere /\ terrain'[folk'[s].chop] = "Snow"}
       /\ L = {s \in Living : folk[s].chop # Nowhere /\ terrain[folk[s].chop] = "Snow"}
  BY <1>11 DEF Axes, Fells, LateIn, Living
<1>16. A \cap M = {}
  BY <1>11, <1>15
<1>17. /\ IsFiniteSet(A) /\ IsFiniteSet(M) /\ IsFiniteSet(L) /\ IsFiniteSet(X)
       /\ Cardinality(A) \in Nat /\ Cardinality(M) \in Nat /\ Cardinality(L) \in Nat /\ Cardinality(X) \in Nat
  <2>1. A \in SUBSET Living /\ M \in SUBSET Living /\ L \in SUBSET Living /\ X \in SUBSET Living
    BY <1>15
  <2> HIDE DEF A, M, L, X
  <2> QED BY <1>8, <2>1, FS_Subset, FS_CardinalityType
\* Each of those who strike and those who are late now was late before, or is among X.
<1>18. Cardinality(A) + Cardinality(M) <= Cardinality(X) + Cardinality(L)
  <2>1. \A s \in A \cup M : s \in X \/ s \in L
    BY <1>10, <1>11, <1>15
  <2> HIDE DEF A, M, L, X
  <2>2. A \cup M \in SUBSET (X \cup L)
    BY <2>1
  <2>3. Cardinality(A \cup M) = Cardinality(A) + Cardinality(M) /\ IsFiniteSet(A \cup M)
    <3>1. Cardinality(A \cup M) = Cardinality(A) + Cardinality(M) - Cardinality(A \cap M) /\ IsFiniteSet(A \cup M)
      BY <1>17, FS_Union
    <3>2. Cardinality(A \cap M) = 0
      BY <1>16, FS_EmptySet
    <3> QED BY <1>17, <3>1, <3>2
  <2>4. Cardinality(X \cup L) = Cardinality(X) + Cardinality(L) - Cardinality(X \cap L) /\ IsFiniteSet(X \cup L)
    BY <1>17, FS_Union
  <2>5. Cardinality(X \cap L) \in Nat
    <3>1. X \cap L \in SUBSET X OBVIOUS
    <3> QED BY <1>17, <3>1, FS_Subset, FS_CardinalityType
  <2>6. Cardinality(A \cup M) <= Cardinality(X \cup L)
    BY <2>2, <2>4, FS_Subset
  <2> QED BY <1>17, <2>3, <2>4, <2>5, <2>6
\* They point at woods that gave what they took, or that fell.
<1>19. \A s \in X : s \in Living /\ c[s] \in Tile /\ Terrain0[c[s]] = "Forest" /\ terrain[c[s]] = "Forest"
  BY <1>9, <1>10, <1>11, <1>12, <1>15
<1>20. P \in Nat /\ Deposit0 \in Nat /\ \A t \in Tile : h[t] \in Int /\ g[t] \in Int
  BY <1>8, HadInt, LandAssumption
<1>21. /\ Milled(work) => from \in Tile /\ terrain[from] = "Forest" /\ Terrain0[from] = "Forest"
       /\ mill \in {0, 1} /\ (~Milled(work) => mill = 0)
       /\ \A t \in Tile : f[t] = h[t] + (IF t = from THEN mill ELSE 0)
  <2>1. Milled(work) => from \in Tile /\ terrain[from] = "Forest" /\ Terrain0[from] = "Forest"
    BY <1>4, <1>9 DEF Milled
  <2>2. DOMAIN h = Tile
    BY DEF HadIn
  <2>3. mill \in {0, 1} /\ (~Milled(work) => mill = 0)
    OBVIOUS
  <2> HIDE DEF h, from, mill
  <2> QED BY <1>20, <2>1, <2>2, <2>3
<1>22. ASSUME NEW t \in Tile
       PROVE  f[t] + Cardinality({s \in X : c[s] = t}) <= g[t]
  <2> DEFINE Xt == {s \in X : c[s] = t}
  <2> SUFFICES f[t] + Cardinality(Xt) <= g[t]
    OBVIOUS
  <2>1. /\ h[t] = IF Terrain0[t] = "Forest" THEN Deposit0 - deposit[t] + (IF terrain[t] = "Snow" THEN P ELSE 0) ELSE 0
        /\ g[t] = IF Terrain0[t] = "Forest" THEN Deposit0 - deposit'[t] + (IF terrain'[t] = "Snow" THEN P ELSE 0) ELSE 0
        /\ f[t] = h[t] + (IF t = from THEN mill ELSE 0)
    BY <1>21 DEF HadIn
  <2>2. deposit[t] \in Nat /\ deposit'[t] \in Nat
    BY <1>8
  <2>3. CASE terrain[t] # "Forest"
    <3>1. Xt = {}
      BY <1>19, <2>3
    <3>2. Cardinality(Xt) = 0
      BY <3>1, FS_EmptySet
    <3>3. t = from => mill = 0
      <4> HIDE DEF f, g, h, from, mill
      <4> QED BY <1>21, <2>3
    <3>4. terrain'[t] = terrain[t] /\ (Terrain0[t] = "Forest" => deposit[t] = 0 /\ deposit'[t] = 0)
      BY <1>7, <1>8, <1>9, <2>3
    <3>5. f[t] = g[t] /\ g[t] \in Int
      <4> HIDE DEF f, g, h, P, from, mill
      <4> QED BY <1>20, <2>1, <2>2, <3>3, <3>4
    <3> HIDE DEF f, g, Xt
    <3> QED BY <3>2, <3>5
  <2>4. CASE terrain[t] = "Forest" /\ terrain'[t] # "Forest"
    <3>1. Terrain0[t] = "Forest" /\ terrain'[t] = "Snow" /\ deposit'[t] = 0 /\ deposit[t] > 0
      BY <1>7, <1>8, <1>9, <2>4
    <3>2. Xt \in SUBSET People
      BY <1>19 DEF Fit, FolkFit
    <3>3. Cardinality(Xt) \in Nat /\ Cardinality(Xt) <= P
      <4> HIDE DEF Xt
      <4> QED BY <3>2, LandAssumption, FS_Subset, FS_CardinalityType
    <3>4. mill \in {0, 1}
      OBVIOUS
    <3> HIDE DEF f, g, h, P, from, mill, Xt
    <3>5. h[t] = Deposit0 - deposit[t] /\ g[t] = Deposit0 - 0 + P
      BY <1>20, <2>1, <2>2, <2>4, <3>1
    <3>6. f[t] <= h[t] + 1 /\ f[t] \in Int
      BY <1>20, <2>1, <3>4
    <3> QED BY <1>20, <2>2, <3>1, <3>3, <3>5, <3>6
  <2>5. CASE terrain[t] = "Forest" /\ terrain'[t] = "Forest"
    <3> DEFINE struck == {s \in A : folk[s].chop = t}
    <3>1. Xt = struck
      <4>1. ASSUME NEW s \in Xt PROVE s \in struck
        BY <1>15, <2>5
      <4>2. ASSUME NEW s \in struck PROVE s \in Xt
        BY <1>15, <2>5
      <4> QED BY <4>1, <4>2
    <3>2. deposit'[t] = deposit[t] - (IF from # Nowhere /\ from = t THEN 1 ELSE 0) - Cardinality(struck)
      BY <1>4, <1>5, <2>5, StandingWood
    <3>3. (IF from # Nowhere /\ from = t THEN 1 ELSE 0) = (IF t = from THEN mill ELSE 0)
      BY <2>5 DEF Milled, Tile, Nowhere
    <3>4. Terrain0[t] = "Forest"
      BY <1>9, <2>5
    <3>5. Cardinality(Xt) \in Nat
      <4>1. Xt \in SUBSET A
        BY <3>1
      <4> HIDE DEF Xt, A
      <4> QED BY <1>17, <4>1, FS_Subset, FS_CardinalityType
    <3> DEFINE m == IF t = from THEN mill ELSE 0
    <3>6. m \in Int
      OBVIOUS
    <3>7. h[t] = Deposit0 - deposit[t] /\ g[t] = Deposit0 - deposit'[t] /\ f[t] = h[t] + m
      <4> HIDE DEF f, g, h, P, from, mill
      <4> QED BY <1>20, <2>1, <2>2, <2>5, <3>4
    <3>8. deposit'[t] = deposit[t] - m - Cardinality(Xt)
      BY <3>1, <3>2, <3>3
    <3> HIDE DEF f, g, h, P, Xt, m
    <3> QED BY <1>20, <2>2, <3>5, <3>6, <3>7, <3>8
  <2> QED BY <2>3, <2>4, <2>5
<1>23. SumFunctionOnSet(f, Tile) + Cardinality(X) <= SumFunctionOnSet(g, Tile)
  <2>1. \A t \in Tile : f[t] \in Int /\ g[t] \in Int
    BY <1>20, <1>21
  <2>2. \A s \in X : c[s] \in Tile
    BY <1>19
  <2> HIDE DEF f, g, X, c
  <2> QED BY <1>17, <1>22, <2>1, <2>2, TileFinite, SumCovers
<1>24. /\ SumFunctionOnSet(f, Tile) = SumFunctionOnSet(h, Tile) + mill
       /\ SumFunctionOnSet(h, Tile) \in Int /\ SumFunctionOnSet(g, Tile) \in Int
  <2>1. SumFunctionOnSet(h, Tile) \in Int /\ SumFunctionOnSet(g, Tile) \in Int
    BY <1>8, HadInt
  <2>2. CASE from \in Tile
    <3>1. /\ \A t \in Tile : h[t] \in Int /\ f[t] \in Int
          /\ \A t \in Tile : t # from => f[t] = h[t]
          /\ f[from] = h[from] + mill
      BY <1>20, <1>21, <2>2
    <3> HIDE DEF f, h, from, mill
    <3>2. SumFunctionOnSet(f, Tile) = SumFunctionOnSet(h, Tile) + f[from] - h[from]
      BY <2>2, <3>1, TileFinite, SumChange
    <3> QED BY <1>21, <2>1, <2>2, <3>1, <3>2
  <2>3. CASE from \notin Tile
    <3>1. mill = 0 /\ \A t \in Tile : h[t] \in Int /\ f[t] = h[t]
      <4> HIDE DEF f, g, h, from, mill
      <4> QED BY <1>20, <1>21, <2>3
    <3> HIDE DEF f, h, mill
    <3>2. SumFunctionOnSet(f, Tile) = SumFunctionOnSet(h, Tile)
      BY <3>1, TileFinite, SumSame
    <3> QED BY <2>1, <3>1, <3>2
  <2> QED BY <2>1, <2>2, <2>3
<1>25. gathered' = gathered + mill + Cardinality(A) /\ gathered \in Nat
  BY <1>2, TurnIs DEF Fit, SeamsStay
<1>26. gathered + Cardinality(L) <= SumFunctionOnSet(h, Tile)
  BY DEF Errands, Credits
<1>27. gathered' + Cardinality(M) <= SumFunctionOnSet(g, Tile)
  <2> HIDE DEF f, g, h, A, L, M, X, mill
  <2> QED BY <1>17, <1>18, <1>21, <1>23, <1>24, <1>25, <1>26
<1>28. Credits'
  BY <1>27 DEF Credits, HadIn, LateIn, Tile
<1> QED BY <1>13, <1>14, <1>28 DEF Errands

\* The books of a world: the ground and the types are in order, and neither wood nor coal is more
\* than was had from the land.
Books == IInv /\ Fit /\ Errands /\ Worth <= (Wood0 + gathered) * Log /\ coal <= CoalMined

\* At first there is the wood in store, and nothing has been dug.
LEMMA InitBooks == ASSUME Init PROVE Books
<1>1. IInv /\ Fit
  BY Init_IInv, InitFits
<1>2. wood = Wood0 * 10000 /\ gathered = 0 /\ coal = 0 /\ Wood0 \in Nat
  BY Constants DEF Init, Log
<1>3. ValueOf(rooms) = 0
  <2>1. DOMAIN rooms = {Furnace} /\ rooms[Furnace].kind = "Furnace"
    BY DEF Init
  <2>2. \A b \in DOMAIN rooms : SoldIn(rooms)[b] = 0
    BY <2>1 DEF SoldIn, Rooms
  <2> DEFINE f == SoldIn(rooms)   S == DOMAIN rooms
  <2>3. IsFiniteSet(S) /\ {} \in SUBSET S /\ (\A b \in S : f[b] \in Int) /\ \A b \in S \ {} : f[b] = 0
    BY <2>1, <2>2, FS_Singleton
  <2> HIDE DEF f, S
  <2>4. SumFunctionOnSet(f, {}) = SumFunctionOnSet(f, S)
    BY <2>3, SumDrop
  <2>5. SumFunctionOnSet(f, S) = 0
    BY <2>4, SumEmpty
  <2> QED BY <2>5 DEF ValueOf, f, S
<1>4. Cardinality(RoadsIn(road)) = 0 /\ Cardinality(Bearers(folk)) = 0
  <2>1. RoadsIn(road) = {} /\ Bearers(folk) = {}
    BY DEF Init, RoadsIn, Bearers
  <2> QED BY <2>1, FS_EmptySet
<1>5. CoalMined = 0
  <2>1. \A t \in Tile : Terrain0[t] = "Coal" => deposit[t] = Deposit0
    BY DEF Init
  <2> DEFINE f == SeamIn(deposit)
  <2>2. \A t \in Tile : f[t] = 0
    BY <2>1, Constants DEF SeamIn
  <2> HIDE DEF f
  <2>3. (\A t \in Tile : f[t] \in Int) /\ {} \in SUBSET Tile /\ \A t \in Tile \ {} : f[t] = 0
    BY <2>2
  <2>4. SumFunctionOnSet(f, {}) = SumFunctionOnSet(f, Tile)
    BY <2>3, TileFinite, SumDrop
  <2>5. SumFunctionOnSet(f, Tile) = 0
    BY <2>4, SumEmpty
  <2> QED BY <2>5, MinedIs DEF f
<1>6. RoadRefund * 0 = 0
  <2>1. RoadRefund \in Nat
    BY <1>1, ItemsAre
  <2> QED BY <2>1
<1>7. Worth = wood
  BY <1>2, <1>3, <1>4, <1>6, WorthIs DEF Log
<1>8. Errands
  <2>1. \A t \in Tile : terrain[t] = Terrain0[t] /\ (Terrain0[t] = "Forest" => deposit[t] = Deposit0)
    BY DEF Init
  <2>2. \A s \in DOMAIN folk : folk[s].chop = Nowhere
    BY DEF Init
  <2>3. LateIn(folk, terrain) = {}
    BY <2>2 DEF LateIn
  <2>4. Cardinality(LateIn(folk, terrain)) = 0
    BY <2>3, FS_EmptySet
  <2> DEFINE f == HadIn(terrain, deposit)
  <2>5. \A t \in Tile : f[t] = 0
    BY <2>1, LandAssumption DEF HadIn
  <2> HIDE DEF f
  <2>6. (\A t \in Tile : f[t] \in Int) /\ {} \in SUBSET Tile /\ \A t \in Tile \ {} : f[t] = 0
    BY <2>5
  <2>7. SumFunctionOnSet(f, {}) = SumFunctionOnSet(f, Tile)
    BY <2>6, TileFinite, SumDrop
  <2>8. SumFunctionOnSet(f, Tile) = 0
    BY <2>7, SumEmpty
  <2>9. Credits
    BY <1>2, <2>4, <2>8 DEF Credits, f
  <2>10. WoodsStay /\ ToTheWoods
    BY <2>1, <2>2 DEF WoodsStay, ToTheWoods, Living
  <2> QED BY <2>9, <2>10 DEF Errands
<1> QED BY <1>1, <1>2, <1>5, <1>7, <1>8 DEF Books, Log

\* Every step balances both books.
LEMMA NextBalances ==
  ASSUME IInv, Fit, [Next]_vars
  PROVE  IInv' /\ Fit' /\ Balances /\ CoalBalances
<1>1. IInv'
  BY Next_IInv
<1>2. CASE \E k \in Rooms, p \in Tile : Place(k, p)
  <2>1. PICK k \in Rooms, p \in Tile : Place(k, p)
    BY <1>2
  <2>2. Fit'
    BY <2>1, PlaceFits
  <2>3. Balances
    BY <1>1, <2>1, <2>2, PlaceBalances
  <2>4. coal' = coal /\ deposit' = deposit
    BY <2>1 DEF Place, ground
  <2> QED BY <1>1, <2>2, <2>3, <2>4, CoalStays
<1>3. CASE \E b \in DOMAIN rooms : Demolish(b)
  <2>1. PICK b \in DOMAIN rooms : Demolish(b)
    BY <1>3
  <2>2. Fit' /\ Balances
    BY <2>1, DemolishFits, DemolishBalances
  <2>3. coal' = coal /\ deposit' = deposit
    BY <2>1 DEF Demolish, ground
  <2> QED BY <1>1, <2>2, <2>3, CoalStays
<1>4. CASE \E b \in DOMAIN rooms : \/ \E p \in Tile : Relocate(b, p)
                                   \/ RotateBuilding(b) \/ UpgradeBuilding(b) \/ UpgradeFurnishing(b)
  <2>1. PICK b \in DOMAIN rooms : \/ \E p \in Tile : Relocate(b, p)
                                  \/ RotateBuilding(b) \/ UpgradeBuilding(b) \/ UpgradeFurnishing(b)
    BY <1>4
  <2>2. Fit'
    BY <2>1, InPlaceFits
  <2>3. Balances
    BY <1>1, <2>1, <2>2, InPlaceBalances
  <2>4. coal' = coal /\ deposit' = deposit
    BY <2>1 DEF Relocate, RotateBuilding, UpgradeBuilding, UpgradeFurnishing, ground, stores
  <2> QED BY <1>1, <2>2, <2>3, <2>4, CoalStays
<1>5. CASE \E drag \in Drags : BuildRoad(drag) \/ RemoveRoad(drag)
  <2>1. PICK drag \in Drags : BuildRoad(drag) \/ RemoveRoad(drag)
    BY <1>5
  <2>2. Fit' /\ Balances
    BY <2>1, RoadsFit, RoadsBalance
  <2>3. coal' = coal /\ deposit' = deposit
    BY <2>1 DEF BuildRoad, RemoveRoad
  <2> QED BY <1>1, <2>2, <2>3, CoalStays
<1>6. CASE \/ \E s \in Living, here \in BOOLEAN : AssignSurvivor(s, here)
           \/ LetGo
           \/ \E s \in Living : MoveSurvivor(s) \/ Leave(s)
           \/ \E s \in Living, t \in Tile : ChopTile(s, t) \/ ClearSnow(s, t)
           \/ \E l \in 0..MaxBurn : SetFurnaceLevel(l)
  <2>1. Fit' /\ Balances
    BY <1>6, PeopleFit, PeopleBalance
  <2>2. coal' = coal /\ deposit' = deposit
    BY <1>6 DEF AssignSurvivor, LetGo, MoveSurvivor, Leave, ChopTile, ClearSnow, SetFurnaceLevel, Sent, ground, stores
  <2> QED BY <1>1, <2>1, <2>2, CoalStays
<1>7. CASE \E b \in DOMAIN rooms \cup {-1}, there \in SUBSET {s \in Living : Going(s)} : Tick(b, there)
  <2>1. PICK b \in DOMAIN rooms \cup {-1}, there \in SUBSET Living : Tick(b, there)
    BY <1>7
  <2>2. Fit'
    BY <2>1, TickFits
  <2>3. Balances
    BY <2>1, TickBalances
  <2>4. CoalBalances
    BY <1>1, <2>1, TickDigs
  <2> QED BY <1>1, <2>2, <2>3, <2>4
<1>8. CASE UNCHANGED vars
  <2>1. /\ terrain' = terrain /\ deposit' = deposit /\ road' = road /\ snow' = snow /\ rooms' = rooms /\ nextId' = nextId
        /\ wood' = wood /\ coal' = coal /\ burn' = burn /\ lit' = lit /\ folk' = folk /\ orders' = orders
        /\ gathered' = gathered
    BY <1>8 DEF vars, ground, stores
  <2>2. Fit'
    BY <2>1 DEF Fit, RoomsFit, Room, Tile, HearthFit, StoresFit, SnowFits, FolkFit, Living, Person, OrdersFit, SeamsStay
  <2>3. Balances
    <3>1. Worth' = Worth /\ gathered' - gathered = 0 /\ Worth \in Int
      BY <2>1, WorthIs, ItemsAre
    <3> QED BY <3>1 DEF Balances, Log
  <2> QED BY <1>1, <2>1, <2>2, <2>3, CoalStays
<1>9. CASE Command
  BY <1>2, <1>3, <1>4, <1>5, <1>6, <1>9 DEF Command
<1> QED BY <1>6, <1>7, <1>8, <1>9 DEF Next

\* No step credits for the woods more than they gave or their fall allows.
LEMMA NextCredits ==
  ASSUME IInv, Fit, Errands, IInv', Fit', [Next]_vars
  PROVE  Errands'
<1> DEFINE Led(s) == \/ folk'[s].chop \in {folk[s].chop, Nowhere}
                     \/ folk'[s].chop \in Tile /\ terrain[folk'[s].chop] = "Forest"
           Still  == terrain' = terrain /\ deposit' = deposit /\ gathered' = gathered
<1>1. CASE Still /\ folk' = folk
  BY <1>1, ErrandsKept DEF Living
<1>2. CASE \/ \E k \in Rooms, p \in Tile : Place(k, p)
           \/ \E b \in DOMAIN rooms : Demolish(b) \/ RotateBuilding(b) \/ UpgradeBuilding(b) \/ UpgradeFurnishing(b)
           \/ \E b \in DOMAIN rooms, p \in Tile : Relocate(b, p)
           \/ \E drag \in Drags : BuildRoad(drag) \/ RemoveRoad(drag)
           \/ \E l \in 0..MaxBurn : SetFurnaceLevel(l)
           \/ UNCHANGED vars
  <2>1. Still /\ folk' = folk
    BY <1>2 DEF Place, Demolish, RotateBuilding, UpgradeBuilding, UpgradeFurnishing, Relocate, BuildRoad, RemoveRoad,
                SetFurnaceLevel, ground, stores, vars
  <2> QED BY <1>1, <2>1
<1>3. CASE \/ \E s \in Living, here \in BOOLEAN : AssignSurvivor(s, here)
           \/ LetGo
           \/ \E s \in Living : MoveSurvivor(s) \/ Leave(s)
           \/ \E s \in Living, t \in Tile : ChopTile(s, t) \/ ClearSnow(s, t)
  <2>1. \A s \in Living : folk[s] \in Person
    BY DEF Fit, FolkFit
  <2>2. Still
    BY <1>3 DEF AssignSurvivor, LetGo, MoveSurvivor, Leave, ChopTile, ClearSnow, Sent, ground, stores
  <2>3. ASSUME NEW s \in Living, NEW who \in Person, folk' = [folk EXCEPT ![s] = who],
               \/ who.chop \in {folk[s].chop, Nowhere}
               \/ who.chop \in Tile /\ terrain[who.chop] = "Forest"
        PROVE  Errands'
    <3>1. DOMAIN folk' = DOMAIN folk /\ \A p \in Living : folk'[p] = IF p = s THEN who ELSE folk[p]
      BY <2>3 DEF Living
    <3>2. Living' = Living /\ \A p \in Living : Led(p)
      BY <2>3, <3>1 DEF Living
    <3> QED BY <2>2, <3>2, ErrandsKept
  <2>4. CASE \E s \in Living, here \in BOOLEAN : AssignSurvivor(s, here)
    <3>1. PICK s \in Living, here \in BOOLEAN : AssignSurvivor(s, here)
      BY <2>4
    <3> DEFINE who == [folk[s] EXCEPT !.chop = Nowhere, !.carry = FALSE, !.post = here]
    <3>2. who \in Person /\ who.chop = Nowhere
      BY <2>1, <3>1 DEF Person
    <3>3. folk' = [folk EXCEPT ![s] = who]
      BY <3>1 DEF AssignSurvivor, Sent
    <3> HIDE DEF who
    <3> QED BY <2>3, <3>2, <3>3
  <2>5. CASE LetGo
    <3>1. Living' = Living /\ \A p \in Living : folk'[p].chop = folk[p].chop
      <4>1. folk' = [folk EXCEPT ![Max({s \in Living : folk[s].post})].post = FALSE]
        BY <2>5 DEF LetGo
      <4> QED BY <2>1, <4>1 DEF Living, Person
    <3> QED BY <2>2, <3>1, ErrandsKept
  <2>6. CASE \E s \in Living : MoveSurvivor(s)
    <3>1. PICK s \in Living : MoveSurvivor(s)
      BY <2>6
    <3> DEFINE who == [Idle(s) EXCEPT !.walk = TRUE]
    <3>2. who \in Person /\ who.chop = Nowhere
      BY <2>1, <3>1 DEF Person, Idle
    <3>3. folk' = [folk EXCEPT ![s] = who]
      BY <3>1 DEF MoveSurvivor, Sent
    <3> HIDE DEF who
    <3> QED BY <2>3, <3>2, <3>3
  <2>7. CASE \E s \in Living : Leave(s)
    <3>1. PICK s \in Living : Leave(s)
      BY <2>7
    <3>2. Living' \subseteq Living /\ \A p \in Living' : folk'[p].chop = folk[p].chop
      BY <3>1 DEF Leave, Living
    <3> QED BY <2>2, <3>2, ErrandsKept
  <2>8. CASE \E s \in Living, t \in Tile : ChopTile(s, t)
    <3>1. PICK s \in Living, t \in Tile : ChopTile(s, t)
      BY <2>8
    <3> DEFINE who == [Idle(s) EXCEPT !.chop = t]
    <3>2. who \in Person /\ who.chop = t
      BY <2>1, <3>1 DEF Person, Idle
    <3>3. folk' = [folk EXCEPT ![s] = who] /\ terrain[t] = "Forest"
      BY <3>1 DEF ChopTile, Sent
    <3> HIDE DEF who
    <3> QED BY <2>3, <3>1, <3>2, <3>3
  <2>9. CASE \E s \in Living, t \in Tile : ClearSnow(s, t)
    <3>1. PICK s \in Living, t \in Tile : ClearSnow(s, t)
      BY <2>9
    <3> DEFINE who == [Idle(s) EXCEPT !.walk = TRUE]
    <3>2. who \in Person /\ who.chop = Nowhere
      BY <2>1, <3>1 DEF Person, Idle
    <3>3. folk' = [folk EXCEPT ![s] = who]
      BY <3>1 DEF ClearSnow
    <3> HIDE DEF who
    <3> QED BY <2>3, <3>2, <3>3
  <2> QED BY <1>3, <2>4, <2>5, <2>6, <2>7, <2>8, <2>9
<1>4. CASE \E b \in DOMAIN rooms \cup {-1}, there \in SUBSET {s \in Living : Going(s)} : Tick(b, there)
  BY <1>4, TickCredits
<1>5. CASE Command
  BY <1>2, <1>3, <1>5 DEF Command
<1> QED BY <1>2, <1>3, <1>4, <1>5 DEF Next

\* Both books stay balanced.
LEMMA NextBooks == ASSUME Books, [Next]_vars PROVE Books'
<1>1. IInv /\ Fit /\ Errands /\ Worth <= (Wood0 + gathered) * Log /\ coal <= CoalMined
  BY DEF Books
<1>2. IInv' /\ Fit' /\ Errands' /\ Balances /\ CoalBalances
  BY <1>1, NextBalances, NextCredits
<1>3. Worth \in Int /\ gathered \in Nat /\ Wood0 \in Nat /\ coal \in Nat /\ CoalMined \in Int
  BY <1>1, ItemsAre, Constants, MinedIs, SeamsAre DEF Fit, StoresFit, IInv, Shape
<1>4. gathered' \in Nat /\ coal' \in Nat /\ wood' \in Nat
  BY <1>2 DEF Fit, SeamsStay, StoresFit
<1>5. CoalMined' \in Int
  <2>1. deposit' \in [Tile -> Nat]
    BY <1>2 DEF IInv, Shape, Tile
  <2> QED BY <2>1, MinedIs, SeamsAre
<1>6. Worth' \in Int
  <2>1. ValueOf(rooms') \in Int
    BY <1>2, PricedThen, SoldIs
  <2>2. RoadsIn(road') \in SUBSET Tile /\ Bearers(folk') \in SUBSET Living' /\ IsFiniteSet(Living')
    BY <1>2 DEF RoadsIn, Bearers, Living, IInv, Shape
  <2>3. Cardinality(RoadsIn(road')) \in Nat /\ Cardinality(Bearers(folk')) \in Nat
    BY <2>2, TileFinite, FS_Subset, FS_CardinalityType
  <2>4. RoadRefund * Cardinality(RoadsIn(road')) \in Int
    BY <1>1, <2>3, ItemsAre
  <2> QED BY <1>4, <2>1, <2>3, <2>4, WorthIs DEF Log
<1>7. Worth' <= (Wood0 + gathered') * Log
  <2>1. Worth' <= Worth + 10000 * (gathered' - gathered)
    BY <1>2 DEF Balances, Log
  <2>2. Worth <= (Wood0 + gathered) * 10000
    BY <1>1 DEF Log
  <2>3. Worth' <= (Wood0 + gathered') * 10000
    <3> DEFINE g == gathered   h == gathered'   w == Worth   x == Worth'
    <3>1. g \in Int /\ h \in Int /\ w \in Int /\ x \in Int /\ Wood0 \in Int
      BY <1>3, <1>4, <1>6
    <3>2. x <= w + 10000 * (h - g) /\ w <= (Wood0 + g) * 10000
      BY <2>1, <2>2
    <3> HIDE DEF g, h, w, x
    <3>3. x <= (Wood0 + h) * 10000
      BY <3>1, <3>2
    <3> QED BY <3>3 DEF g, h, w, x
  <2> QED BY <2>3 DEF Log
<1>8. coal' <= CoalMined'
  <2>1. coal' + CoalMined <= coal + CoalMined'
    BY <1>2 DEF CoalBalances
  <2>2. coal \in Int /\ coal' \in Int /\ CoalMined \in Int /\ CoalMined' \in Int
    BY <1>3, <1>4, <1>5
  <2>3. \A c, d, m, n \in Int : d + m <= c + n /\ c <= m => d <= n
    OBVIOUS
  <2> QED BY <1>1, <2>1, <2>2, <2>3
<1> QED BY <1>2, <1>7, <1>8 DEF Books, Log

\* The books balance in every reachable state, whatever the prices within the assumptions.
THEOREM BooksBalance == Spec => []Books
<1>1. Init => Books
  BY InitBooks
<1>2. Books /\ [Next]_vars => Books'
  BY NextBooks
<1> QED BY <1>1, <1>2, PTL DEF Spec

\* No wood that was not felled and no coal that was not dug, however rooms are built at a discount,
\* raised, moved and torn down, roads laid and lifted, and people sent about; no store is overdrawn,
\* no level is passed, and every field keeps its type.
THEOREM StoresAreAccountedFor == Spec => []StoresAccountedFor
<1>1. Books => StoresAccountedFor
  <2> SUFFICES ASSUME Books PROVE StoresAccountedFor
    OBVIOUS
  <2> DEFINE h == SumFunctionOnSet(HadIn(terrain, deposit), Tile)
             n == Cardinality(LateIn(folk, terrain))
  <2>1. IInv /\ Fit /\ Errands
    BY DEF Books
  <2>2. gathered + n <= h /\ gathered \in Nat
    BY <2>1 DEF Errands, Credits, Fit, SeamsStay
  <2>3. n \in Nat /\ h \in Int
    BY <2>1, LateAre, HadInt DEF IInv, Shape, Living
  <2> HIDE DEF h, n
  <2>4. gathered <= h
    BY <2>2, <2>3
  <2>5. gathered <= SumFunctionOnSet(Had, Tile)
    BY <2>1, <2>4, HadIs DEF h
  <2> QED BY <2>1, <2>5, FitIsTypeOK DEF Books, StoresAccountedFor
<1> QED BY <1>1, BooksBalance, PTL

-----------------------------------------------------------------------------
(* The days *)

Caravans == {None} \cup [back : UNION {[D -> Nat] : D \in SUBSET Goods}, until : Nat]

TownState ==
  [tick : Nat, phase : {"Running", "Won", "Lost"}, stock : [Goods -> 0..MaxStock],
   people : 0..MaxPopulation, tents : Nat, sawmills : Nat, disease : Nat, blizzard : Nat,
   offer : Waits, migrant : Waits, caravan : Caravans, cycle : 0..MaxCycles, horizon : Nat,
   done : SUBSET Kinds, unlocked : BOOLEAN, dug : 0..(Stages * Invests), graduated : BOOLEAN]

\* The numbers among the constants.
LEMMA Numbers ==
  /\ TicksPerDay \in Nat \ {0} /\ ArrivalTick \in 0..(TicksPerDay - 1)
  /\ DiseaseTicks \in Nat \ {0} /\ BlizzardTicks \in Nat \ {0} /\ OfferTicks \in Nat \ {0}
  /\ MigrantWait \in Nat \ {0} /\ TripTicks \in Nat \ {0}
  /\ MaxPopulation \in Nat \ {0} /\ FoodPerPerson \in Nat /\ Housed \in Nat /\ MaxStock \in Nat
  /\ Stages \in Nat \ {0} /\ Invests \in Nat \ {0} /\ MaxCycles \in Nat
  /\ Stages * Invests \in Nat \ {0}
<1>1. Stages \in Nat \ {0} /\ Invests \in Nat \ {0} BY TownAssumption DEF TownAssumption
<1>2. Stages * Invests \in Nat \ {0} BY <1>1
<1> QED BY <1>1, <1>2, TownAssumption DEF TownAssumption

\* Whoever comes, some do.
LEMMA CountsAre == Counts \subseteq Nat \ {0}
BY TownAssumption DEF TownAssumption

\* A new game is a state of a town.
LEMMA StartTyped == Start \in TownState
BY TownAssumption DEF TownAssumption, Start, TownState, Waits, Caravans, None, Kinds, Goods

\* What waits for an answer has a deadline, which is 0 only when nothing waits.
LEMMA WaitTyped ==
  ASSUME NEW w \in Waits
  PROVE  /\ w.until \in Nat
         /\ w # None => w \in [count : Counts, until : Nat] /\ w.count \in Nat \ {0}
         /\ w.until # 0 => w # None
<1>1. CASE w = None BY <1>1 DEF None
<1>2. CASE w \in [count : Counts, until : Nat]
  <2>1. w.count \in Counts /\ w.until \in Nat BY <1>2
  <2>2. w.count \in Nat \ {0} BY <2>1, TownAssumption DEF TownAssumption
  <2> QED BY <1>2, <2>1, <2>2 DEF None
<1> QED BY <1>1, <1>2 DEF Waits

\* So has the caravan, which brings amounts of goods.
LEMMA CaravanTyped ==
  ASSUME NEW c \in Caravans
  PROVE  /\ c.until \in Nat
         /\ c # None => DOMAIN c.back \subseteq Goods /\ c.back \in [DOMAIN c.back -> Nat]
         /\ c.until # 0 => c # None
BY DEF Caravans, None

\* A price is a record of goods and amounts.
LEMMA PriceIs ==
  ASSUME NEW p, IsPrice(p)
  PROVE  p \in UNION {[D -> Nat] : D \in SUBSET Goods}
BY DEF IsPrice

\* Crediting keeps the store within its bound.
LEMMA CreditedTyped ==
  ASSUME NEW t \in TownState, NEW gain, IsPrice(gain)
  PROVE  Credited(t, gain) \in TownState
<1> DEFINE S == [g \in Goods |-> IF g \in DOMAIN gain THEN Smaller(t.stock[g] + gain[g], MaxStock)
                                       ELSE t.stock[g]]
<1>1. S \in [Goods -> 0..MaxStock]
  <2>1. t.stock \in [Goods -> 0..MaxStock] /\ MaxStock \in Nat BY Numbers DEF TownState
  <2>2. \A g \in DOMAIN gain : gain[g] \in Nat BY DEF IsPrice
  <2>3. ASSUME NEW g \in Goods PROVE S[g] \in 0..MaxStock
    <3>1. t.stock[g] \in 0..MaxStock BY <2>1
    <3> QED BY <3>1, <2>1, <2>2, <2>3 DEF Smaller
  <2> QED BY <2>3
<1> QED BY <1>1 DEF Credited, TownState

\* What the store affords can be paid.
LEMMA PaidTyped ==
  ASSUME NEW t \in TownState, NEW price, IsPrice(price), Affords(t, price)
  PROVE  Paid(t, price) \in TownState
<1> DEFINE S == [g \in Goods |-> IF g \in DOMAIN price THEN t.stock[g] - price[g] ELSE t.stock[g]]
<1>1. S \in [Goods -> 0..MaxStock]
  <2>1. t.stock \in [Goods -> 0..MaxStock] /\ MaxStock \in Nat BY Numbers DEF TownState
  <2>2. \A g \in DOMAIN price : price[g] \in Nat /\ t.stock[g] >= price[g] BY DEF IsPrice, Affords
  <2>3. ASSUME NEW g \in Goods PROVE S[g] \in 0..MaxStock
    <3>1. t.stock[g] \in 0..MaxStock BY <2>1
    <3> QED BY <3>1, <2>1, <2>2, <2>3
  <2> QED BY <2>3
<1> QED BY <1>1 DEF Paid, TownState

\* Those there is room for keep the town under its ceiling.
LEMMA SpaceTyped ==
  ASSUME NEW t \in TownState
  PROVE  Space(t) \in Nat /\ \A n \in Nat : n <= Space(t) => Joined(t, n) \in TownState
<1>1. t.tents * Housed \in Nat /\ t.people \in 0..MaxPopulation /\ MaxPopulation \in Nat
  <2>1. t.tents \in Nat /\ Housed \in Nat BY Numbers DEF TownState
  <2>2. t.tents * Housed \in Nat BY <2>1
  <2> QED BY <2>2, Numbers DEF TownState
<1>2. Space(t) \in Nat /\ Space(t) <= MaxPopulation - t.people
  BY <1>1 DEF Space, Smaller, Minus
<1>3. ASSUME NEW n \in Nat, n <= Space(t) PROVE Joined(t, n) \in TownState
  <2>1. t.people + n \in 0..MaxPopulation BY <1>1, <1>2, <1>3
  <2> QED BY <2>1 DEF Joined, TownState
<1> QED BY <1>2, <1>3

-----------------------------------------------------------------------------
(* The phases of a tick *)

\* What most phases leave alone: the clock, the goals, the Tunnel and the course of the game.
Aim(t) == <<t.tick, t.phase, t.cycle, t.horizon, t.done, t.unlocked, t.dug, t.graduated>>

\* The deadlines that a phase has seen to, and those the clock may just have reached.
Ahead(t, until) == until # 0 => t.tick < until
Due(t, until) == until # 0 => t.tick <= until

AllDue(t) == /\ Due(t, t.disease) /\ Due(t, t.blizzard) /\ Due(t, t.offer.until)
             /\ Due(t, t.migrant.until) /\ Due(t, t.caravan.until)
AllAhead(t) == /\ Ahead(t, t.disease) /\ Ahead(t, t.blizzard) /\ Ahead(t, t.offer.until)
               /\ Ahead(t, t.migrant.until) /\ Ahead(t, t.caravan.until)
\* Once the endings have been looked for, only migrants and the caravan may be due.
TwoDue(t) == /\ Ahead(t, t.disease) /\ Ahead(t, t.blizzard) /\ Ahead(t, t.offer.until)
             /\ Due(t, t.migrant.until) /\ Due(t, t.caravan.until)

Waiting(t) == <<t.disease, t.blizzard, t.offer, t.migrant, t.caravan>>

\* The weather of a new day ends later.
LEMMA MidnightsGo ==
  ASSUME NEW t \in TownState, AllDue(t), NEW u \in Midnights(t)
  PROVE  u \in TownState /\ AllDue(u) /\ Aim(u) = Aim(t)
<1>1. CASE u = t BY <1>1
<1>2. ASSUME NEW i \in BOOLEAN, NEW b \in BOOLEAN, u = Struck(t, i, b)
      PROVE u \in TownState /\ AllDue(u) /\ Aim(u) = Aim(t)
  <2>1. t.tick + DiseaseTicks \in Nat /\ t.tick + DiseaseTicks > t.tick
        /\ t.tick + BlizzardTicks \in Nat /\ t.tick + BlizzardTicks > t.tick
    BY Numbers DEF TownState
  <2>2. u \in TownState BY <1>2, <2>1 DEF Struck, TownState
  <2>3. u.disease \in {t.disease, t.tick + DiseaseTicks}
        /\ u.blizzard \in {t.blizzard, t.tick + BlizzardTicks}
    BY <1>2 DEF Struck, TownState
  <2>4. Aim(u) = Aim(t) /\ u.offer = t.offer /\ u.migrant = t.migrant /\ u.caravan = t.caravan
        /\ u.tick = t.tick
    BY <1>2 DEF Struck, TownState, Aim
  <2>5. AllDue(u) BY <2>1, <2>3, <2>4 DEF AllDue, Due, TownState
  <2> QED BY <2>2, <2>4, <2>5
<1> QED BY <1>1, <1>2 DEF Midnights

\* A tick of living changes the stores and the people.
LEMMA LivedGoes ==
  ASSUME NEW t \in TownState, NEW f \in Fortunes
  PROVE  /\ Lived(t, f) \in TownState /\ Aim(Lived(t, f)) = Aim(t)
         /\ Waiting(Lived(t, f)) = Waiting(t)
<1>1. /\ f.deaths \in Nat /\ f.tents \in Nat /\ f.sawmills \in Nat
      /\ f.made \in [Goods -> Nat] /\ f.used \in [Goods -> Nat]
  BY TownAssumption DEF TownAssumption
<1> DEFINE S == [g \in Goods |-> Smaller(Minus(t.stock[g], f.used[g]) + f.made[g], MaxStock)]
<1>2. S \in [Goods -> 0..MaxStock]
  <2>1. t.stock \in [Goods -> 0..MaxStock] /\ MaxStock \in Nat BY Numbers DEF TownState
  <2>2. ASSUME NEW g \in Goods PROVE S[g] \in 0..MaxStock
    <3>1. t.stock[g] \in 0..MaxStock /\ f.used[g] \in Nat /\ f.made[g] \in Nat BY <2>1, <1>1
    <3> QED BY <3>1, <2>1 DEF Smaller, Minus
  <2> QED BY <2>2
<1>3. Minus(t.people, f.deaths) \in 0..MaxPopulation
  <2>1. t.people \in 0..MaxPopulation /\ MaxPopulation \in Nat BY Numbers DEF TownState
  <2> QED BY <2>1, <1>1 DEF Minus
<1> QED BY <1>1, <1>2, <1>3 DEF Lived, TownState, Aim, Waiting

\* Newcomers touch neither deadlines nor aims.
LEMMA JoinedGoes ==
  ASSUME NEW t \in TownState, NEW n \in Nat, n <= Space(t)
  PROVE  /\ Joined(t, n) \in TownState /\ Aim(Joined(t, n)) = Aim(t)
         /\ Waiting(Joined(t, n)) = Waiting(t)
BY SpaceTyped DEF Joined, TownState, Aim, Waiting

\* Nor do those of the morning, as many as there is room for.
LEMMA SettlingsGo ==
  ASSUME NEW t \in TownState, NEW u \in Settlings(t)
  PROVE  u \in TownState /\ Aim(u) = Aim(t) /\ Waiting(u) = Waiting(t)
<1>1. CASE u = t BY <1>1
<1>2. ASSUME NEW n \in Counts \cup {0}, u = Joined(t, Smaller(n, Space(t)))
      PROVE u \in TownState /\ Aim(u) = Aim(t) /\ Waiting(u) = Waiting(t)
  <2>1. n \in Nat BY CountsAre
  <2>2. Smaller(n, Space(t)) \in Nat /\ Smaller(n, Space(t)) <= Space(t)
    BY <2>1, SpaceTyped DEF Smaller
  <2> QED BY <1>2, <2>2, JoinedGoes
<1> QED BY <1>1, <1>2 DEF Settlings

\* Nor a birth.
LEMMA BirthsGo ==
  ASSUME NEW t \in TownState, NEW u \in Births(t)
  PROVE  u \in TownState /\ Aim(u) = Aim(t) /\ Waiting(u) = Waiting(t)
<1>1. CASE u = t BY <1>1
<1>2. CASE u = Joined(t, 1) /\ Space(t) > 0
  BY <1>2, SpaceTyped, JoinedGoes
<1> QED BY <1>1, <1>2 DEF Births

\* A new offer is open for a while.
LEMMA OffersGo ==
  ASSUME NEW t \in TownState, AllDue(t), NEW u \in Offers(t)
  PROVE  u \in TownState /\ AllDue(u) /\ Aim(u) = Aim(t)
<1>1. CASE u = t BY <1>1
<1>2. ASSUME NEW n \in Counts, u = [t EXCEPT !.offer = [count |-> n, until |-> t.tick + OfferTicks]]
      PROVE u \in TownState /\ AllDue(u) /\ Aim(u) = Aim(t)
  <2>1. t.tick + OfferTicks \in Nat /\ t.tick + OfferTicks > t.tick BY Numbers DEF TownState
  <2>2. [count |-> n, until |-> t.tick + OfferTicks] \in Waits BY <2>1 DEF Waits
  <2>3. u \in TownState BY <1>2, <2>2 DEF TownState
  <2>4. Aim(u) = Aim(t) /\ u.offer.until = t.tick + OfferTicks /\ u.tick = t.tick
        /\ u.disease = t.disease /\ u.blizzard = t.blizzard /\ u.migrant = t.migrant
        /\ u.caravan = t.caravan
    BY <1>2 DEF TownState, Aim
  <2>5. t.tick \in Nat BY DEF TownState
  <2>6. AllDue(u) BY <2>1, <2>4, <2>5 DEF AllDue, Due
  <2> QED BY <2>3, <2>4, <2>6
<1> QED BY <1>1, <1>2 DEF Offers

\* What was due of the outbreak, the blizzard and the offer is gone.
LEMMA ExpiredGoes ==
  ASSUME NEW t \in TownState, AllDue(t), NEW u, u = Expired(t)
  PROVE  u \in TownState /\ TwoDue(u) /\ Aim(u) = Aim(t)
<1>1. t.tick \in Nat /\ t.offer \in Waits /\ t.disease \in Nat /\ t.blizzard \in Nat
      /\ t.migrant \in Waits /\ t.caravan \in Caravans
  BY DEF TownState
<1>2. None \in Waits BY DEF Waits
<1>3. u \in TownState BY <1>1, <1>2 DEF Expired, TownState
<1>4. /\ Aim(u) = Aim(t) /\ u.migrant = t.migrant /\ u.caravan = t.caravan /\ u.tick = t.tick
      /\ u.offer = IF t.offer # None /\ t.tick >= t.offer.until THEN None ELSE t.offer
      /\ u.disease = IF t.tick = t.disease THEN 0 ELSE t.disease
      /\ u.blizzard = IF t.tick = t.blizzard THEN 0 ELSE t.blizzard
  BY DEF Expired, TownState, Aim
<1>5. Ahead(u, u.disease) /\ Ahead(u, u.blizzard) BY <1>1, <1>4 DEF AllDue, Due, Ahead
<1>6. Ahead(u, u.offer.until)
  <2>1. t.offer.until \in Nat /\ (t.offer.until # 0 => t.offer # None) BY <1>1, WaitTyped
  <2>2. None.until = 0 BY DEF None
  <2> QED BY <1>1, <1>4, <2>1, <2>2 DEF Ahead
<1> QED BY <1>3, <1>4, <1>5, <1>6 DEF AllDue, TwoDue, Due

-----------------------------------------------------------------------------
(* Goals *)

\* The goal of days is done on its day and not before.
DaysMet(t) == "days" \in t.done => Day(t) >= t.horizon

\* Days are counted up.
LEMMA DayIs ==
  ASSUME NEW t \in TownState, NEW u \in TownState, u.tick \in {t.tick, t.tick + 1}
  PROVE  Day(t) \in Nat /\ Day(u) \in Nat /\ Day(u) >= Day(t)
<1>1. t.tick \in Nat /\ TicksPerDay \in Nat \ {0} BY Numbers DEF TownState
<1>2. t.tick \div TicksPerDay \in Int /\ (t.tick + 1) \div TicksPerDay \in Int BY <1>1
<1>3. t.tick \div TicksPerDay >= 0 BY <1>1
<1>4. (t.tick + 1) \div TicksPerDay >= t.tick \div TicksPerDay BY <1>1
<1> QED BY <1>2, <1>3, <1>4 DEF Day

\* Goals met are done and paid for; the aims themselves do not move.
LEMMA RewardedGoes ==
  ASSUME NEW t \in TownState, DaysMet(t), NEW u, u = Rewarded(t)
  PROVE  /\ u \in TownState /\ Waiting(u) = Waiting(t) /\ DaysMet(u)
         /\ u.tick = t.tick /\ u.phase = t.phase /\ u.cycle = t.cycle /\ u.horizon = t.horizon
         /\ u.unlocked = t.unlocked /\ u.dug = t.dug /\ u.graduated = t.graduated
<1> DEFINE met == {k \in Kinds \ t.done : Current(t, k) >= Target(t, k)}
           Pays(k, g) == IF k \in met /\ g \in DOMAIN Reward[k] THEN Reward[k][g] ELSE 0
           gain == [g \in Goods |-> Pays("tents", g) + Pays("people", g) + Pays("sawmills", g)
                                     + Pays("coal", g) + Pays("days", g)]
           mid == [t EXCEPT !.done = @ \cup met]
<1>1. IsPrice(gain)
  <2>1. ASSUME NEW k \in Kinds, NEW g \in Goods PROVE Pays(k, g) \in Nat
    <3>1. IsPrice(Reward[k]) BY TownAssumption DEF TownAssumption
    <3> HIDE DEF met
    <3> QED BY <3>1 DEF IsPrice
  <2>2. {"tents", "people", "sawmills", "coal", "days"} \subseteq Kinds BY DEF Kinds
  <2> HIDE DEF Pays
  <2>3. ASSUME NEW g \in Goods PROVE gain[g] \in Nat BY <2>1, <2>2
  <2>4. DOMAIN gain = Goods OBVIOUS
  <2> QED BY <2>3, <2>4 DEF IsPrice
<1>2. mid \in TownState
  <2> HIDE DEF met
  <2>1. met \subseteq Kinds BY DEF met
  <2> QED BY <2>1 DEF TownState
<1>3. u = Credited(mid, gain) BY DEF Rewarded
<1>4. /\ mid.tick = t.tick /\ mid.phase = t.phase /\ mid.cycle = t.cycle /\ mid.horizon = t.horizon
      /\ mid.unlocked = t.unlocked /\ mid.dug = t.dug /\ mid.graduated = t.graduated
      /\ mid.done = t.done \cup met /\ Waiting(mid) = Waiting(t)
  BY DEF TownState, Waiting
<1>5. "days" \in met => Day(t) >= t.horizon BY DEF Current, Target
<1> HIDE DEF met, Pays, gain, mid
<1>6. u \in TownState BY <1>1, <1>2, <1>3, CreditedTyped
<1>7. /\ u.tick = mid.tick /\ u.phase = mid.phase /\ u.cycle = mid.cycle /\ u.horizon = mid.horizon
      /\ u.unlocked = mid.unlocked /\ u.dug = mid.dug /\ u.graduated = mid.graduated
      /\ u.done = mid.done /\ Waiting(u) = Waiting(mid)
  BY <1>2, <1>3 DEF Credited, TownState, Waiting
<1>8. DaysMet(u) BY <1>4, <1>5, <1>7 DEF DaysMet, Day
<1> QED BY <1>4, <1>6, <1>7, <1>8

\* Goals are replaced all at once, by later ones, and the Tunnel opens for good.
LEMMA CyclingGoes ==
  ASSUME NEW t \in TownState, DaysMet(t), NEW u, u = Cycling(Unlocking(t))
  PROVE  /\ u \in TownState /\ Waiting(u) = Waiting(t) /\ DaysMet(u)
         /\ AllDone(u) => u.cycle = MaxCycles
         /\ u.cycle # t.cycle => u.horizon > Day(u) /\ u.horizon > t.horizon
         /\ u.tick = t.tick /\ u.phase = t.phase /\ u.dug = t.dug /\ u.graduated = t.graduated
         /\ t.unlocked => u.unlocked
<1> DEFINE o == Unlocking(t)
<1>1. o \in TownState
  <2>1. (t.unlocked \/ AllDone(t)) \in BOOLEAN BY DEF TownState, AllDone
  <2> QED BY <2>1 DEF Unlocking, TownState
<1>2. /\ Waiting(o) = Waiting(t) /\ o.tick = t.tick /\ o.phase = t.phase /\ o.dug = t.dug
      /\ o.graduated = t.graduated /\ o.done = t.done /\ o.cycle = t.cycle /\ o.horizon = t.horizon
      /\ (o.unlocked <=> t.unlocked \/ AllDone(t))
  BY DEF Unlocking, TownState, Waiting
<1>3. u = Cycling(o) OBVIOUS
<1> HIDE DEF o
<1>4. CASE AllDone(o) /\ o.cycle < MaxCycles /\ o.unlocked
  <2>1. o.cycle \in 0..MaxCycles /\ MaxCycles \in Nat BY <1>1, Numbers DEF TownState
  <2>2. o.cycle + 1 \in 0..MaxCycles BY <2>1, <1>4
  <2>3. Scaled[o.cycle + 1]["days"] \in Nat \ {0}
    <3>1. Scaled \in [0..MaxCycles -> [Kinds -> Nat \ {0}]] BY TownAssumption DEF TownAssumption
    <3> QED BY <2>2, <3>1 DEF Kinds
  <2>4. Day(o) \in Nat BY <1>1, DayIs
  <2> DEFINE h == Day(o) + Scaled[o.cycle + 1]["days"]
  <2>5. h \in Nat /\ h > Day(o) BY <2>3, <2>4
  <2>6. u = [o EXCEPT !.cycle = @ + 1, !.done = {}, !.horizon = h] BY <1>3, <1>4 DEF Cycling
  <2> HIDE DEF h
  <2>7. u \in TownState BY <1>1, <2>2, <2>5, <2>6 DEF TownState
  <2>8. /\ Waiting(u) = Waiting(o) /\ u.tick = o.tick /\ u.phase = o.phase /\ u.dug = o.dug
        /\ u.graduated = o.graduated /\ u.done = {} /\ u.horizon = h /\ u.unlocked = o.unlocked
    BY <1>1, <2>6 DEF TownState, Waiting
  <2>9. Day(u) = Day(o) /\ Day(o) = Day(t) BY <2>8, <1>2 DEF Day
  <2>10. t.horizon <= Day(o) BY <1>2, <1>4, <2>9 DEF DaysMet, AllDone, Kinds
  <2>11. u.horizon > Day(u) /\ u.horizon > t.horizon
    BY <2>4, <2>5, <2>8, <2>9, <2>10 DEF TownState
  <2>12. DaysMet(u) /\ ~AllDone(u) BY <2>8 DEF DaysMet, AllDone, Kinds
  <2>13. t.unlocked => u.unlocked BY <1>2, <2>8
  <2> QED BY <1>2, <2>7, <2>8, <2>11, <2>12, <2>13
<1>5. CASE ~(AllDone(o) /\ o.cycle < MaxCycles /\ o.unlocked)
  <2>1. u = o BY <1>3, <1>5 DEF Cycling
  <2>2. DaysMet(u) BY <1>2, <2>1 DEF DaysMet, Day
  <2>3. AllDone(u) => u.unlocked BY <1>2, <2>1 DEF AllDone
  <2>4. u.cycle \in 0..MaxCycles /\ MaxCycles \in Nat BY <1>1, <2>1, Numbers DEF TownState
  <2>5. AllDone(u) => u.cycle = MaxCycles BY <1>5, <2>1, <2>3, <2>4
  <2> QED BY <1>1, <1>2, <2>1, <2>2, <2>5
<1> QED BY <1>4, <1>5

-----------------------------------------------------------------------------
(* The end of a tick *)

\* Migrants who emerge will wait for a while.
LEMMA EmergingsGo ==
  ASSUME NEW t \in TownState, TwoDue(t), NEW u \in Emergings(t)
  PROVE  u \in TownState /\ TwoDue(u) /\ Aim(u) = Aim(t)
<1>1. CASE u = t BY <1>1
<1>2. ASSUME NEW n \in Counts,
             u = [t EXCEPT !.migrant = [count |-> n, until |-> t.tick + MigrantWait]]
      PROVE u \in TownState /\ TwoDue(u) /\ Aim(u) = Aim(t)
  <2>1. t.tick + MigrantWait \in Nat /\ t.tick + MigrantWait > t.tick BY Numbers DEF TownState
  <2>2. [count |-> n, until |-> t.tick + MigrantWait] \in Waits BY <2>1 DEF Waits
  <2>3. u \in TownState BY <1>2, <2>2 DEF TownState
  <2>4. Aim(u) = Aim(t) /\ u.migrant.until = t.tick + MigrantWait /\ u.tick = t.tick
        /\ u.disease = t.disease /\ u.blizzard = t.blizzard /\ u.offer = t.offer
        /\ u.caravan = t.caravan
    BY <1>2 DEF TownState, Aim
  <2>5. t.tick \in Nat BY DEF TownState
  <2>6. TwoDue(u) BY <2>1, <2>4, <2>5 DEF TwoDue, Due, Ahead
  <2> QED BY <2>3, <2>4, <2>6
<1> QED BY <1>1, <1>2 DEF Emergings

\* Only the caravan may still be due once the migrants have been seen to.
OneDue(t) == /\ Ahead(t, t.disease) /\ Ahead(t, t.blizzard) /\ Ahead(t, t.offer.until)
             /\ Ahead(t, t.migrant.until) /\ Due(t, t.caravan.until)

\* Migrants are let in or have turned back by their deadline.
LEMMA AdmittedGoes ==
  ASSUME NEW t \in TownState, TwoDue(t), NEW u, u = Admitted(t)
  PROVE  u \in TownState /\ OneDue(u) /\ Aim(u) = Aim(t)
<1>1. t.tick \in Nat /\ t.migrant \in Waits /\ None \in Waits /\ None.until = 0
  BY DEF TownState, Waits, None
<1>2. t.migrant.until \in Nat /\ (t.migrant # None => t.migrant.count \in Nat) BY <1>1, WaitTyped
<1>3. CASE u = t /\ (t.migrant = None \/ ~(t.tick >= t.migrant.until))
  <2>1. Ahead(t, t.migrant.until) BY <1>1, <1>2, <1>3 DEF Ahead
  <2> QED BY <1>3, <2>1 DEF OneDue, TwoDue
<1>4. CASE /\ t.migrant # None /\ t.migrant.count <= Space(t)
           /\ u = [Joined(t, t.migrant.count) EXCEPT !.migrant = None]
  <2> DEFINE j == Joined(t, t.migrant.count)
  <2>1. j \in TownState /\ Aim(j) = Aim(t) /\ Waiting(j) = Waiting(t) BY <1>2, <1>4, JoinedGoes
  <2>2. u = [j EXCEPT !.migrant = None] BY <1>4
  <2> HIDE DEF j
  <2>3. u \in TownState BY <1>1, <2>1, <2>2 DEF TownState
  <2>4. /\ Aim(u) = Aim(j) /\ u.tick = j.tick /\ u.migrant = None /\ u.disease = j.disease
        /\ u.blizzard = j.blizzard /\ u.offer = j.offer /\ u.caravan = j.caravan
    BY <2>1, <2>2 DEF TownState, Aim
  <2>5. /\ j.tick = t.tick /\ j.disease = t.disease
        /\ j.blizzard = t.blizzard /\ j.offer = t.offer /\ j.caravan = t.caravan
    BY <2>1 DEF Aim, Waiting
  <2>6. OneDue(u) BY <1>1, <2>4, <2>5 DEF OneDue, TwoDue, Ahead, Due
  <2> QED BY <2>1, <2>3, <2>4, <2>6
<1>5. CASE u = [t EXCEPT !.migrant = None]
  <2>1. u \in TownState BY <1>1, <1>5 DEF TownState
  <2>2. /\ Aim(u) = Aim(t) /\ u.tick = t.tick /\ u.migrant = None /\ u.disease = t.disease
        /\ u.blizzard = t.blizzard /\ u.offer = t.offer /\ u.caravan = t.caravan
    BY <1>5 DEF TownState, Aim
  <2>3. OneDue(u) BY <1>1, <2>2 DEF OneDue, TwoDue, Ahead, Due
  <2> QED BY <2>1, <2>2, <2>3
<1> QED BY <1>3, <1>4, <1>5 DEF Admitted

\* The caravan is back by its own.
LEMMA TradedGoes ==
  ASSUME NEW t \in TownState, OneDue(t), NEW u, u = Traded(t)
  PROVE  u \in TownState /\ AllAhead(u) /\ Aim(u) = Aim(t)
<1>1. t.tick \in Nat /\ t.caravan \in Caravans /\ None \in Caravans /\ None.until = 0
  BY DEF TownState, Caravans, None
<1>2. /\ t.caravan.until \in Nat
      /\ t.caravan # None => IsPrice(t.caravan.back)
      /\ t.caravan.until # 0 => t.caravan # None
  BY <1>1, CaravanTyped DEF IsPrice
<1>3. CASE t.caravan # None /\ t.tick >= t.caravan.until
  <2> DEFINE c == Credited(t, t.caravan.back)
  <2>1. c \in TownState BY <1>2, <1>3, CreditedTyped
  <2>2. Aim(c) = Aim(t) /\ Waiting(c) = Waiting(t) /\ c.tick = t.tick
    BY DEF Credited, TownState, Aim, Waiting
  <2>3. u = [c EXCEPT !.caravan = None] BY <1>3 DEF Traded
  <2> HIDE DEF c
  <2>4. u \in TownState BY <1>1, <2>1, <2>3 DEF TownState
  <2>5. /\ Aim(u) = Aim(c) /\ u.tick = c.tick /\ u.caravan = None /\ u.disease = c.disease
        /\ u.blizzard = c.blizzard /\ u.offer = c.offer /\ u.migrant = c.migrant
    BY <2>1, <2>3 DEF TownState, Aim
  <2>6. /\ c.disease = t.disease /\ c.blizzard = t.blizzard /\ c.offer = t.offer
        /\ c.migrant = t.migrant
    BY <2>2 DEF Waiting
  <2>7. AllAhead(u) BY <1>1, <2>2, <2>5, <2>6 DEF AllAhead, OneDue, Ahead
  <2> QED BY <2>2, <2>4, <2>5, <2>7
<1>4. CASE ~(t.caravan # None /\ t.tick >= t.caravan.until)
  <2>1. u = t BY <1>4 DEF Traded
  <2>2. Ahead(t, t.caravan.until) BY <1>1, <1>2, <1>4 DEF Ahead
  <2> QED BY <2>1, <2>2 DEF AllAhead, OneDue
<1> QED BY <1>3, <1>4

-----------------------------------------------------------------------------
(* The invariant *)

\* Nothing overdue, nobody graduated and something to aim at while the game runs; and the goal of
\* days is not done before its day.
Sound(t) ==
  /\ t \in TownState /\ DaysMet(t)
  /\ t.phase = "Running" => AllAhead(t) /\ ~t.graduated /\ (AllDone(t) => t.cycle = MaxCycles)

\* What a step may do to the aims of the town.
Aims(t, u) ==
  /\ t.unlocked => u.unlocked
  /\ u.cycle # t.cycle => u.horizon > Day(u) /\ u.horizon > t.horizon
  /\ u.dug = t.dug /\ u.graduated = t.graduated

\* The clock may reach a deadline, and does not pass it.
LEMMA TickedGoes ==
  ASSUME NEW t \in TownState, t.phase = "Running", AllAhead(t), DaysMet(t),
         NEW u, u = [t EXCEPT !.tick = @ + 1]
  PROVE  /\ u \in TownState /\ AllDue(u) /\ DaysMet(u)
         /\ u.phase = t.phase /\ u.cycle = t.cycle /\ u.horizon = t.horizon /\ u.done = t.done
         /\ u.unlocked = t.unlocked /\ u.dug = t.dug /\ u.graduated = t.graduated
<1>1. t.tick \in Nat /\ t.tick + 1 \in Nat BY DEF TownState
<1>2. u \in TownState BY <1>1 DEF TownState
<1>3. /\ u.phase = t.phase /\ u.cycle = t.cycle /\ u.horizon = t.horizon /\ u.done = t.done
      /\ u.unlocked = t.unlocked /\ u.dug = t.dug /\ u.graduated = t.graduated
      /\ u.tick = t.tick + 1 /\ u.disease = t.disease /\ u.blizzard = t.blizzard
      /\ u.offer = t.offer /\ u.migrant = t.migrant /\ u.caravan = t.caravan
  BY DEF TownState
<1>4. /\ t.disease \in Nat /\ t.blizzard \in Nat /\ t.offer.until \in Nat
      /\ t.migrant.until \in Nat /\ t.caravan.until \in Nat
  BY WaitTyped, CaravanTyped DEF TownState
<1>5. AllDue(u) BY <1>1, <1>3, <1>4 DEF AllDue, AllAhead, Ahead, Due
<1>6. DaysMet(u)
  <2>1. Day(t) \in Nat /\ Day(u) \in Nat /\ Day(u) >= Day(t) BY <1>2, <1>3, DayIs
  <2>2. t.horizon \in Nat BY DEF TownState
  <2> QED BY <1>3, <2>1, <2>2 DEF DaysMet
<1> QED BY <1>2, <1>3, <1>5, <1>6

\* A tick, phase by phase.
LEMMA TownTickKeeps ==
  ASSUME Sound(town), NEW f \in Fortunes, NEW away \in BOOLEAN, TownTick(f, away)
  PROVE  Sound(town') /\ Aims(town, town')
<1>1. /\ town \in TownState /\ DaysMet(town) /\ town.phase = "Running" /\ AllAhead(town)
      /\ ~town.graduated
  BY DEF Sound, TownTick, Running
<1>2. PICK t \in {[town EXCEPT !.tick = @ + 1]} :
     IF Hour(t) = 0 /\ Day(t) > WinDays
     THEN town' = [t EXCEPT !.phase = "Won"]
     ELSE \E dawn     \in Midnights(t) :
          \E lived    \in {Lived(dawn, f)} :
          \E morning  \in Settlings(lived) :
          \E noon     \in Births(morning) :
          \E asked    \in Offers(noon) :
          \E expired  \in {Expired(asked)} :
          \E paid     \in {Rewarded(expired)} :
          \E cycled   \in {Cycling(Unlocking(paid))} :
          \E come     \in Emergings(cycled) :
          \E admitted \in {Admitted(come)} :
            town' = Defeated(Traded(admitted), away)
  BY DEF TownTick
<1>3. /\ t \in TownState /\ AllDue(t) /\ DaysMet(t)
      /\ t.phase = town.phase /\ t.cycle = town.cycle /\ t.horizon = town.horizon
      /\ t.unlocked = town.unlocked /\ t.dug = town.dug /\ t.graduated = town.graduated
  BY <1>1, <1>2, TickedGoes
<1>4. CASE Hour(t) = 0 /\ Day(t) > WinDays
  <2>1. town' = [t EXCEPT !.phase = "Won"] BY <1>2, <1>4
  <2>2. town' \in TownState BY <1>3, <2>1 DEF TownState
  <2>3. /\ town'.phase = "Won" /\ town'.cycle = t.cycle /\ town'.horizon = t.horizon
        /\ town'.done = t.done /\ town'.unlocked = t.unlocked /\ town'.dug = t.dug
        /\ town'.graduated = t.graduated /\ town'.tick = t.tick
    BY <1>3, <2>1 DEF TownState
  <2>4. Sound(town') BY <1>3, <2>2, <2>3 DEF Sound, DaysMet, Day
  <2>5. Aims(town, town') BY <1>3, <2>3 DEF Aims
  <2> QED BY <2>4, <2>5
<1>5. CASE ~(Hour(t) = 0 /\ Day(t) > WinDays)
  <2>1. PICK dawn \in Midnights(t) :
          \E morning  \in Settlings(Lived(dawn, f)) :
          \E noon     \in Births(morning) :
          \E asked    \in Offers(noon) :
          \E come     \in Emergings(Cycling(Unlocking(Rewarded(Expired(asked))))) :
            town' = Defeated(Traded(Admitted(come)), away)
    BY <1>2, <1>5
  <2>2. PICK morning \in Settlings(Lived(dawn, f)) :
          \E noon     \in Births(morning) :
          \E asked    \in Offers(noon) :
          \E come     \in Emergings(Cycling(Unlocking(Rewarded(Expired(asked))))) :
            town' = Defeated(Traded(Admitted(come)), away)
    BY <2>1
  <2>3. PICK noon \in Births(morning) :
          \E asked    \in Offers(noon) :
          \E come     \in Emergings(Cycling(Unlocking(Rewarded(Expired(asked))))) :
            town' = Defeated(Traded(Admitted(come)), away)
    BY <2>2
  <2>4. PICK asked \in Offers(noon) :
          \E come     \in Emergings(Cycling(Unlocking(Rewarded(Expired(asked))))) :
            town' = Defeated(Traded(Admitted(come)), away)
    BY <2>3
  <2>5. PICK come \in Emergings(Cycling(Unlocking(Rewarded(Expired(asked))))) :
            town' = Defeated(Traded(Admitted(come)), away)
    BY <2>4
  <2>6. dawn \in TownState /\ AllDue(dawn) /\ Aim(dawn) = Aim(t) BY <1>3, MidnightsGo
  <2> DEFINE lived == Lived(dawn, f)
  <2>7. lived \in TownState /\ Aim(lived) = Aim(dawn) /\ Waiting(lived) = Waiting(dawn)
    BY <2>6, LivedGoes
  <2> HIDE DEF lived
  <2>8. morning \in TownState /\ Aim(morning) = Aim(lived) /\ Waiting(morning) = Waiting(lived)
    BY <2>2, <2>7, SettlingsGo DEF lived
  <2>9. noon \in TownState /\ Aim(noon) = Aim(morning) /\ Waiting(noon) = Waiting(morning)
    BY <2>3, <2>8, BirthsGo
  <2>10. AllDue(noon)
    <3>1. Aim(noon) = Aim(dawn) /\ Waiting(noon) = Waiting(dawn) BY <2>7, <2>8, <2>9
    <3>2. /\ noon.tick = dawn.tick /\ noon.disease = dawn.disease /\ noon.blizzard = dawn.blizzard
          /\ noon.offer = dawn.offer /\ noon.migrant = dawn.migrant /\ noon.caravan = dawn.caravan
      BY <3>1 DEF Aim, Waiting
    <3> QED BY <2>6, <3>2 DEF AllDue, Due
  <2>11. /\ asked \in TownState
         /\ AllDue(asked)
         /\ Aim(asked) = Aim(noon) BY <2>4, <2>9, <2>10, OffersGo
  <2> DEFINE expired == Expired(asked)
  <2>12. expired \in TownState /\ TwoDue(expired) /\ Aim(expired) = Aim(asked)
    BY <2>11, ExpiredGoes
  <2> HIDE DEF expired
  <2>13. Aim(expired) = Aim(t) BY <2>6, <2>7, <2>8, <2>9, <2>11, <2>12
  <2>14. /\ expired.tick = t.tick /\ expired.phase = t.phase /\ expired.cycle = t.cycle
         /\ expired.horizon = t.horizon /\ expired.done = t.done /\ expired.unlocked = t.unlocked
         /\ expired.dug = t.dug /\ expired.graduated = t.graduated
    BY <2>13 DEF Aim
  <2>15. DaysMet(expired) BY <1>3, <2>14 DEF DaysMet, Day
  <2> DEFINE paid == Rewarded(expired)
  <2>16. /\ paid \in TownState /\ Waiting(paid) = Waiting(expired) /\ DaysMet(paid)
         /\ paid.tick = expired.tick /\ paid.phase = expired.phase /\ paid.cycle = expired.cycle
         /\ paid.horizon = expired.horizon /\ paid.unlocked = expired.unlocked
         /\ paid.dug = expired.dug /\ paid.graduated = expired.graduated
    BY <2>12, <2>15, RewardedGoes
  <2> HIDE DEF paid
  <2> DEFINE cycled == Cycling(Unlocking(paid))
  <2>17. /\ cycled \in TownState /\ Waiting(cycled) = Waiting(paid) /\ DaysMet(cycled)
         /\ AllDone(cycled) => cycled.cycle = MaxCycles
         /\ cycled.cycle # paid.cycle =>
              cycled.horizon > Day(cycled) /\ cycled.horizon > paid.horizon
         /\ cycled.tick = paid.tick /\ cycled.phase = paid.phase /\ cycled.dug = paid.dug
         /\ cycled.graduated = paid.graduated
         /\ paid.unlocked => cycled.unlocked
    BY <2>16, CyclingGoes
  <2> HIDE DEF cycled
  <2>18. TwoDue(cycled)
    <3>1. Waiting(cycled) = Waiting(expired) /\ cycled.tick = expired.tick BY <2>16, <2>17
    <3>2. /\ cycled.disease = expired.disease /\ cycled.blizzard = expired.blizzard
          /\ cycled.offer = expired.offer /\ cycled.migrant = expired.migrant
          /\ cycled.caravan = expired.caravan
      BY <3>1 DEF Waiting
    <3> QED BY <2>12, <3>1, <3>2 DEF TwoDue, Due, Ahead
  <2>19. come \in TownState /\ TwoDue(come) /\ Aim(come) = Aim(cycled)
    BY <2>5, <2>17, <2>18, EmergingsGo DEF cycled, paid, expired
  <2> DEFINE admitted == Admitted(come)
  <2>20. admitted \in TownState /\ OneDue(admitted) /\ Aim(admitted) = Aim(come)
    BY <2>19, AdmittedGoes
  <2> HIDE DEF admitted
  <2> DEFINE traded == Traded(admitted)
  <2>21. traded \in TownState /\ AllAhead(traded) /\ Aim(traded) = Aim(admitted)
    BY <2>20, TradedGoes
  <2> HIDE DEF traded
  <2>22. town' = Defeated(traded, away) BY <2>5 DEF traded, admitted
  <2>23. Aim(traded) = Aim(cycled) BY <2>19, <2>20, <2>21
  <2>24. /\ traded.tick = cycled.tick /\ traded.phase = cycled.phase /\ traded.cycle = cycled.cycle
         /\ traded.horizon = cycled.horizon /\ traded.done = cycled.done
         /\ traded.unlocked = cycled.unlocked /\ traded.dug = cycled.dug
         /\ traded.graduated = cycled.graduated
    BY <2>23 DEF Aim
  <2>25. Sound(traded)
    <3>1. DaysMet(traded) BY <2>17, <2>24 DEF DaysMet, Day
    <3>2. AllDone(traded) => traded.cycle = MaxCycles BY <2>17, <2>24 DEF AllDone
    <3>3. ~traded.graduated BY <1>1, <1>3, <2>14, <2>16, <2>17, <2>24
    <3> QED BY <2>21, <3>1, <3>2, <3>3 DEF Sound
  <2>26. Aims(town, traded)
    <3>1. town.unlocked => traded.unlocked BY <1>3, <2>14, <2>16, <2>17, <2>24
    <3>2. traded.cycle # town.cycle => traded.horizon > Day(traded) /\ traded.horizon > town.horizon
      BY <1>3, <2>14, <2>16, <2>17, <2>24 DEF Day
    <3>3. traded.dug = town.dug /\ traded.graduated = town.graduated
      BY <1>3, <2>14, <2>16, <2>17, <2>24
    <3> QED BY <3>1, <3>2, <3>3 DEF Aims
  <2>27. CASE town' = traded BY <2>25, <2>26, <2>27
  <2>28. CASE town' = [traded EXCEPT !.phase = "Lost"]
    <3>1. town' \in TownState BY <2>21, <2>28 DEF TownState
    <3>2. /\ town'.phase = "Lost" /\ town'.cycle = traded.cycle /\ town'.horizon = traded.horizon
          /\ town'.done = traded.done /\ town'.unlocked = traded.unlocked /\ town'.dug = traded.dug
          /\ town'.graduated = traded.graduated /\ town'.tick = traded.tick
      BY <2>21, <2>28 DEF TownState
    <3>3. Sound(town') BY <2>25, <3>1, <3>2 DEF Sound, DaysMet, Day
    <3>4. Aims(town, town') BY <2>26, <3>2 DEF Aims, Day
    <3> QED BY <3>3, <3>4
  <2> QED BY <2>22, <2>27, <2>28 DEF Defeated
<1> QED BY <1>4, <1>5

\* What only the stores, the people or the letters have changed stays sound.
LEMMA OnlyTrade ==
  ASSUME Sound(town), town.phase = "Running",
         town' \in TownState, AllAhead(town'), Aim(town') = Aim(town)
  PROVE  Sound(town') /\ Aims(town, town')
<1>1. /\ town'.tick = town.tick /\ town'.phase = town.phase /\ town'.cycle = town.cycle
      /\ town'.horizon = town.horizon /\ town'.done = town.done
      /\ town'.unlocked = town.unlocked /\ town'.dug = town.dug
      /\ town'.graduated = town.graduated
  BY DEF Aim
<1>2. Sound(town') BY <1>1 DEF Sound, DaysMet, Day, AllDone
<1>3. Aims(town, town') BY <1>1 DEF Aims
<1> QED BY <1>2, <1>3

\* Paying touches neither deadlines nor aims.
LEMMA PaidIs ==
  ASSUME NEW t \in TownState, NEW price, IsPrice(price), Affords(t, price)
  PROVE  Paid(t, price) \in TownState /\ Aim(Paid(t, price)) = Aim(t)
         /\ Waiting(Paid(t, price)) = Waiting(t)
<1>1. Paid(t, price) \in TownState BY PaidTyped
<1>2. Aim(Paid(t, price)) = Aim(t) /\ Waiting(Paid(t, price)) = Waiting(t)
  BY DEF Paid, TownState, Aim, Waiting
<1> QED BY <1>1, <1>2

\* An answer to the offer takes it away, and at most as many people in as there is room for.
LEMMA RespondEventKeeps ==
  ASSUME Sound(town), NEW accept \in BOOLEAN, RespondEvent(accept)
  PROVE  Sound(town') /\ Aims(town, town')
<1>1. /\ town \in TownState
      /\ town.phase = "Running"
      /\ AllAhead(town)
      /\ town.offer \in Waits
      /\ town.offer # None
  BY DEF Sound, RespondEvent, Running, TownState
<1>2. town.offer.count \in Nat /\ Space(town) \in Nat BY <1>1, WaitTyped, SpaceTyped
<1> DEFINE gone  == [town EXCEPT !.offer = None]
           take  == Smaller(town.offer.count, Space(town))
           price == [food |-> take * FoodPerPerson]
<1>3. take \in Nat /\ take <= Space(town) BY <1>2 DEF Smaller
<1>4. gone \in TownState /\ AllAhead(gone) /\ Aim(gone) = Aim(town)
  <2>1. None \in Waits /\ None.until = 0 BY DEF Waits, None
  <2>2. gone \in TownState BY <1>1, <2>1 DEF TownState
  <2>3. /\ Aim(gone) = Aim(town) /\ gone.tick = town.tick /\ gone.offer = None
        /\ gone.disease = town.disease /\ gone.blizzard = town.blizzard
        /\ gone.migrant = town.migrant /\ gone.caravan = town.caravan
    BY <1>1 DEF TownState, Aim
  <2> HIDE DEF gone
  <2>4. AllAhead(gone) BY <1>1, <2>1, <2>3 DEF AllAhead, Ahead
  <2> QED BY <2>2, <2>3, <2>4
<1>5. gone.stock = town.stock /\ Space(gone) = Space(town) BY <1>1 DEF TownState, Space
<1>6. IsPrice(price)
  <2> HIDE DEF take
  <2>1. take * FoodPerPerson \in Nat BY <1>3, Numbers
  <2> QED BY <2>1 DEF IsPrice, Goods
<1>7. town' = IF accept /\ take > 0 /\ Affords(town, price) THEN Joined(Paid(gone, price), take)
              ELSE gone
  BY DEF RespondEvent
<1> HIDE DEF gone, take, price
<1>8. CASE town' = gone BY <1>1, <1>4, <1>8, OnlyTrade
<1>9. CASE Affords(town, price) /\ town' = Joined(Paid(gone, price), take)
  <2>1. Affords(gone, price) BY <1>5, <1>9 DEF Affords
  <2> DEFINE left == Paid(gone, price)
  <2>2. left \in TownState /\ Aim(left) = Aim(gone) /\ Waiting(left) = Waiting(gone)
    BY <1>4, <1>6, <2>1, PaidIs
  <2>3. Space(left) = Space(gone) BY <1>4 DEF Paid, TownState, Space
  <2> HIDE DEF left
  <2>4. /\ town' \in TownState /\ Aim(town') = Aim(left) /\ Waiting(town') = Waiting(left)
    BY <1>3, <1>5, <1>9, <2>2, <2>3, JoinedGoes DEF left
  <2>5. /\ town'.tick = gone.tick /\ town'.disease = gone.disease /\ town'.blizzard = gone.blizzard
        /\ town'.offer = gone.offer /\ town'.migrant = gone.migrant /\ town'.caravan = gone.caravan
    BY <2>2, <2>4 DEF Aim, Waiting
  <2>6. AllAhead(town') BY <1>4, <2>5 DEF AllAhead, Ahead
  <2> QED BY <1>1, <1>4, <2>2, <2>4, <2>6, OnlyTrade
<1> QED BY <1>7, <1>8, <1>9

\* A caravan that leaves is due back later.
LEMMA DispatchKeeps ==
  ASSUME Sound(town), NEW selling \in BOOLEAN, NEW good \in Wares, NEW n \in Loads,
         DispatchTradeCaravan(selling, good, n)
  PROVE  Sound(town') /\ Aims(town, town')
<1>1. town \in TownState /\ town.phase = "Running" /\ AllAhead(town)
  BY DEF Sound, DispatchTradeCaravan, Running
<1> DEFINE price == IF selling THEN [g \in {good} |-> n]
                    ELSE [g \in {"gold"} |-> n * BuyPrice[good]]
           back  == IF selling THEN [g \in {"gold"} |-> n * SellPrice[good]]
                    ELSE [g \in {good} |-> n]
<1>2. IsPrice(price) /\ IsPrice(back)
  <2>1. good \in Goods /\ n \in Nat /\ SellPrice[good] \in Nat /\ BuyPrice[good] \in Nat
    BY TownAssumption DEF TownAssumption
  <2>2. n * SellPrice[good] \in Nat /\ n * BuyPrice[good] \in Nat BY <2>1
  <2>3. IsPrice([g \in {good} |-> n]) BY <2>1 DEF IsPrice
  <2>4. IsPrice([g \in {"gold"} |-> n * BuyPrice[good]]) BY <2>2 DEF IsPrice, Goods
  <2>5. IsPrice([g \in {"gold"} |-> n * SellPrice[good]]) BY <2>2 DEF IsPrice, Goods
  <2> QED BY <2>3, <2>4, <2>5
<1>3. /\ Affords(town, price)
      /\ town' = [Paid(town, price) EXCEPT
                     !.caravan = [back |-> back, until |-> town.tick + TripTicks]]
  BY DEF DispatchTradeCaravan
<1> HIDE DEF price, back
<1> DEFINE left == Paid(town, price)
           trip == [back |-> back, until |-> town.tick + TripTicks]
<1>4. left \in TownState /\ Aim(left) = Aim(town) /\ Waiting(left) = Waiting(town)
  BY <1>1, <1>2, <1>3, PaidIs
<1>5. town.tick \in Nat /\ town.tick + TripTicks \in Nat /\ town.tick + TripTicks > town.tick
  BY <1>1, Numbers DEF TownState
<1>6. trip \in Caravans BY <1>2, <1>5, PriceIs DEF Caravans
<1>7. trip.until = town.tick + TripTicks OBVIOUS
<1>8. town' = [left EXCEPT !.caravan = trip] BY <1>3
<1> HIDE DEF left, trip
<1>9. town' \in TownState BY <1>4, <1>6, <1>8 DEF TownState
<1>10. /\ Aim(town') = Aim(left) /\ town'.tick = left.tick /\ town'.caravan = trip
       /\ town'.disease = left.disease /\ town'.blizzard = left.blizzard
       /\ town'.offer = left.offer /\ town'.migrant = left.migrant
  BY <1>4, <1>8 DEF TownState, Aim
<1>11. /\ left.tick = town.tick /\ left.disease = town.disease /\ left.blizzard = town.blizzard
       /\ left.offer = town.offer /\ left.migrant = town.migrant
  BY <1>4 DEF Aim, Waiting
<1>12. AllAhead(town') BY <1>1, <1>5, <1>7, <1>10, <1>11 DEF AllAhead, Ahead
<1> QED BY <1>1, <1>4, <1>9, <1>10, <1>12, OnlyTrade

\* A payment into the Tunnel is one of those the way out asks for.
LEMMA InvestKeeps ==
  ASSUME Sound(town), InvestTunnel
  PROVE  /\ Sound(town') /\ town'.cycle = town.cycle /\ town'.unlocked = town.unlocked
         /\ town.unlocked /\ town.dug < Stages * Invests /\ town'.dug = town.dug + 1
         /\ town'.graduated <=> town'.dug = Stages * Invests
         /\ (town'.phase # "Running") <=> town'.graduated
<1>1. /\ town \in TownState /\ town.phase = "Running" /\ AllAhead(town) /\ ~town.graduated
      /\ DaysMet(town) /\ (AllDone(town) => town.cycle = MaxCycles)
  BY DEF Sound, InvestTunnel, Running
<1>2. town.unlocked /\ town.dug < Stages * Invests /\ Affords(town, DigPrice)
  BY DEF InvestTunnel
<1>3. IsPrice(DigPrice) BY TownAssumption DEF TownAssumption
<1> DEFINE left == Paid(town, DigPrice)
           dug == town.dug + 1
           phase == IF dug = Stages * Invests THEN "Won" ELSE left.phase
           through == left.graduated \/ dug = Stages * Invests
<1>4. left \in TownState /\ Aim(left) = Aim(town) /\ Waiting(left) = Waiting(town)
  BY <1>1, <1>2, <1>3, PaidIs
<1>5. /\ left.tick = town.tick /\ left.phase = town.phase /\ left.cycle = town.cycle
      /\ left.horizon = town.horizon /\ left.done = town.done /\ left.unlocked = town.unlocked
      /\ left.graduated = town.graduated /\ left.disease = town.disease
      /\ left.blizzard = town.blizzard /\ left.offer = town.offer /\ left.migrant = town.migrant
      /\ left.caravan = town.caravan
  BY <1>4 DEF Aim, Waiting
<1>6. town' = [left EXCEPT !.dug = dug, !.phase = phase, !.graduated = through]
  BY DEF InvestTunnel
<1> HIDE DEF left
<1>7. dug \in 0..(Stages * Invests) /\ town.dug \in Nat
  BY <1>1, <1>2, Numbers DEF TownState
<1>8. phase \in {"Running", "Won", "Lost"} /\ through \in BOOLEAN BY <1>4, <1>5 DEF TownState
<1>9. (through <=> dug = Stages * Invests) /\ (phase # "Running" <=> dug = Stages * Invests)
  BY <1>1, <1>5
<1> HIDE DEF dug, phase, through
<1>10. town' \in TownState BY <1>4, <1>6, <1>7, <1>8 DEF TownState
<1>11. /\ town'.dug = dug /\ town'.phase = phase /\ (town'.graduated <=> through)
       /\ town'.tick = left.tick /\ town'.cycle = left.cycle
       /\ town'.horizon = left.horizon /\ town'.done = left.done /\ town'.unlocked = left.unlocked
       /\ town'.disease = left.disease /\ town'.blizzard = left.blizzard /\ town'.offer = left.offer
       /\ town'.migrant = left.migrant /\ town'.caravan = left.caravan
  BY <1>4, <1>6 DEF TownState
<1>12. AllAhead(town') BY <1>1, <1>5, <1>11 DEF AllAhead, Ahead
<1>13. DaysMet(town') BY <1>1, <1>5, <1>11 DEF DaysMet, Day
<1>14. AllDone(town') => town'.cycle = MaxCycles BY <1>1, <1>5, <1>11 DEF AllDone
<1>15. town'.phase = "Running" => ~town'.graduated BY <1>9, <1>11
<1>16. Sound(town') BY <1>10, <1>12, <1>13, <1>14, <1>15 DEF Sound
<1> QED BY <1>2, <1>5, <1>9, <1>11, <1>16 DEF dug

\* Every step keeps the town sound; all but a payment leave the way out as `Aims` says.
LEMMA NextKeeps ==
  ASSUME Sound(town), TownNext
  PROVE  Sound(town') /\ (Aims(town, town') \/ InvestTunnel)
<1>1. ASSUME Passing PROVE Sound(town') /\ Aims(town, town')
  BY <1>1, TownTickKeeps DEF Passing
<1>2. ASSUME NEW accept \in BOOLEAN, RespondEvent(accept) PROVE Sound(town') /\ Aims(town, town')
  BY <1>2, RespondEventKeeps
<1>3. ASSUME NEW selling \in BOOLEAN, NEW good \in Wares, NEW n \in Loads,
             DispatchTradeCaravan(selling, good, n)
      PROVE  Sound(town') /\ Aims(town, town')
  BY <1>3, DispatchKeeps
<1>4. ASSUME InvestTunnel PROVE Sound(town') BY <1>4, InvestKeeps
<1> QED BY <1>1, <1>2, <1>3, <1>4 DEF TownNext, Commanding

\* A new game is sound.
LEMMA StartSound == ASSUME TownInit PROVE Sound(town)
<1>1. town \in TownState BY StartTyped DEF TownInit
<1>2. /\ town.done = {} /\ ~town.graduated /\ town.disease = 0 /\ town.blizzard = 0
      /\ town.offer.until = 0 /\ town.migrant.until = 0 /\ town.caravan.until = 0
  BY DEF TownInit, Start, None
<1>3. AllAhead(town) BY <1>2 DEF AllAhead, Ahead
<1> QED BY <1>1, <1>2, <1>3 DEF Sound, DaysMet, AllDone, Kinds

\* Every world keeps the invariant through every tick and command (tick.rs, command.rs).
THEOREM TownInductive == TownSpec => []Sound(town)
<1>1. TownInit => Sound(town) BY StartSound
<1>2. Sound(town) /\ [TownNext]_townVars => Sound(town)'
  BY NextKeeps DEF townVars
<1> QED BY <1>1, <1>2, PTL DEF TownSpec

\* No outbreak, blizzard, offer, party of migrants or caravan outstays its deadline in a running
\* world (tick.rs), and its people never exceed MAX_POPULATION.
THEOREM NothingStays == TownSpec => []NothingOverdue
<1>1. Sound(town) => NothingOverdue
  <2> SUFFICES ASSUME Sound(town) PROVE NothingOverdue OBVIOUS
  <2>1. town \in TownState BY DEF Sound
  <2>2. TownTypeOK
    <3>1. town.caravan = None \/ town.caravan.until \in Nat BY <2>1, CaravanTyped DEF TownState
    <3> QED BY <2>1, <3>1 DEF TownTypeOK, TownState
  <2>3. ASSUME Running PROVE AllAhead(town) BY <2>3 DEF Sound, Running
  <2> QED BY <2>2, <2>3 DEF NothingOverdue, AllAhead, Ahead
<1> QED BY <1>1, TownInductive, PTL

\* Goals are replaced as soon as they are all done until the last cycle, by harder ones, never met
\* the day they are issued (missions.rs).
THEOREM AlwaysAnAim == TownSpec => GoalsAhead
<1>1. Sound(town) => (Running /\ AllDone(town) => town.cycle = MaxCycles)
  BY DEF Sound, Running
<1> DEFINE Harder == town'.cycle # town.cycle =>
                       /\ town'.horizon > town'.tick \div TicksPerDay + 1
                       /\ town'.horizon > town.horizon
                       /\ Target(town', "people") <= MaxPopulation
<1>2. Sound(town) /\ [TownNext]_townVars => [Harder]_townVars
  <2> SUFFICES ASSUME Sound(town), TownNext, town'.cycle # town.cycle
               PROVE  /\ town'.horizon > town'.tick \div TicksPerDay + 1
                      /\ town'.horizon > town.horizon
                      /\ Target(town', "people") <= MaxPopulation
    BY DEF townVars
  <2>1. Sound(town') /\ Aims(town, town') BY NextKeeps, InvestKeeps
  <2>2. town'.horizon > Day(town') /\ town'.horizon > town.horizon BY <2>1 DEF Aims
  <2>3. Scaled[town'.cycle]["people"] \in Nat
    <3>1. Scaled \in [0..MaxCycles -> [Kinds -> Nat \ {0}]] BY TownAssumption DEF TownAssumption
    <3>2. town'.cycle \in 0..MaxCycles BY <2>1 DEF Sound, TownState
    <3> QED BY <3>1, <3>2 DEF Kinds
  <2>4. Target(town', "people") <= MaxPopulation BY <2>3, Numbers DEF Target, Smaller
  <2> QED BY <2>2, <2>4 DEF Day
<1> QED BY <1>1, <1>2, TownInductive, PTL DEF GoalsAhead, TownSpec

\* The Tunnel of a world, with all that goes on around it, is the way out that Graduation
\* describes: opened once, never shut, ending the game with the last payment and only then.
THEOREM TunnelIsTheWay == TownSpec => WayOut
<1>1. TownInit => Way!Init
  BY DEF TownInit, Start, Way!Init, Running
<1>2. Sound(town) /\ [TownNext]_townVars => [Way!Live \/ Way!Pay]_(Way!way)
  <2>1. ASSUME UNCHANGED townVars PROVE UNCHANGED Way!way
    BY <2>1 DEF townVars, Way!way, Running
  <2>2. ASSUME Sound(town), TownNext, Aims(town, town') PROVE Way!Live
    <3>1. Running
      BY <2>2 DEF TownNext, Passing, Commanding, TownTick, RespondEvent, InvestTunnel,
                  DispatchTradeCaravan
    <3>2. town'.unlocked \in {town.unlocked, TRUE}
      <4>1. /\ town.unlocked \in BOOLEAN
            /\ town'.unlocked \in BOOLEAN BY <2>2, NextKeeps DEF Sound, TownState
      <4> QED BY <2>2, <4>1 DEF Aims
    <3>3. town'.dug = town.dug /\ town'.graduated = town.graduated BY <2>2 DEF Aims
    <3>4. (~Running)' \in BOOLEAN BY DEF Running
    <3> QED BY <3>1, <3>2, <3>3, <3>4 DEF Way!Live
  <2>3. ASSUME Sound(town), InvestTunnel PROVE Way!Pay
    <3>1. /\ Sound(town') /\ town'.unlocked = town.unlocked
          /\ town.unlocked /\ town.dug < Stages * Invests /\ town'.dug = town.dug + 1
          /\ town'.graduated <=> town'.dug = Stages * Invests
          /\ (town'.phase # "Running") <=> town'.graduated
      BY <2>3, InvestKeeps
    <3>2. Running BY <2>3 DEF InvestTunnel
    <3>3. town'.graduated \in BOOLEAN BY <3>1 DEF Sound, TownState
    <3>4. town'.graduated = (town'.dug = Stages * Invests) BY <3>1, <3>3
    <3>5. (~Running)' = town'.graduated BY <3>1, <3>3 DEF Running
    <3> QED BY <3>1, <3>2, <3>4, <3>5 DEF Way!Pay
  <2> QED BY <2>1, <2>2, <2>3, NextKeeps
<1> QED BY <1>1, <1>2, TownInductive, PTL DEF TownSpec, WayOut, Way!Spec

-----------------------------------------------------------------------------
(* The laws in force *)

\* What Product computes, as one function of the subsets of the book.
Multiplied(f, h, s) == IF s = {} THEN 100 ELSE (h[s \ {One(s)}] * f[One(s)]) \div 100

\* That recursion has a solution, by induction on the size.
LEMMA ProductsExist ==
  ASSUME NEW f, NEW S, IsFiniteSet(S)
  PROVE  \E h : h = [s \in SUBSET S |-> Multiplied(f, h, s)]
<1> DEFINE Small(n) == {s \in SUBSET S : Cardinality(s) < n}
           Has(n) == \E h : h = [s \in Small(n) |-> Multiplied(f, h, s)]
<1>1. \A s \in SUBSET S : IsFiniteSet(s) /\ Cardinality(s) \in Nat BY FS_Subset, FS_CardinalityType
<1>2. Has(0)
  <2>1. Small(0) = {} BY <1>1
  <2>2. [s \in {} |-> 0] = [s \in Small(0) |-> Multiplied(f, [t \in {} |-> 0], s)] BY <2>1
  <2> QED BY <2>2
<1>3. ASSUME NEW n \in Nat, Has(n) PROVE Has(n + 1)
  <2>1. PICK h : h = [s \in Small(n) |-> Multiplied(f, h, s)] BY <1>3
  <2> DEFINE g == [s \in Small(n + 1) |-> Multiplied(f, h, s)]
  <2>2. ASSUME NEW s \in Small(n + 1) PROVE Multiplied(f, h, s) = Multiplied(f, g, s)
    <3>1. CASE s = {} BY <3>1 DEF Multiplied
    <3>2. CASE s # {}
      <4>1. One(s) \in s BY <3>2 DEF One
      <4>2. IsFiniteSet(s) /\ Cardinality(s) \in Nat /\ Cardinality(s) < n + 1 BY <1>1
      <4>3. Cardinality(s \ {One(s)}) = Cardinality(s) - 1 BY <4>1, <4>2, FS_RemoveElement
      <4>4. s \ {One(s)} \in Small(n) /\ s \ {One(s)} \in Small(n + 1) BY <1>1, <4>2, <4>3
      <4> HIDE DEF Small
      <4>5. g[s \ {One(s)}] = h[s \ {One(s)}] BY <2>1, <4>4
      <4> QED BY <4>5 DEF Multiplied
    <3> QED BY <3>1, <3>2
  <2> HIDE DEF Small
  <2>3. g = [s \in Small(n + 1) |-> Multiplied(f, g, s)] BY <2>2
  <2> QED BY <2>3
<1>4. \A n \in Nat : Has(n)
  <2> DEFINE all == {n \in Nat : Has(n)}
  <2> HIDE DEF Has
  <2>1. 0 \in all /\ \A n \in all : n + 1 \in all BY <1>2, <1>3
  <2>2. all \in SUBSET Nat OBVIOUS
  <2> HIDE DEF all
  <2>3. \A n \in Nat : n \in all BY <2>1, <2>2, AllNaturals
  <2> QED BY <2>3 DEF all
<1>5. Cardinality(S) \in Nat BY FS_CardinalityType
<1>6. Small(Cardinality(S) + 1) = SUBSET S
  <2>1. \A s \in SUBSET S : Cardinality(s) <= Cardinality(S) BY FS_Subset
  <2> QED BY <1>1, <1>5, <2>1
<1>7. Has(Cardinality(S) + 1)
  <2> HIDE DEF Has
  <2> QED BY <1>4, <1>5
<1> HIDE DEF Small
<1> QED BY <1>6, <1>7

\* A function of the subsets that tells their products, the last that of the whole.
LEMMA ProductTells ==
  ASSUME NEW f, NEW S, IsFiniteSet(S)
  PROVE  \E k : k[S] = Product(f, S) /\ \A s \in SUBSET S : k[s] = Multiplied(f, k, s)
<1>1. PICK h : h = [s \in SUBSET S |-> Multiplied(f, h, s)] BY ProductsExist
<1>2. PICK k : k = [s \in SUBSET S |-> Multiplied(f, k, s)] /\ k[S] = Product(f, S)
  <2>1. h = [s \in SUBSET S |->
               IF s = {} THEN 100
               ELSE (h[s \ {CHOOSE x \in s : TRUE}] * f[CHOOSE x \in s : TRUE]) \div 100]
    BY <1>1 DEF Multiplied, One
  <2>2. \E it : /\ it = [s \in SUBSET S |->
                          IF s = {} THEN 100
                          ELSE (it[s \ {CHOOSE x \in s : TRUE}] * f[CHOOSE x \in s : TRUE]) \div 100]
                /\ it[S] = Product(f, S)
    BY ZenonT(60), <2>1 DEF Product, FoldFunctionOnSet, MapThenFoldSet
  <2> QED BY <2>2 DEF Multiplied, One
<1>3. \A s \in SUBSET S : k[s] = Multiplied(f, k, s)
  <2>1. \A t \in SUBSET S : [s \in SUBSET S |-> Multiplied(f, k, s)][t] = Multiplied(f, k, t) OBVIOUS
  <2> QED BY <1>2, <2>1
<1> QED BY <1>2, <1>3

\* One law of a book counts, by a factor q.
Only(f, S, law, q) == \A x \in S : f[x] = IF x = law THEN q ELSE 100

\* Factors of which all but one are 100 multiply to that one, if it is in force.
LEMMA LawProduct ==
  ASSUME NEW f, NEW S, IsFiniteSet(S), NEW law, NEW q \in Nat,
         Only(f, S, law, q)
  PROVE  Product(f, S) = IF law \in S THEN q ELSE 100
<1>1. PICK k : k[S] = Product(f, S) /\ \A s \in SUBSET S : k[s] = Multiplied(f, k, s) BY ProductTells
<1> DEFINE Fine(s) == k[s] = IF law \in s THEN q ELSE 100
           bad == {s \in SUBSET S : ~Fine(s)}
<1>4. ASSUME bad # {} PROVE FALSE
  <2>1. bad \in SUBSET SUBSET S OBVIOUS
  <2>2. PICK s \in bad : \A t \in bad : Cardinality(s) <= Cardinality(t)
    <3> HIDE DEF bad
    <3> QED BY <1>4, <2>1, SmallestSubset
  <2>3. s # {} BY <1>1, <2>2 DEF Multiplied
  <2>4. One(s) \in s BY <2>3 DEF One
  <2>5. k[s] = (k[s \ {One(s)}] * f[One(s)]) \div 100 BY <1>1, <2>2, <2>3 DEF Multiplied
  <2>6. IsFiniteSet(s) /\ Cardinality(s) \in Nat BY <2>2, FS_Subset, FS_CardinalityType
  <2>7. Cardinality(s \ {One(s)}) = Cardinality(s) - 1 /\ s \ {One(s)} \in SUBSET S
    <3>1. s \in SUBSET S BY <2>2
    <3>2. s \ {One(s)} \in SUBSET S BY <3>1
    <3>3. Cardinality(s \ {One(s)}) = Cardinality(s) - 1 BY <2>4, <2>6, FS_RemoveElement
    <3> QED BY <3>2, <3>3
  <2>8. Fine(s \ {One(s)})
    <3>1. ~(Cardinality(s) <= Cardinality(s \ {One(s)})) BY <2>6, <2>7
    <3>2. s \ {One(s)} \notin bad BY <2>2, <3>1
    <3> QED BY <2>7, <3>2
  <2>9. f[One(s)] = IF One(s) = law THEN q ELSE 100 BY <2>2, <2>4 DEF Only
  <2>10. CASE One(s) = law
    <3>1. k[s \ {One(s)}] = 100 BY <2>8, <2>10
    <3>2. (100 * q) \div 100 = q OBVIOUS
    <3> QED BY <2>2, <2>4, <2>5, <2>9, <2>10, <3>1, <3>2
  <2>11. CASE One(s) # law
    <3>1. k[s \ {One(s)}] = k[s \ {One(s)}] /\ (law \in s <=> law \in s \ {One(s)}) BY <2>11
    <3>2. (q * 100) \div 100 = q /\ (100 * 100) \div 100 = 100 OBVIOUS
    <3> QED BY <2>2, <2>5, <2>8, <2>9, <2>11, <3>1, <3>2
  <2> QED BY <2>10, <2>11
<1>5. Fine(S) BY <1>4
<1> QED BY <1>1, <1>5

\* No factor is negative, nor is a product of them.
LEMMA LawProductNat ==
  ASSUME NEW f, NEW S, IsFiniteSet(S), \A x \in S : f[x] \in Nat
  PROVE  Product(f, S) \in Nat
<1>1. PICK k : k[S] = Product(f, S) /\ \A s \in SUBSET S : k[s] = Multiplied(f, k, s) BY ProductTells
<1> DEFINE bad == {s \in SUBSET S : k[s] \notin Nat}
<1>4. ASSUME bad # {} PROVE FALSE
  <2>1. bad \in SUBSET SUBSET S OBVIOUS
  <2>2. PICK s \in bad : \A t \in bad : Cardinality(s) <= Cardinality(t)
    <3> HIDE DEF bad
    <3> QED BY <1>4, <2>1, SmallestSubset
  <2>3. s # {} BY <1>1, <2>2 DEF Multiplied
  <2>4. One(s) \in s BY <2>3 DEF One
  <2>5. k[s] = (k[s \ {One(s)}] * f[One(s)]) \div 100 BY <1>1, <2>2, <2>3 DEF Multiplied
  <2>6. IsFiniteSet(s) /\ Cardinality(s) \in Nat BY <2>2, FS_Subset, FS_CardinalityType
  <2>7. Cardinality(s \ {One(s)}) = Cardinality(s) - 1 /\ s \ {One(s)} \in SUBSET S
    <3>1. s \in SUBSET S BY <2>2
    <3>2. s \ {One(s)} \in SUBSET S BY <3>1
    <3>3. Cardinality(s \ {One(s)}) = Cardinality(s) - 1 BY <2>4, <2>6, FS_RemoveElement
    <3> QED BY <3>2, <3>3
  <2>8. k[s \ {One(s)}] \in Nat
    <3>1. ~(Cardinality(s) <= Cardinality(s \ {One(s)})) BY <2>6, <2>7
    <3> QED BY <2>2, <2>7, <3>1
  <2>9. f[One(s)] \in Nat BY <2>2, <2>4
  <2>10. ASSUME NEW m \in Nat, NEW n \in Nat PROVE (m * n) \div 100 \in Nat
    <3>1. m * n \in Nat OBVIOUS
    <3> QED BY <3>1
  <2> QED BY <2>2, <2>5, <2>8, <2>9, <2>10
<1> QED BY <1>1, <1>4

-----------------------------------------------------------------------------
(* Days and rates *)

Half == DayTicks \div 2
Dawn == (Half + 1) \div 2

LEMMA HalfIs == Half \in Nat \ {0} /\ DayTicks = 2 * Half /\ Dawn \in Nat /\ 2 * Dawn \in {Half, Half + 1}
<1>1. DayTicks \in Nat \ {0} /\ DayTicks % 2 = 0 BY NeedsAssumption
<1>2. DayTicks = 2 * (DayTicks \div 2) BY <1>1
<1>3. Half \in Nat \ {0} /\ DayTicks = 2 * Half BY <1>1, <1>2 DEF Half
<1> QED BY <1>3 DEF Dawn

\* Where in its day a tick is, and where the next one.
Clock(tick) == tick % DayTicks

LEMMA NextClock ==
  ASSUME NEW t \in Nat
  PROVE  /\ Clock(t) \in 0 .. DayTicks - 1
         /\ Clock(t + 1) = IF Clock(t) = DayTicks - 1 THEN 0 ELSE Clock(t) + 1
<1> DEFINE D == DayTicks
           q == t \div D
           m == t % D
           q1 == (t + 1) \div D
           m1 == (t + 1) % D
<1>1. D \in Nat \ {0} BY NeedsAssumption
<1>2. q \in Int /\ m \in Int /\ 0 <= m /\ m < D /\ t = D * q + m BY <1>1, Quotient
<1>3. q1 \in Int /\ m1 \in Int /\ 0 <= m1 /\ m1 < D /\ t + 1 = D * q1 + m1 BY <1>1, Quotient
<1> HIDE DEF D, q, m, q1, m1
<1>4. D * q1 - D * q = m + 1 - m1 BY <1>1, <1>2, <1>3
<1>5. D * (q1 - q) = m + 1 - m1 BY <1>1, <1>2, <1>3, <1>4
<1> DEFINE r == q1 - q
<1>6. r \in Int /\ D * r = m + 1 - m1 BY <1>2, <1>3, <1>5
<1> HIDE DEF r
<1>7. r <= 1
  <2>1. r >= 2 => D * r >= D * 2 BY <1>1, <1>6
  <2> QED BY <1>1, <1>2, <1>3, <1>6, <2>1
<1>8. r >= 0
  <2>1. r <= -1 => D * r <= D * (-1) BY <1>1, <1>6
  <2> QED BY <1>1, <1>2, <1>3, <1>6, <2>1
<1>9. CASE r = 0 BY <1>1, <1>2, <1>3, <1>6, <1>9 DEF Clock, D, m, m1
<1>10. CASE r = 1 BY <1>1, <1>2, <1>3, <1>6, <1>10 DEF Clock, D, m, m1
<1> QED BY <1>6, <1>7, <1>8, <1>9, <1>10

\* The day is as long as the night.
LEMMA NightIs ==
  ASSUME NEW t \in Nat
  PROVE  Night(t) <=> ~(Dawn <= Clock(t) /\ Clock(t) < Dawn + Half)
<1> DEFINE p == Clock(t)
           late == 100 * p
           hour == late \div DayTicks
<1>1. p \in Nat /\ DayTicks \in Nat \ {0} /\ late \in Int BY NextClock, NeedsAssumption
<1>2. hour \in Int /\ (hour >= 25 <=> 100 * p >= DayTicks * 25) /\ (hour >= 75 <=> 100 * p >= DayTicks * 75)
  <2> HIDE DEF p
  <2>1. late = 100 * p OBVIOUS
  <2> HIDE DEF late
  <2>2. hour \in Int BY <1>1, Quotient
  <2>3. \A c \in Int : hour >= c <=> late >= DayTicks * c BY <1>1, QuotientAtLeast
  <2> HIDE DEF hour
  <2> QED BY <2>1, <2>2, <2>3
<1>3. HourOf(t) = hour BY DEF HourOf, Clock
<1> HIDE DEF p, hour
<1>4. hour >= 25 <=> Dawn <= p BY <1>1, <1>2, HalfIs
<1>5. hour >= 75 <=> p >= Dawn + Half BY <1>1, <1>2, HalfIs
<1> QED BY <1>1, <1>2, <1>3, <1>4, <1>5, HalfIs DEF Night, p

\* What a rate adds up to in a day.
LEMMA PerDayIs ==
  ASSUME NEW rate \in Int
  PROVE  PerDay(rate) \in Int /\ DayTicks * PerDay(rate) <= rate
<1>1. DayTicks \in Nat \ {0} BY NeedsAssumption
<1>2. rate \div DayTicks \in Int /\ rate % DayTicks \in 0 .. DayTicks - 1
      /\ rate = DayTicks * (rate \div DayTicks) + (rate % DayTicks)
  BY <1>1, Quotient
<1> DEFINE q == rate \div DayTicks
           m == rate % DayTicks
<1>3. q \in Int /\ m \in Nat /\ rate = DayTicks * q + m /\ PerDay(rate) = q BY <1>1, <1>2 DEF PerDay
<1> HIDE DEF q, m
<1>4. DayTicks * q \in Int BY <1>1, <1>3
<1> QED BY <1>3, <1>4

-----------------------------------------------------------------------------
(* Tiring and resting *)

\* A place as Towns promises, and a world fit for a tick.
PlaceOK == place.relief \in Nat /\ place.hospital \in Nat
Nine == {"tick", "food", "water", "lit", "book", "council", "morale", "folk", "orders"}
World(n) ==
  /\ DOMAIN n = Nine /\ n.tick \in Nat /\ n.food \in Int
  /\ n.book \in SUBSET Laws /\ IsFiniteSet(n.book) /\ n.folk \in Seq(Survivor)

\* In a bunk a night's hour takes off at least what the hardest shift puts on, and more.
LEMMA TiringIs ==
  ASSUME NEW n, World(n), PlaceOK, NEW i
  PROVE  /\ Tiring(n, i) \in Int
         /\ Night(n.tick) /\ Bunked(i) => Tiring(n, i) <= -11000
         /\ ~Night(n.tick) => Tiring(n, i) <= 9450
<1> DEFINE tire == Product(TiringFactor, n.book)
           rest == Product(RestFactor, n.book)
           rate == IF Bunked(i) THEN 11000 ELSE 3000
<1>1. tire \in {100, 135}
  <2>1. Only(TiringFactor, n.book, "LongShifts", 135) BY DEF Only, TiringFactor, World
  <2> QED BY <2>1, LawProduct DEF World
<1>2. rest \in {100, 130}
  <2>1. Only(RestFactor, n.book, "Curfew", 130) BY DEF Only, RestFactor, World
  <2> QED BY <2>1, LawProduct DEF World
<1>3. CASE Night(n.tick)
  <2>1. Tiring(n, i) = -((rate * rest) \div 100) BY <1>3 DEF Tiring
  <2> HIDE DEF rest
  <2>2. rate \in {3000, 11000} /\ (Bunked(i) => rate = 11000) OBVIOUS
  <2> HIDE DEF rate
  <2>3. /\ (rate * rest) \div 100 \in {3000, 3900, 11000, 14300}
        /\ rate = 11000 => (rate * rest) \div 100 \in {11000, 14300}
    <3>1. /\ rate * rest \in {300000, 390000, 1100000, 1430000}
          /\ rate = 11000 => rate * rest \in {1100000, 1430000}
      BY <1>2, <2>2
    <3> QED BY <3>1
  <2> DEFINE off == (rate * rest) \div 100
  <2>4. off \in {3000, 3900, 11000, 14300} /\ (rate = 11000 => off \in {11000, 14300}) BY <2>3
  <2> HIDE DEF off
  <2>5. Tiring(n, i) = -off BY <2>1 DEF off
  <2> QED BY <1>3, <2>2, <2>4, <2>5
<1>4. CASE ~Night(n.tick) /\ n.folk[i].posted
  <2> DEFINE shift == (7000 * tire) \div 100
             left == Greater(20, 100 - place.relief)
  <2>1. Tiring(n, i) = (shift * left) \div 100 BY <1>4 DEF Tiring
  <2>2. shift \in 7000 .. 9450
    <3> HIDE DEF tire
    <3> QED BY <1>1
  <2>3. left \in 20 .. 100 BY DEF Greater, PlaceOK
  <2> HIDE DEF shift, left
  <2>4. shift * left \in Int /\ shift * left <= 9450 * 100
    <3>1. shift * left <= 9450 * left BY <2>2, <2>3
    <3> QED BY <2>2, <2>3, <3>1
  <2> DEFINE x == shift * left
  <2>5. x \in Int /\ x <= 945000 BY <2>4
  <2> HIDE DEF x
  <2>6. x \div 100 \in Int /\ x \div 100 <= 9450 BY <2>5
  <2> QED BY <1>4, <2>1, <2>6 DEF x
<1>5. CASE ~Night(n.tick) /\ ~n.folk[i].posted
  <2>1. Tiring(n, i) = (2600 * tire) \div 100 BY <1>5 DEF Tiring
  <2> HIDE DEF tire
  <2> QED BY <1>1, <1>5, <2>1
<1> QED BY <1>3, <1>4, <1>5

\* The most a bunked survivor may carry at a place of the day, times the ticks of a day.
Sun(p) == Dawn <= p /\ p < Dawn + Half
Load(p) ==
  IF Sun(p) THEN 9450 * (p - Dawn + 1)
  ELSE Greater(0, 9450 * Half - 11000 * (IF p >= Dawn + Half THEN p - Dawn - Half + 1 ELSE p + Half - Dawn + 1))

LEMMA LoadIs ==
  ASSUME NEW p \in 0 .. DayTicks - 1
  PROVE  Load(p) \in Nat /\ Load(p) <= 9450 * Half
<1>1. CASE Sun(p)
  <2>1. Load(p) = 9450 * (p - Dawn + 1) BY <1>1 DEF Load
  <2>2. p - Dawn + 1 \in Nat /\ p - Dawn + 1 <= Half BY <1>1, HalfIs DEF Sun
  <2> DEFINE u == p - Dawn + 1
  <2> HIDE DEF u
  <2>3. 9450 * u \in Nat /\ 9450 * u <= 9450 * Half BY <2>2, HalfIs DEF u
  <2> QED BY <2>1, <2>3 DEF u
<1>2. CASE ~Sun(p)
  <2> DEFINE u == IF p >= Dawn + Half THEN p - Dawn - Half + 1 ELSE p + Half - Dawn + 1
  <2>1. u \in Nat BY <1>2, HalfIs DEF Sun
  <2>2. Load(p) = Greater(0, 9450 * Half - 11000 * u) BY <1>2 DEF Load
  <2> HIDE DEF u
  <2> QED BY <2>1, <2>2, HalfIs DEF Greater
<1> QED BY <1>1, <1>2

\* From a tick to the next, the day adds no more and the night takes off no less.
LEMMA LoadMoves ==
  ASSUME NEW t \in Nat
  PROVE  LET p == Clock(t)
             q == Clock(t + 1)
         IN  /\ Night(t + 1) => Greater(0, Load(p) - 11000) <= Load(q)
             /\ ~Night(t + 1) => Load(p) + 9450 <= Load(q)
<1> DEFINE p == Clock(t)
           q == Clock(t + 1)
           h == Half
           d == Dawn
<1>1. p \in 0 .. DayTicks - 1 /\ q \in 0 .. DayTicks - 1 /\ q = IF p = DayTicks - 1 THEN 0 ELSE p + 1
  BY NextClock
<1>2. Night(t + 1) <=> ~Sun(q) BY NightIs DEF Sun
<1>3. h \in Nat \ {0} /\ DayTicks = 2 * h /\ d \in Nat /\ 2 * d \in {h, h + 1} BY HalfIs
<1>4. Sun(p) <=> d <= p /\ p < d + h BY DEF Sun
<1>5. Sun(q) <=> d <= q /\ q < d + h BY DEF Sun
<1>6. Load(p) = IF Sun(p) THEN 9450 * (p - d + 1)
                ELSE Greater(0, 9450 * h - 11000 * (IF p >= d + h THEN p - d - h + 1 ELSE p + h - d + 1))
  BY DEF Load
<1>7. Load(q) = IF Sun(q) THEN 9450 * (q - d + 1)
                ELSE Greater(0, 9450 * h - 11000 * (IF q >= d + h THEN q - d - h + 1 ELSE q + h - d + 1))
  BY DEF Load
<1> HIDE DEF p, q, h, d
<1>8. CASE Sun(q) /\ Sun(p)
  <2>1. q = p + 1 BY <1>1, <1>3, <1>4, <1>5, <1>8
  <2> QED BY <1>1, <1>2, <1>3, <1>6, <1>7, <1>8, <2>1 DEF p, q
<1>9. CASE Sun(q) /\ ~Sun(p)
  <2>1. q = p + 1 /\ q = d BY <1>1, <1>3, <1>4, <1>5, <1>9
  <2>2. Load(p) = 0 BY <1>1, <1>3, <1>6, <1>9, <2>1 DEF Greater
  <2> QED BY <1>1, <1>2, <1>3, <1>7, <1>9, <2>1, <2>2 DEF p, q
<1>10. CASE ~Sun(q) /\ Sun(p)
  <2>1. p = d + h - 1 BY <1>1, <1>3, <1>4, <1>5, <1>10
  <2>2. Load(p) = 9450 * h BY <1>1, <1>3, <1>6, <1>10, <2>1
  <2>3. (IF q >= d + h THEN q - d - h + 1 ELSE q + h - d + 1) = 1 BY <1>1, <1>3, <1>5, <1>10, <2>1
  <2>4. Load(q) = Greater(0, 9450 * h - 11000) BY <1>7, <1>10, <2>3
  <2> QED BY <1>2, <1>10, <2>2, <2>4, <1>3 DEF Greater, p, q
<1>11. CASE ~Sun(q) /\ ~Sun(p)
  <2> DEFINE u == IF p >= d + h THEN p - d - h + 1 ELSE p + h - d + 1
             v == IF q >= d + h THEN q - d - h + 1 ELSE q + h - d + 1
  <2>1. u \in Int /\ v = u + 1 BY <1>1, <1>3, <1>4, <1>5, <1>11
  <2>2. Load(p) = Greater(0, 9450 * h - 11000 * u) /\ Load(q) = Greater(0, 9450 * h - 11000 * v) BY <1>6, <1>7, <1>11
  <2> HIDE DEF u, v
  <2> QED BY <1>2, <1>3, <1>11, <2>1, <2>2 DEF Greater, p, q
<1> QED BY <1>8, <1>9, <1>10, <1>11

-----------------------------------------------------------------------------
(* One turn, and a round of them *)

\* The pieces of a turn that are numbers.
LEMMA RatesInt ==
  ASSUME PlaceOK
  PROVE  /\ 100 \div DayTicks \in Nat /\ HoursPerTick \in Int /\ Nursing \in Int /\ Healing \in Nat
         /\ \A rate \in Int : PerDay(rate) \in Int
<1>1. DayTicks \in Nat \ {0} BY NeedsAssumption
<1>2. \A rate \in Int : PerDay(rate) \in Int BY PerDayIs
<1>3. 100 \div DayTicks \in Nat /\ 24 \div DayTicks \in Int BY <1>1
<1>4. PerDay(200) \in Int BY <1>2
<1>5. place.hospital * PerDay(200) \in Int BY <1>4 DEF PlaceOK
<1> DEFINE care == place.hospital * PerDay(200)
<1>6. (care * 150) \div 100 \in Int /\ (care * 100) \div 100 \in Int
  <2> HIDE DEF care
  <2>1. care \in Int BY <1>5 DEF care
  <2> QED BY <2>1
<1>7. Nursing \in Int BY <1>6 DEF Nursing
<1> QED BY <1>2, <1>3, <1>7 DEF HoursPerTick, Healing, PlaceOK

LEMMA HealthInt ==
  ASSUME PlaceOK, NEW hp \in Int, NEW eff \in Int, NEW hunger \in Nat, NEW thirst \in Nat, NEW ill \in BOOLEAN
  PROVE  Health(hp, eff, hunger, thirst, ill) \in Int
<1> DEFINE sick    == hp - (IF ill THEN PerDay(1000) ELSE 0)
           weather == IF eff < 0 THEN sick - (35 * Lesser(-eff, 400) * HoursPerTick) \div 10
                      ELSE IF eff >= 50 /\ hunger < 60 THEN Lesser(sick + 300 * HoursPerTick, 10000)
                      ELSE sick
           starved == weather - (IF hunger >= 80 THEN 20 * (hunger - 80) * HoursPerTick ELSE 0)
           parched == starved - (IF thirst >= 65 THEN 20 * (thirst - 65) * HoursPerTick ELSE 0)
<1>1. HoursPerTick \in Int /\ Nursing \in Int /\ PerDay(1000) \in Int BY RatesInt
<1>2. sick \in Int BY <1>1
<1> HIDE DEF sick
<1>3. weather \in Int
  <2>1. Lesser(-eff, 400) \in Int BY DEF Lesser
  <2> DEFINE bite == 35 * Lesser(-eff, 400) * HoursPerTick
  <2>2. bite \in Int BY <1>1, <2>1
  <2> HIDE DEF bite
  <2>3. bite \div 10 \in Int BY <2>2
  <2> QED BY <1>1, <1>2, <2>3 DEF Lesser, bite
<1> HIDE DEF weather
<1>4. starved \in Int
  <2>1. 20 * (hunger - 80) * HoursPerTick \in Int BY <1>1
  <2> QED BY <1>3, <2>1
<1> HIDE DEF starved
<1>5. parched \in Int
  <2>1. 20 * (thirst - 65) * HoursPerTick \in Int BY <1>1
  <2> QED BY <1>4, <2>1
<1>6. Health(hp, eff, hunger, thirst, ill) = IF Nursing > 0 THEN Lesser(parched + Nursing, 10000) ELSE parched
  BY DEF Health, sick, weather, starved
<1> HIDE DEF parched
<1> QED BY <1>1, <1>5, <1>6 DEF Lesser

\* The weather at a tick, and how warm somebody is.
LEMMA FeltInt ==
  ASSUME NEW n, World(n), NEW i PROVE Temperature(n.tick) + Warmth(n, i) \in Int
<1>1. DayTicks \in Nat \ {0} /\ n.tick \in Nat BY NeedsAssumption DEF World
<1>2. n.tick \div DayTicks \in Int BY <1>1
<1>3. DayOf(n.tick) \in Int BY <1>2 DEF DayOf
<1>4. Diurnal(n.tick) \in Int BY DEF Diurnal
<1>5. Temperature(n.tick) \in Int BY <1>3, <1>4 DEF Temperature
<1>6. (IF "Insulation" \in place.techs THEN 40 ELSE 0) \in Int /\ (IF place.tailor THEN 30 ELSE 0) \in Int OBVIOUS
<1> DEFINE near == CASE n.lit /\ i <= place.warm -> 180
     [] ~(n.lit /\ i <= place.warm) /\ i <= Beds -> 60
     [] ~(n.lit /\ i <= place.warm) /\ i > Beds /\ n.lit -> 30
     [] OTHER -> 0
<1>7. near \in Int OBVIOUS
<1> HIDE DEF near
<1>8. Warmth(n, i) = near + (IF "Insulation" \in place.techs THEN 40 ELSE 0) + (IF place.tailor THEN 30 ELSE 0)
  BY DEF Warmth, near
<1> QED BY <1>5, <1>6, <1>7, <1>8

\* A plate is not less than nothing.
LEMMA PlateNat ==
  ASSUME NEW n, World(n), NEW s PROVE Plate(n, s) \in Nat
<1>1. Product(FoodFactor, n.book) \in Nat
  <2>1. \A x \in n.book : FoodFactor[x] \in Nat BY DEF FoodFactor, World
  <2> QED BY <2>1, LawProductNat DEF World
<1> DEFINE law == Product(FoodFactor, n.book)
           all == 1000 * Kitchen * Rationing * law
<1>2. all \in Nat
  <2> HIDE DEF law
  <2>1. 1000 * Kitchen * Rationing \in Nat BY DEF Kitchen, Rationing
  <2> QED BY <1>1, <2>1 DEF law
<1>3. Portion(n) = all \div 1000000 BY DEF Portion
<1> HIDE DEF all
<1>4. Portion(n) \in Nat BY <1>2, <1>3
<1>5. (Portion(n) * 60) \div 100 \in Nat BY <1>4
<1> QED BY <1>4, <1>5 DEF Plate

\* What a turn makes of whoever has it.
Turned(n, i, s, r, food) ==
  /\ r.id = s.id /\ r.child = s.child
  /\ r.fatigue = Clamped(s.fatigue + PerDay(Tiring(n, i)), 10000)
  /\ r.rough <=> s.rough \/ (Night(n.tick) /\ ~Bunked(i))
  /\ r.hunger > s.hunger => r.hunger < 25 \/ food < Plate(n, r)

LEMMA PersonTurned ==
  ASSUME NEW n, World(n), PlaceOK, NEW i \in DOMAIN n.folk
  PROVE  LET m == PersonTurn(n, i)
         IN  /\ World(m) /\ m.tick = n.tick /\ m.book = n.book /\ m.food <= n.food
             /\ Len(m.folk) = Len(n.folk)
             /\ \A j \in DOMAIN n.folk : j # i => m.folk[j] = n.folk[j]
             /\ Turned(n, i, n.folk[i], m.folk[i], n.food)
<1> DEFINE s == n.folk[i]
           hungry == Hungrier(s.hunger)
           eats == hungry >= 25 /\ Feeds(n, s)
           hunger == IF eats THEN Sated(hungry) ELSE hungry
           thirsty == Hungrier(s.thirst)
           drinks == thirsty >= 20 /\ n.water >= Drink
           thirst == IF drinks THEN Sated(thirsty) ELSE thirsty
           fatigue == Clamped(s.fatigue + PerDay(Tiring(n, i)), 10000)
           sick == Greater(0, s.sick - Healing)
           hp == Health(s.hp, Temperature(n.tick) + Warmth(n, i), hunger, thirst, s.sick > 0)
           rough == s.rough \/ (Night(n.tick) /\ ~Bunked(i))
           person == [s EXCEPT !.fatigue = fatigue, !.sick = sick, !.hunger = hunger, !.thirst = thirst,
                               !.hp = hp, !.rough = rough]
           food == IF eats THEN n.food - Plate(n, s) ELSE n.food
           m == PersonTurn(n, i)
<1>1. s \in Survivor BY DEF World
<1>2. m = [n EXCEPT !.folk[i] = person, !.food = food, !.water = IF drinks THEN @ - Drink ELSE @]
  BY DEF PersonTurn
<1>3. 100 \div DayTicks \in Nat /\ Healing \in Nat /\ Tiring(n, i) \in Int /\ PerDay(Tiring(n, i)) \in Int
  BY RatesInt, TiringIs
<1>4. hungry \in Nat /\ hunger \in Nat /\ thirst \in Nat
  BY <1>1, <1>3 DEF Survivor, Hungrier, Sated, Lesser, Greater
<1>5. eats => hunger <= s.hunger
  BY <1>1, <1>3 DEF Survivor, Hungrier, Sated, Lesser, Greater
<1>6. n.food \in Int /\ Plate(n, s) \in Nat BY PlateNat DEF World
<1>7. ~eats => hunger < 25 \/ n.food < Plate(n, s) BY <1>4, <1>6 DEF Feeds
<1>8. hunger > s.hunger => hunger < 25 \/ n.food < Plate(n, s)
  <2> HIDE DEF hunger, eats
  <2> QED BY <1>1, <1>4, <1>5, <1>7 DEF Survivor
<1>9. food \in Int /\ food <= n.food BY <1>6
<1>10. fatigue \in Nat /\ sick \in Nat BY <1>1, <1>3 DEF Survivor, Clamped, Greater, Lesser
<1>11. hp \in Int
  <2>1. Temperature(n.tick) + Warmth(n, i) \in Int BY FeltInt
  <2>2. (s.sick > 0) \in BOOLEAN BY <1>1 DEF Survivor
  <2> HIDE DEF hunger, thirst
  <2> QED BY <1>1, <1>4, <2>1, <2>2, HealthInt DEF Survivor
<1>12. rough \in BOOLEAN OBVIOUS
<1> HIDE DEF fatigue, sick, hunger, thirst, hp, rough, food, eats, drinks
<1>13. person \in Survivor BY <1>1, <1>4, <1>10, <1>11, <1>12 DEF Survivor
<1>14. /\ person.id = s.id /\ person.child = s.child /\ person.fatigue = fatigue /\ person.rough = rough
       /\ person.hunger = hunger
  BY <1>1 DEF Survivor
<1> HIDE DEF person, s
<1>15. DOMAIN n = Nine /\ n.folk \in Seq(Survivor) BY DEF World
<1>16. m.folk = [n.folk EXCEPT ![i] = person] /\ m.food = food /\ m.tick = n.tick /\ m.book = n.book /\ DOMAIN m = Nine
  BY <1>2, <1>15 DEF Nine
<1>17. m.folk \in Seq(Survivor) /\ Len(m.folk) = Len(n.folk) /\ m.folk[i] = person
       /\ \A j \in DOMAIN n.folk : j # i => m.folk[j] = n.folk[j]
  BY <1>13, <1>15, <1>16
<1>18. World(m) BY <1>9, <1>16, <1>17 DEF World
<1>19. Plate(n, person) = Plate(n, s) BY <1>14 DEF Plate
<1>20. Turned(n, i, s, person, n.food)
  <2>1. person.rough <=> s.rough \/ (Night(n.tick) /\ ~Bunked(i)) BY <1>14 DEF rough
  <2>2. person.fatigue = Clamped(s.fatigue + PerDay(Tiring(n, i)), 10000) BY <1>14 DEF fatigue
  <2> QED BY <1>8, <1>14, <1>19, <2>1, <2>2 DEF Turned
<1> QED BY <1>9, <1>16, <1>17, <1>18, <1>20 DEF s

\* One turn after another.
OneTurn(n, h, i) == IF i = 0 THEN n ELSE PersonTurn(h[i - 1], i)

\* The recursion has a solution.
LEMMA TurnsGo == ASSUME NEW n, NEW l \in Nat PROVE \E h : h = [k \in 0 .. l |-> OneTurn(n, h, k)]
<1> DEFINE Has(m) == \E h : h = [k \in 0 .. m |-> OneTurn(n, h, k)]
<1>1. Has(0)
  <2> DEFINE g == [k \in 0 .. 0 |-> OneTurn(n, <<>>, k)]
  <2>1. \A k \in 0 .. 0 : OneTurn(n, <<>>, k) = OneTurn(n, g, k) BY DEF OneTurn
  <2> HIDE DEF g
  <2>2. g = [k \in 0 .. 0 |-> OneTurn(n, g, k)] BY <2>1 DEF g
  <2> QED BY <2>2
<1>2. ASSUME NEW m \in Nat, Has(m) PROVE Has(m + 1)
  <2>1. PICK h : h = [k \in 0 .. m |-> OneTurn(n, h, k)] BY <1>2
  <2> DEFINE g == [k \in 0 .. m + 1 |-> OneTurn(n, h, k)]
  <2>2. \A k \in 0 .. m : g[k] = h[k] BY <2>1
  <2>3. ASSUME NEW k \in 0 .. m + 1 PROVE OneTurn(n, h, k) = OneTurn(n, g, k)
    <3>1. CASE k = 0 BY <3>1 DEF OneTurn
    <3>2. CASE k # 0
      <4>1. k - 1 \in 0 .. m BY <3>2
      <4> HIDE DEF g
      <4>2. g[k - 1] = h[k - 1] BY <2>2, <4>1
      <4> QED BY <3>2, <4>2 DEF OneTurn
    <3> QED BY <3>1, <3>2
  <2> HIDE DEF g
  <2>4. g = [k \in 0 .. m + 1 |-> OneTurn(n, g, k)] BY <2>3 DEF g
  <2> QED BY <2>4
<1> HIDE DEF Has
<1> DEFINE all == {m \in Nat : Has(m)}
<1>3. 0 \in all /\ \A m \in all : m + 1 \in all BY <1>1, <1>2
<1>4. l \in all
  <2> HIDE DEF all
  <2>1. all \in SUBSET Nat BY DEF all
  <2> QED BY <1>3, <2>1, AllNaturals
<1> QED BY <1>4 DEF Has

\* A round leaves the day and the book, and does to everybody what his turn does; whoever was
\* not served could not be served from what the round leaves either.
LEMMA RoundTurns ==
  ASSUME NEW n, World(n), PlaceOK
  PROVE  LET m == EveryTurn(n)
         IN  /\ World(m) /\ m.tick = n.tick /\ m.book = n.book /\ Len(m.folk) = Len(n.folk)
             /\ \A i \in DOMAIN n.folk : Turned(n, i, n.folk[i], m.folk[i], m.food)
<1> DEFINE l == Len(n.folk)
<1>1. l \in Nat /\ DOMAIN n.folk = 1 .. l BY DEF World
<1> HIDE DEF l
<1>2. PICK h : h = [k \in 0 .. l |-> OneTurn(n, h, k)] BY <1>1, TurnsGo
<1>3. PICK turn : turn = [k \in 0 .. l |-> OneTurn(n, turn, k)] /\ EveryTurn(n) = turn[l]
  BY <1>2 DEF EveryTurn, OneTurn, l
<1>4. \A k \in 0 .. l : turn[k] = OneTurn(n, turn, k)
  <2>1. \A i \in 0 .. l : [j \in 0 .. l |-> OneTurn(n, turn, j)][i] = OneTurn(n, turn, i) OBVIOUS
  <2> QED BY <1>3, <2>1
<1> DEFINE Good(k) ==
             /\ World(turn[k]) /\ turn[k].tick = n.tick /\ turn[k].book = n.book /\ Len(turn[k].folk) = l
             /\ \A i \in 1 .. l : i > k => turn[k].folk[i] = n.folk[i]
             /\ \A i \in 1 .. l : i <= k => Turned(n, i, n.folk[i], turn[k].folk[i], turn[k].food)
<1>5. Good(0)
  <2>1. turn[0] = n BY <1>1, <1>4 DEF OneTurn
  <2> QED BY <1>1, <2>1 DEF l
<1>6. ASSUME NEW k \in Nat, k < l, Good(k) PROVE Good(k + 1)
  <2> DEFINE c == turn[k]
             m == turn[k + 1]
  <2>1. k + 1 \in 0 .. l /\ k + 1 # 0 /\ (k + 1) - 1 = k /\ k + 1 \in 1 .. l BY <1>1, <1>6
  <2>2. m = PersonTurn(c, k + 1) BY <1>4, <2>1 DEF OneTurn
  <2>3. World(c) /\ c.tick = n.tick /\ c.book = n.book /\ Len(c.folk) = l /\ DOMAIN c.folk = 1 .. l
    BY <1>6 DEF World
  <2> HIDE DEF c, m
  <2>4. /\ World(m) /\ m.tick = c.tick /\ m.book = c.book /\ m.food <= c.food /\ Len(m.folk) = l
        /\ \A j \in 1 .. l : j # k + 1 => m.folk[j] = c.folk[j]
        /\ Turned(c, k + 1, c.folk[k + 1], m.folk[k + 1], c.food)
    BY <2>1, <2>2, <2>3, PersonTurned
  <2>5. c.food \in Int /\ m.food \in Int BY <2>3, <2>4 DEF World
  <2>6. \A s : Plate(c, s) = Plate(n, s) /\ Plate(n, s) \in Nat
    <3>1. Portion(c) = Portion(n) BY <2>3 DEF Portion
    <3> QED BY <3>1, PlateNat DEF Plate
  <2>7. c.folk[k + 1] = n.folk[k + 1]
    <3>1. k + 1 > k BY <1>6
    <3> QED BY <1>6, <2>1, <3>1 DEF c
  <2>8. Tiring(c, k + 1) = Tiring(n, k + 1) BY <2>3, <2>7 DEF Tiring
  <2>9. Turned(n, k + 1, n.folk[k + 1], m.folk[k + 1], m.food)
    BY <2>3, <2>4, <2>5, <2>6, <2>7, <2>8 DEF Turned
  <2>10. ASSUME NEW i \in 1 .. l, i <= k PROVE Turned(n, i, n.folk[i], m.folk[i], m.food)
    <3>1. Turned(n, i, n.folk[i], c.folk[i], c.food) BY <1>6, <2>10 DEF c
    <3>2. m.folk[i] = c.folk[i] BY <1>6, <2>4, <2>10
    <3> QED BY <2>4, <2>5, <2>6, <3>1, <3>2 DEF Turned
  <2>11. ASSUME NEW i \in 1 .. l, i > k + 1 PROVE m.folk[i] = n.folk[i]
    <3>1. c.folk[i] = n.folk[i] BY <1>6, <2>11 DEF c
    <3> QED BY <1>6, <2>4, <2>11, <3>1
  <2>12. \A i \in 1 .. l : i <= k + 1 => i <= k \/ i = k + 1 BY <1>1, <1>6
  <2>13. \A i \in 1 .. l : i <= k + 1 => Turned(n, i, n.folk[i], m.folk[i], m.food) BY <2>9, <2>10, <2>12
  <2> QED BY <2>3, <2>4, <2>11, <2>13 DEF m
<1>7. Good(l)
  <2> HIDE DEF Good
  <2> DEFINE all == {k \in Nat : k <= l => Good(k)}
  <2>1. 0 \in all BY <1>5
  <2>2. ASSUME NEW k \in all PROVE k + 1 \in all
    <3>1. k \in Nat /\ (k + 1 <= l => k < l /\ k <= l) BY <1>1
    <3>2. k + 1 <= l => Good(k + 1) BY <1>6, <3>1
    <3> QED BY <3>1, <3>2
  <2>3. all \in SUBSET Nat OBVIOUS
  <2> HIDE DEF all
  <2>4. l \in all BY <1>1, <2>1, <2>2, <2>3, AllNaturals
  <2> QED BY <1>1, <2>4 DEF all
<1>8. \A i \in DOMAIN n.folk : i \in 1 .. l /\ i <= l BY <1>1
<1> QED BY <1>3, <1>7, <1>8 DEF l
-----------------------------------------------------------------------------
(* Those who are left *)

\* No two people go by one id.
OwnIds(roster) == \A i, j \in DOMAIN roster : roster[i].id = roster[j].id => i = j

\* Who is kept, one after another.
Keep(roster, h, i) ==
  IF i = 0 THEN <<>> ELSE IF roster[i].hp > 0 THEN Append(h[i - 1], roster[i]) ELSE h[i - 1]

\* The recursion has a solution.
LEMMA KeepingGoes == ASSUME NEW roster, NEW l \in Nat PROVE \E h : h = [k \in 0 .. l |-> Keep(roster, h, k)]
<1> DEFINE Has(m) == \E h : h = [k \in 0 .. m |-> Keep(roster, h, k)]
<1>1. Has(0)
  <2> DEFINE g == [k \in 0 .. 0 |-> Keep(roster, <<>>, k)]
  <2>1. \A k \in 0 .. 0 : Keep(roster, <<>>, k) = Keep(roster, g, k) BY DEF Keep
  <2> HIDE DEF g
  <2>2. g = [k \in 0 .. 0 |-> Keep(roster, g, k)] BY <2>1 DEF g
  <2> QED BY <2>2
<1>2. ASSUME NEW m \in Nat, Has(m) PROVE Has(m + 1)
  <2>1. PICK h : h = [k \in 0 .. m |-> Keep(roster, h, k)] BY <1>2
  <2> DEFINE g == [k \in 0 .. m + 1 |-> Keep(roster, h, k)]
  <2>2. \A k \in 0 .. m : g[k] = h[k] BY <2>1
  <2>3. ASSUME NEW k \in 0 .. m + 1 PROVE Keep(roster, h, k) = Keep(roster, g, k)
    <3>1. CASE k = 0 BY <3>1 DEF Keep
    <3>2. CASE k # 0
      <4>1. k - 1 \in 0 .. m BY <3>2
      <4> HIDE DEF g
      <4>2. g[k - 1] = h[k - 1] BY <2>2, <4>1
      <4> QED BY <3>2, <4>2 DEF Keep
    <3> QED BY <3>1, <3>2
  <2> HIDE DEF g
  <2>4. g = [k \in 0 .. m + 1 |-> Keep(roster, g, k)] BY <2>3 DEF g
  <2> QED BY <2>4
<1> HIDE DEF Has
<1> DEFINE all == {m \in Nat : Has(m)}
<1>3. 0 \in all /\ \A m \in all : m + 1 \in all BY <1>1, <1>2
<1>4. l \in all
  <2> HIDE DEF all
  <2>1. all \in SUBSET Nat BY DEF all
  <2> QED BY <1>3, <2>1, AllNaturals
<1> QED BY <1>4 DEF Has

\* Burials leave only people who were there, as they were, and nobody twice.
LEMMA AliveAre ==
  ASSUME NEW roster \in Seq(Survivor), OwnIds(roster)
  PROVE  /\ Alive(roster) \in Seq(Survivor) /\ OwnIds(Alive(roster))
         /\ \A j \in DOMAIN Alive(roster) : \E i \in DOMAIN roster : j <= i /\ Alive(roster)[j] = roster[i]
<1> DEFINE l == Len(roster)
<1>1. l \in Nat /\ DOMAIN roster = 1 .. l /\ \A i \in 1 .. l : roster[i] \in Survivor OBVIOUS
<1> HIDE DEF l
<1>2. PICK h : h = [k \in 0 .. l |-> Keep(roster, h, k)] BY <1>1, KeepingGoes
<1>3. PICK left : left = [k \in 0 .. l |-> Keep(roster, left, k)] /\ Alive(roster) = left[l]
  BY <1>2 DEF Alive, Keep, l
<1>4. \A k \in 0 .. l : left[k] = Keep(roster, left, k)
  <2>1. \A i \in 0 .. l : [j \in 0 .. l |-> Keep(roster, left, j)][i] = Keep(roster, left, i) OBVIOUS
  <2> QED BY <1>3, <2>1
<1> DEFINE Good(k) ==
             /\ left[k] \in Seq(Survivor) /\ Len(left[k]) <= k /\ OwnIds(left[k])
             /\ \A j \in 1 .. Len(left[k]) : \E i \in 1 .. k : j <= i /\ left[k][j] = roster[i]
<1>5. Good(0)
  <2>1. left[0] = <<>> BY <1>1, <1>4 DEF Keep
  <2> QED BY <2>1 DEF OwnIds
<1>6. ASSUME NEW k \in Nat, k < l, Good(k) PROVE Good(k + 1)
  <2> DEFINE c == left[k]
             m == left[k + 1]
  <2>1. k + 1 \in 0 .. l /\ k + 1 # 0 /\ (k + 1) - 1 = k /\ k + 1 \in 1 .. l BY <1>1, <1>6
  <2>2. m = IF roster[k + 1].hp > 0 THEN Append(c, roster[k + 1]) ELSE c BY <1>4, <2>1 DEF Keep
  <2>3. /\ c \in Seq(Survivor) /\ Len(c) <= k /\ Len(c) \in Nat /\ OwnIds(c) /\ DOMAIN c = 1 .. Len(c)
        /\ \A j \in 1 .. Len(c) : \E i \in 1 .. k : j <= i /\ c[j] = roster[i]
    BY <1>6
  <2> HIDE DEF c, m
  <2>4. CASE m = c
    <3>1. \A j \in 1 .. Len(m) : \E i \in 1 .. k + 1 : j <= i /\ m[j] = roster[i]
      <4>1. \A i \in 1 .. k : i \in 1 .. k + 1 BY <1>6
      <4> QED BY <2>3, <2>4, <4>1
    <3>2. Len(m) <= k + 1 BY <1>6, <2>3, <2>4
    <3> QED BY <2>3, <2>4, <3>1, <3>2 DEF m
  <2>5. CASE m = Append(c, roster[k + 1])
    <3> DEFINE s == roster[k + 1]
               x == Len(c) + 1
    <3>1. s \in Survivor BY <1>1, <2>1
    <3>2. /\ m \in Seq(Survivor) /\ Len(m) = x /\ DOMAIN m = 1 .. x /\ m[x] = s
          /\ \A j \in 1 .. Len(c) : m[j] = c[j]
      BY <2>3, <2>5, <3>1
    <3>3. x \in Nat /\ x <= k + 1 BY <1>6, <2>3
    <3>4. ASSUME NEW j \in 1 .. x PROVE j \in 1 .. Len(c) \/ j = x BY <2>3
    <3>5. ASSUME NEW j \in 1 .. Len(c) PROVE m[j].id # s.id
      <4>1. PICK i \in 1 .. k : c[j] = roster[i] BY <2>3
      <4>2. i \in DOMAIN roster /\ k + 1 \in DOMAIN roster /\ i # k + 1 BY <1>1, <1>6, <2>1
      <4>3. roster[i].id # roster[k + 1].id BY <4>2 DEF OwnIds
      <4> QED BY <3>2, <4>1, <4>3
    <3>6. OwnIds(m)
      <4> SUFFICES ASSUME NEW i \in 1 .. x, NEW j \in 1 .. x, m[i].id = m[j].id PROVE i = j BY <3>2 DEF OwnIds
      <4>1. CASE i \in 1 .. Len(c) /\ j \in 1 .. Len(c) BY <2>3, <3>2, <4>1 DEF OwnIds
      <4>2. CASE i \in 1 .. Len(c) /\ j = x BY <3>2, <3>5, <4>2
      <4>3. CASE i = x /\ j \in 1 .. Len(c) BY <3>2, <3>5, <4>3
      <4> QED BY <3>4, <4>1, <4>2, <4>3
    <3>7. ASSUME NEW j \in 1 .. x PROVE \E i \in 1 .. k + 1 : j <= i /\ m[j] = roster[i]
      <4>1. CASE j \in 1 .. Len(c)
        <5>1. PICK i \in 1 .. k : j <= i /\ c[j] = roster[i] BY <2>3, <4>1
        <5>2. i \in 1 .. k + 1 BY <1>6
        <5> QED BY <3>2, <4>1, <5>1, <5>2
      <4>2. CASE j = x
        <5>1. k + 1 \in 1 .. k + 1 /\ j <= k + 1 BY <1>6, <3>3, <4>2
        <5> QED BY <3>2, <4>2, <5>1
      <4> QED BY <3>4, <4>1, <4>2
    <3> QED BY <3>2, <3>3, <3>6, <3>7 DEF m
  <2> QED BY <2>2, <2>4, <2>5
<1>7. Good(l)
  <2> HIDE DEF Good
  <2> DEFINE all == {k \in Nat : k <= l => Good(k)}
  <2>1. 0 \in all BY <1>5
  <2>2. ASSUME NEW k \in all PROVE k + 1 \in all
    <3>1. k \in Nat /\ (k + 1 <= l => k < l /\ k <= l) BY <1>1
    <3>2. k + 1 <= l => Good(k + 1) BY <1>6, <3>1
    <3> QED BY <3>1, <3>2
  <2>3. all \in SUBSET Nat OBVIOUS
  <2> HIDE DEF all
  <2>4. l \in all BY <1>1, <2>1, <2>2, <2>3, AllNaturals
  <2> QED BY <1>1, <2>4 DEF all
<1>8. DOMAIN Alive(roster) = 1 .. Len(Alive(roster)) BY <1>3, <1>7
<1> QED BY <1>1, <1>3, <1>7, <1>8

-----------------------------------------------------------------------------
(* Nobody with a bunk is tired, and nobody is passed over *)

\* Whoever has had a bunk every night carries no more than the time of day allows.
Fresh(n) ==
  \A i \in DOMAIN n.folk : n.folk[i].rough \/ DayTicks * n.folk[i].fatigue <= Load(Clock(n.tick))

Kept == PlaceOK /\ World(needs) /\ OwnIds(needs.folk) /\ Fresh(needs)

\* What is carried after a tick, given the most that may be added or must come off.
LEMMA Carried ==
  ASSUME NEW f \in Nat, NEW x \in Int, NEW rate \in Int, DayTicks * x <= rate,
         NEW l \in Nat, DayTicks * f <= l
  PROVE  DayTicks * Clamped(f + x, 10000) <= Greater(0, l + rate)
<1> DEFINE D == DayTicks
           y == f + x
           c == Clamped(y, 10000)
<1>1. D \in Nat \ {0} BY NeedsAssumption
<1>2. y \in Int /\ D * y = D * f + D * x /\ D * f \in Int /\ D * x \in Int BY <1>1
<1>3. D * y <= l + rate /\ D * y \in Int BY <1>2
<1> HIDE DEF y
<1>4. c \in Int /\ (c = 0 \/ c <= y) BY <1>2 DEF Clamped, Greater, Lesser
<1> HIDE DEF c
<1>5. D * c = 0 \/ D * c <= D * y
  <2>1. CASE c = 0 BY <1>1, <2>1
  <2>2. CASE c <= y BY <1>1, <1>2, <1>4, <2>2
  <2> QED BY <1>4, <2>1, <2>2
<1>6. D * c \in Int BY <1>1, <1>4
<1> HIDE DEF D
<1>7. D * c <= Greater(0, l + rate) BY <1>3, <1>5, <1>6 DEF Greater
<1> QED BY <1>7 DEF c, y, D

\* One person's turn keeps him fresh, if he had a bunk.
LEMMA TurnedFresh ==
  ASSUME NEW n, World(n), PlaceOK, NEW t \in Nat, n.tick = t + 1, NEW i, NEW s \in Survivor, NEW r, NEW food,
         Turned(n, i, s, r, food), s.rough \/ DayTicks * s.fatigue <= Load(Clock(t))
  PROVE  r.rough \/ DayTicks * r.fatigue <= Load(Clock(t + 1))
<1> DEFINE p == Load(Clock(t))
           q == Load(Clock(t + 1))
           rate == Tiring(n, i)
           x == PerDay(rate)
<1>1. p \in Nat /\ q \in Nat /\ t + 1 \in Nat BY NextClock, LoadIs
<1>2. (Night(t + 1) => Greater(0, p - 11000) <= q) /\ (~Night(t + 1) => p + 9450 <= q) BY LoadMoves
<1>3. rate \in Int /\ (Night(t + 1) /\ Bunked(i) => rate <= -11000) /\ (~Night(t + 1) => rate <= 9450) BY TiringIs
<1>4. x \in Int /\ DayTicks * x <= rate BY <1>3, PerDayIs
<1>5. /\ s.fatigue \in Nat /\ r.fatigue = Clamped(s.fatigue + x, 10000)
      /\ r.rough <=> s.rough \/ (Night(t + 1) /\ ~Bunked(i))
  BY DEF Turned, Survivor
<1> HIDE DEF x, rate
<1>6. ASSUME ~r.rough PROVE DayTicks * r.fatigue <= q
  <2>1. DayTicks * s.fatigue <= p BY <1>5, <1>6
  <2> HIDE DEF p, q
  <2>2. DayTicks * r.fatigue <= Greater(0, p + rate) BY <1>1, <1>3, <1>4, <1>5, <2>1, Carried
  <2>3. Greater(0, p + rate) <= q BY <1>1, <1>2, <1>3, <1>5, <1>6 DEF Greater
  <2>4. DayTicks * r.fatigue \in Int
    <3>1. s.fatigue + x \in Int BY <1>4, <1>5
    <3>2. r.fatigue \in Int BY <1>5, <3>1 DEF Clamped, Greater, Lesser
    <3> QED BY <3>2, NeedsAssumption
  <2> QED BY <1>1, <1>3, <2>2, <2>3, <2>4 DEF Greater
<1> QED BY <1>6

\* A tick, from what it finds to whom it leaves.
LEMMA RoundKeeps ==
  ASSUME Kept, NEW food \in Nat, NEW water \in Nat, NeedsTick(food, water)
  PROVE  /\ Kept'
         /\ \A i \in DOMAIN needs.folk : \A j \in DOMAIN needs'.folk :
              needs.folk[i].id = needs'.folk[j].id /\ needs'.folk[j].hunger > needs.folk[i].hunger
              => needs'.folk[j].hunger < 25 \/ needs'.food < Plate(needs, needs'.folk[j])
<1> DEFINE t == needs.tick
           n == Stocked(needs, food, water)
           m == EveryTurn(n)
<1>1. PlaceOK /\ World(needs) /\ OwnIds(needs.folk) /\ Fresh(needs) /\ t \in Nat BY DEF Kept, World
<1>2. World(n) /\ n.tick = t + 1 /\ n.book = needs.book /\ n.folk = needs.folk
  <2>1. DOMAIN needs = Nine BY <1>1 DEF World
  <2>2. /\ n.tick = t + 1 /\ n.book = needs.book /\ n.folk = needs.folk /\ DOMAIN n = Nine
        /\ n.food = Lesser(needs.food + food, MaxPot)
    BY <2>1 DEF Stocked, Nine
  <2>3. needs.food \in Int /\ MaxPot \in Nat BY <1>1, NeedsAssumption DEF World
  <2>4. n.food \in Int BY <2>2, <2>3 DEF Lesser
  <2> QED BY <1>1, <2>2, <2>4 DEF World
<1> HIDE DEF n
<1>3. /\ World(m) /\ m.tick = t + 1 /\ m.book = needs.book /\ Len(m.folk) = Len(n.folk)
      /\ \A i \in DOMAIN n.folk : Turned(n, i, n.folk[i], m.folk[i], m.food)
  BY <1>1, <1>2, RoundTurns
<1> DEFINE felt == [m EXCEPT !.morale = Morale(m, n)]
<1>4. needs' = Buried(felt) /\ place' = place BY DEF NeedsTick, n
<1> HIDE DEF m
<1>5. World(felt) /\ felt.tick = t + 1 /\ felt.book = needs.book /\ felt.folk = m.folk /\ felt.food = m.food
  BY <1>3 DEF World, Nine
<1> HIDE DEF felt
<1>6. /\ needs'.folk = Alive(m.folk) /\ needs'.tick = t + 1 /\ needs'.book = needs.book /\ needs'.food = m.food
      /\ DOMAIN needs' = Nine
  BY <1>4, <1>5 DEF Buried, World, Nine
<1>7. DOMAIN m.folk = DOMAIN needs.folk /\ m.folk \in Seq(Survivor) /\ needs.folk \in Seq(Survivor)
  BY <1>1, <1>2, <1>3 DEF World
<1>8. \A i \in DOMAIN needs.folk : Turned(n, i, needs.folk[i], m.folk[i], m.food) BY <1>2, <1>3
<1>9. \A i \in DOMAIN needs.folk : m.folk[i].id = needs.folk[i].id BY <1>8 DEF Turned
<1>10. OwnIds(m.folk) BY <1>1, <1>7, <1>9 DEF OwnIds
<1>11. /\ needs'.folk \in Seq(Survivor) /\ OwnIds(needs'.folk)
       /\ \A j \in DOMAIN needs'.folk : \E i \in DOMAIN needs.folk : needs'.folk[j] = m.folk[i]
  BY <1>6, <1>7, <1>10, AliveAre
<1>12. World(needs') BY <1>1, <1>3, <1>6, <1>11 DEF World
<1>13. Fresh(needs')
  <2>1. ASSUME NEW i \in DOMAIN needs.folk PROVE m.folk[i].rough \/ DayTicks * m.folk[i].fatigue <= Load(Clock(t + 1))
    <3>1. needs.folk[i].rough \/ DayTicks * needs.folk[i].fatigue <= Load(Clock(t)) BY <1>1 DEF Fresh
    <3>2. needs.folk[i] \in Survivor BY <1>7
    <3> QED BY <1>1, <1>2, <1>8, <3>1, <3>2, TurnedFresh
  <2> QED BY <1>6, <1>11, <2>1 DEF Fresh
<1>14. PlaceOK' BY <1>1, <1>4 DEF PlaceOK
<1>15. ASSUME NEW i \in DOMAIN needs.folk, NEW j \in DOMAIN needs'.folk, needs.folk[i].id = needs'.folk[j].id,
              needs'.folk[j].hunger > needs.folk[i].hunger
       PROVE  needs'.folk[j].hunger < 25 \/ needs'.food < Plate(needs, needs'.folk[j])
  <2>1. PICK k \in DOMAIN needs.folk : needs'.folk[j] = m.folk[k] BY <1>11
  <2>2. k = i BY <1>1, <1>9, <1>15, <2>1 DEF OwnIds
  <2>3. m.folk[i].hunger < 25 \/ m.food < Plate(n, m.folk[i]) BY <1>8, <1>15, <2>1, <2>2 DEF Turned
  <2>4. Plate(n, m.folk[i]) = Plate(needs, m.folk[i]) BY <1>2 DEF Plate, Portion
  <2> QED BY <1>6, <2>1, <2>2, <2>3, <2>4
<1> QED BY <1>10, <1>11, <1>12, <1>13, <1>14, <1>15 DEF Kept

\* Laws, errands and the fire leave the day, and everybody's load.
LEMMA OthersKeep ==
  ASSUME Kept, \/ \E l \in Laws : Enact(l) \/ Repeal(l)
               \/ \E i \in DOMAIN needs.folk : \/ \E errand \in {"walk", "chop", "bury"} : Begin(i, errand)
                                               \/ \E log \in BOOLEAN : End(i, log)
               \/ Light
  PROVE  Kept' /\ needs'.tick = needs.tick
<1> DEFINE roster == needs.folk
<1>1. PlaceOK /\ World(needs) /\ OwnIds(roster) /\ Fresh(needs) BY DEF Kept
<1>2. DOMAIN needs = Nine /\ roster \in Seq(Survivor) /\ IsFiniteSet(needs.book) /\ needs.book \in SUBSET Laws
  BY <1>1 DEF World
<1>3. PlaceOK'
  <2>1. place' = place BY DEF Enact, Repeal, Begin, End, Light
  <2> QED BY <1>1, <2>1 DEF PlaceOK
<1>4. ASSUME DOMAIN needs' = Nine, needs'.tick = needs.tick, needs'.food = needs.food,
             needs'.book \in SUBSET Laws, IsFiniteSet(needs'.book), needs'.folk \in Seq(Survivor),
             DOMAIN needs'.folk = DOMAIN roster,
             \A i \in DOMAIN roster : /\ needs'.folk[i].id = roster[i].id /\ needs'.folk[i].fatigue = roster[i].fatigue
                                    /\ needs'.folk[i].rough = roster[i].rough
      PROVE  Kept' /\ needs'.tick = needs.tick
  <2>1. World(needs') BY <1>1, <1>4 DEF World
  <2>2. OwnIds(needs'.folk) BY <1>1, <1>4 DEF OwnIds
  <2>3. Fresh(needs') BY <1>1, <1>4 DEF Fresh
  <2> QED BY <1>3, <1>4, <2>1, <2>2, <2>3 DEF Kept
<1>5. ASSUME NEW l \in Laws, Enact(l) \/ Repeal(l) PROVE Kept' /\ needs'.tick = needs.tick
  <2>1. needs'.book = needs.book \cup {l} \/ needs'.book = needs.book \ {l} BY <1>2, <1>5 DEF Enact, Repeal, Nine
  <2>2. needs'.book \in SUBSET Laws /\ IsFiniteSet(needs'.book)
    <3>1. needs'.book \in SUBSET Laws BY <1>2, <2>1
    <3>2. IsFiniteSet(needs'.book) BY <1>2, <2>1, FS_AddElement, FS_RemoveElement
    <3> QED BY <3>1, <3>2
  <2>3. DOMAIN needs' = Nine /\ needs'.tick = needs.tick /\ needs'.food = needs.food /\ needs'.folk = roster
    BY <1>2, <1>5 DEF Enact, Repeal, Nine
  <2> QED BY <1>2, <1>4, <2>2, <2>3
<1>6. ASSUME NEW i \in DOMAIN roster, NEW errand \in {"walk", "chop", "bury"}, Begin(i, errand)
      PROVE  Kept' /\ needs'.tick = needs.tick
  <2> DEFINE s == [roster[i] EXCEPT !.errand = errand]
  <2>1. s \in Survivor /\ s.id = roster[i].id /\ s.fatigue = roster[i].fatigue /\ s.rough = roster[i].rough
    <3>1. roster[i] \in Survivor BY <1>2
    <3> QED BY <3>1 DEF Survivor
  <2> HIDE DEF s
  <2>2. needs'.folk = [roster EXCEPT ![i] = s] BY <1>2, <1>6 DEF Begin, Nine, s
  <2>3. DOMAIN needs' = Nine /\ needs'.tick = needs.tick /\ needs'.food = needs.food /\ needs'.book = needs.book
    BY <1>2, <1>6 DEF Begin, Nine
  <2> QED BY <1>2, <1>4, <1>6, <2>1, <2>2, <2>3
<1>7. ASSUME NEW i \in DOMAIN roster, NEW log \in BOOLEAN, End(i, log) PROVE Kept' /\ needs'.tick = needs.tick
  <2> DEFINE s == [roster[i] EXCEPT !.errand = "none", !.log = @ \/ log]
  <2>1. s \in Survivor /\ s.id = roster[i].id /\ s.fatigue = roster[i].fatigue /\ s.rough = roster[i].rough
    <3>1. roster[i] \in Survivor BY <1>2
    <3> QED BY <3>1 DEF Survivor
  <2>2. needs' = [needs EXCEPT !.folk[i].errand = "none", !.folk[i].log = @ \/ log] BY <1>7 DEF End
  <2>3. needs'.folk = [roster EXCEPT ![i] = s] BY <1>2, <2>2 DEF Nine
  <2>4. DOMAIN needs' = Nine /\ needs'.tick = needs.tick /\ needs'.food = needs.food /\ needs'.book = needs.book
    BY <1>2, <2>2 DEF Nine
  <2> HIDE DEF s
  <2> QED BY <1>2, <1>4, <1>7, <2>1, <2>3, <2>4
<1>8. ASSUME Light PROVE Kept' /\ needs'.tick = needs.tick
  <2>1. needs'.folk = [i \in DOMAIN roster |-> [roster[i] EXCEPT !.log = FALSE]] BY <1>2, <1>8 DEF Light, Nine
  <2>2. \A s \in Survivor : [s EXCEPT !.log = FALSE] \in Survivor BY DEF Survivor
  <2>3. \A s \in Survivor : LET r == [s EXCEPT !.log = FALSE]
                           IN  r.id = s.id /\ r.fatigue = s.fatigue /\ r.rough = s.rough
    BY DEF Survivor
  <2>4. \A i \in DOMAIN roster : roster[i] \in Survivor /\ needs'.folk[i] = [roster[i] EXCEPT !.log = FALSE]
    BY <1>2, <2>1
  <2>5. \A i \in DOMAIN roster : /\ needs'.folk[i] \in Survivor
                               /\ needs'.folk[i].id = roster[i].id /\ needs'.folk[i].fatigue = roster[i].fatigue
                               /\ needs'.folk[i].rough = roster[i].rough
    BY <2>2, <2>3, <2>4
  <2>6. needs'.folk \in Seq(Survivor) /\ DOMAIN needs'.folk = DOMAIN roster
    <3>1. DOMAIN needs'.folk = 1 .. Len(roster) /\ Len(roster) \in Nat /\ DOMAIN roster = 1 .. Len(roster) BY <1>2, <2>1
    <3>2. needs'.folk = [i \in 1 .. Len(roster) |-> needs'.folk[i]] BY <2>1, <3>1
    <3> QED BY <2>5, <3>1, <3>2
  <2>7. DOMAIN needs' = Nine /\ needs'.tick = needs.tick /\ needs'.food = needs.food /\ needs'.book = needs.book
    BY <1>2, <1>8 DEF Light, Nine
  <2> QED BY <1>2, <1>4, <2>5, <2>6, <2>7
<1> QED BY <1>5, <1>6, <1>7, <1>8

LEMMA InitKept == ASSUME NeedsInit PROVE Kept
<1>1. PlaceOK BY NeedsAssumption DEF NeedsInit, PlaceOK
<1>2. PICK roster \in Rosters : needs = Founded(roster) BY DEF NeedsInit
<1>3. roster \in Seq(Survivor) /\ OwnIds(roster) /\ \A i \in DOMAIN roster : roster[i].fatigue = 0
  BY NeedsAssumption DEF OwnIds
<1>4. World(needs)
  <2>1. IsFiniteSet({}) BY FS_EmptySet
  <2> QED BY <1>2, <1>3, <2>1, NeedsAssumption DEF Founded, World, Nine
<1>5. Fresh(needs)
  <2>1. Load(Clock(FirstTick)) \in Nat
    <3>1. FirstTick \in Nat BY NeedsAssumption
    <3>2. Clock(FirstTick) \in 0 .. DayTicks - 1 BY <3>1, NextClock
    <3> QED BY <3>2, LoadIs
  <2>2. DayTicks * 0 = 0 BY NeedsAssumption
  <2> QED BY <1>2, <1>3, <2>1, <2>2 DEF Founded, Fresh
<1> QED BY <1>1, <1>2, <1>3, <1>4, <1>5 DEF Founded, Kept

\* From a tick to the next, and between ticks, both hold on.
LEMMA NeedsNextKeeps ==
  ASSUME Kept, NeedsNext
  PROVE  /\ Kept'
         /\ needs'.tick > needs.tick =>
              \A i \in DOMAIN needs.folk : \A j \in DOMAIN needs'.folk :
                needs.folk[i].id = needs'.folk[j].id /\ needs'.folk[j].hunger > needs.folk[i].hunger
                => needs'.folk[j].hunger < 25 \/ needs'.food < Plate(needs, needs'.folk[j])
<1>1. CASE \E y \in Rations : NeedsTick(y[1], y[2])
  <2>1. PICK y \in Rations : NeedsTick(y[1], y[2]) BY <1>1
  <2>2. y[1] \in Nat /\ y[2] \in Nat BY NeedsAssumption
  <2> QED BY <2>1, <2>2, RoundKeeps
<1>2. CASE \/ \E l \in Laws : Enact(l) \/ Repeal(l)
           \/ \E i \in DOMAIN needs.folk : \/ \E errand \in {"walk", "chop", "bury"} : Begin(i, errand)
                                           \/ \E log \in BOOLEAN : End(i, log)
           \/ Light
  <2>1. Kept' /\ needs'.tick = needs.tick BY <1>2, OthersKeep
  <2>2. needs.tick \in Nat BY DEF Kept, World
  <2> QED BY <2>1, <2>2
<1> QED BY <1>1, <1>2 DEF NeedsNext

\* Load is at most what half a day's shift puts on.
LEMMA KeptNeverTired == Kept => BunkedNeverTired
<1> SUFFICES ASSUME Kept, NEW i \in DOMAIN needs.folk, ~needs.folk[i].rough PROVE needs.folk[i].fatigue <= 6000
  BY DEF BunkedNeverTired
<1> DEFINE f == needs.folk[i].fatigue
           l == Load(Clock(needs.tick))
<1>1. f \in Nat
  <2>1. needs.folk[i] \in Survivor BY DEF Kept, World
  <2> QED BY <2>1 DEF Survivor
<1>2. DayTicks * f <= l BY DEF Kept, Fresh
<1>3. l \in Nat /\ l <= 9450 * Half
  <2>1. needs.tick \in Nat BY DEF Kept, World
  <2>2. Clock(needs.tick) \in 0 .. DayTicks - 1 BY <2>1, NextClock
  <2> QED BY <2>2, LoadIs
<1> HIDE DEF f, l
<1>4. DayTicks = 2 * Half /\ Half \in Nat \ {0} BY HalfIs
<1>5. ~(f > 6000)
  <2>1. f > 6000 => DayTicks * f >= DayTicks * 6000 BY <1>1, <1>4
  <2>2. DayTicks * f \in Int BY <1>1, <1>4
  <2> QED BY <1>2, <1>3, <1>4, <2>1, <2>2
<1> QED BY <1>1, <1>5 DEF f

LEMMA AlwaysKept == NeedsSpec => []Kept
<1>1. Kept /\ UNCHANGED needsVars => Kept'
  BY DEF Kept, PlaceOK, World, OwnIds, Fresh, needsVars
<1> QED BY <1>1, InitKept, NeedsNextKeeps, PTL DEF NeedsSpec

\* A bunk is enough: whoever has slept in one every night is never tired, however many people
\* the town has, whatever laws come and go, and whoever dies and leaves a better place in the
\* roster (tick.rs: the fatigue block; state.rs: bunked_ids).
THEOREM BunkedNeverTiredHolds == NeedsSpec => []BunkedNeverTired
<1> QED BY AlwaysKept, KeptNeverTired, PTL

\* While there is a plate of food left in the pot, nobody hungry enough to eat goes without it
\* (tick.rs: the meal block).
THEOREM FedWhileItLastsHolds == NeedsSpec => FedWhileItLasts
<1>1. Kept /\ [NeedsNext]_needsVars =>
        [needs'.tick > needs.tick =>
           \A i \in DOMAIN needs.folk :
             \A j \in DOMAIN needs'.folk :
               /\ needs.folk[i].id = needs'.folk[j].id /\ needs'.folk[j].hunger > needs.folk[i].hunger
               => needs'.folk[j].hunger < 25 \/ needs'.food < Plate(needs, needs'.folk[j])]_needsVars
  BY NeedsNextKeeps
<1> QED BY <1>1, AlwaysKept, PTL DEF NeedsSpec, FedWhileItLasts

=================================================================================
