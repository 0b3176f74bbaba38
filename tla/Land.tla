---------------------------------- MODULE Land ----------------------------------
(***************************************************************************)
(* The ground of a world and what is raised on it (crates/fc-game/src:      *)
(* types/state.rs, types/building.rs, sim/command.rs, sim/snow.rs and the   *)
(* building, production and chopping of sim/tick.rs).                       *)
(*                                                                         *)
(* Rooms are placed, moved, turned, fitted, raised and torn down; roads are *)
(* laid and torn up; trees are felled by the mill, by hand and for the      *)
(* first fire; snow falls and is cleared.  A command is an action, a tick   *)
(* is one action in the order of the code.  Who works where is Colony's     *)
(* subject: here a tick picks the one room whose crew finishes a piece of   *)
(* work, and only the posts at the furnace are named.  Way-finding is left  *)
(* out: survivors stand anywhere until the tick they arrive.                *)
(***************************************************************************)
EXTENDS Integers, FiniteSets, FiniteSetsExt, Functions

CONSTANTS
  W, H,            \* MAP_W, MAP_H
  Terrain0,        \* the terrain mapgen drew: tile -> "Snow", "Forest" or "Coal"
  Deposit0,        \* units in a fresh forest or coal tile
  FurnaceAt,       \* where mapgen put the furnace
  People,          \* ids of survivors
  Size, Cost,      \* kind -> <<w, h>>, kind -> logs of wood
  BenchCost,       \* cost_wood of a fitting at level 1
  RoadCost, Logs,  \* ROAD_COST_WOOD, FURNACE_LOGS_NEEDED
  RefundPct, DiscountPct, BonusPct,  \* DEMOLISH_REFUND = ROAD_REFUND, WAREHOUSE_BUILD_DISCOUNT, LEVEL_PRODUCTION_BONUS
  MaxLevel, MaxBench, MatureLevel,   \* BUILDING_MAX_LEVEL, FURNISHING_MAX_LEVEL, the level of a Pech
  MaxBurn, FuelPenalty,              \* the highest furnace_level, WOOD_FUEL_PENALTY in hundredths
  SnowMax,         \* SNOW_MAX
  Wood0,           \* logs in store at first
  MaxIds,          \* bound: rooms ever placed
  MaxGiven,        \* bound: commands given
  Drifts,          \* bound: the tiles whose snow is followed
  MaxDrag          \* bound: tiles of one road command

Tile   == (0..(W - 1)) \X (0..(H - 1))
Rooms  == DOMAIN Cost \ {"Furnace"}       \* BuildingKind::buildable
Fitted == {"CoalMine", "Sawmill", "SnowCrew", "Warehouse"} \cap Rooms
Nowhere == <<-1, -1>>
Furnace == 0                              \* its id
Log    == 10000                           \* one log, in the unit of wood

LevelFactor(l) == 100 + BonusPct * (l - 1)               \* in hundredths

ASSUME LandAssumption ==
  /\ W \in Nat \ {0} /\ H \in Nat \ {0} /\ Deposit0 \in Nat \ {0} /\ Logs \in Nat \ {0}
  /\ IsFiniteSet(People)
  /\ DOMAIN Size = DOMAIN Cost /\ "Furnace" \in DOMAIN Cost
  /\ Terrain0 \in [Tile -> {"Snow", "Forest", "Coal"}]
  /\ \A k \in DOMAIN Size : Size[k] \in (Nat \ {0}) \X (Nat \ {0}) /\ Cost[k] \in Nat
  /\ FurnaceAt \in Tile /\ Drifts \subseteq Tile
  /\ \A t \in Tile : (/\ FurnaceAt[1] <= t[1] /\ t[1] < FurnaceAt[1] + Size["Furnace"][1]
                      /\ FurnaceAt[2] <= t[2] /\ t[2] < FurnaceAt[2] + Size["Furnace"][2])
                        => Terrain0[t] = "Snow"

\* What the constants of types.rs make of prices: a room costs no less at the best discount, nor
\* a level, than tearing it down gives back; and a road no less than lifting it does.
ASSUME PriceAssumption ==
  /\ {BenchCost, RoadCost, RefundPct, BonusPct, MaxBench, FuelPenalty, SnowMax, Wood0} \subseteq Nat
  /\ MaxLevel \in Nat \ {0} /\ MaxBurn \in Nat \ {0} /\ DiscountPct \in 0..100
  /\ RefundPct <= 100 /\ RefundPct * BonusPct <= Log
  /\ (100 - DiscountPct) * LevelFactor(MaxLevel) + RefundPct * 100 <= Log

VARIABLES
  terrain, deposit, road, snow,  \* GameState::tiles, field by field
  rooms,      \* buildings: id -> [kind, at, level, bench, left]; left is build_left
  nextId,
  wood, coal, \* stock, wood in ten-thousandths of a log
  burn,       \* furnace_level
  lit,        \* furnace_lit
  folk,       \* survivors: id -> [walk, chop, carry, post]; walk: a walk was
              \* ordered and goes on; post: the furnace is theirs to build
  orders,     \* clear_orders: tile -> who is to clear it, one order per tile
  gathered,   \* history: logs credited for felling, into the store or into a hand
  given       \* history: commands given

stores == <<wood, coal, burn, lit>>
ground == <<terrain, deposit, road, snow>>
vars   == <<ground, rooms, nextId, stores, folk, orders, gathered, given>>

(* ---------------------------- what is where ----------------------------- *)

Foot(k, p) == {t \in Tile : /\ p[1] <= t[1] /\ t[1] < p[1] + Size[k][1]
                            /\ p[2] <= t[2] /\ t[2] < p[2] + Size[k][2]}
Under(b)   == Foot(rooms[b].kind, rooms[b].at)
Busy(b)    == rooms[b].left > 0           \* under_construction

Occupied(t) == \E b \in DOMAIN rooms : t \in Under(b)

\* One building's claim on one tile of the ground it would stand on.
FitGround(k, t) ==
  IF k = "CoalMine" THEN terrain[t] # "Forest" ELSE terrain[t] = "Snow"

\* Mutant: only the corner tile is looked at, as when every room was one tile.
FootprintClear_Corner(k, p, ignore) ==
  /\ \A b \in DOMAIN rooms \ ignore : p \notin Under(b)
  /\ \A t \in Foot(k, p) : FitGround(k, t)
  /\ k = "CoalMine" => \E t \in Foot(k, p) : terrain[t] = "Coal" /\ deposit[t] > 0

\* footprint_is_clear; `ignore` holds the room that is moving, if one is.
FootprintClear(k, p, ignore) ==
  /\ \A t \in Foot(k, p) :
       /\ \A b \in DOMAIN rooms \ ignore : t \notin Under(b)
       /\ FitGround(k, t)
  /\ k = "CoalMine" => \E t \in Foot(k, p) : terrain[t] = "Coal" /\ deposit[t] > 0

InBounds(k, p) == p[1] + Size[k][1] <= W /\ p[2] + Size[k][2] <= H

CanRelocate(b, p) ==
  /\ rooms[b].kind \in Rooms /\ ~Busy(b)
  /\ InBounds(rooms[b].kind, p)
  /\ FootprintClear(rooms[b].kind, p, {b})

\* can_rotate: a finished room that was built, where it stands.
CanRotate(b) == rooms[b].kind \in Rooms /\ ~Busy(b)

CanLayRoad(t) == ~road[t] /\ terrain[t] = "Snow" /\ ~Occupied(t)

(* ------------------------------- prices -------------------------------- *)

Refund(k, l)   == Cost[k] * RefundPct * LevelFactor(l)
RoadRefund     == RoadCost * RefundPct * 100
UpgradeCost(k, l) == ((Cost[k] * l + 1) \div 2) * Log

\* The price of a new room with the best staffed warehouse at level l, or none at 0.
Price(k, l) ==
  LET saved == (100 - DiscountPct) * LevelFactor(l)
      rate  == IF l = 0 THEN 10000 ELSE IF saved > 9000 THEN 1000 ELSE 10000 - saved
  IN  Cost[k] * rate

WarehouseLevels == {0} \cup {rooms[b].level : b \in {c \in DOMAIN rooms : rooms[c].kind = "Warehouse" /\ ~Busy(c)}}

(* ------------------------------- commands ------------------------------ *)

\* Place, Demolish.  The crews that come and go are Colony's.
Place(k, p) ==
  /\ nextId <= MaxIds
  /\ InBounds(k, p) /\ FootprintClear(k, p, {}) /\ wood >= Cost[k] * Log
  /\ \E l \in WarehouseLevels : wood' = wood - Price(k, l)
  /\ rooms' = [b \in DOMAIN rooms \cup {nextId} |->
                 IF b = nextId THEN [kind |-> k, at |-> p, level |-> 1, bench |-> 0, left |-> 1]
                 ELSE rooms[b]]
  /\ nextId' = nextId + 1
  /\ UNCHANGED <<ground, coal, burn, lit, folk, orders, gathered>>

Demolish(b) ==
  /\ rooms[b].kind \in Rooms
  /\ rooms' = [c \in DOMAIN rooms \ {b} |-> rooms[c]]
  /\ wood' = wood + Refund(rooms[b].kind, rooms[b].level)
  /\ UNCHANGED <<ground, nextId, coal, burn, lit, folk, orders, gathered>>

\* RelocateBuilding and RelocateFacing.
Relocate(b, p) ==
  /\ CanRelocate(b, p)
  /\ rooms' = [rooms EXCEPT ![b].at = p, ![b].left = 1]
  /\ UNCHANGED <<ground, nextId, stores, folk, orders, gathered>>

RotateBuilding(b) ==
  /\ CanRotate(b)
  /\ rooms' = [rooms EXCEPT ![b].left = 1]
  /\ UNCHANGED <<ground, nextId, stores, folk, orders, gathered>>

\* furnishings_keep_pace: a fitting is due at every level of its room, up to its own last.
KeepsPace(b) == rooms[b].kind \in Fitted => rooms[b].bench >= Min({rooms[b].level, MaxBench})

UpgradeBuilding(b) ==
  LET k == rooms[b].kind   l == rooms[b].level + 1
  IN  /\ ~Busy(b) /\ l <= MaxLevel
      /\ KeepsPace(b)
      /\ wood >= UpgradeCost(k, l)
      /\ wood' = wood - UpgradeCost(k, l)
      /\ rooms' = [rooms EXCEPT ![b] = [kind |-> k, at |-> @.at, level |-> l, bench |-> @.bench, left |-> 1]]
      /\ UNCHANGED <<ground, nextId, coal, burn, lit, folk, orders, gathered>>

FittingCost(level) == BenchCost * level * Log

UpgradeFurnishing(b) ==
  LET next == rooms[b].bench + 1   cost == FittingCost(next)
  IN  /\ rooms[b].kind \in Fitted /\ next <= MaxBench /\ ~Busy(b) /\ wood >= cost
      /\ wood' = wood - cost
      /\ rooms' = [rooms EXCEPT ![b].bench = next]
      /\ UNCHANGED <<ground, nextId, coal, burn, lit, folk, orders, gathered>>

\* A drag lays what it can, tile by tile, and stops where the wood does.
Drags == UNION {{q \in [1..n -> Tile] : \A i, j \in 1..n : q[i] = q[j] => i = j} : n \in 1..MaxDrag}

BuildRoad(drag) ==
  LET fit  == {i \in DOMAIN drag : CanLayRoad(drag[i])}
      laid == {drag[i] : i \in {j \in fit : Cardinality({m \in fit : m <= j}) * RoadCost * Log <= wood}}
  IN  /\ laid # {}
      /\ road' = [t \in Tile |-> road[t] \/ t \in laid]
      /\ snow' = [t \in Drifts |-> IF t \in laid THEN 0 ELSE snow[t]]
      /\ wood' = wood - Cardinality(laid) * RoadCost * Log
      /\ UNCHANGED <<terrain, deposit, rooms, nextId, coal, burn, lit, folk, orders, gathered>>

RemoveRoad(drag) ==
  LET torn == {t \in {drag[i] : i \in DOMAIN drag} : road[t]}
  IN  /\ torn # {}
      /\ road' = [t \in Tile |-> road[t] /\ t \notin torn]
      /\ wood' = wood + Cardinality(torn) * RoadRefund
      /\ UNCHANGED <<terrain, deposit, snow, rooms, nextId, coal, burn, lit, folk, orders, gathered>>

(* ------------------------------- people -------------------------------- *)

Living == DOMAIN folk

\* The first fire is still being built: only then are logs fetched for it.
Unbuilt == Busy(Furnace) /\ burn = 0

Idle(s) == [folk[s] EXCEPT !.walk = FALSE, !.chop = Nowhere, !.carry = FALSE, !.post = FALSE]

\* A log in the hand goes to the store when its carrier is sent elsewhere.
Pocket(s) == IF folk[s].carry THEN Log ELSE 0

Sent(s, who) == /\ folk' = [folk EXCEPT ![s] = who]
                /\ wood' = wood + Pocket(s)
                /\ UNCHANGED <<ground, rooms, nextId, coal, burn, lit, orders, gathered>>

\* Mutant: the log is paid for and stays in the hand.
AssignSurvivor_LogKept(s, here) ==
  /\ here => Busy(Furnace) /\ ~folk[s].post
  /\ Sent(s, [folk[s] EXCEPT !.chop = Nowhere, !.post = here])

\* AssignSurvivor, and bind_survivor for those a crew is drawn from.  The walk under way goes on.
AssignSurvivor(s, here) ==
  /\ here => Busy(Furnace) /\ ~folk[s].post
  /\ Sent(s, [folk[s] EXCEPT !.chop = Nowhere, !.carry = FALSE, !.post = here])

\* AdjustWorkers, minus one: the last to come is let go, and nothing else of it is touched.
LetGo ==
  LET crew == {s \in Living : folk[s].post}
  IN  /\ crew # {}
      /\ folk' = [folk EXCEPT ![Max(crew)].post = FALSE]
      /\ UNCHANGED <<ground, rooms, nextId, stores, orders, gathered>>

MoveSurvivor(s) == Sent(s, [Idle(s) EXCEPT !.walk = TRUE])

ChopTile(s, t) ==
  /\ terrain[t] = "Forest" /\ deposit[t] > 0
  /\ Sent(s, [Idle(s) EXCEPT !.chop = t])

\* ClearSnow: a log in the hand is dropped, and a tile's order passes to whoever is sent last.
ClearSnow(s, t) ==
  /\ folk' = [folk EXCEPT ![s] = [Idle(s) EXCEPT !.walk = TRUE]]
  /\ orders' = [u \in DOMAIN orders \cup {t} |-> IF u = t THEN s ELSE orders[u]]
  /\ UNCHANGED <<ground, rooms, nextId, stores, gathered>>

\* SetFurnaceLevel: no damper before the first fire, nor on a rough one.
SetFurnaceLevel(l) ==
  /\ ~Unbuilt /\ rooms[Furnace].level >= MatureLevel
  /\ burn' = Min({l, MaxBurn})
  /\ UNCHANGED <<ground, rooms, nextId, wood, coal, lit, folk, orders, gathered>>

\* Death, a party, the Tunnel: whoever it is, their order and their log stay behind or go with them.
Leave(s) ==
  /\ folk' = [p \in Living \ {s} |-> folk[p]]
  /\ UNCHANGED <<ground, rooms, nextId, stores, orders, gathered>>

(* ------------------------------- a tick -------------------------------- *)

\* Fuel for a tick at this level: coal, or dearer wood, or the fire goes out.
Burned ==
  LET logs == burn * (Log \div 100) * FuelPenalty
  IN  CASE burn = 0     -> [coal |-> coal, wood |-> wood, lit |-> FALSE]
        [] burn > 0 /\ coal >= burn -> [coal |-> coal - burn, wood |-> wood, lit |-> TRUE]
        [] burn > 0 /\ coal < burn /\ wood >= logs -> [coal |-> coal, wood |-> wood - logs, lit |-> TRUE]
        [] OTHER        -> [coal |-> coal, wood |-> wood, lit |-> FALSE]

\* take_forest_unit, find_forest_tile, richest_coal_under: where a unit is to be had.
Land == [terrain |-> terrain, deposit |-> deposit]

Apart(i, j)      == IF i < j THEN j - i ELSE i - j
Distance(t, u)   == Max({Apart(t[1], u[1]), Apart(t[2], u[2])})
Timber(land)     == {t \in Tile : land.terrain[t] = "Forest" /\ land.deposit[t] > 0}
Nearest(land, u) == {t \in Timber(land) : \A o \in Timber(land) : Distance(t, u) <= Distance(o, u)}
Seams(b)         == {t \in Under(b) : terrain[t] = "Coal" /\ deposit[t] > 0}
Richest(b)       == {t \in Seams(b) : \A o \in Seams(b) : deposit[o] <= deposit[t]}

\* The tiles a crew's piece of work may draw a unit from.
Yields(b) == CASE rooms[b].kind = "Sawmill"  -> Nearest(Land, rooms[b].at)
               [] rooms[b].kind = "CoalMine" -> Richest(b)
               [] OTHER                      -> {}

\* Mutants: a felled wood stays a wood; only a wood runs out.
Drawn_StillWood(t) ==
  [deposit |-> IF t = Nowhere THEN deposit ELSE [deposit EXCEPT ![t] = @ - 1], terrain |-> terrain]
\* A unit fewer on tile t; a felled wood is open ground.
Drawn(t) ==
  IF t = Nowhere THEN Land
  ELSE [deposit |-> [deposit EXCEPT ![t] = @ - 1],
        terrain |-> IF terrain[t] = "Forest" /\ deposit[t] = 1 THEN [terrain EXCEPT ![t] = "Snow"] ELSE terrain]

\* A workbench's cycle: a bare room yields nothing.
Operational(b) == rooms[b].bench > 0 /\ Yields(b) # {}

\* Works(b): what the crew of room b achieves.  It finishes the site - the first fire is
\* not theirs to finish - or takes a unit, if there are tools and a place to take it from.
Finished(b) == IF b = Furnace /\ burn = 0 THEN rooms ELSE [rooms EXCEPT ![b].left = 0]
Works(b) ==
  IF b = -1 THEN {[rooms |-> rooms, from |-> Nowhere]}
  ELSE IF Busy(b) THEN {[rooms |-> Finished(b), from |-> Nowhere]}
  ELSE IF ~Operational(b) THEN {[rooms |-> rooms, from |-> Nowhere]}
  ELSE {[rooms |-> rooms, from |-> t] : t \in Yields(b)}

\* tick_snowfall: it falls everywhere or nowhere.
Fallen(fall) == [t \in Drifts |-> Min({snow[t] + fall, SnowMax})]

\* tick_snow_crews: the deepest tile loses a unit, a road first among equals.
Swept(deep, b) ==
  LET rank(t) == IF road[t] THEN deep[t] + 1 ELSE deep[t]
      piles   == {t \in Drifts : deep[t] > 0}
  IN  IF b = -1 \/ piles = {} \/ rooms[b].kind # "SnowCrew" \/ Busy(b) THEN {deep}
      ELSE {[deep EXCEPT ![t] = @ - 1] : t \in {u \in piles : \A o \in piles : rank(o) <= rank(u)}}

\* Where an errand leads: a walk first, then a tree, then home to the fire.  One without a
\* post who still holds a log takes it to the next meal.
Fells(s)   == ~folk[s].walk /\ folk[s].chop # Nowhere
Brings(s)  == ~folk[s].walk /\ folk[s].chop = Nowhere /\ folk[s].carry
Fetches(s) == Unbuilt /\ folk[s].post
Going(s)   == folk[s].walk \/ Fells(s) \/ folk[s].carry

\* The survivor loop for one who is there, or is not; tree is the nearest one standing.
Step(s, there, tree) ==
  LET me  == IF there THEN [folk[s] EXCEPT !.walk = FALSE] ELSE folk[s]
  IN  CASE there /\ Fells(s)  -> [me EXCEPT !.chop = Nowhere, !.carry = @ \/ Fetches(s)]
        [] there /\ Brings(s) -> [me EXCEPT !.carry = FALSE]
        [] OTHER -> IF Fetches(s) /\ me.chop = Nowhere /\ ~me.carry THEN [me EXCEPT !.chop = tree] ELSE me

\* The first fire is lit when the last log is home: its builders are free again.
Relieved(who) == [s \in DOMAIN who |->
  IF who[s].post THEN [who[s] EXCEPT !.post = FALSE, !.chop = Nowhere, !.carry = FALSE] ELSE who[s]]

\* tick_clear_orders: an order of somebody gone is dropped, one that is done clears its tile.
Tended(done) == [t \in {u \in DOMAIN orders \ done : orders[u] \in Living} |-> orders[t]]

\* What the axes leave of the land: each of them takes a unit while there is one.
Felled(there, land) ==
  LET blows(t) == Cardinality({s \in there : Fells(s) /\ folk[s].chop = t})
      struck   == {t \in Timber(land) : \E s \in there : Fells(s) /\ folk[s].chop = t}
      bare     == {t \in struck : land.deposit[t] <= blows(t)}
  IN  [deposit |-> [t \in Tile |-> IF t \in bare THEN 0
                                   ELSE IF t \in struck THEN land.deposit[t] - blows(t) ELSE land.deposit[t]],
       terrain |-> [t \in Tile |-> IF t \in bare THEN "Snow" ELSE land.terrain[t]]]

\* find_forest_tile, for whoever is about to look for one.
Trees(land) == IF (\E s \in Living : Fetches(s)) /\ Timber(land) # {} THEN Nearest(land, FurnaceAt) ELSE {Nowhere}

\* The rest of a tick: work is what the crew did, land and deep what it left of the ground,
\* felled what the axes leave of that.
Turn(there, work, done, deep, felled, tree) ==
  LET mill    == work.from # Nowhere /\ terrain[work.from] = "Forest"
      mine    == work.from # Nowhere /\ ~mill
      fellers == {s \in there : Fells(s)}
      hands   == {s \in fellers : ~Fetches(s)}
      brought == Cardinality({s \in there : Brings(s)})
      left    == work.rooms[Furnace].left - brought
      blaze   == brought > 0 /\ left <= 0
      moved   == [s \in Living |-> Step(s, s \in there, tree)]
  IN  /\ deposit' = felled.deposit /\ terrain' = felled.terrain
      /\ snow' = [t \in Drifts |-> IF t \in done THEN 0 ELSE deep[t]]
      /\ orders' = Tended(done)
      /\ coal' = Burned.coal + (IF mine THEN 1 ELSE 0)
      /\ wood' = Burned.wood + Log * ((IF mill THEN 1 ELSE 0) + Cardinality(hands))
      /\ rooms' = IF brought = 0 THEN work.rooms
                  ELSE [work.rooms EXCEPT ![Furnace].left = IF left > 0 THEN left ELSE 0]
      /\ folk' = IF blaze THEN Relieved(moved) ELSE moved
      /\ burn' = IF blaze THEN 1 ELSE burn
      /\ lit'  = (blaze \/ Burned.lit)
      /\ gathered' = gathered + (IF mill THEN 1 ELSE 0) + Cardinality(fellers)
      /\ UNCHANGED <<road, nextId>>

Tick(b, there) ==
  \E work \in Works(b), fall \in 0..1,
     done \in SUBSET {t \in DOMAIN orders : orders[t] \in Living} :
  \E land \in {Drawn(work.from)}, deep \in Swept(Fallen(fall), b) :
  \E tree \in Trees(land), felled \in {Felled(there, land)} :
    Turn(there, work, done, deep, felled, tree)

Init ==
  /\ terrain = Terrain0
  /\ deposit = [t \in Tile |-> IF Terrain0[t] = "Snow" THEN 0 ELSE Deposit0]
  /\ road = [t \in Tile |-> FALSE] /\ snow = [t \in Drifts |-> 0]
  /\ rooms = [b \in {Furnace} |-> [kind |-> "Furnace", at |-> FurnaceAt, level |-> 1, bench |-> 0, left |-> Logs]]
  /\ nextId = 1
  /\ wood = Wood0 * Log /\ coal = 0 /\ burn = 0 /\ lit = FALSE
  /\ folk = [s \in People |-> [walk |-> FALSE, chop |-> Nowhere, carry |-> FALSE, post |-> FALSE]]
  /\ orders = [t \in {} |-> 0] /\ gathered = 0 /\ given = 0

Command ==
  \/ \E k \in Rooms, p \in Tile : Place(k, p)
  \/ \E b \in DOMAIN rooms : Demolish(b) \/ RotateBuilding(b) \/ UpgradeBuilding(b) \/ UpgradeFurnishing(b)
  \/ \E b \in DOMAIN rooms, p \in Tile : Relocate(b, p)
  \/ \E drag \in Drags : BuildRoad(drag) \/ RemoveRoad(drag)
  \/ \E s \in Living, here \in BOOLEAN : AssignSurvivor(s, here)
  \/ LetGo
  \/ \E s \in Living : MoveSurvivor(s)
  \/ \E s \in Living, t \in Tile : ChopTile(s, t) \/ ClearSnow(s, t)
  \/ \E l \in 0..MaxBurn : SetFurnaceLevel(l)

Next ==
  \/ given < MaxGiven /\ given' = given + 1 /\ Command
  \/ given' = given /\ \E s \in Living : Leave(s)
  \/ given' = given /\ \E b \in DOMAIN rooms \cup {-1}, there \in SUBSET {s \in Living : Going(s)} : Tick(b, there)

Spec == Init /\ [][Next]_vars

(* ------------------------------ properties ----------------------------- *)

Room == [kind : DOMAIN Cost, at : Tile, level : 1..MaxLevel, bench : 0..MaxBench, left : 0..Max({Logs, 1})]

\* The store, the tiles and the people are well formed: no store is overdrawn and no deposit
\* goes below nothing (u16 and f32 in the code, where the one wraps and the other owes).
TypeOK ==
  /\ terrain \in [Tile -> {"Snow", "Forest", "Coal"}]
  /\ deposit \in [Tile -> Nat] /\ road \in [Tile -> BOOLEAN] /\ snow \in [Drifts -> 0..SnowMax]
  /\ Furnace \in DOMAIN rooms /\ rooms[Furnace].kind = "Furnace" /\ rooms[Furnace].at = FurnaceAt
  /\ nextId \in Nat \ {0} /\ \A b \in DOMAIN rooms : b \in 0..(nextId - 1) /\ rooms[b] \in Room
  /\ wood \in Nat /\ coal \in Nat /\ burn \in 0..MaxBurn /\ lit \in BOOLEAN
  /\ \A s \in Living : folk[s] \in [walk : BOOLEAN, chop : Tile \cup {Nowhere},
                                    carry : BOOLEAN, post : BOOLEAN]
  /\ \A t \in DOMAIN orders : t \in Tile /\ orders[t] \in People

\* No two buildings ever share a tile, however rooms are placed, moved aside their own old
\* ground, torn down and replaced (footprint_is_clear and its `ignore`).
FootprintsApart ==
  \A a, b \in DOMAIN rooms : a # b => Under(a) \cap Under(b) = {}

\* Every building stands on ground of its kind: a mine on no trees and on a seam, spent or
\* not, anything else on open ground; and a road runs over open ground only.
GroundHolds ==
  /\ \A b \in DOMAIN rooms, t \in Tile : t \in Under(b) => FitGround(rooms[b].kind, t)
  /\ \A b \in DOMAIN rooms : rooms[b].kind = "CoalMine" => \E t \in Under(b) : terrain[t] = "Coal"
  /\ \A t \in Tile : road[t] => terrain[t] = "Snow"

\* A wood has trees and open ground has none, whether the mill, an errand or an axe took the
\* last one, or two of them in the same tick.
ForestHasTimber ==
  \A t \in Tile : /\ terrain[t] = "Forest" => deposit[t] > 0
                  /\ terrain[t] = "Snow" => deposit[t] = 0

\* What stands, stands on the right ground, and the ground is what it looks like.
LandHolds == GroundHolds /\ ForestHasTimber

\* What could be had for everything that stands, and the logs in hand.
Sold == [b \in DOMAIN rooms |->
           IF rooms[b].kind \in Rooms THEN Refund(rooms[b].kind, rooms[b].level) ELSE 0]
Worth == wood + SumFunctionOnSet(Sold, DOMAIN rooms)
         + RoadRefund * Cardinality({t \in Tile : road[t]})
         + Log * Cardinality({s \in Living : folk[s].carry})

Seam      == [t \in Tile |-> IF Terrain0[t] = "Coal" THEN Deposit0 - deposit[t] ELSE 0]
CoalMined == SumFunctionOnSet(Seam, Tile)

\* The units a wood has lost, and what may have been credited for them: a survivor on the way to
\* a tree keeps the errand when the tree is felled before the axe arrives, and the log with it.
Lost == [t \in Tile |-> IF Terrain0[t] = "Forest" THEN Deposit0 - deposit[t] ELSE 0]
Had  == [t \in Tile |-> IF Terrain0[t] = "Forest" /\ terrain[t] = "Snow"
                        THEN Lost[t] + Cardinality(People) ELSE Lost[t]]

\* What is there can be accounted for: no order of building at a discount, raising, moving,
\* tearing down, laying and lifting roads, or sending people about, leaves more than the first
\* store and the logs credited for felling; these are the units the woods lost and, for each
\* wood felled bare, at most one log more for each survivor who was on the way to it; coal is
\* what the seams lost.  No store is overdrawn, and every field keeps its type.
StoresAccountedFor ==
  /\ TypeOK
  /\ Worth <= (Wood0 + gathered) * Log
  /\ gathered <= SumFunctionOnSet(Had, Tile)
  /\ coal <= CoalMined

=================================================================================
