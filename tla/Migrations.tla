------------------------------ MODULE Migrations ------------------------------
\* Every format a world was ever saved in (legacy.rs) and the way each one is
\* brought forward to the live format (persist.rs).  Bincode is positional: a
\* file carries no field names, so a version is its list of fields.
\* A world is one representative row of each of its tables: `state` (the scalars
\* and lists of GameState), `tile`, `survivor`, `stock`, `player` and two
\* buildings, an ordinary one (`hut`) and the one at the Tunnel's site.
EXTENDS Naturals, Sequences, TLC

None == "none"
NoWorld == [none |-> None]
Empty == "empty"
LiveVersion == 17

-------------------------------------------------------------------------------
\* The shapes: for each struct, the fields it has.

StockpileV7 == {"wood", "coal", "food"}
StockpileV8 == StockpileV7 \cup {"fur", "cloth"}
StockpileV10 == StockpileV8 \cup {"water"}
Stockpile == StockpileV10 \cup {"gold"}

TileV15 == {"terrain", "deposit"}
Tile == TileV15 \cup {"road", "snow"}

PlayerInfoV1 == {"id", "name", "color", "cursor", "built", "demolished", "role"}
PlayerInfo == PlayerInfoV1 \cup {"account"}

SurvivorV1 == {"id", "name", "hp", "hunger", "assigned_building"}
SurvivorV3 == SurvivorV1 \cup {"owner"}
SurvivorV5 == SurvivorV3 \cup {"x", "y", "move_target", "profession", "xp", "trained_kind"}
SurvivorV8 == SurvivorV5 \cup {"chop_target", "carrying_wood"}
SurvivorV13 == SurvivorV8 \cup {"thirst", "bury_target"}
SurvivorV14 == SurvivorV13 \cup {"fatigue", "sick_left"}
Survivor == SurvivorV14 \cup {"age_days", "partner"}

BuildingV2 == {"id", "kind", "x", "y", "workers", "progress", "owner"}
BuildingV4 == BuildingV2 \cup {"owner_account"}
BuildingV12 == BuildingV4 \cup {"level", "build_left"}
BuildingV16 == BuildingV12 \cup {"facing"}
Building == BuildingV16 \cup {"furnishings"}

WithBuildings(shape, fields) == [shape EXCEPT !.hut = fields, !.tunnel = fields]

GameStateV1 ==
    [state |-> {"tick", "win_days", "furnace_level", "furnace_lit", "cold_snap", "phase",
                "events", "total_events", "chat", "total_chat", "pings", "missions", "tunnel",
                "graduated", "techs", "disease_until", "blizzard_until", "pending_event",
                "event_rng", "guest_perm", "owner_id", "next_id", "rng"},
     tile |-> TileV15, hut |-> BuildingV2, tunnel |-> BuildingV2,
     survivor |-> SurvivorV1, stock |-> StockpileV7, player |-> PlayerInfoV1]
GameStateV2 == [GameStateV1 EXCEPT !.state = @ \cup {"central"},
                                   !.survivor = SurvivorV3, !.player = PlayerInfo]
GameStateV3 == [WithBuildings(GameStateV2, BuildingV4) EXCEPT !.state = @ \cup {"central_ledger"}]
GameStateV4 == [GameStateV3 EXCEPT !.state = @ \cup {"leader", "mourning_until", "morale"},
                                   !.survivor = SurvivorV5]
GameStateV5 == WithBuildings(GameStateV4, BuildingV12)
GameStateV6 == [GameStateV5 EXCEPT !.survivor = SurvivorV8]
GameStateV7 == [GameStateV6 EXCEPT !.state = @ \cup {"pending_migrant"}]
GameStateV8 == [GameStateV7 EXCEPT !.state = @ \cup {"wildlife"}, !.stock = StockpileV8]
GameStateV9 == [GameStateV8 EXCEPT !.state = @ \cup {"corpses", "graves"},
                                   !.survivor = SurvivorV13, !.stock = StockpileV10]
GameStateV10 == [GameStateV9 EXCEPT !.state = @ \cup {"livestock"}]
GameStateV11 == [GameStateV10 EXCEPT !.state = @ \cup {"pending_caravan"}, !.stock = Stockpile]
GameStateV12 == [GameStateV11 EXCEPT !.state = @ \ {"guest_perm"}]
GameStateV13 == WithBuildings(GameStateV12, BuildingV16)
GameStateV14 == [GameStateV13 EXCEPT !.state = @ \cup {"illness_rng"}, !.survivor = SurvivorV14]
GameStateV15 == [GameStateV14 EXCEPT !.state = @ \cup {"expeditions", "expedition_rng", "laws",
                                        "law_cooldown_until", "lifecycle_rng", "mission_cycle"},
                                     !.survivor = Survivor]
GameStateV16 == [GameStateV15 EXCEPT !.state = @ \cup {"clear_orders"}, !.tile = Tile]
GameState == WithBuildings(GameStateV16, Building)

\* The shape behind each header; version 1 had none.
Mirror == <<GameStateV1, GameStateV2, GameStateV3, GameStateV4, GameStateV5, GameStateV6,
            GameStateV7, GameStateV8, GameStateV9, GameStateV10, GameStateV11, GameStateV12,
            GameStateV13, GameStateV14, GameStateV15, GameStateV16, GameState>>

ShapeOf(w) == [t \in DOMAIN w |-> DOMAIN w[t]]

-------------------------------------------------------------------------------
\* A row with the fields it has and further ones.
With(row, more) ==
    [f \in DOMAIN row \cup DOMAIN more |-> IF f \in DOMAIN row THEN row[f] ELSE more[f]]

\* The values a hop gives the fields its older side lacks.

MORALE_START == 70
WildlifeStart == [deer |-> 40, rabbit |-> 80]
LivestockStart == [cow |-> 25, sheep |-> 50]
\* The hash of an id, up to what the properties tell apart.
SpawnPosition(id) == <<"spawn", id>>
ProfessionOf(id) == <<"profession", id>>
\* A stream of its own, seeded off the world's, rotated by n bits.
Stream(rng, n) == Append(rng, "rotated " \o ToString(n))
V018Streams(rng) == [expedition_rng |-> Stream(rng, 11), lifecycle_rng |-> Stream(rng, 53)]
ARRIVAL_AGE_MIN_DAYS == 8
ARRIVAL_AGE_MAX_DAYS == 34
MigratedAge(id) == ARRIVAL_AGE_MIN_DAYS + (id % (ARRIVAL_AGE_MAX_DAYS - ARRIVAL_AGE_MIN_DAYS))

\* Rows lifted to the live struct.
TileFromV15(t) == With(t, [road |-> FALSE, snow |-> 0])
BuildingFromV12(b) == With(b, [facing |-> 0, furnishings |-> Empty])
BuildingFromV16(b) == With(b, [furnishings |-> Empty])
SurvivorFromV13(s) ==
    With(s, [fatigue |-> 0, sick_left |-> 0, age_days |-> MigratedAge(s.id), partner |-> None])
SurvivorFromV14(s) == With(s, [age_days |-> MigratedAge(s.id), partner |-> None])

-------------------------------------------------------------------------------
\* One hop of the chain: the fields version n + 1 added.

ToV2(w) == [w EXCEPT !.state = With(@, [central |-> FALSE]), !.survivor = With(@, [owner |-> None]),
                     !.player = With(@, [account |-> None])]
ToV3(w) == [w EXCEPT !.state = With(@, [central_ledger |-> Empty]),
                     !.hut = With(@, [owner_account |-> None]),
                     !.tunnel = With(@, [owner_account |-> None])]
ToV4(w) ==
    [w EXCEPT !.state = With(@, [leader |-> None, mourning_until |-> 0, morale |-> MORALE_START]),
              !.survivor = With(@, [x |-> SpawnPosition(@.id), y |-> SpawnPosition(@.id),
                                    move_target |-> None, profession |-> ProfessionOf(@.id),
                                    xp |-> 0, trained_kind |-> None])]
ToV5(w) == [w EXCEPT !.hut = With(@, [level |-> 1, build_left |-> 0]),
                     !.tunnel = With(@, [level |-> 1, build_left |-> 0])]
ToV6(w) == [w EXCEPT !.survivor = With(@, [chop_target |-> None, carrying_wood |-> FALSE])]
ToV7(w) == [w EXCEPT !.state = With(@, [pending_migrant |-> None])]
ToV8(w) == [w EXCEPT !.state = With(@, [wildlife |-> WildlifeStart]),
                     !.stock = With(@, [fur |-> 0, cloth |-> 0])]
ToV9(w) == [w EXCEPT !.state = With(@, [corpses |-> Empty, graves |-> Empty]),
                     !.survivor = With(@, [thirst |-> 0, bury_target |-> None]),
                     !.stock = With(@, [water |-> 0])]
ToV10(w) == [w EXCEPT !.state = With(@, [livestock |-> LivestockStart])]
ToV11(w) == [w EXCEPT !.state = With(@, [pending_caravan |-> None]), !.stock = With(@, [gold |-> 0])]

\* From version 11 on, each version has a conversion of its own to the live
\* format, written out in full.
V019(s) == With(s, [clear_orders |-> Empty])
V018(s) ==
    With(With(V019(s), V018Streams(s.rng)),
         [expeditions |-> Empty, laws |-> Empty, law_cooldown_until |-> 0, mission_cycle |-> 0])
FromV11(w) ==
    LET s == [f \in DOMAIN w.state \ {"guest_perm"} |-> w.state[f]]
    IN  [w EXCEPT !.state = With(V018(s), [illness_rng |-> Stream(s.rng, 37)]),
                  !.tile = TileFromV15(@), !.survivor = SurvivorFromV13(@),
                  !.hut = BuildingFromV12(@), !.tunnel = BuildingFromV12(@)]
FromV12(w) ==
    [w EXCEPT !.state = With(V018(@), [illness_rng |-> Stream(@.rng, 37)]),
              !.tile = TileFromV15(@), !.survivor = SurvivorFromV13(@),
              !.hut = BuildingFromV12(@), !.tunnel = BuildingFromV12(@)]
FromV13(w) ==
    [w EXCEPT !.state = With(V018(@), [illness_rng |-> Stream(@.rng, 37)]),
              !.tile = TileFromV15(@), !.survivor = SurvivorFromV13(@),
              !.hut = BuildingFromV16(@), !.tunnel = BuildingFromV16(@)]
FromV14(w) ==
    [w EXCEPT !.state = V018(@), !.tile = TileFromV15(@), !.survivor = SurvivorFromV14(@),
              !.hut = BuildingFromV16(@), !.tunnel = BuildingFromV16(@)]
\* Mutant: a field is copied from its neighbour.
FromV15_Crossed(w) ==
    [w EXCEPT !.state = [V019(@) EXCEPT !.expedition_rng = w.state.lifecycle_rng],
              !.tile = TileFromV15(@),
              !.hut = BuildingFromV16(@), !.tunnel = BuildingFromV16(@)]
FromV15(w) == [w EXCEPT !.state = V019(@), !.tile = TileFromV15(@),
                        !.hut = BuildingFromV16(@), !.tunnel = BuildingFromV16(@)]
FromV16(w) == [w EXCEPT !.hut = BuildingFromV16(@), !.tunnel = BuildingFromV16(@)]

FromV10(w) == FromV11(ToV11(w))
FromV9(w) == FromV10(ToV10(w))
FromV8(w) == FromV9(ToV9(w))
FromV7(w) == FromV8(ToV8(w))
FromV6(w) == FromV7(ToV7(w))
FromV5(w) == FromV6(ToV6(w))
FromV4(w) == FromV5(ToV5(w))
FromV3(w) == FromV4(ToV4(w))
FromV2(w) == FromV3(ToV3(w))
FromV1(w) == FromV2(ToV2(w))

\* The hop each header selects.
Migrated(v, w) ==
    CASE v = 17 -> w
      [] v = 16 -> FromV16(w) [] v = 15 -> FromV15(w) [] v = 14 -> FromV14(w)
      [] v = 13 -> FromV13(w) [] v = 12 -> FromV12(w) [] v = 11 -> FromV11(w)
      [] v = 10 -> FromV10(w) [] v = 9 -> FromV9(w)   [] v = 8 -> FromV8(w)
      [] v = 7 -> FromV7(w)   [] v = 6 -> FromV6(w)   [] v = 5 -> FromV5(w)
      [] v = 4 -> FromV4(w)   [] v = 3 -> FromV3(w)   [] v = 2 -> FromV2(w)
      [] v = 1 -> FromV1(w)

\* A save read as the version its header names, or nothing.
Decoded(v, w) == IF ShapeOf(w) = Mirror[v] THEN Migrated(v, w) ELSE NoWorld

\* The Tunnel's own building, misread as another kind, is given its kind back.
Repaired(w) == IF "Tunnel" \in {w.hut.kind, w.tunnel.kind} THEN w
               ELSE [w EXCEPT !.tunnel.kind = "Tunnel"]
===============================================================================
