---------------------------------- MODULE Walk ----------------------------------
(***************************************************************************)
(* How one survivor crosses the map to where he is sent                    *)
(* (crates/fc-game/src/sim/tick.rs: the movement block and road_step;      *)
(* crates/fc-game/src/types/world.rs: what snow and roads do to a tile).   *)
(*                                                                         *)
(* Every tick he takes one step in a direction chosen by looking at the    *)
(* eight tiles around him.  Positions are in hundredths of a tile, costs   *)
(* and distances between tiles in thousandths; the code has f32.  Its      *)
(* 0.001 bias towards the straight line only ever separates equal scores,  *)
(* and is an order on those here.  Snow falls, is cleared and trodden one  *)
(* unit in some hundred ticks, longer than a walk over these maps: the     *)
(* ground stands still.  Goals off the middle of their tile (bunks, meals, *)
(* stations) are taken at its middle.                                      *)
(***************************************************************************)
EXTENDS Integers, FiniteSets

CONSTANTS
  Width, Height,  \* MAP_W, MAP_H
  Places,         \* bound: the tiles he is ever sent to
  Grounds,        \* the maps: tile -> [road, snow]
  MaxErrands,     \* bound: how often he is sent
  MaxTicks,       \* how many ticks a walk may take
  Here            \* the goal of one who has none: Option::None

ASSUME WalkAssumption ==
  /\ Width \in Nat \ {0} /\ Height \in Nat \ {0} /\ MaxErrands \in Nat /\ MaxTicks \in Nat
  /\ Places \subseteq (0..(Width - 1)) \X (0..(Height - 1)) /\ Here \notin Places

Tiles == (0..(Width - 1)) \X (0..(Height - 1))

VARIABLES
  country,   \* GameState.tiles
  at,       \* Survivor.x, .y
  goal,     \* the tile the chain of goals points him at
  errands,  \* how often he has been sent
  ticks     \* history: since he was last, no more than one over MaxTicks

walkVars == <<country, at, goal, errands, ticks>>

-----------------------------------------------------------------------------
(* The ground *)

Larger(m, n) == IF m > n THEN m ELSE n

\* speed_factor, in percent; ROAD_SNOW_PENALTY is 45.
SpeedFactor(t) ==
  LET open   == 100 - (t.snow * 65) \div 100
      closed == IF t.snow < 45 THEN t.snow ELSE 45
  IN  IF t.road THEN Larger(open, 160 - (closed * (160 - open)) \div 45) ELSE open

\* move_cost, in thousandths of an open tile.
MoveCost(t) == 100000 \div SpeedFactor(t)

-----------------------------------------------------------------------------
(* Distances *)

Square(m) == m * m

Root(n, most) == CHOOSE r \in 0..most : Square(r) <= n /\ n < Square(r + 1)

\* Between the middles of two tiles that many columns and rows apart.
Distances == [dx \in (-Width)..Width, dy \in (-Height)..Height |->
                Root(1000000 * (Square(dx) + Square(dy)), 1000 * (Width + Height))]
WayBetween(t, u) == Distances[t[1] - u[1], t[2] - u[2]]

Middle(t) == <<100 * t[1] + 50, 100 * t[2] + 50>>
TileOf(p) == <<p[1] \div 100, p[2] \div 100>>
SquaredGap(p, q) == Square(p[1] - q[1]) + Square(p[2] - q[2])

Stride    == 50    \* SURVIVOR_SPEED_PER_TICK
Arrival   == 50    \* ARRIVAL_EPSILON
StraightIn == 150  \* within this, road_step aims at the goal itself

Near(p, t) == SquaredGap(p, Middle(t)) <= Square(Arrival)

-----------------------------------------------------------------------------
(* One step: road_step, and the stride it scales *)

Directions == <<<<0, -1>>, <<1, -1>>, <<1, 0>>, <<1, 1>>, <<0, 1>>, <<-1, 1>>, <<-1, 0>>, <<-1, -1>>>>
Onto(p, d) == <<TileOf(p)[1] + d[1], TileOf(p)[2] + d[2]>>
Diagonal(d) == d[1] # 0 /\ d[2] # 0

\* What the step onto a neighbour is taken to cost: the tile, and the way left from it.
Score_Cheapest(p, t, d) ==
  (MoveCost(country[Onto(p, d)]) * (IF Diagonal(d) THEN 1414 ELSE 1000)) \div 1000

Score(p, t, d) ==
  (MoveCost(country[Onto(p, d)]) * (IF Diagonal(d) THEN 1414 ELSE 1000)) \div 1000
    + WayBetween(Onto(p, d), t)

\* How much a direction is that of the goal.
Alignment(p, t, d) ==
  (Middle(t)[1] - p[1]) * d[1] + (Middle(t)[2] - p[2]) * d[2]

\* The cheapest neighbour; among equals the straightest, then the first in the list.
Better(a, b) ==
  \/ a[1] < b[1]
  \/ a[1] = b[1] /\ (a[2] > b[2] \/ (a[2] = b[2] /\ a[3] <= b[3]))

Best(p, t) ==
  LET scored == {<<Score(p, t, Directions[i]), Alignment(p, t, Directions[i]), i>> :
                   i \in {j \in 1..8 : Onto(p, Directions[j]) \in Tiles}}
  IN  Directions[(CHOOSE a \in scored : \A b \in scored : Better(a, b))[3]]

\* n parts of `whole` of a way d, towards zero.
Part(d, n, whole) == IF d < 0 THEN -((-d * n) \div whole) ELSE (d * n) \div whole

Straight(p, t, stride) ==
  LET q == Middle(t)
      gap == Root(SquaredGap(p, q), StraightIn)
  IN  <<p[1] + Part(q[1] - p[1], stride, gap), p[2] + Part(q[2] - p[2], stride, gap)>>

Along(p, d, stride) ==
  LET leg == IF Diagonal(d) THEN (stride * 707) \div 1000 ELSE stride
  IN  <<p[1] + leg * d[1], p[2] + leg * d[2]>>

Stepped(p, t) ==
  LET stride == (Stride * SpeedFactor(country[TileOf(p)])) \div 100
  IN  IF SquaredGap(p, Middle(t)) <= Square(StraightIn)
      THEN Straight(p, t, stride) ELSE Along(p, Best(p, t), stride)

-----------------------------------------------------------------------------
(* Walks *)

WalkInit ==
  /\ country \in Grounds
  /\ at \in {Middle(t) : t \in Places} /\ goal = Here /\ errands = 0 /\ ticks = 0

\* A walk the player orders, an errand, the hour: the chain of goals points elsewhere.
Send(t) ==
  /\ errands < MaxErrands /\ t # goal
  /\ goal' = t /\ errands' = errands + 1 /\ ticks' = 0
  /\ UNCHANGED <<country, at>>

\* Within ARRIVAL_EPSILON he is put on the spot, and a walk the player ordered is over.
Arrive ==
  /\ goal # Here /\ Near(at, goal)
  /\ at' = Middle(goal) /\ goal' = Here /\ ticks' = 0
  /\ UNCHANGED <<country, errands>>

Walking ==
  /\ goal # Here /\ ~Near(at, goal)
  /\ at' = Stepped(at, goal)
  /\ ticks' = IF ticks <= MaxTicks THEN ticks + 1 ELSE ticks
  /\ UNCHANGED <<country, goal, errands>>

WalkTick == Arrive \/ Walking

WalkNext == WalkTick \/ \E t \in Places : Send(t)

WalkSpec == WalkInit /\ [][WalkNext]_walkVars /\ WF_walkVars(WalkTick)

-----------------------------------------------------------------------------
(* Properties *)

\* Wherever he is sent, he gets there, unless he is sent elsewhere first: snow never blocks.
WalksEnd == goal # Here ~> goal = Here

\* And he gets there soon, over roads, even snow and the edge of what has been cleared.
WalksInTime == ticks <= MaxTicks
=================================================================================
