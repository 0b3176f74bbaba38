---------------------------------- MODULE Town ----------------------------------
(***************************************************************************)
(* What a personal world aims at and what befalls it, day by day           *)
(* (crates/fc-game/src/sim: tick.rs, command.rs, missions.rs).              *)
(*                                                                         *)
(* Goals are met, pay out, open the Tunnel and are replaced by harder      *)
(* ones; the Tunnel is dug, lets migrants in and trade caravans out;       *)
(* outbreaks, blizzards and offers come and pass.  A tick is one action,   *)
(* in the order of the code.  What people do in it (Works, Life and Colony *)
(* have the detail) is a fortune: one of a set of outcomes.  The reset     *)
(* that follows an end is TownInit again.                                  *)
(***************************************************************************)
EXTENDS Naturals

CONSTANTS
  TicksPerDay, ArrivalTick, BirthTick,  \* the clock, and two hours of the day
  GraceDay, BirthDay, WinDays,          \* EVENT_GRACE_DAY, BIRTH_GRACE_DAY, win_days
  DiseaseTicks, BlizzardTicks, OfferTicks, MigrantWait, TripTicks,
  MaxPopulation, FoodPerPerson,         \* MAX_POPULATION, CARAVAN_FOOD_PER_PERSON
  Scaled,          \* cycle -> kind of goal -> its target, days counted from the issue
  Reward,          \* kind of goal -> what it pays, a record of goods
  MaxCycles,       \* MAX_MISSION_CYCLES
  Stages, Invests, \* TUNNEL_STAGES, TUNNEL_INVESTS_PER_STAGE
  DigPrice,        \* TUNNEL_INVEST_WOOD and _COAL
  Wares, Loads, SellPrice, BuyPrice,  \* what a caravan may carry, and a ware's price in gold
  Housed,          \* housing_slots of one finished tent
  Counts,          \* bound: how many come at once
  Fortunes,        \* bound: what a tick of living may do
  MaxStock         \* bound: a store holds no more

Goods == {"wood", "coal", "food", "gold"}
Kinds == {"tents", "people", "sawmills", "coal", "days"}
None  == [until |-> 0]

IsPrice(p) == DOMAIN p \subseteq Goods /\ p \in [DOMAIN p -> Nat]   \* amounts of some goods

ASSUME TownAssumption ==
  /\ TicksPerDay \in Nat \ {0} /\ ArrivalTick \in 0..(TicksPerDay - 1)
  /\ {DiseaseTicks, BlizzardTicks, OfferTicks, MigrantWait, TripTicks} \subseteq Nat \ {0}
  /\ MaxPopulation \in Nat \ {0} /\ {FoodPerPerson, Housed, MaxStock} \subseteq Nat
  /\ Stages \in Nat \ {0} /\ Invests \in Nat \ {0} /\ MaxCycles \in Nat
  /\ Scaled \in [0..MaxCycles -> [Kinds -> Nat \ {0}]]   \* `scaled` is never below its base
  /\ \A k \in Kinds : IsPrice(Reward[k])
  /\ IsPrice(DigPrice) /\ SellPrice \in [Goods -> Nat] /\ BuyPrice \in [Goods -> Nat]
  /\ Wares \subseteq Goods /\ Loads \subseteq Nat /\ Counts \subseteq Nat \ {0}
  /\ Fortunes \subseteq [deaths : Nat, tents : Nat, sawmills : Nat,
                        made : [Goods -> Nat], used : [Goods -> Nat]]

VARIABLE town   \* the GameState, a record

\* new_game: mid-morning of day 1, one survivor and the five opening goals.
Start ==
  [tick     |-> ArrivalTick,
   phase    |-> "Running",
   stock    |-> [g \in Goods |-> 0],
   people   |-> 1,                 \* survivors.len()
   tents    |-> 0,                 \* finished ones
   sawmills |-> 0,
   disease  |-> 0,                 \* disease_until
   blizzard |-> 0,                 \* blizzard_until
   offer    |-> None,              \* pending_event
   migrant  |-> None,              \* pending_migrant
   caravan  |-> None,              \* pending_caravan
   cycle    |-> 0,                 \* mission_cycle
   horizon  |-> Scaled[0]["days"], \* the target of SurviveDays
   done     |-> {},                \* the goals of this cycle that are done
   unlocked |-> FALSE,             \* tunnel.unlocked
   dug      |-> 0,                 \* tunnel.stage * Invests + progress
   graduated |-> FALSE]

TownInit == town = Start

-----------------------------------------------------------------------------
(* What is read *)

Smaller(m, n) == IF m < n THEN m ELSE n
Minus(m, n) == IF m > n THEN m - n ELSE 0

Running  == town.phase = "Running"
Day(t)   == t.tick \div TicksPerDay + 1
Hour(t)  == t.tick % TicksPerDay
Active(t, until) == t.tick < until
Affords(t, price) == \A g \in DOMAIN price : t.stock[g] >= price[g]
Paid(t, price) ==
  [t EXCEPT !.stock = [g \in Goods |-> IF g \in DOMAIN price THEN @[g] - price[g] ELSE @[g]]]
Credited(t, gain) ==
  [t EXCEPT !.stock = [g \in Goods |-> IF g \in DOMAIN gain THEN Smaller(@[g] + gain[g], MaxStock)
                                       ELSE @[g]]]

\* Room for newcomers: two more than there are beds, and the ceiling.
Space(t) == Smaller(Minus(t.tents * Housed + 2, t.people), Minus(MaxPopulation, t.people))

Joined(t, n) == [t EXCEPT !.people = @ + n]

-----------------------------------------------------------------------------
(* Goals *)

Target(t, k) ==
  CASE k = "days"   -> t.horizon
    [] k = "people" -> Smaller(Scaled[t.cycle][k], MaxPopulation)
    [] OTHER        -> Scaled[t.cycle][k]

\* mission_current: never stored, read from the world as it is.
Current(t, k) ==
  CASE k = "tents"    -> t.tents
    [] k = "people"   -> t.people
    [] k = "sawmills" -> t.sawmills
    [] k = "coal"     -> t.stock["coal"]
    [] k = "days"     -> Day(t)

AllDone(t) == t.done = Kinds

\* Each goal met now is done and pays.  No goal pays in coal, so what one pays
\* never meets the next.
Rewarded(t) ==
  LET met == {k \in Kinds \ t.done : Current(t, k) >= Target(t, k)}
      Pays(k, g) == IF k \in met /\ g \in DOMAIN Reward[k] THEN Reward[k][g] ELSE 0
  IN  Credited([t EXCEPT !.done = @ \cup met],
               [g \in Goods |-> Pays("tents", g) + Pays("people", g) + Pays("sawmills", g)
                                 + Pays("coal", g) + Pays("days", g)])

Unlocking(t) == [t EXCEPT !.unlocked = @ \/ AllDone(t)]

Cycling_DayNumber(t) ==
  IF AllDone(t) /\ t.cycle < MaxCycles /\ t.unlocked
  THEN [t EXCEPT !.cycle = @ + 1, !.done = {}, !.horizon = Scaled[t.cycle + 1]["days"]]
  ELSE t

Cycling(t) ==
  IF AllDone(t) /\ t.cycle < MaxCycles /\ t.unlocked
  THEN [t EXCEPT !.cycle = @ + 1, !.done = {},
                 !.horizon = Day(t) + Scaled[t.cycle + 1]["days"]]
  ELSE t

-----------------------------------------------------------------------------
(* The tick *)

\* The weather of a new day, after the days of grace and never twice at once.
Struck(t, sick, snow) ==
  [t EXCEPT !.disease  = IF sick /\ ~Active(t, @) THEN t.tick + DiseaseTicks ELSE @,
            !.blizzard = IF snow /\ ~Active(t, @) THEN t.tick + BlizzardTicks ELSE @]

Midnights(t) ==
  IF Hour(t) # 0 \/ Day(t) < GraceDay THEN {t}
  ELSE {Struck(t, sick, snow) : sick \in BOOLEAN, snow \in BOOLEAN}

\* Building, burning, eating, working and dying.
Lived(t, f) ==
  [t EXCEPT !.people = Minus(@, f.deaths), !.tents = f.tents, !.sawmills = f.sawmills,
            !.stock = [g \in Goods |-> Smaller(Minus(@[g], f.used[g]) + f.made[g], MaxStock)]]

\* Newcomers in the morning, a birth later in the day.
Settlings(t) ==
  IF Hour(t) = ArrivalTick /\ Day(t) >= 2
  THEN {Joined(t, Smaller(n, Space(t))) : n \in Counts \cup {0}}
  ELSE {t}

Births(t) ==
  IF Hour(t) = BirthTick /\ Day(t) >= BirthDay /\ t.people >= 2 /\ Space(t) > 0
  THEN {t, Joined(t, 1)}
  ELSE {t}

Offers(t) ==
  {t} \cup (IF Hour(t) = ArrivalTick /\ Day(t) >= GraceDay /\ t.offer = None
            THEN {[t EXCEPT !.offer = [count |-> n, until |-> t.tick + OfferTicks]] : n \in Counts}
            ELSE {})

\* The endings are looked for at the very tick they fall on.
Expired_Late(t) ==
  [t EXCEPT !.offer    = IF @ # None /\ t.tick > @.until THEN None ELSE @,
            !.disease  = IF t.tick = @ THEN 0 ELSE @,
            !.blizzard = IF t.tick = @ THEN 0 ELSE @]

Expired(t) ==
  [t EXCEPT !.offer    = IF @ # None /\ t.tick >= @.until THEN None ELSE @,
            !.disease  = IF t.tick = @ THEN 0 ELSE @,
            !.blizzard = IF t.tick = @ THEN 0 ELSE @]

Emergings(t) ==
  {t} \cup (IF t.unlocked /\ t.migrant = None /\ Hour(t) = ArrivalTick /\ Day(t) >= GraceDay
            THEN {[t EXCEPT !.migrant = [count |-> n, until |-> t.tick + MigrantWait]] : n \in Counts}
            ELSE {})

\* Migrants come in together as soon as there is room, or turn back.
Admitted(t) ==
  IF t.migrant = None THEN t
  ELSE IF t.migrant.count <= Space(t) THEN [Joined(t, t.migrant.count) EXCEPT !.migrant = None]
  ELSE IF t.tick >= t.migrant.until THEN [t EXCEPT !.migrant = None]
  ELSE t

Traded(t) ==
  IF t.caravan # None /\ t.tick >= t.caravan.until
  THEN [Credited(t, t.caravan.back) EXCEPT !.caravan = None]
  ELSE t

Defeated(t, away) == IF t.people = 0 /\ ~away THEN [t EXCEPT !.phase = "Lost"] ELSE t

\* `away`: an expedition is still on the road.
TownTick(f, away) ==
  /\ Running
  /\ \E t \in {[town EXCEPT !.tick = @ + 1]} :
     IF Hour(t) = 0 /\ Day(t) > WinDays
     THEN town' = [t EXCEPT !.phase = "Won"]
     ELSE \E dawn     \in Midnights(t) :
          \E lived    \in {Lived(dawn, f)} :
          \E morning  \in Settlings(lived) :
          \E noon     \in Births(morning) :
          \E asked    \in Offers(noon) :
          \E expired  \in {Expired(asked)} :
          \E paid     \in {Rewarded(expired)} :
          \E cycled   \in {Cycling(Unlocking(paid))} :
          \E come     \in Emergings(cycled) :
          \E admitted \in {Admitted(come)} :
            town' = Defeated(Traded(admitted), away)

-----------------------------------------------------------------------------
(* Commands, each ignored once the world has ended *)

\* Given a living leader, who is in Life.  Only those there is room for are
\* taken and paid for, all or none.
RespondEvent(accept) ==
  /\ Running /\ town.offer # None
  /\ LET gone  == [town EXCEPT !.offer = None]
         take  == Smaller(town.offer.count, Space(town))
         price == [food |-> take * FoodPerPerson]
     IN  town' = IF accept /\ take > 0 /\ Affords(town, price) THEN Joined(Paid(gone, price), take)
                 ELSE gone

InvestTunnel_StillLocked ==
  /\ Running /\ town.dug < Stages * Invests /\ Affords(town, DigPrice)
  /\ LET dug == town.dug + 1 IN
     town' = [Paid(town, DigPrice) EXCEPT
                !.dug = dug,
                !.phase = IF dug = Stages * Invests THEN "Won" ELSE @,
                !.graduated = @ \/ dug = Stages * Invests]

InvestTunnel ==
  /\ Running /\ town.unlocked /\ town.dug < Stages * Invests /\ Affords(town, DigPrice)
  /\ LET dug == town.dug + 1 IN
     town' = [Paid(town, DigPrice) EXCEPT
                !.dug = dug,
                !.phase = IF dug = Stages * Invests THEN "Won" ELSE @,
                !.graduated = @ \/ dug = Stages * Invests]

\* What leaves is paid now; `back` is what the caravan will bring.
DispatchTradeCaravan(selling, good, n) ==
  /\ Running /\ town.unlocked /\ town.caravan = None /\ n > 0
  /\ LET price == IF selling THEN [g \in {good} |-> n] ELSE [g \in {"gold"} |-> n * BuyPrice[good]]
         back  == IF selling THEN [g \in {"gold"} |-> n * SellPrice[good]] ELSE [g \in {good} |-> n]
     IN  /\ Affords(town, price)
         /\ town' = [Paid(town, price) EXCEPT
                       !.caravan = [back |-> back, until |-> town.tick + TripTicks]]

-----------------------------------------------------------------------------

Passing == \E f \in Fortunes, away \in BOOLEAN : TownTick(f, away)

Commanding ==
  \/ \E accept \in BOOLEAN : RespondEvent(accept)
  \/ InvestTunnel
  \/ \E selling \in BOOLEAN, good \in Wares, n \in Loads :
       DispatchTradeCaravan(selling, good, n)

TownNext == Passing \/ Commanding

townVars == <<town>>

TownSpec == TownInit /\ [][TownNext]_townVars

-----------------------------------------------------------------------------
(* Correctness *)

Waits == {None} \cup [count : Counts, until : Nat]

\* Every field has its type.
TownTypeOK ==
  /\ town.tick \in Nat /\ town.phase \in {"Running", "Won", "Lost"}
  /\ town.stock \in [Goods -> 0..MaxStock]
  /\ town.people \in 0..MaxPopulation /\ town.tents \in Nat /\ town.sawmills \in Nat
  /\ town.disease \in Nat /\ town.blizzard \in Nat
  /\ town.offer \in Waits /\ town.migrant \in Waits
  /\ town.caravan = None \/ town.caravan.until \in Nat
  /\ town.cycle \in 0..MaxCycles /\ town.horizon \in Nat /\ town.done \subseteq Kinds
  /\ town.unlocked \in BOOLEAN /\ town.dug \in 0..(Stages * Invests)
  /\ town.graduated \in BOOLEAN

\* Nothing that has a deadline outstays it in a running world: outbreaks and
\* blizzards, though they are ended only by the tick that equals their end, the
\* refugees' offer, the migrants at the Tunnel, the caravan on the road (and the fields have their
\* types, the population its ceiling).
NothingOverdue ==
  TownTypeOK /\ (Running =>
    /\ \A until \in {town.disease, town.blizzard} : until # 0 => town.tick < until
    /\ \A wait \in {town.offer.until, town.migrant.until, town.caravan.until} :
         wait # 0 => town.tick < wait)

\* A city always has something left to aim at (missions.rs:3): between ticks the goals of a cycle
\* are all done only in the last one; and the new goals are harder, never met the moment they are
\* issued by the calendar alone ("days from now"), and never beyond MAX_POPULATION.
GoalsAhead ==
  /\ [](Running /\ AllDone(town) => town.cycle = MaxCycles)
  /\ [][town'.cycle # town.cycle =>
          /\ town'.horizon > town'.tick \div TicksPerDay + 1
          /\ town'.horizon > town.horizon
          /\ Target(town', "people") <= MaxPopulation]_townVars

\* The Tunnel is what Graduation promises: shut until the goals have once been
\* met, then open for good whatever goals replace them, through with the last
\* payment and not before, and no one graduates in any other way.
Way == INSTANCE Graduation WITH
         Payments <- Stages * Invests, open <- town.unlocked, paid <- town.dug,
         through <- town.graduated, over <- ~Running
WayOut == Way!Spec

=============================================================================
