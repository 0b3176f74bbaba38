---------------------------------- MODULE Needs ----------------------------------
(***************************************************************************)
(* What a tick does to the people of one personal world: hunger, thirst,   *)
(* cold, fatigue, illness and morale, where each of them is headed, and    *)
(* the law book that bends it all (crates/fc-game/src/sim: tick.rs from    *)
(* the survivor setup on, lawbook.rs; types: state.rs, law.rs, people.rs). *)
(*                                                                         *)
(* A day has a few ticks, and every rate is the code's rate per day or per *)
(* hour divided by them.  Hunger, thirst and the share of a meal are in    *)
(* points, temperatures in tenths of a degree, health, fatigue and morale  *)
(* in hundredths, food and water in thousandths of a plain portion,        *)
(* factors in per cent; quotients are cut off.  Who is infected is in      *)
(* Life, what is made is in Land, where people stand is in Walk: here      *)
(* someone may start out ill, the pots get what they get, and an errand    *)
(* begins and ends when it does.  Training is left out.                    *)
(***************************************************************************)
EXTENDS Integers, Sequences, FiniteSets, FiniteSetsExt, Functions

CONSTANTS
  DayTicks,   \* TICKS_PER_DAY
  FirstTick,     \* when the world is met
  Laws,          \* the laws the council may pass
  MaxLaws,       \* MAX_ACTIVE_LAWS
  LawDay,        \* LAW_MIN_DAY
  LawRest,       \* LAW_COOLDOWN_TICKS
  Towns,         \* what stands and is known, see MCNeeds
  Rosters,       \* the people at the start
  Rations,        \* bound: what a tick may add to the pots, <<food, water>>
  MaxPot,        \* bound: what a pot holds
  MaxOrders,     \* bound: errands begun
  LastTick       \* bound: ticks

\* Survivor; rough is a history: he has spent a night without a bunk.
Survivor == [id : Nat, hunger : Nat, thirst : Nat, fatigue : Nat, hp : Int, sick : Nat, child : BOOLEAN,
             posted : BOOLEAN, errand : {"none", "walk", "chop", "bury"}, log : BOOLEAN, rough : BOOLEAN]

\* TICKS_PER_DAY is 750: a day has two equal halves.  Nobody is created tired (mapgen.rs:346).
ASSUME NeedsAssumption ==
  /\ DayTicks \in Nat \ {0} /\ DayTicks % 2 = 0
  /\ FirstTick \in Nat /\ LawRest \in Nat /\ MaxLaws \in Nat
  /\ Rations \subseteq Nat \X Nat /\ MaxPot \in Nat /\ MaxOrders \in Nat /\ LastTick \in Nat
  /\ \A t \in Towns : t.relief \in Nat /\ t.hospital \in Nat
  /\ Rosters \subseteq Seq(Survivor)
  /\ \A r \in Rosters : \A i \in DOMAIN r :
       r[i].fatigue = 0 /\ ~r[i].rough /\ \A j \in DOMAIN r : r[i].id = r[j].id => i = j

VARIABLES
  place,    \* fixed: [kitchen, hospital, tailor, relief, techs, warm, shelter, blizzard, snap, lit, leader]
  needs    \* [tick, food, water, lit, book, council, morale, folk, orders]

needsVars == <<place, needs>>

-----------------------------------------------------------------------------
(* The law book: types/law.rs, composed by state.rs *)

FoodFactor   == [l \in Laws |-> CASE l = "ExtraRations" -> 122 [] l = "CommunalMeals" -> 88 [] OTHER -> 100]
TiringFactor == [l \in Laws |-> IF l = "LongShifts" THEN 135 ELSE 100]
RestFactor   == [l \in Laws |-> IF l = "Curfew" THEN 130 ELSE 100]
GriefFactor  == [l \in Laws |-> IF l = "FuneralRites" THEN 50 ELSE 100]

MoralePerDay(l) ==
  CASE l = "ExtraRations" -> 100 [] l = "CommunalMeals" -> 50
    [] l = "Curfew" -> -50 [] l = "LongShifts" -> -200 [] OTHER -> 0

\* law_product: the factors of the laws in force, multiplied.
Product(factor, book) == FoldFunctionOnSet(LAMBDA f, p : (p * f) \div 100, 100, factor, book)
LawMorale(book) == MapThenSumSet(MoralePerDay, book)

DayOf(tick) == tick \div DayTicks + 1

CanEnact(n, l) ==
  /\ DayOf(n.tick) >= LawDay /\ n.tick >= n.council
  /\ l \notin n.book /\ Cardinality(n.book) < MaxLaws

CanRepeal(n, l) == l \in n.book /\ n.tick >= n.council

Enact(l) ==
  /\ CanEnact(needs, l)
  /\ needs' = [needs EXCEPT !.book = @ \cup {l}, !.council = needs.tick + LawRest]
  /\ UNCHANGED place

Repeal(l) ==
  /\ CanRepeal(needs, l)
  /\ needs' = [needs EXCEPT !.book = @ \ {l}, !.council = needs.tick + LawRest]
  /\ UNCHANGED place

-----------------------------------------------------------------------------
(* The day and the weather *)

Greater(m, n)  == IF m > n THEN m ELSE n
Lesser(m, n) == IF m < n THEN m ELSE n
Clamped(m, most) == Greater(0, Lesser(m, most))
PerDay(rate) == rate \div DayTicks
HoursPerTick == 24 \div DayTicks

\* The part of the day gone, in per cent: time_of_day.
HourOf(tick) == (100 * (tick % DayTicks)) \div DayTicks
Night(tick) == ~(25 <= HourOf(tick) /\ HourOf(tick) < 75)
Mealtime(tick) == (27 <= HourOf(tick) /\ HourOf(tick) < 31) \/ (48 <= HourOf(tick) /\ HourOf(tick) < 52)

\* -6 cos(2 pi t), at the quarters of the day and nearest to them.
Diurnal(tick) == CASE HourOf(tick) < 25 -> -60 [] HourOf(tick) \in 50..74 -> 60 [] OTHER -> 0

Temperature(tick) ==
  -40 - 12 * (DayOf(tick) - 1) + Diurnal(tick)
    + (IF place.snap /\ HourOf(tick) >= 70 THEN -100 ELSE 0)
    + (IF place.blizzard THEN -80 ELSE 0)

-----------------------------------------------------------------------------
(* Beds and where people head: the chain of goals *)

Beds == place.warm + place.shelter         \* housing_capacity
Bunked(i) == i <= Beds                   \* bunked_ids: the first of the roster

\* gather_points and routine_goal: the idle eat at the first finished kitchen.
Kitchens == place.kitchen # "none"
ToKitchen(n, i) == Mealtime(n.tick) /\ Kitchens

\* sleep_goal, and what keeps a bunked survivor from it.
ToBed(n, i) == Night(n.tick) /\ Bunked(i) /\ n.lit /\ ~n.folk[i].log

Goal(n, i) ==
  LET s == n.folk[i]
  IN  CASE s.errand # "none" -> s.errand
        [] s.errand = "none" /\ ToBed(n, i) -> "bunk"
        [] s.errand = "none" /\ ~ToBed(n, i) /\ s.posted -> "station"
        [] s.errand = "none" /\ ~ToBed(n, i) /\ ~s.posted /\ ToKitchen(n, i)
             -> "kitchen"
        [] OTHER -> "nowhere"

-----------------------------------------------------------------------------
(* What a tick does to one person *)

\* kitchen_efficiency: a quarter off for a first-level kitchen that is staffed.
Kitchen == IF place.kitchen = "staffed" THEN 75 ELSE 100
Rationing == IF "Rationing" \in place.techs THEN 85 ELSE 100
Portion(n) == (1000 * Kitchen * Rationing * Product(FoodFactor, n.book)) \div 1000000
Drink == (1000 * Kitchen * Rationing) \div 10000
\* A child's plate: CHILD_FOOD_FACTOR.
Plate(n, s) == IF s.child THEN (Portion(n) * 60) \div 100 ELSE Portion(n)

\* Whether the pot still holds it.
Feeds_FullPortion(n, s) == n.food >= Portion(n)
Feeds(n, s) == n.food >= Plate(n, s)

\* A successful meal takes off what three ticks put on.
Hungrier(points) == Lesser(points + 100 \div DayTicks, 120)
Sated(points) == Greater(points - 3 * (100 \div DayTicks), 0)

\* Awake, the shift tires; by night a bunk rests faster than the floor.
Tiring_PostFirst(n, i) ==
  LET s == n.folk[i]
  IN  IF s.posted
      THEN (((7000 * Product(TiringFactor, n.book)) \div 100) * (100 - place.relief)) \div 100
      ELSE IF Night(n.tick)
           THEN -(((IF Bunked(i) THEN 11000 ELSE 3000) * Product(RestFactor, n.book)) \div 100)
           ELSE (2600 * Product(TiringFactor, n.book)) \div 100

Tiring(n, i) ==
  LET s == n.folk[i]
  IN  IF Night(n.tick)
      THEN -(((IF Bunked(i) THEN 11000 ELSE 3000) * Product(RestFactor, n.book)) \div 100)
      ELSE IF s.posted
           THEN (((7000 * Product(TiringFactor, n.book)) \div 100) * Greater(20, 100 - place.relief)) \div 100
           ELSE (2600 * Product(TiringFactor, n.book)) \div 100

\* Warmth: a tent near the fire, a tent, the fire alone; then walls and coats.
Warmth(n, i) ==
  (CASE n.lit /\ i <= place.warm -> 180
     [] ~(n.lit /\ i <= place.warm) /\ i <= Beds -> 60
     [] ~(n.lit /\ i <= place.warm) /\ i > Beds /\ n.lit -> 30
     [] OTHER -> 0)
    + (IF "Insulation" \in place.techs THEN 40 ELSE 0) + (IF place.tailor THEN 30 ELSE 0)

\* A staffed hospital: so much health a tick, and so much off the illness, in tenths of a tick.
Nursing == (place.hospital * PerDay(200) * (IF "Medicine" \in place.techs THEN 150 ELSE 100)) \div 100
Healing == 10 + 8 * place.hospital

\* Health after one more tick, given what he feels and how hungry and thirsty he now is.
Health(hp, eff, hunger, thirst, ill) ==
  LET sick    == hp - (IF ill THEN PerDay(1000) ELSE 0)
      weather == IF eff < 0 THEN sick - (35 * Lesser(-eff, 400) * HoursPerTick) \div 10
                 ELSE IF eff >= 50 /\ hunger < 60 THEN Lesser(sick + 300 * HoursPerTick, 10000)
                 ELSE sick
      starved == weather - (IF hunger >= 80 THEN 20 * (hunger - 80) * HoursPerTick ELSE 0)
      parched == starved - (IF thirst >= 65 THEN 20 * (thirst - 65) * HoursPerTick ELSE 0)
  IN  IF Nursing > 0 THEN Lesser(parched + Nursing, 10000) ELSE parched

\* One turn of the survivors' loop: fatigue, illness, meal, drink, weather.
PersonTurn(n, i) ==
  LET s      == n.folk[i]
      hungry == Hungrier(s.hunger)
      eats   == hungry >= 25 /\ Feeds(n, s)
      hunger == IF eats THEN Sated(hungry) ELSE hungry
      thirsty == Hungrier(s.thirst)
      drinks == thirsty >= 20 /\ n.water >= Drink
      thirst == IF drinks THEN Sated(thirsty) ELSE thirsty
      person == [s EXCEPT !.fatigue = Clamped(@ + PerDay(Tiring(n, i)), 10000),
                          !.sick = Greater(0, @ - Healing),
                          !.hunger = hunger, !.thirst = thirst,
                          !.hp = Health(@, Temperature(n.tick) + Warmth(n, i), hunger, thirst, s.sick > 0),
                          !.rough = @ \/ (Night(n.tick) /\ ~Bunked(i))]
  IN  [n EXCEPT !.folk[i] = person,
                !.food  = IF eats THEN @ - Plate(n, s) ELSE @,
                !.water = IF drinks THEN @ - Drink ELSE @]

\* In roster order, each from what the ones before him left.
EveryTurn(n) ==
  LET turn[i \in 0..Len(n.folk)] == IF i = 0 THEN n ELSE PersonTurn(turn[i - 1], i)
  IN  turn[Len(n.folk)]

Anyone(n, Is(_)) == \E i \in DOMAIN n.folk : Is(n.folk[i])
If(condition, amount) == IF condition THEN amount ELSE 0

\* The morale block; `before` is the roster the loop went through, for who lay ill.
Morale(n, before) ==
  LET delta ==
        PerDay(If(place.kitchen = "staffed", 200) + If(place.hospital > 0, 200) + If(place.leader, 100)
               + LawMorale(n.book)
               - If(Anyone(n, LAMBDA s : s.hunger >= 80), 300) - If(Anyone(n, LAMBDA s : s.thirst >= 65), 300)
               - If(place.blizzard, 200) - If(Anyone(n, LAMBDA s : s.fatigue >= 9000), 200)
               - If(Anyone(before, LAMBDA s : s.sick > 0), 200))
      drift == Greater(-PerDay(100), Lesser(PerDay(100), 6000 - n.morale))
  IN  Clamped(n.morale + delta + drift, 10000)

\* The roster without the dead, in its order.
Alive(folk) ==
  LET left[i \in 0..Len(folk)] ==
        IF i = 0 THEN <<>> ELSE IF folk[i].hp > 0 THEN Append(left[i - 1], folk[i]) ELSE left[i - 1]
  IN  left[Len(folk)]

\* The dead leave the roster; each is a blow to morale, softened by rites.
Buried(n) ==
  LET dead == Cardinality({i \in DOMAIN n.folk : n.folk[i].hp <= 0})
  IN  [n EXCEPT !.folk = Alive(n.folk),
                !.morale = Clamped(@ - (1000 * dead * Product(GriefFactor, n.book)) \div 100, 10000)]

\* What the tick finds in the pots; the bound is the model's.
Stocked(n, food, water) ==
  [n EXCEPT !.tick = @ + 1, !.food = Lesser(@ + food, MaxPot), !.water = Lesser(@ + water, MaxPot)]

NeedsTick(food, water) ==
  /\ needs.tick < LastTick
  /\ LET n == Stocked(needs, food, water)
     IN  \E lived \in {EveryTurn(n)} : \E felt \in {[lived EXCEPT !.morale = Morale(lived, n)]} :
           needs' = Buried(felt)
  /\ UNCHANGED place

-----------------------------------------------------------------------------
(* Commands, and errands that end *)

\* MoveSurvivor, ChopTile, Bury; a log is carried only by the crew of the unlit furnace.
Begin(i, errand) ==
  /\ needs.orders < MaxOrders /\ needs.folk[i].errand # errand
  /\ needs' = [needs EXCEPT !.folk[i].errand = errand, !.orders = @ + 1]
  /\ UNCHANGED place

\* Arrived, felled, laid to rest; a log of the furnace's is picked up with the tree.
End(i, log) ==
  /\ needs.folk[i].errand # "none" /\ (log => needs.folk[i].errand = "chop" /\ ~needs.lit)
  /\ needs' = [needs EXCEPT !.folk[i].errand = "none", !.folk[i].log = @ \/ log]
  /\ UNCHANGED place

\* The furnace is lit: its crew drop their logs.
Light ==
  /\ ~needs.lit /\ \E i \in DOMAIN needs.folk : needs.folk[i].log
  /\ needs' = [needs EXCEPT !.lit = TRUE, !.folk = [i \in DOMAIN @ |-> [@[i] EXCEPT !.log = FALSE]]]
  /\ UNCHANGED place

Founded(folk) ==
  [tick |-> FirstTick, food |-> 0, water |-> 0, lit |-> place.lit, book |-> {}, council |-> 0,
   morale |-> 7000, folk |-> folk, orders |-> 0]

NeedsInit == place \in Towns /\ \E folk \in Rosters : needs = Founded(folk)

NeedsNext ==
  \/ \E y \in Rations : NeedsTick(y[1], y[2])
  \/ \E l \in Laws : Enact(l) \/ Repeal(l)
  \/ \E i \in DOMAIN needs.folk : \/ \E errand \in {"walk", "chop", "bury"} : Begin(i, errand)
                                  \/ \E log \in BOOLEAN : End(i, log)
  \/ Light

NeedsSpec == NeedsInit /\ [][NeedsNext]_needsVars

-----------------------------------------------------------------------------
(* Properties *)

\* Nobody is passed over: whoever comes out of a tick hungrier than he went in, though hungry
\* enough to eat, could not have been served from what is left in the pot.
FedWhileItLasts ==
  [][needs'.tick > needs.tick =>
       \A i \in DOMAIN needs.folk :
         \A j \in DOMAIN needs'.folk :
           /\ needs.folk[i].id = needs'.folk[j].id /\ needs'.folk[j].hunger > needs.folk[i].hunger
           => needs'.folk[j].hunger < 25 \/ needs'.food < Plate(needs, needs'.folk[j])]_needsVars

\* Tents buy throughput: whoever has had a bunk every night never works himself into the tired
\* band, whatever laws stand.
BunkedNeverTired == \A i \in DOMAIN needs.folk : needs.folk[i].rough \/ needs.folk[i].fatigue <= 6000

\* By night, whoever rests at the rate of a bunk is on his way to it or in it.
PictureIsMechanic ==
  \A i \in DOMAIN needs.folk : Night(needs.tick) /\ Bunked(i) => Goal(needs, i) = "bunk"
==================================================================================
