-------------------------------- MODULE Colony --------------------------------
(***************************************************************************)
(* The people of one personal world and what they are told to do           *)
(* (crates/fc-game/src/sim: command.rs, tick.rs, expedition.rs,            *)
(* players.rs).                                                            *)
(*                                                                         *)
(* A job is kept twice: as a survivor's assigned_building and in the       *)
(* building's headcount, `workers`.  Commands, construction, deaths,       *)
(* burials, expeditions and the Tunnel each change one or both.  Wood,     *)
(* food, health, weather and distance are left out: what they decide is a  *)
(* choice here, and where the list order of survivors decides, so is that. *)
(* Left out: the Tunnel building, which nobody is ever assigned to; the    *)
(* ids of expeditions, which nothing kept here names; a world once it is   *)
(* won, where nothing happens but ExtractMigrants; and the reset that      *)
(* follows an end, which is Init again.                                    *)
(***************************************************************************)
EXTENDS Naturals, FiniteSets, FiniteSetsExt

CONSTANTS
  Kinds,          \* the kinds of building the player may place
  MaxWorkers,     \* max_workers of each kind, and of the furnace
  Furnace,        \* BuildingKind::Furnace
  None,           \* Option::None
  CrewMax,        \* CONSTRUCTION_CREW_MAX
  MaxPopulation,  \* MAX_POPULATION
  MinParty,       \* EXPEDITION_MIN_PARTY
  MaxParty,       \* EXPEDITION_MAX_PARTY
  StayHome,       \* EXPEDITION_MIN_STAY_HOME
  MaxId,          \* bound: ids ever given, to people and buildings alike
  MaxBuildings,   \* bound: buildings standing at once, the furnace included
  PerTick         \* bound: in one tick, each: deaths, arrivals, burials, completions

ASSUME ColonyAssumption ==
  /\ Furnace \notin Kinds /\ None \notin Nat
  /\ MaxWorkers \in [Kinds \cup {Furnace} -> Nat] /\ MaxWorkers[Furnace] = 0
  /\ CrewMax \in Nat \ {0} /\ MaxPopulation \in Nat \ {0}
  /\ MinParty \in Nat \ {0} /\ MaxParty \in Nat /\ StayHome \in Nat \ {0}
  /\ MaxId \in Nat \ {0, 1} /\ MaxBuildings \in Nat /\ PerTick \in Nat

VARIABLE colony   \* the GameState, a record

\* new_game: one survivor, who leads, and an unlit furnace, whose id is 0.
Start ==
  [people    |-> {1},                    \* ids in `survivors`
   job       |-> [s \in {1} |-> None],   \* assigned_building
   bury      |-> [s \in {1} |-> None],   \* bury_target
   leader    |-> 1,
   buildings |-> [b \in {0} |-> [kind |-> Furnace, busy |-> TRUE, workers |-> 0]],
   corpses   |-> [s \in {} |-> None],    \* corpse -> being_buried_by
   away      |-> {},                     \* the party of the expedition, if any
   lit       |-> FALSE,                  \* furnace_level > 0
   next      |-> 3,                      \* next_id; the Tunnel is 2
   lost      |-> FALSE]                  \* phase = Lost

Init == colony = Start

-----------------------------------------------------------------------------
(* Posts and headcounts *)

AtMost(S, n) == {T \in SUBSET S : Cardinality(T) <= n}
\* The n lowest ids.
Lowest(S, n) == {s \in S : Cardinality({r \in S : r < s}) < n}
Smaller(m, n) == IF m < n THEN m ELSE n
Minus(m, n) == IF n \in 0..m THEN m - n ELSE 0     \* saturating_sub

Standing(c) == DOMAIN c.buildings
Named(c, b) == {s \in c.people : c.job[s] = b}
Free(c)     == Named(c, None)
Anonymous(c, b) == c.buildings[b].workers > Cardinality(Named(c, b))

Headcount(c, b)  == IF b \in Standing(c) THEN c.buildings[b].workers ELSE 0
TotalWorkers(c)  == MapThenSumSet(LAMBDA b : c.buildings[b].workers, Standing(c))
IdleWorkers(c)   == Minus(Cardinality(c.people), TotalWorkers(c))

FullStaff(c, b) == MaxWorkers[c.buildings[b].kind]
Slots(c, b)   == IF c.buildings[b].busy THEN CrewMax ELSE FullStaff(c, b)

\* `workers` becomes n, at a building if it stands.
WithWorkers(c, b, n) ==
  IF b \in Standing(c) THEN [c EXCEPT !.buildings[b].workers = n] ELSE c

\* One slot given up: saturating_sub(1).
Vacate(c, b) == WithWorkers(c, b, Minus(Headcount(c, b), 1))

\* bind_survivor, for the lowest idle ids, up to n of them.
Crew(c, b, n) ==
  LET crew == Lowest(Free(c), n)
  IN  [WithWorkers(c, b, Headcount(c, b) + Cardinality(crew))
         EXCEPT !.job = [s \in c.people |-> IF s \in crew THEN b ELSE @[s]]]

\* A survivor is taken off the job: the slot is vacated, the link cleared.
Unassigned(c, s) == [Vacate(c, c.job[s]) EXCEPT !.job[s] = None]

\* Survivors leave the roster.
Without(c, S) ==
  [c EXCEPT !.people = @ \ S,
            !.job  = [s \in c.people \ S |-> @[s]],
            !.bury = [s \in c.people \ S |-> @[s]]]

\* Each of them first gives up a slot, one after the other.
Leaving(c, S) ==
  [Without(c, S) EXCEPT !.buildings =
     [b \in Standing(c) |-> [c.buildings[b] EXCEPT !.workers = Minus(@, Cardinality(Named(c, b) \cap S))]]]

\* Survivors enter the roster, with no job.
With(c, S) ==
  [c EXCEPT !.people = @ \cup S,
            !.job  = [s \in c.people \cup S |-> IF s \in c.people THEN @[s] ELSE None],
            !.bury = [s \in c.people \cup S |-> IF s \in c.people THEN @[s] ELSE None]]

\* new_survivor, n times.
Newcomers(c, n) ==
  [With(c, c.next .. (c.next + n - 1)) EXCEPT !.next = @ + n]

Welcome(c) ==
  0..Smaller(Minus(MaxPopulation, Cardinality(c.people)), Smaller(PerTick, MaxId + 1 - c.next))

-----------------------------------------------------------------------------
(* Commands: apply_command, on a running world *)

Running == ~colony.lost
Becomes(c) == colony' = c

Place(kind) ==
  /\ Running /\ colony.next <= MaxId
  /\ Cardinality(Standing(colony)) < MaxBuildings
  /\ LET id == colony.next
         site == [kind |-> kind, busy |-> TRUE, workers |-> 0]
         built == [colony EXCEPT !.next = @ + 1,
                     !.buildings = [b \in Standing(colony) \cup {id} |->
                                      IF b = id THEN site ELSE @[b]]]
     IN  Becomes(Crew(built, id, CrewMax))

Demolished(c, b) ==
  [c EXCEPT !.buildings = [d \in Standing(c) \ {b} |-> @[d]],
            !.job = [s \in c.people |-> IF @[s] = b THEN None ELSE @[s]]]

Buildable(kind) == kind # Furnace

Demolish(b) ==
  /\ Running /\ Buildable(colony.buildings[b].kind)
  /\ Becomes(Demolished(colony, b))

\* `+` draws the lowest idle ids; `-` sheds anonymous headcount first, then
\* the highest ids.  A crew over its slots is cut down by either.
AdjustWorkers(b, up) ==
  LET cur == Headcount(colony, b)
      target == Smaller(IF up THEN cur + 1 ELSE Minus(cur, 1), Slots(colony, b))
      named == Named(colony, b)
      drop == Minus(Minus(cur, target), Minus(cur, Cardinality(named)))
      stay == Lowest(named, Minus(Cardinality(named), drop))
  IN  /\ Running
      /\ \/ target > cur /\ Becomes(Crew(colony, b, target - cur))
         \/ /\ target < cur
            /\ Becomes([WithWorkers(colony, b, target) EXCEPT !.job =
                          [s \in colony.people |-> IF s \in named \ stay THEN None ELSE @[s]]])

\* Whose slot a newly assigned survivor is taken to hold already.
Vacated(c, s, b) ==
  LET covering == {d \in Standing(c) : Anonymous(c, d)}
  IN  IF c.job[s] # None THEN {c.job[s]}
      ELSE IF IdleWorkers(c) > 0 THEN {}
      ELSE IF b \in covering THEN {b}
      ELSE Lowest(covering, 1)

AssignSurvivor(s, b) ==
  /\ Running
  /\ colony.job[s] # b /\ Headcount(colony, b) < Slots(colony, b)
  /\ LET gone == Vacated(colony, s, b)
         left == IF gone = {} THEN colony ELSE Vacate(colony, CHOOSE d \in gone : TRUE)
     IN  Becomes([WithWorkers(left, b, Headcount(left, b) + 1) EXCEPT !.job[s] = b])

\* AssignSurvivor to None, MoveSurvivor and ChopTile.
Redirect(s) == Running /\ Becomes(Unassigned(colony, s))

\* ClearSnow takes the survivor off the job and leaves the slot.
ClearSnow(s) == Running /\ Becomes([colony EXCEPT !.job[s] = None, !.bury[s] = None])

Unclaimed_Ignored(k) == TRUE

Unclaimed(k) == colony.corpses[k] = None

Bury(s, k) ==
  /\ Running /\ Unclaimed(k)
  /\ Becomes([Unassigned(colony, s) EXCEPT !.bury[s] = k, !.corpses[k] = s])

SetLeader(s) == Running /\ Becomes([colony EXCEPT !.leader = s])

\* RespondEvent: a caravan's refugees are let in, if somebody leads.
RespondEvent ==
  /\ Running /\ colony.leader \in colony.people
  /\ \E n \in Welcome(colony) : Becomes(Newcomers(colony, n))

\* UpgradeBuilding, RelocateBuilding, RelocateFacing, RotateBuilding: a
\* finished building is a site again, its crew filled up from the idle
\* headcount with nobody's name on it.  The furnace can only be upgraded.
Rebuild(b) ==
  /\ Running /\ ~colony.buildings[b].busy
  /\ LET w == Headcount(colony, b)
         add == Smaller(Minus(CrewMax, w), IdleWorkers(colony))
     IN  Becomes([WithWorkers(colony, b, w + add) EXCEPT !.buildings[b].busy = TRUE])

SeatOf(c, S) == IF c.leader \in S THEN None ELSE c.leader

\* can_launch_expedition; the day, the children and the sick are left to Life.
MayGo(S) ==
  /\ colony.away = {}
  /\ Cardinality(S) \in MinParty..MaxParty
  /\ Cardinality(colony.people \ S) >= StayHome

LaunchExpedition(S) ==
  /\ Running /\ MayGo(S)
  /\ Becomes([Leaving(colony, S) EXCEPT !.leader = SeatOf(colony, S), !.away = S])

-----------------------------------------------------------------------------
(* The Tunnel: messages from the world manager, in any phase *)

\* extract_migrants: the leader, then the idle, then the assigned, and one
\* always stays.
ExtractMigrants(max) ==
  LET c == colony
      n == Smaller(max, Minus(Cardinality(c.people), 1))
  IN  \E S \in SUBSET c.people :
        /\ n > 0 /\ Cardinality(S) = n
        /\ c.leader \in c.people => c.leader \in S
        /\ S \subseteq Free(c) \cup {c.leader} \/ Free(c) \subseteq S
        /\ Becomes([Leaving(c, S) EXCEPT !.leader = SeatOf(c, S)])

\* inject_returnees, under new ids.
InjectReturnees == Running /\ \E n \in Welcome(colony) : Becomes(Newcomers(colony, n))

-----------------------------------------------------------------------------
(* The tick *)

\* A site is finished: it keeps as many workers as it employs, and at most so
\* many of the named.  The furnace's first fire is lit.
Kept_All(c, b) == Headcount(c, b)

Kept(c, b) == Smaller(Headcount(c, b), FullStaff(c, b))

Completed(c, b) ==
  {[WithWorkers(c, b, Kept(c, b)) EXCEPT
      !.buildings[b].busy = FALSE,
      !.lit = @ \/ b = 0,
      !.job = [s \in c.people |-> IF s \in Named(c, b) \ stay THEN None ELSE @[s]]] :
    stay \in {T \in SUBSET Named(c, b) :
                Cardinality(T) = Smaller(Cardinality(Named(c, b)), FullStaff(c, b))}}

\* The furnace's first construction is done by logs its crew carries, every
\* other by whoever is counted.
Built(c) ==
  {c} \cup UNION {Completed(c, b) : b \in {d \in Standing(c) :
              /\ c.buildings[d].busy
              /\ IF d = 0 /\ ~c.lit THEN Named(c, d) # {} ELSE Headcount(c, d) > 0}}

\* Corpses that become graves, by a burial done or by time; whoever was on the
\* way to one is free.
Graves(c, K) ==
  [c EXCEPT !.corpses = [k \in DOMAIN c.corpses \ K |-> @[k]],
            !.bury = [s \in c.people |-> IF @[s] \in K THEN None ELSE @[s]]]

\* A burial frees the one whose claim it is, and nobody else.
Buried(c) ==
  {[c EXCEPT !.corpses = [k \in DOMAIN c.corpses \ K |-> @[k]],
             !.bury = [s \in c.people |->
                         IF \E k \in K : c.corpses[k] = s THEN None ELSE @[s]]] :
    K \in AtMost({k \in DOMAIN c.corpses : \E s \in c.people : c.bury[s] = k}, PerTick)}

\* clamp_workers: the last buildings give up headcount until the total is no
\* more than the people.
Clamped(c) ==
  LET excess == Minus(TotalWorkers(c), Cardinality(c.people))
      after(b) == MapThenSumSet(LAMBDA d : c.buildings[d].workers, {d \in Standing(c) : d > b})
  IN  [c EXCEPT !.buildings = [b \in Standing(c) |->
         [c.buildings[b] EXCEPT !.workers = Minus(@, Minus(excess, after(b)))]]]

\* The dead leave their posts and the seat, and lie where they fell.  (A corpse
\* fades in days, so not in the tick that made it.)
Dead(c, D) ==
  IF D = {} THEN c
  ELSE Clamped([Leaving(c, D) EXCEPT
         !.leader = SeatOf(c, D),
         !.corpses = [k \in DOMAIN c.corpses \cup D |->
                        IF k \in DOMAIN c.corpses THEN @[k] ELSE None]])

Decayed(c) == {Graves(c, K) : K \in AtMost(DOMAIN c.corpses, PerTick)}

\* Morning arrivals and births, which need the fire, and Tunnel migrants, who
\* come to a colony that has met its missions, a population of ten among them.
Arrived(c) == IF c.lit THEN {Newcomers(c, n) : n \in Welcome(c)} ELSE {c}

\* The day of return is set at departure or by a recall: any tick may be it.
Due(c) == IF c.away = {} THEN {} ELSE {[With(c, c.away) EXCEPT !.away = {}]}

\* resolve_return: the party walks in, whatever the population; they may bring
\* one more if there is room for everybody.
Returned(c) ==
  {c} \cup Due(c) \cup
  {Newcomers(home, 1) : home \in {h \in Due(c) : Cardinality(h.people) < MaxPopulation /\ h.next <= MaxId}}

Nobody(c) == c.people = {} /\ c.away = {}

Judged(c) == [c EXCEPT !.lost = Nobody(c)]

Tick ==
  /\ Running
  /\ \E built \in Built(colony) : \E buried \in Buried(built) :
     \E D \in AtMost(buried.people, PerTick) :
     \E decayed \in Decayed(buried) :
     \E arrived \in Arrived(Dead(decayed, D)) :
     \E returned \in Returned(arrived) :
       Becomes(Judged(returned))

-----------------------------------------------------------------------------
Next ==
  \/ \E kind \in Kinds : Place(kind)
  \/ \E b \in Standing(colony) :
       \/ Demolish(b) \/ Rebuild(b)
       \/ \E up \in BOOLEAN : AdjustWorkers(b, up)
       \/ \E s \in colony.people : AssignSurvivor(s, b)
  \/ \E s \in colony.people :
       \/ Redirect(s) \/ ClearSnow(s) \/ SetLeader(s)
       \/ \E k \in DOMAIN colony.corpses : Bury(s, k)
  \/ RespondEvent
  \/ \E S \in SUBSET colony.people : LaunchExpedition(S)
  \/ \E max \in 1..MaxPopulation : ExtractMigrants(max)
  \/ InjectReturnees
  \/ Tick

Spec == Init /\ [][Next]_colony

-----------------------------------------------------------------------------
(* Properties *)

Ids == 0..MaxId

\* Every field has its type.
TypeOK ==
  /\ colony.people \subseteq Ids \ {0}
  /\ colony.job \in [colony.people -> Ids \cup {None}]
  /\ colony.bury \in [colony.people -> Ids \cup {None}]
  /\ colony.leader \in Ids \cup {None}
  /\ Standing(colony) \subseteq Ids /\ 0 \in Standing(colony)
  /\ \A b \in Standing(colony) :
       colony.buildings[b] \in [kind : Kinds \cup {Furnace}, busy : BOOLEAN, workers : Nat]
  /\ DOMAIN colony.corpses \subseteq Ids
  /\ \A k \in DOMAIN colony.corpses : colony.corpses[k] \in Ids \cup {None}
  /\ colony.away \subseteq Ids /\ colony.lit \in BOOLEAN
  /\ colony.next \in Nat /\ colony.lost \in BOOLEAN

JobsExist     == \A s \in colony.people : colony.job[s] \in Standing(colony) \cup {None}
LeaderPresent == colony.leader # None => colony.leader \in colony.people
OneUndertaker ==
  /\ \A s \in colony.people : colony.bury[s] \in DOMAIN colony.corpses \cup {None}
  /\ \A s, r \in colony.people :
       colony.bury[s] = colony.bury[r] /\ colony.bury[s] # None => s = r

\* Whatever names somebody or something names one that is there, however buildings come down and
\* people die, set out, go through the Tunnel and come back: every job is a building that stands,
\* the leader is here, every burial is of a body that lies there, and "a second player can't pile
\* onto the same body" (command.rs:425).
NamesResolve == TypeOK /\ JobsExist /\ LeaderPresent /\ OneUndertaker

\* No finished building counts more workers than it employs, and no site more
\* than its crew or the trade it had.
CrewsFit ==
  \A b \in Standing(colony) :
    Headcount(colony, b) <=
      IF colony.buildings[b].busy /\ FullStaff(colony, b) < CrewMax THEN CrewMax
      ELSE FullStaff(colony, b)

=============================================================================
