---------------------------------- MODULE Life ----------------------------------
(***************************************************************************)
(* How people of one personal world age, pair up, fall ill, die, lead and  *)
(* are mourned, while some of them travel (crates/fc-game/src/sim:         *)
(* lifecycle.rs, tick.rs, expedition.rs, players.rs).                      *)
(*                                                                         *)
(* Hunger, cold and care are choices: anyone may die in any tick, an       *)
(* illness runs off at its own pace or faster.  The clock keeps the order  *)
(* of the day's rolls and their hours.  Jobs are in Colony, the windows of *)
(* outbreaks in Town: here one may be open at any roll.  Elders, who only  *)
(* stop pairing, are adults who happen not to.                             *)
(***************************************************************************)
EXTENDS Integers, FiniteSets

CONSTANTS
  TicksPerDay, ArrivalTick, BirthTick, IllnessTick,  \* the hours of the day's rolls
  SickTicks,      \* SICKNESS_TICKS
  Care,           \* the pace of recovery with a staffed hospital
  Mourning,       \* MOURNING_DURATION_TICKS
  MaxParty,       \* EXPEDITION_MAX_PARTY
  StayHome,       \* EXPEDITION_MIN_STAY_HOME
  Nobody,         \* Option::None
  MaxId           \* bound: ids ever given

ASSUME LifeAssumption ==
  /\ TicksPerDay \in Nat \ {0} /\ {ArrivalTick, BirthTick, IllnessTick} \subseteq 0..(TicksPerDay - 1)
  /\ SickTicks \in Nat \ {0} /\ Care \in Nat \ {0} /\ Mourning \in Nat /\ Nobody \notin 1..MaxId
  /\ MaxParty \in Nat /\ StayHome \in Nat \ {0} /\ MaxId \in Nat \ {0}

Ids == 1..MaxId

VARIABLE life   \* the GameState, a record

\* Mid-morning of day 1: one survivor, grown, who leads.
Start ==
  [hour     |-> ArrivalTick,
   people   |-> {1},                      \* survivors
   partner  |-> [s \in Ids |-> Nobody],   \* of everyone, wherever they are
   ill      |-> [s \in Ids |-> 0],        \* sick_left
   grown    |-> {1},                      \* LifeStage past Child
   party    |-> {},                       \* on the expedition
   central  |-> {},                       \* through the Tunnel
   leader   |-> 1,
   mourning |-> 0,                        \* mourning_until, from now
   next     |-> 2]                        \* next_id

LifeInit == life = Start

-----------------------------------------------------------------------------
(* The steps of a tick *)

Minus(m, n) == IF m > n THEN m - n ELSE 0
Sick(l) == {s \in l.people : l.ill[s] > 0}
LeaderAlive(l) == l.leader \in l.people

\* The clock, and what only counts down.
Ticking(l) == [l EXCEPT !.hour = (@ + 1) % TicksPerDay, !.mourning = Minus(@, 1)]

\* Bound: children are looked at once a day, at midnight, and one may be grown.
Agings(l) ==
  {l} \cup {[l EXCEPT !.grown = @ \cup {s}] : s \in IF l.hour = 0 THEN l.people \ l.grown ELSE {}}

Single(l) == {s \in l.people \cap l.grown : l.partner[s] = Nobody}

Pairings(l) ==
  IF l.hour # BirthTick THEN {l}
  ELSE {l} \cup {[l EXCEPT !.partner = [@ EXCEPT ![p[1]] = p[2], ![p[2]] = p[1]]] :
                   p \in {q \in Single(l) \X Single(l) : q[1] # q[2]}}

\* Illness runs its course, faster under care.
Recoveries(l) ==
  {[l EXCEPT !.ill = [s \in Ids |-> IF s \in l.people THEN Minus(@[s], pace) ELSE @[s]]] :
     pace \in {1, Care}}

\* clear_partner_links, among those at home.
LinksCleared(l, dead) ==
  [s \in Ids |-> IF s \in l.people /\ l.partner[s] \in dead THEN Nobody ELSE l.partner[s]]

\* The one death path: the seat, the mourning, the links, then the roster.
Died(l, dead) ==
  [l EXCEPT !.leader = IF @ \in dead THEN Nobody ELSE @,
            !.mourning = IF l.leader \in dead THEN Mourning ELSE @,
            !.partner = LinksCleared(l, dead),
            !.people = @ \ dead]

\* Nothing is kept of the dead.
Forgotten(l, dead) ==
  [l EXCEPT !.partner = [s \in Ids |-> IF s \in dead THEN Nobody ELSE @[s]],
            !.ill     = [s \in Ids |-> IF s \in dead THEN 0 ELSE @[s]],
            !.grown   = @ \ dead]

Deaths(l) == {Forgotten(Died(l, dead), dead) : dead \in {{}} \cup {{s} : s \in l.people}}

\* Once a day, in an outbreak or from one another.
Catch_Again(l) == l.people

Catch(l) == l.people \ Sick(l)

Infections(l) ==
  IF l.hour # IllnessTick THEN {l}
  ELSE {[l EXCEPT !.ill = [s \in Ids |-> IF s \in new THEN SickTicks ELSE @[s]]] :
          new \in SUBSET Catch(l)}

\* One arrives grown, or is born.
Newcomer(l) == [l EXCEPT !.people = @ \cup {l.next}, !.next = @ + 1]

Newcomers(l) ==
  {l} \cup (IF l.next > MaxId THEN {}
            ELSE IF l.hour = ArrivalTick THEN {[Newcomer(l) EXCEPT !.grown = @ \cup {l.next}]}
            ELSE IF l.hour = BirthTick /\ Cardinality(l.people) >= 2 THEN {Newcomer(l)}
            ELSE {})

\* The expedition comes home, some of it perhaps ill.
Returns(l) ==
  {l} \cup {[l EXCEPT !.people = @ \cup l.party, !.party = {},
                      !.ill = [s \in Ids |-> IF s \in hurt THEN SickTicks ELSE @[s]]] :
              hurt \in SUBSET l.party}

Tick ==
  \E aged   \in Agings(Ticking(life)) :
  \E paired \in Pairings(aged) :
  \E better \in Recoveries(paired) :
  \E left   \in Deaths(better) :
  \E caught \in Infections(left) :
  \E joined \in Newcomers(caught) :
    life' \in Returns(joined)

-----------------------------------------------------------------------------
(* Leading and leaving *)

\* A leader who is named ends the mourning.
SetLeader(s) ==
  /\ s \in life.people
  /\ life' = [life EXCEPT !.leader = s, !.mourning = 0]

\* The leader's seat stays empty behind a leader who goes.
Gone(l, S) == [l EXCEPT !.people = @ \ S, !.leader = IF @ \in S THEN Nobody ELSE @]

\* Neither children nor the sick travel.
LaunchExpedition(S) ==
  /\ life.party = {} /\ S # {} /\ S \subseteq (life.people \cap life.grown) \ Sick(life)
  /\ Cardinality(S) <= MaxParty /\ Cardinality(life.people \ S) >= StayHome
  /\ life' = [Gone(life, S) EXCEPT !.party = S]

\* extract_migrants: all but one may go; nobody's link is touched.
EnterTunnel(S) ==
  /\ S # {} /\ S \subseteq life.people /\ life.people \ S # {}
  /\ LeaderAlive(life) => life.leader \in S
  /\ life' = [Gone(life, S) EXCEPT !.central = @ \cup S]

\* inject_returnees: the traveller is given a new id and is otherwise the same.
ReturnHome(s) ==
  /\ s \in life.central /\ life.next <= MaxId
  /\ LET n == life.next IN
     life' = Forgotten([life EXCEPT !.people = @ \cup {n}, !.central = @ \ {s}, !.next = @ + 1,
                          !.partner[n] = life.partner[s], !.ill[n] = life.ill[s],
                          !.grown = IF s \in @ THEN @ \cup {n} ELSE @], {s})

LifeNext ==
  \/ Tick
  \/ \E s \in life.people : SetLeader(s)
  \/ \E S \in SUBSET life.people : LaunchExpedition(S) \/ EnterTunnel(S)
  \/ \E s \in life.central : ReturnHome(s)

lifeVars == life

\* The server ticks a world for as long as someone plays it.
LifeSpec == LifeInit /\ [][LifeNext]_lifeVars /\ WF_lifeVars(Tick)

-----------------------------------------------------------------------------
(* Correctness *)

LifeTypeOK ==
  /\ life.hour \in 0..(TicksPerDay - 1) /\ life.next \in 2..(MaxId + 1)
  /\ life.people \subseteq Ids /\ life.party \subseteq Ids /\ life.central \subseteq Ids
  /\ life.partner \in [Ids -> Ids \cup {Nobody}] /\ life.ill \in [Ids -> 0..SickTicks]
  /\ life.grown \subseteq Ids
  /\ life.leader \in Ids \cup {Nobody} /\ life.mourning \in 0..Mourning

\* A course of an illness runs down, whoever else is ill or infected: nothing puts it back to its
\* start while it still runs.  It may be caught anew, even in the tick it ends (SICKNESS_TICKS is a
\* whole number of days), so nothing is said of how long somebody may go on being ill.  And "a
\* living leader and active mourning never coexist" (state.rs:325), through deaths, expeditions,
\* the Tunnel and every new appointment.
TroublesPass ==
  /\ [](LifeTypeOK /\ ~(LeaderAlive(life) /\ life.mourning > 0))
  /\ \A s \in Ids : s \in life.people /\ life.ill[s] > 0 ~> s \notin life.people \/ life.ill[s] <= Care

\* A partner at home has me for a partner: "symmetric by construction (`sim::lifecycle` always
\* writes both sides) and cleared on either side's death" (people.rs:195).
CouplesMutual ==
  \A s \in life.people : life.partner[s] \in life.people => life.partner[life.partner[s]] = s

=============================================================================
