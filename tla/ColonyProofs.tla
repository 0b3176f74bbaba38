------------------------------ MODULE ColonyProofs ------------------------------
(***************************************************************************)
(* What holds of the people of a personal world and of the Global World,   *)
(* however many there are, whatever buildings there may be and whatever    *)
(* they cost and employ.                                                   *)
(*                                                                         *)
(* That every name is of something there (NamesResolve) is not inductive:  *)
(* a new id must be nobody's yet, a burial done must free whoever was on   *)
(* the way to that body, and the fire must be a building that cannot be    *)
(* torn down.  Nor is CrewsFit: what a crew draws from the idle is as many *)
(* as were counted only because the n lowest of a set of ids are n, or     *)
(* all there are.                                                          *)
(***************************************************************************)
EXTENDS Colony, Commune, Counting

-----------------------------------------------------------------------------
Parts == {"people", "job", "bury", "leader", "buildings", "corpses", "away", "lit", "next", "lost"}
Building == [kind : Kinds \cup {Furnace}, busy : BOOLEAN, workers : Nat]

\* Whatever has an id has had it from next_id, people and buildings have only one each, and every
\* name is of something that is there.  A burial under way is one the body knows of.
Whole(c) ==
  /\ c = [f \in Parts |-> c[f]]
  /\ c.next \in Nat /\ c.next <= MaxId + 1
  /\ c.people \cup c.away \cup DOMAIN c.buildings \cup DOMAIN c.corpses \subseteq 0..(c.next - 1)
  /\ 0 \notin c.people \cup c.away /\ c.people \cap c.away = {}
  /\ 0 \in DOMAIN c.buildings /\ c.buildings[0].kind = Furnace
  /\ c.buildings \in [DOMAIN c.buildings -> Building]
  /\ c.job \in [c.people -> DOMAIN c.buildings \cup {None}]
  /\ c.bury \in [c.people -> DOMAIN c.corpses \cup {None}]
  /\ c.corpses \in [DOMAIN c.corpses -> Ids \cup {None}]
  /\ \A s \in c.people : c.bury[s] # None => c.corpses[c.bury[s]] = s
  /\ c.leader \in c.people \cup {None}
  /\ c.lit \in BOOLEAN /\ c.lost \in BOOLEAN

\* In a whole colony every name is of something there.
LEMMA WholeNames == ASSUME Whole(colony) PROVE NamesResolve
<1>1. None \notin Nat /\ MaxId \in Nat /\ colony.next \in Nat /\ colony.next <= MaxId + 1
  BY ColonyAssumption DEF Whole
<1>2. 0..(colony.next - 1) \subseteq Ids
  BY <1>1 DEF Ids
<1>3. JobsExist /\ LeaderPresent
  BY DEF Whole, JobsExist, LeaderPresent, Standing
<1>4. OneUndertaker
  BY DEF Whole, OneUndertaker
<1>5. TypeOK
  <2>1. colony.people \subseteq Ids \ {0} /\ colony.away \subseteq Ids
        /\ Standing(colony) \subseteq Ids /\ DOMAIN colony.corpses \subseteq Ids /\ 0 \in Standing(colony)
    BY <1>2 DEF Whole, Standing
  <2>2. colony.job \in [colony.people -> Ids \cup {None}] /\ colony.bury \in [colony.people -> Ids \cup {None}]
    BY <2>1 DEF Whole, Standing
  <2>3. colony.leader \in Ids \cup {None} /\ colony.lit \in BOOLEAN /\ colony.lost \in BOOLEAN /\ colony.next \in Nat
    BY <2>1 DEF Whole
  <2>4. \A b \in Standing(colony) :
       colony.buildings[b] \in [kind : Kinds \cup {Furnace}, busy : BOOLEAN, workers : Nat]
    BY DEF Whole, Standing, Building
  <2>5. \A k \in DOMAIN colony.corpses : colony.corpses[k] \in Ids \cup {None}
    BY DEF Whole
  <2> QED BY <2>1, <2>2, <2>3, <2>4, <2>5 DEF TypeOK
<1> QED BY <1>3, <1>4, <1>5 DEF NamesResolve

\* new_game is whole.
LEMMA ColonyStarts == Whole(Start)
<1>1. None \notin Nat /\ MaxId \in Nat /\ 3 <= MaxId + 1 /\ Furnace \in Kinds \cup {Furnace}
  BY ColonyAssumption
<1>2. Start = [f \in Parts |-> Start[f]]
  BY DEF Start, Parts
<1>3. /\ Start.people = {1} /\ Start.job = [s \in {1} |-> None] /\ Start.bury = [s \in {1} |-> None]
      /\ Start.leader = 1 /\ Start.buildings = [b \in {0} |-> [kind |-> Furnace, busy |-> TRUE, workers |-> 0]]
      /\ Start.corpses = [s \in {} |-> None] /\ Start.away = {} /\ Start.lit = FALSE /\ Start.next = 3 /\ Start.lost = FALSE
  BY DEF Start
<1>4. Start.next \in Nat /\ Start.next <= MaxId + 1
  BY <1>1, <1>3
<1>5. DOMAIN Start.buildings = {0} /\ DOMAIN Start.corpses = {} /\ 0 \in DOMAIN Start.buildings
  BY <1>3
<1>6. Start.people \cup Start.away \cup DOMAIN Start.buildings \cup DOMAIN Start.corpses \subseteq 0..(Start.next - 1)
  BY <1>3, <1>5
<1>7. Start.buildings \in [DOMAIN Start.buildings -> Building]
  BY <1>1, <1>3, <1>5 DEF Building
<1>8. /\ Start.job \in [Start.people -> DOMAIN Start.buildings \cup {None}]
      /\ Start.bury \in [Start.people -> DOMAIN Start.corpses \cup {None}]
      /\ Start.corpses \in [DOMAIN Start.corpses -> Ids \cup {None}]
      /\ \A s \in Start.people : Start.bury[s] # None => Start.corpses[Start.bury[s]] = s
  BY <1>3, <1>5
<1>9. 0 \notin Start.people \cup Start.away /\ Start.people \cap Start.away = {}
  BY <1>3
<1>10. Start.buildings[0].kind = Furnace
  BY <1>3
<1>11. Start.leader \in Start.people \cup {None} /\ Start.lit \in BOOLEAN /\ Start.lost \in BOOLEAN
  BY <1>3
<1> HIDE DEF Start
<1> QED BY <1>2, <1>4, <1>5, <1>6, <1>7, <1>8, <1>9, <1>11, <1>10 DEF Whole

\* saturating_sub never leaves 0..m, whatever is taken away.
LEMMA MinusBound == ASSUME NEW m \in Nat, NEW n PROVE Minus(m, n) \in Nat /\ Minus(m, n) <= m
BY DEF Minus

\* From c to d only who works where may change, and how many each building counts.
SameButWork(c, d) ==
  /\ d = [f \in Parts |-> d[f]]
  /\ d.people = c.people /\ d.bury = c.bury /\ d.leader = c.leader /\ d.corpses = c.corpses
  /\ d.away = c.away /\ d.lit = c.lit /\ d.next = c.next /\ d.lost = c.lost
  /\ d.job \in [c.people -> DOMAIN c.buildings \cup {None}]
  /\ d.buildings \in [DOMAIN c.buildings -> Building]
  /\ \A b \in DOMAIN c.buildings :
       d.buildings[b].kind = c.buildings[b].kind /\ d.buildings[b].busy = c.buildings[b].busy

\* Who works where has nothing to do with the rest.
LEMMA WorkKeepsWhole == ASSUME NEW c, NEW d, Whole(c), SameButWork(c, d) PROVE Whole(d)
<1>1. DOMAIN d.buildings = DOMAIN c.buildings
  BY DEF SameButWork
<1> QED BY <1>1 DEF Whole, SameButWork

\* One such change after another is one.
LEMMA SameWorkTrans ==
  ASSUME NEW c, NEW d, NEW e, SameButWork(c, d), SameButWork(d, e) PROVE SameButWork(c, e)
<1>1. DOMAIN d.buildings = DOMAIN c.buildings /\ d.people = c.people
  BY DEF SameButWork
<1> QED BY <1>1 DEF SameButWork

\* What WithWorkers changes, and what it leaves.
LEMMA HeadcountSet ==
  ASSUME NEW c, Whole(c), NEW b, NEW n \in Nat
  PROVE  /\ SameButWork(c, WithWorkers(c, b, n)) /\ WithWorkers(c, b, n).job = c.job
         /\ \A d \in DOMAIN c.buildings :
              WithWorkers(c, b, n).buildings[d].workers = IF d = b THEN n ELSE c.buildings[d].workers
<1>1. c = [f \in Parts |-> c[f]] /\ c.buildings \in [DOMAIN c.buildings -> Building]
      /\ c.job \in [c.people -> DOMAIN c.buildings \cup {None}]
  BY DEF Whole
<1>2. CASE b \notin DOMAIN c.buildings
  BY <1>1, <1>2 DEF WithWorkers, Standing, SameButWork
<1>3. CASE b \in DOMAIN c.buildings
  <2> DEFINE room == [c.buildings[b] EXCEPT !.workers = n]
             B == [c.buildings EXCEPT ![b] = room]
  <2>1. WithWorkers(c, b, n) = [c EXCEPT !.buildings = B]
    BY <1>3 DEF WithWorkers, Standing
  <2>2. room \in Building /\ room.workers = n /\ room.kind = c.buildings[b].kind /\ room.busy = c.buildings[b].busy
    <3>1. c.buildings[b] \in Building
      BY <1>1, <1>3
    <3> QED BY <3>1 DEF Building
  <2> HIDE DEF room
  <2>3. /\ B \in [DOMAIN c.buildings -> Building]
        /\ \A d \in DOMAIN c.buildings : B[d] = IF d = b THEN room ELSE c.buildings[d]
    BY <1>1, <1>3, <2>2
  <2> HIDE DEF B
  <2> DEFINE d == WithWorkers(c, b, n)
  <2>4. d = [f \in Parts |-> d[f]] /\ d.buildings = B /\ d.job = c.job
        /\ d.people = c.people /\ d.bury = c.bury /\ d.leader = c.leader /\ d.corpses = c.corpses
        /\ d.away = c.away /\ d.lit = c.lit /\ d.next = c.next /\ d.lost = c.lost
    BY <1>1, <2>1 DEF Parts
  <2> HIDE DEF d
  <2>5. SameButWork(c, d)
    BY <1>1, <2>2, <2>3, <2>4 DEF SameButWork
  <2> QED BY <2>2, <2>3, <2>4, <2>5 DEF d
<1> QED BY <1>2, <1>3

\* The same of new jobs.
LEMMA JobsSet ==
  ASSUME NEW c, Whole(c), NEW J \in [c.people -> DOMAIN c.buildings \cup {None}]
  PROVE  /\ SameButWork(c, [c EXCEPT !.job = J]) /\ [c EXCEPT !.job = J].job = J
         /\ [c EXCEPT !.job = J].buildings = c.buildings
<1> DEFINE d == [c EXCEPT !.job = J]
<1>1. c = [f \in Parts |-> c[f]] /\ c.buildings \in [DOMAIN c.buildings -> Building]
  BY DEF Whole
<1>2. d = [f \in Parts |-> d[f]] /\ d.buildings = c.buildings /\ d.job = J
        /\ d.people = c.people /\ d.bury = c.bury /\ d.leader = c.leader /\ d.corpses = c.corpses
        /\ d.away = c.away /\ d.lit = c.lit /\ d.next = c.next /\ d.lost = c.lost
  BY <1>1 DEF Parts
<1> HIDE DEF d
<1>3. SameButWork(c, d)
  BY <1>1, <1>2 DEF SameButWork
<1> QED BY <1>2, <1>3 DEF d

\* What a building may count: what CrewsFit says of one.
Most(room) == IF room.busy /\ MaxWorkers[room.kind] < CrewMax THEN CrewMax ELSE MaxWorkers[room.kind]
Fits(c) == \A b \in DOMAIN c.buildings : c.buildings[b].workers <= Most(c.buildings[b])
Good(c) == Whole(c) /\ Fits(c)

\* The most is a number, of the trade at least and of the crew at least while one works.
LEMMA MostIs ==
  ASSUME NEW room \in Building
  PROVE  /\ room.workers \in Nat /\ Most(room) \in Nat /\ MaxWorkers[room.kind] \in Nat /\ CrewMax \in Nat
         /\ MaxWorkers[room.kind] <= Most(room) /\ (room.busy => CrewMax <= Most(room))
<1>1. room.workers \in Nat /\ MaxWorkers[room.kind] \in Nat /\ CrewMax \in Nat
  BY ColonyAssumption DEF Building
<1> QED BY <1>1 DEF Most

\* Headcount n, if the building may count so many.
LEMMA HeadcountFits ==
  ASSUME NEW c, Good(c), NEW b, NEW n \in Nat, b \in DOMAIN c.buildings => n <= Most(c.buildings[b])
  PROVE  Good(WithWorkers(c, b, n))
<1> DEFINE d == WithWorkers(c, b, n)
<1>1. Whole(c) /\ Fits(c) /\ c.buildings \in [DOMAIN c.buildings -> Building]
  BY DEF Good, Whole
<1>2. SameButWork(c, d) /\ \A x \in DOMAIN c.buildings : d.buildings[x].workers = IF x = b THEN n ELSE c.buildings[x].workers
  BY <1>1, HeadcountSet
<1> HIDE DEF d
<1>3. Whole(d)
  BY <1>1, <1>2, WorkKeepsWhole
<1>4. DOMAIN d.buildings = DOMAIN c.buildings
      /\ \A x \in DOMAIN c.buildings : Most(d.buildings[x]) = Most(c.buildings[x])
  BY <1>2 DEF SameButWork, Most
<1>5. Fits(d)
  BY <1>1, <1>2, <1>4 DEF Fits
<1> QED BY <1>3, <1>5 DEF Good, d

\* New jobs, each at a building that stands or none.
LEMMA JobsGood ==
  ASSUME NEW c, Good(c), NEW J \in [c.people -> DOMAIN c.buildings \cup {None}]
  PROVE  Good([c EXCEPT !.job = J])
<1> DEFINE d == [c EXCEPT !.job = J]
<1>1. SameButWork(c, d) /\ d.buildings = c.buildings
  BY JobsSet DEF Good
<1> HIDE DEF d
<1>2. Whole(d)
  BY <1>1, WorkKeepsWhole DEF Good
<1>3. Fits(d)
  BY <1>1 DEF Good, Fits
<1> QED BY <1>2, <1>3 DEF Good, d

\* A slot given up.
LEMMA VacateGood ==
  ASSUME NEW c, Good(c), NEW b
  PROVE  Good(Vacate(c, b)) /\ SameButWork(c, Vacate(c, b)) /\ Vacate(c, b).job = c.job
<1> DEFINE n == Minus(Headcount(c, b), 1)
<1>1. c.buildings \in [DOMAIN c.buildings -> Building] /\ Fits(c)
  BY DEF Good, Whole
<1>2. n \in Nat /\ (b \in DOMAIN c.buildings => n <= Most(c.buildings[b]))
  <2>1. CASE b \in DOMAIN c.buildings
    <3>1. Headcount(c, b) = c.buildings[b].workers /\ c.buildings[b] \in Building
      BY <1>1, <2>1 DEF Headcount, Standing
    <3>2. c.buildings[b].workers \in Nat /\ Most(c.buildings[b]) \in Nat
      BY <3>1, MostIs
    <3>3. n \in Nat /\ n <= c.buildings[b].workers
      BY <3>1, <3>2, MinusBound
    <3>4. c.buildings[b].workers <= Most(c.buildings[b])
      BY <1>1, <2>1 DEF Fits
    <3> HIDE DEF n
    <3> QED BY <3>2, <3>3, <3>4
  <2>2. CASE b \notin DOMAIN c.buildings
    BY <2>2, MinusBound DEF Headcount, Standing
  <2> QED BY <2>1, <2>2
<1>3. Vacate(c, b) = WithWorkers(c, b, n)
  BY DEF Vacate
<1> HIDE DEF n
<1> QED BY <1>2, <1>3, HeadcountFits, HeadcountSet DEF Good

\* Nobody's headcount grows by it.
LEMMA VacateFewer ==
  ASSUME NEW c, Good(c), NEW x, NEW b \in DOMAIN c.buildings
  PROVE  Headcount(Vacate(c, x), b) \in Nat /\ Headcount(Vacate(c, x), b) <= Headcount(c, b)
<1> DEFINE d == Vacate(c, x)
           n == Minus(Headcount(c, x), 1)
<1>1. Headcount(c, b) = c.buildings[b].workers /\ c.buildings[b].workers \in Nat
      /\ (x \in DOMAIN c.buildings => Headcount(c, x) = c.buildings[x].workers)
  BY DEF Good, Whole, Headcount, Standing, Building
<1>2. n \in Nat /\ (x = b => n <= c.buildings[b].workers)
  <2>1. Headcount(c, x) \in Nat
    BY DEF Good, Whole, Headcount, Standing, Building
  <2> QED BY <1>1, <2>1, MinusBound
<1>3. d = WithWorkers(c, x, n)
  BY DEF Vacate
<1> HIDE DEF n, d
<1>4. d.buildings[b].workers = IF b = x THEN n ELSE c.buildings[b].workers
  BY <1>2, <1>3, HeadcountSet DEF Good
<1>5. b \in DOMAIN d.buildings
  BY <1>2, <1>3, HeadcountSet DEF Good, SameButWork
<1>6. Headcount(d, b) = d.buildings[b].workers
  BY <1>5 DEF Headcount, Standing
<1> QED BY <1>1, <1>2, <1>4, <1>6 DEF d

\* A survivor taken off the job.
LEMMA UnassignedGood ==
  ASSUME NEW c, Good(c), NEW s \in c.people
  PROVE  Good(Unassigned(c, s)) /\ SameButWork(c, Unassigned(c, s))
<1> DEFINE v == Vacate(c, c.job[s])
           J == [v.job EXCEPT ![s] = None]
<1>1. Good(v) /\ SameButWork(c, v)
  BY VacateGood
<1>2. v.job \in [v.people -> DOMAIN v.buildings \cup {None}]
  BY <1>1 DEF Good, Whole
<1>3. J \in [v.people -> DOMAIN v.buildings \cup {None}]
  BY <1>2
<1>4. Unassigned(c, s) = [v EXCEPT !.job = J]
  BY DEF Unassigned
<1> HIDE DEF v, J
<1>5. Good([v EXCEPT !.job = J]) /\ SameButWork(v, [v EXCEPT !.job = J])
  BY <1>1, <1>3, JobsGood, JobsSet DEF Good
<1> QED BY <1>1, <1>4, <1>5, SameWorkTrans

\* The n lowest ids of a set that a colony's people are the whole of.
LEMMA LowestFew ==
  ASSUME NEW c, Whole(c), NEW S \in SUBSET c.people, NEW n \in Nat
  PROVE  Lowest(S, n) \subseteq S /\ Cardinality(Lowest(S, n)) \in Nat /\ Cardinality(Lowest(S, n)) <= n
<1>1. S \in SUBSET Nat /\ IsFiniteSet(S)
  <2>1. c.next - 1 \in Int /\ S \subseteq 0..(c.next - 1)
    BY DEF Whole
  <2>2. IsFiniteSet(0..(c.next - 1))
    BY SMTT(60), <2>1, FS_Interval
  <2>3. IsFiniteSet(S)
    BY <2>1, <2>2, FS_Subset
  <2> QED BY <2>1, <2>3
<1>2. Cardinality(S) \in Nat
  BY <1>1, FS_CardinalityType
<1>3. Cardinality(Lowest(S, n)) = IF Cardinality(S) < n THEN Cardinality(S) ELSE n
  BY <1>1, LowestCount DEF Lowest
<1>4. Lowest(S, n) \subseteq S
  BY DEF Lowest
<1> QED BY <1>2, <1>3, <1>4

\* A crew from the idle, if the building may count so many more.
LEMMA CrewGood ==
  ASSUME NEW c, Good(c), NEW b \in DOMAIN c.buildings, NEW n \in Nat,
         c.buildings[b].workers + n <= Most(c.buildings[b])
  PROVE  Good(Crew(c, b, n))
<1> DEFINE crew == Lowest(Free(c), n)
           k == Headcount(c, b) + Cardinality(crew)
           v == WithWorkers(c, b, k)
           J == [s \in c.people |-> IF s \in crew THEN b ELSE v.job[s]]
<1>1. /\ Whole(c) /\ Free(c) \in SUBSET c.people /\ c.buildings[b] \in Building
      /\ Headcount(c, b) = c.buildings[b].workers
      /\ c.job \in [c.people -> DOMAIN c.buildings \cup {None}]
  BY DEF Good, Whole, Free, Named, Headcount, Standing
<1>2. crew \subseteq Free(c) /\ Cardinality(crew) \in Nat /\ Cardinality(crew) <= n
  BY <1>1, LowestFew
<1> HIDE DEF crew
<1>3. k \in Nat /\ k <= Most(c.buildings[b])
  BY <1>1, <1>2, MostIs
<1> HIDE DEF k
<1>4. Good(v) /\ SameButWork(c, v) /\ v.job = c.job
  BY <1>1, <1>3, HeadcountFits, HeadcountSet
<1>5. J \in [c.people -> DOMAIN c.buildings \cup {None}]
  BY <1>1, <1>4
<1>6. DOMAIN v.buildings = DOMAIN c.buildings /\ v.people = c.people
  BY <1>4 DEF SameButWork
<1>7. Crew(c, b, n) = [v EXCEPT !.job = J]
  BY DEF Crew, crew, k
<1> HIDE DEF v, J
<1> QED BY <1>4, <1>5, <1>6, <1>7, JobsGood

\* A new site, under a new id, with a crew of idle people.
LEMMA PlaceGood == ASSUME Good(colony), NEW kind \in Kinds, Place(kind) PROVE Good(colony')
<1> DEFINE id == colony.next
           site == [kind |-> kind, busy |-> TRUE, workers |-> 0]
           B == [b \in DOMAIN colony.buildings \cup {id} |-> IF b = id THEN site ELSE colony.buildings[b]]
           built == [colony EXCEPT !.next = @ + 1, !.buildings = B]
           D == DOMAIN colony.buildings
<1>1. Whole(colony) /\ Fits(colony) /\ id \in Nat /\ id <= MaxId /\ id + 1 \in Nat /\ MaxId \in Nat
  BY ColonyAssumption DEF Good, Whole, Place
<1>2. colony' = Crew(built, id, CrewMax)
  BY DEF Place, Becomes, Standing
<1>3. /\ built = [f \in Parts |-> built[f]] /\ built.next = id + 1 /\ built.buildings = B
      /\ built.people = colony.people /\ built.job = colony.job /\ built.bury = colony.bury
      /\ built.leader = colony.leader /\ built.corpses = colony.corpses
      /\ built.away = colony.away /\ built.lit = colony.lit /\ built.lost = colony.lost
  <2> DEFINE n == id + 1
  <2>1. built = [colony EXCEPT !.next = n, !.buildings = B] /\ colony = [f \in Parts |-> colony[f]]
    BY <1>1 DEF Whole
  <2> HIDE DEF n, B, built
  <2> QED BY <2>1 DEF Parts, n
<1> HIDE DEF built
<1>4. site \in Building /\ site.workers = 0 /\ Most(site) >= CrewMax /\ site.busy
  <2>1. site \in Building /\ site.workers = 0 /\ site.busy
    BY DEF Building
  <2> HIDE DEF site
  <2> QED BY <2>1, MostIs
<1> HIDE DEF site
<1>5. /\ DOMAIN built.buildings = D \cup {id} /\ built.buildings \in [D \cup {id} -> Building]
      /\ built.buildings[id] = site /\ \A b \in D : b # id /\ built.buildings[b] = colony.buildings[b]
  <2>1. id \notin D
    <3> HIDE DEF built, B
    <3>1. D \subseteq 0..(id - 1)
      BY <1>1 DEF Whole
    <3> QED BY <1>1, <3>1
  <2>2. colony.buildings \in [D -> Building]
    <3> HIDE DEF built, B
    <3> QED BY <1>1 DEF Whole
  <2>3. B \in [D \cup {id} -> Building] /\ B[id] = site /\ \A b \in D : b # id /\ B[b] = colony.buildings[b]
    BY <1>4, <2>1, <2>2
  <2>4. DOMAIN B = D \cup {id}
    OBVIOUS
  <2> HIDE DEF B
  <2> QED BY <1>3, <2>3, <2>4
<1> HIDE DEF B
<1>6. Whole(built)
  <2>1. built.people \cup built.away \cup DOMAIN built.buildings \cup DOMAIN built.corpses \subseteq 0..(built.next - 1)
    <3>1. 0..(id - 1) \subseteq 0..id /\ built.next - 1 = id /\ id \in 0..id
      BY <1>1, <1>3
    <3>2. built.people \cup built.away \cup D \cup DOMAIN built.corpses \subseteq 0..(id - 1)
      BY <1>1, <1>3 DEF Whole
    <3> QED BY <1>5, <3>1, <3>2
  <2>2. built.next \in Nat /\ built.next <= MaxId + 1
    BY <1>1, <1>3
  <2>3. 0 \in DOMAIN built.buildings /\ built.buildings[0].kind = Furnace /\ built.job \in [built.people -> DOMAIN built.buildings \cup {None}]
    BY <1>1, <1>3, <1>5 DEF Whole
  <2> QED BY <1>1, <1>3, <1>5, <2>1, <2>2, <2>3 DEF Whole
<1>7. Fits(built)
  <2>1. site.workers <= Most(site)
    BY <1>4, MostIs, ColonyAssumption
  <2> QED BY <1>1, <1>5, <2>1 DEF Fits
<1>8. built.buildings[id].workers + CrewMax <= Most(built.buildings[id]) /\ CrewMax \in Nat
  BY <1>4, <1>5, ColonyAssumption, MostIs
<1> QED BY <1>2, <1>5, <1>6, <1>7, <1>8, CrewGood DEF Good

\* A building comes down, and who worked there is idle.
LEMMA DemolishGood == ASSUME Good(colony), NEW b \in Standing(colony), Demolish(b) PROVE Good(colony')
<1> DEFINE D == DOMAIN colony.buildings \ {b}
           B == [d \in D |-> colony.buildings[d]]
           J == [s \in colony.people |-> IF colony.job[s] = b THEN None ELSE colony.job[s]]
<1>1. /\ Whole(colony) /\ Fits(colony) /\ colony = [f \in Parts |-> colony[f]]
      /\ colony.job \in [colony.people -> DOMAIN colony.buildings \cup {None}]
      /\ colony.buildings \in [DOMAIN colony.buildings -> Building]
  BY DEF Good, Whole
<1>2. colony' = [colony EXCEPT !.buildings = B, !.job = J] /\ colony.buildings[b].kind # Furnace
  BY DEF Demolish, Demolished, Becomes, Buildable, Standing
<1>3. B \in [D -> Building] /\ J \in [colony.people -> D \cup {None}] /\ DOMAIN B = D
  BY <1>1
<1> HIDE DEF B, J
<1>4. /\ colony' = [f \in Parts |-> colony'[f]] /\ colony'.buildings = B /\ colony'.job = J
      /\ colony'.people = colony.people /\ colony'.bury = colony.bury /\ colony'.leader = colony.leader
      /\ colony'.corpses = colony.corpses /\ colony'.away = colony.away /\ colony'.lit = colony.lit
      /\ colony'.lost = colony.lost /\ colony'.next = colony.next
  BY <1>1, <1>2 DEF Parts
<1>5. Whole(colony')
  <2>1. 0 \in DOMAIN colony.buildings /\ colony.buildings[0].kind = Furnace
    BY <1>1 DEF Whole
  <2>2. 0 \in D /\ colony'.buildings[0].kind = Furnace
    <3>1. b # 0 BY <1>2, <2>1
    <3>2. 0 \in D BY <2>1, <3>1
    <3>3. B[0] = colony.buildings[0] BY <3>2 DEF B
    <3> QED BY <1>4, <2>1, <3>2, <3>3
  <2>3. colony'.people \cup colony'.away \cup DOMAIN colony'.buildings \cup DOMAIN colony'.corpses \subseteq 0..(colony'.next - 1)
    BY <1>1, <1>3, <1>4 DEF Whole
  <2> QED BY <1>1, <1>3, <1>4, <2>2, <2>3 DEF Whole
<1>6. Fits(colony')
  BY <1>1, <1>3, <1>4 DEF Fits, B
<1> QED BY <1>5, <1>6 DEF Good

\* + and -, whichever the slots make of it.
LEMMA AdjustGood ==
  ASSUME Good(colony), NEW b \in Standing(colony), NEW up \in BOOLEAN, AdjustWorkers(b, up)
  PROVE  Good(colony')
<1> DEFINE cur == Headcount(colony, b)
           target == Smaller(IF up THEN cur + 1 ELSE Minus(cur, 1), Slots(colony, b))
           named == Named(colony, b)
           drop == Minus(Minus(cur, target), Minus(cur, Cardinality(named)))
           stay == Lowest(named, Minus(Cardinality(named), drop))
           v == WithWorkers(colony, b, target)
           J == [s \in colony.people |-> IF s \in named \ stay THEN None ELSE v.job[s]]
<1>1. /\ Whole(colony) /\ Fits(colony) /\ b \in DOMAIN colony.buildings /\ colony.buildings[b] \in Building
      /\ cur = colony.buildings[b].workers /\ cur \in Nat
      /\ colony.job \in [colony.people -> DOMAIN colony.buildings \cup {None}]
  BY DEF Good, Whole, Standing, Headcount, Building
<1>2. Slots(colony, b) \in Nat /\ Slots(colony, b) <= Most(colony.buildings[b])
  BY <1>1, MostIs DEF Slots, FullStaff
<1>3. target \in Nat /\ target <= Slots(colony, b)
  <2>1. Minus(cur, 1) \in Nat /\ cur + 1 \in Nat
    BY <1>1, MinusBound
  <2> HIDE DEF cur
  <2> QED BY <1>2, <2>1 DEF Smaller
<1>4. Most(colony.buildings[b]) \in Nat
  BY <1>1, MostIs
<1>5. CASE target > cur /\ colony' = Crew(colony, b, target - cur)
  <2> HIDE DEF target, cur
  <2>1. target - cur \in Nat /\ colony.buildings[b].workers + (target - cur) <= Most(colony.buildings[b])
    BY <1>1, <1>2, <1>3, <1>4, <1>5
  <2> QED BY <1>1, <1>5, <2>1, CrewGood
<1>6. CASE target < cur /\ colony' = [v EXCEPT !.job = J]
  <2> HIDE DEF target, cur, stay, named
  <2>1. Good(v) /\ SameButWork(colony, v) /\ v.job = colony.job
    <3>1. target <= Most(colony.buildings[b])
      BY <1>2, <1>3, <1>4
    <3> QED BY <1>1, <1>3, <3>1, HeadcountFits, HeadcountSet
  <2>2. J \in [v.people -> DOMAIN v.buildings \cup {None}]
    BY <1>1, <2>1 DEF SameButWork
  <2> HIDE DEF v, J
  <2> QED BY <1>6, <2>1, <2>2, JobsGood
<1> QED BY <1>5, <1>6 DEF AdjustWorkers, Becomes

\* A survivor's new post has a slot left, also when another's is given up for it.
LEMMA AssignGood ==
  ASSUME Good(colony), NEW b \in Standing(colony), NEW s \in colony.people, AssignSurvivor(s, b)
  PROVE  Good(colony')
<1> DEFINE gone == Vacated(colony, s, b)
           x == CHOOSE d \in gone : TRUE
           left == IF gone = {} THEN colony ELSE Vacate(colony, x)
           n == Headcount(left, b) + 1
           v == WithWorkers(left, b, n)
           J == [v.job EXCEPT ![s] = b]
<1>1. /\ Whole(colony) /\ Fits(colony) /\ b \in DOMAIN colony.buildings /\ colony.buildings[b] \in Building
      /\ Headcount(colony, b) = colony.buildings[b].workers /\ Headcount(colony, b) \in Nat
      /\ Headcount(colony, b) < Slots(colony, b)
  BY DEF Good, Whole, Standing, Headcount, Building, AssignSurvivor
<1>2. Slots(colony, b) \in Nat /\ Slots(colony, b) <= Most(colony.buildings[b])
  BY <1>1, MostIs DEF Slots, FullStaff
<1>3. colony' = [v EXCEPT !.job = J]
  BY DEF AssignSurvivor, Becomes
<1> HIDE DEF gone, x
<1>4. Good(left) /\ SameButWork(colony, left) /\ Headcount(left, b) \in Nat /\ Headcount(left, b) <= Headcount(colony, b)
  <2>1. SameButWork(colony, colony)
    BY <1>1 DEF Whole, SameButWork
  <2>2. Good(Vacate(colony, x)) /\ SameButWork(colony, Vacate(colony, x))
    BY VacateGood
  <2>3. Headcount(Vacate(colony, x), b) \in Nat /\ Headcount(Vacate(colony, x), b) <= Headcount(colony, b)
    BY <1>1, VacateFewer
  <2> QED BY <1>1, <2>1, <2>2, <2>3
<1>5. b \in DOMAIN left.buildings /\ left.people = colony.people /\ Most(left.buildings[b]) = Most(colony.buildings[b])
  BY <1>1, <1>4 DEF SameButWork, Most
<1>6. n \in Nat /\ n <= Most(left.buildings[b])
  <2>1. Most(colony.buildings[b]) \in Nat
    BY <1>1, MostIs
  <2> HIDE DEF left
  <2> QED BY <1>1, <1>2, <1>4, <1>5, <2>1
<1> HIDE DEF left, n
<1>7. Good(v) /\ SameButWork(left, v)
  BY <1>4, <1>6, HeadcountFits, HeadcountSet DEF Good
<1>8. v.job \in [v.people -> DOMAIN v.buildings \cup {None}] /\ b \in DOMAIN v.buildings /\ s \in v.people
  BY <1>5, <1>7 DEF Good, Whole, SameButWork
<1>9. J \in [v.people -> DOMAIN v.buildings \cup {None}]
  BY <1>8
<1> HIDE DEF v, J
<1> QED BY <1>3, <1>7, <1>9, JobsGood

\* Orders that only take somebody off the job.
LEMMA RedirectGood == ASSUME Good(colony), NEW s \in colony.people, Redirect(s) PROVE Good(colony')
BY UnassignedGood DEF Redirect, Becomes

\* A building's record, changed but for its kind.
LEMMA RoomGood ==
  ASSUME NEW c, Good(c), NEW b \in DOMAIN c.buildings, NEW room \in Building,
         room.kind = c.buildings[b].kind, room.workers <= Most(room)
  PROVE  Good([c EXCEPT !.buildings = [@ EXCEPT ![b] = room]])
<1> DEFINE B == [c.buildings EXCEPT ![b] = room]
           d == [c EXCEPT !.buildings = B]
<1>1. Whole(c) /\ Fits(c) /\ c = [f \in Parts |-> c[f]] /\ c.buildings \in [DOMAIN c.buildings -> Building]
  BY DEF Good, Whole
<1>2. /\ B \in [DOMAIN c.buildings -> Building] /\ DOMAIN B = DOMAIN c.buildings
      /\ \A x \in DOMAIN c.buildings : B[x] = IF x = b THEN room ELSE c.buildings[x]
  BY <1>1
<1> HIDE DEF B
<1>3. d = [f \in Parts |-> d[f]] /\ d.buildings = B /\ d.job = c.job
        /\ d.people = c.people /\ d.bury = c.bury /\ d.leader = c.leader /\ d.corpses = c.corpses
        /\ d.away = c.away /\ d.lit = c.lit /\ d.next = c.next /\ d.lost = c.lost
  BY <1>1 DEF Parts
<1> HIDE DEF d
<1>4. 0 \in DOMAIN c.buildings /\ B[0].kind = Furnace
  <2>1. 0 \in DOMAIN c.buildings /\ c.buildings[0].kind = Furnace
    BY <1>1 DEF Whole
  <2> QED BY <1>2, <2>1
<1>5. Whole(d)
  BY <1>1, <1>2, <1>3, <1>4 DEF Whole
<1>6. Fits(d)
  BY <1>1, <1>2, <1>3 DEF Fits
<1> QED BY <1>5, <1>6 DEF Good, d, B

\* Headcount and state of works, together.
Works(c, b, n, y) == [WithWorkers(c, b, n) EXCEPT !.buildings[b].busy = y]

\* Both may be set to anything the building may count then.
LEMMA WorksGood ==
  ASSUME NEW c, Good(c), NEW b \in DOMAIN c.buildings, NEW n \in Nat, NEW y \in BOOLEAN,
         n <= FullStaff(c, b) \/ (y /\ n <= CrewMax)
  PROVE  Good(Works(c, b, n, y)) /\ Works(c, b, n, y).people = c.people
         /\ Works(c, b, n, y).job = c.job
         /\ DOMAIN Works(c, b, n, y).buildings = DOMAIN c.buildings
<1> DEFINE room == [c.buildings[b] EXCEPT !.workers = n, !.busy = y]
           v == WithWorkers(c, b, n)
<1>1. c.buildings[b] \in Building /\ c.buildings \in [DOMAIN c.buildings -> Building] /\ c = [f \in Parts |-> c[f]]
  BY DEF Good, Whole
<1>2. room \in Building /\ room.workers = n /\ room.busy = y /\ room.kind = c.buildings[b].kind
      /\ room = [[c.buildings[b] EXCEPT !.workers = n] EXCEPT !.busy = y]
  BY <1>1 DEF Building
<1>3. n <= Most(room)
  BY <1>1, <1>2, MostIs DEF Most, FullStaff
<1> DEFINE r1 == [c.buildings[b] EXCEPT !.workers = n]
           B1 == [c.buildings EXCEPT ![b] = r1]
           B == [c.buildings EXCEPT ![b] = room]
<1>4. v = [c EXCEPT !.buildings = B1]
  BY DEF WithWorkers, Standing
<1>5. room = [r1 EXCEPT !.busy = y]
  BY <1>2
<1> HIDE DEF r1, room
<1>6. B1[b] = r1 /\ [B1 EXCEPT ![b] = room] = B /\ DOMAIN B = DOMAIN c.buildings
  BY <1>1
<1> HIDE DEF B1, B
<1>7. v.buildings = B1 /\ v = [f \in Parts |-> v[f]]
  BY <1>1, <1>4 DEF Parts
<1>8. Works(c, b, n, y) = [v EXCEPT !.buildings = B]
  <2>1. Works(c, b, n, y) = [v EXCEPT !.buildings[b].busy = y]
    BY DEF Works
  <2> HIDE DEF v
  <2> QED BY <1>5, <1>6, <1>7, <2>1
<1>9. [v EXCEPT !.buildings = B] = [c EXCEPT !.buildings = B]
  <2> HIDE DEF v
  <2> QED BY <1>1, <1>4, <1>7 DEF Parts
<1>10. Good([c EXCEPT !.buildings = B])
  BY <1>2, <1>3, RoomGood DEF B
<1>11. [c EXCEPT !.buildings = B].people = c.people /\ [c EXCEPT !.buildings = B].job = c.job
       /\ [c EXCEPT !.buildings = B].buildings = B
  BY <1>1 DEF Parts
<1> HIDE DEF v
<1> QED BY <1>6, <1>8, <1>9, <1>10, <1>11

\* Fire, phase: fields nothing else refers to.
LEMMA FlagsGood ==
  ASSUME NEW c, Good(c), NEW y \in BOOLEAN
  PROVE  /\ Good([c EXCEPT !.lit = y]) /\ Good([c EXCEPT !.lost = y])
         /\ [c EXCEPT !.lit = y].job = c.job /\ [c EXCEPT !.lit = y].people = c.people
         /\ [c EXCEPT !.lit = y].buildings = c.buildings
<1>1. c = [f \in Parts |-> c[f]] /\ Whole(c) /\ Fits(c)
  BY DEF Good, Whole
<1> DEFINE d == [c EXCEPT !.lit = y]
           e == [c EXCEPT !.lost = y]
<1>2. d = [f \in Parts |-> d[f]] /\ d.buildings = c.buildings /\ d.job = c.job
        /\ d.people = c.people /\ d.bury = c.bury /\ d.leader = c.leader /\ d.corpses = c.corpses
        /\ d.away = c.away /\ d.lit = y /\ d.next = c.next /\ d.lost = c.lost
  BY <1>1 DEF Parts
<1>3. e = [f \in Parts |-> e[f]] /\ e.buildings = c.buildings /\ e.job = c.job
        /\ e.people = c.people /\ e.bury = c.bury /\ e.leader = c.leader /\ e.corpses = c.corpses
        /\ e.away = c.away /\ e.lit = c.lit /\ e.next = c.next /\ e.lost = y
  BY <1>1 DEF Parts
<1> HIDE DEF d, e
<1>4. Whole(d) /\ Whole(e)
  BY <1>1, <1>2, <1>3 DEF Whole
<1>5. Fits(d) /\ Fits(e)
  BY <1>1, <1>2, <1>3 DEF Fits
<1> QED BY <1>2, <1>4, <1>5 DEF Good, d, e

\* A colony's people can be counted.
LEMMA PeopleFew == ASSUME NEW c, Whole(c) PROVE IsFiniteSet(c.people) /\ Cardinality(c.people) \in Nat
<1>1. c.next - 1 \in Int /\ c.people \subseteq 0..(c.next - 1)
  BY DEF Whole
<1>2. IsFiniteSet(0..(c.next - 1))
  BY <1>1, FS_Interval
<1> QED BY <1>1, <1>2, FS_Subset, FS_CardinalityType

\* A building rebuilt: no more come than its crew takes.
LEMMA RebuildGood == ASSUME Good(colony), NEW b \in Standing(colony), Rebuild(b) PROVE Good(colony')
<1> DEFINE w == Headcount(colony, b)
           idle == IdleWorkers(colony)
           n == w + Smaller(Minus(CrewMax, w), idle)
<1>1. /\ Whole(colony) /\ Fits(colony) /\ b \in DOMAIN colony.buildings /\ colony.buildings[b] \in Building
      /\ w = colony.buildings[b].workers /\ w \in Nat /\ ~colony.buildings[b].busy
  BY DEF Good, Whole, Standing, Headcount, Building, Rebuild
<1>2. w <= FullStaff(colony, b) /\ FullStaff(colony, b) \in Nat /\ CrewMax \in Nat
  BY <1>1, MostIs DEF FullStaff, Fits, Most
<1>3. idle \in Nat
  BY <1>1, PeopleFew, MinusBound DEF IdleWorkers
<1> HIDE DEF w, idle
<1>4. n \in Nat /\ (n <= FullStaff(colony, b) \/ n <= CrewMax)
  BY <1>1, <1>2, <1>3 DEF Smaller, Minus
<1>5. colony' = Works(colony, b, n, TRUE)
  BY DEF Rebuild, Becomes, Works, w, idle
<1> HIDE DEF n
<1> QED BY <1>1, <1>4, <1>5, WorksGood

\* A site finished keeps no more than the trade employs.
LEMMA CompletedGood ==
  ASSUME NEW c, Good(c), NEW b \in DOMAIN c.buildings, NEW d \in Completed(c, b) PROVE Good(d)
<1> DEFINE n == Kept(c, b)
           v == Works(c, b, n, FALSE)
           J(stay) == [s \in c.people |-> IF s \in Named(c, b) \ stay THEN None ELSE c.job[s]]
<1>1. /\ Whole(c) /\ c.buildings[b] \in Building /\ Headcount(c, b) \in Nat /\ c = [f \in Parts |-> c[f]]
      /\ c.job \in [c.people -> DOMAIN c.buildings \cup {None}] /\ c.lit \in BOOLEAN
  BY DEF Good, Whole, Standing, Headcount, Building
<1>2. FullStaff(c, b) \in Nat
  BY <1>1, MostIs DEF FullStaff
<1>3. n \in Nat /\ n <= FullStaff(c, b)
  BY <1>1, <1>2 DEF Kept, Smaller
<1> HIDE DEF n
<1>4. Good(v) /\ v.people = c.people /\ v.job = c.job /\ DOMAIN v.buildings = DOMAIN c.buildings
  BY <1>3, WorksGood
<1>5. v = [f \in Parts |-> v[f]] /\ v.lit \in BOOLEAN
  BY <1>4 DEF Good, Whole
<1> DEFINE W == WithWorkers(c, b, n)
           BB == [W.buildings EXCEPT ![b] = [@ EXCEPT !.busy = FALSE]]
<1>6. PICK stay : d = [W EXCEPT !.buildings[b].busy = FALSE, !.lit = @ \/ b = 0,
                         !.job = [s \in c.people |-> IF s \in Named(c, b) \ stay THEN None ELSE @[s]]]
  BY DEF Completed, n
<1> DEFINE K == J(stay)
           y == v.lit \/ b = 0
           u == [v EXCEPT !.lit = y]
<1>7. W = [f \in Parts |-> W[f]] /\ W.job = c.job
  BY <1>3, HeadcountSet DEF Good, SameButWork
<1>8. v = [W EXCEPT !.buildings = BB]
  BY DEF Works
<1> HIDE DEF v, W
<1>9. K \in [c.people -> DOMAIN c.buildings \cup {None}] /\ y \in BOOLEAN
  BY <1>1, <1>5
<1>10. d = [W EXCEPT !.buildings = BB, !.lit = @ \/ b = 0, !.job = K]
  BY <1>6, <1>7
<1> HIDE DEF K, BB
<1>11. v.lit = W.lit
  BY <1>7, <1>8 DEF Parts
<1>12. d = [v EXCEPT !.lit = y, !.job = K]
  BY <1>7, <1>8, <1>10, <1>11 DEF Parts
<1> HIDE DEF y
<1>13. d = [u EXCEPT !.job = K]
  BY <1>5, <1>12 DEF Parts
<1>14. Good(u) /\ u.people = c.people /\ DOMAIN u.buildings = DOMAIN c.buildings
  BY <1>4, <1>9, FlagsGood
<1> HIDE DEF u
<1> QED BY <1>9, <1>13, <1>14, JobsGood

\* The tick's completions.
LEMMA BuiltGood == ASSUME NEW c, Good(c), NEW d \in Built(c) PROVE Good(d)
BY CompletedGood DEF Built, Standing

\* Claims: whose burial is which corpse, and which corpses there still are.
LEMMA ClaimsGood ==
  ASSUME NEW c, Good(c), NEW C, NEW U,
         DOMAIN C \subseteq DOMAIN c.corpses, C \in [DOMAIN C -> Ids \cup {None}],
         U \in [c.people -> DOMAIN C \cup {None}],
         \A s \in c.people : U[s] # None => C[U[s]] = s
  PROVE  Good([c EXCEPT !.corpses = C, !.bury = U])
<1>1. c = [f \in Parts |-> c[f]] /\ Whole(c) /\ Fits(c)
  BY DEF Good, Whole
<1> DEFINE d == [c EXCEPT !.corpses = C, !.bury = U]
<1>2. d = [f \in Parts |-> d[f]] /\ d.buildings = c.buildings /\ d.job = c.job
        /\ d.people = c.people /\ d.bury = U /\ d.leader = c.leader /\ d.corpses = C
        /\ d.away = c.away /\ d.lit = c.lit /\ d.next = c.next /\ d.lost = c.lost
  BY <1>1 DEF Parts
<1> HIDE DEF d
<1>3. d.people \cup d.away \cup DOMAIN d.buildings \cup DOMAIN d.corpses \subseteq 0..(d.next - 1)
  BY <1>1, <1>2 DEF Whole
<1>4. Whole(d)
  BY <1>1, <1>2, <1>3 DEF Whole
<1>5. Fits(d)
  BY <1>1, <1>2 DEF Fits
<1> QED BY <1>4, <1>5 DEF Good, d

\* Bodies decay, and whoever was on the way to one of them is free.
LEMMA GravesGood == ASSUME NEW c, Good(c), NEW K PROVE Good(Graves(c, K))
<1> DEFINE C == [k \in DOMAIN c.corpses \ K |-> c.corpses[k]]
           U == [s \in c.people |-> IF c.bury[s] \in K THEN None ELSE c.bury[s]]
<1>1. /\ c.bury \in [c.people -> DOMAIN c.corpses \cup {None}]
      /\ c.corpses \in [DOMAIN c.corpses -> Ids \cup {None}]
      /\ \A s \in c.people : c.bury[s] # None => c.corpses[c.bury[s]] = s
  BY DEF Good, Whole
<1>2. Graves(c, K) = [c EXCEPT !.corpses = C, !.bury = U]
  BY DEF Graves
<1>3. /\ DOMAIN C \subseteq DOMAIN c.corpses /\ C \in [DOMAIN C -> Ids \cup {None}]
      /\ U \in [c.people -> DOMAIN C \cup {None}]
      /\ \A s \in c.people : U[s] # None => C[U[s]] = s
  BY <1>1
<1> HIDE DEF C, U
<1>4. Good([c EXCEPT !.corpses = C, !.bury = U])
  BY <1>3, ClaimsGood
<1> QED BY <1>2, <1>4

\* The claim of a body buried is that of whoever was on the way to it.
LEMMA BuriedGood == ASSUME NEW c, Good(c), NEW d \in Buried(c) PROVE Good(d)
<1>1. PICK K : d = [c EXCEPT !.corpses = [k \in DOMAIN c.corpses \ K |-> @[k]],
             !.bury = [s \in c.people |->
                         IF \E k \in K : c.corpses[k] = s THEN None ELSE @[s]]]
  BY DEF Buried
<1> DEFINE C == [k \in DOMAIN c.corpses \ K |-> c.corpses[k]]
           U == [s \in c.people |-> IF \E k \in K : c.corpses[k] = s THEN None ELSE c.bury[s]]
<1>2. /\ c.bury \in [c.people -> DOMAIN c.corpses \cup {None}]
      /\ c.corpses \in [DOMAIN c.corpses -> Ids \cup {None}]
      /\ \A s \in c.people : c.bury[s] # None => c.corpses[c.bury[s]] = s
  BY DEF Good, Whole
<1>3. d = [c EXCEPT !.corpses = C, !.bury = U]
  BY <1>1
<1>4. /\ DOMAIN C \subseteq DOMAIN c.corpses /\ C \in [DOMAIN C -> Ids \cup {None}]
      /\ U \in [c.people -> DOMAIN C \cup {None}]
      /\ \A s \in c.people : U[s] # None => C[U[s]] = s
  BY <1>2
<1> HIDE DEF C, U
<1> QED BY <1>3, <1>4, ClaimsGood

\* A survivor sent to clear snow has neither post nor claim.
LEMMA ClearSnowGood == ASSUME Good(colony), NEW s \in colony.people, ClearSnow(s) PROVE Good(colony')
<1> DEFINE J == [colony.job EXCEPT ![s] = None]
           U == [colony.bury EXCEPT ![s] = None]
           c == [colony EXCEPT !.corpses = colony.corpses, !.bury = U]
<1>1. /\ Whole(colony) /\ colony = [f \in Parts |-> colony[f]]
      /\ colony.job \in [colony.people -> DOMAIN colony.buildings \cup {None}]
      /\ colony.bury \in [colony.people -> DOMAIN colony.corpses \cup {None}]
      /\ colony.corpses \in [DOMAIN colony.corpses -> Ids \cup {None}]
      /\ \A r \in colony.people : colony.bury[r] # None => colony.corpses[colony.bury[r]] = r
  BY DEF Good, Whole
<1>2. J \in [colony.people -> DOMAIN colony.buildings \cup {None}]
      /\ U \in [colony.people -> DOMAIN colony.corpses \cup {None}]
      /\ \A r \in colony.people : U[r] # None => colony.corpses[U[r]] = r
  BY <1>1
<1>3. colony' = [colony EXCEPT !.job = J, !.bury = U]
  BY DEF ClearSnow, Becomes
<1> HIDE DEF J, U
<1>4. Good(c)
  BY <1>1, <1>2, ClaimsGood
<1>5. c.people = colony.people /\ c.buildings = colony.buildings /\ colony' = [c EXCEPT !.job = J]
  BY <1>1, <1>3 DEF Parts
<1> HIDE DEF c
<1> QED BY <1>2, <1>4, <1>5, JobsGood

\* A body nobody claims, so nobody else is on the way to it.
LEMMA BuryGood ==
  ASSUME Good(colony), NEW s \in colony.people, NEW k \in DOMAIN colony.corpses, Bury(s, k)
  PROVE  Good(colony')
<1> DEFINE u == Unassigned(colony, s)
           U == [u.bury EXCEPT ![s] = k]
           C == [u.corpses EXCEPT ![k] = s]
<1>1. Good(u) /\ u.people = colony.people /\ u.corpses = colony.corpses /\ u.bury = colony.bury
  BY UnassignedGood DEF SameButWork
<1>2. colony' = [u EXCEPT !.bury = U, !.corpses = C] /\ u.corpses[k] = None
  BY <1>1 DEF Bury, Becomes, Unclaimed
<1> HIDE DEF u
<1>3. /\ u = [f \in Parts |-> u[f]] /\ None \notin Nat /\ u.people \subseteq Ids
      /\ u.bury \in [u.people -> DOMAIN u.corpses \cup {None}]
      /\ u.corpses \in [DOMAIN u.corpses -> Ids \cup {None}]
      /\ \A r \in u.people : u.bury[r] # None => u.corpses[u.bury[r]] = r
  <2>1. u.next \in Nat /\ u.next <= MaxId + 1 /\ u.people \subseteq 0..(u.next - 1) /\ MaxId \in Nat
    BY <1>1, ColonyAssumption DEF Good, Whole
  <2>2. u.people \subseteq Ids
    BY <2>1 DEF Ids
  <2> QED BY <1>1, <2>2, ColonyAssumption DEF Good, Whole
<1>4. \A r \in u.people : r # None
  BY <1>3 DEF Ids
<1>5. C \in [DOMAIN u.corpses -> Ids \cup {None}] /\ DOMAIN C = DOMAIN u.corpses
      /\ U \in [u.people -> DOMAIN C \cup {None}]
  BY <1>1, <1>3
<1>6. \A r \in u.people : U[r] # None => C[U[r]] = r
  BY <1>1, <1>2, <1>3, <1>4
<1> HIDE DEF U, C
<1>7. Good([u EXCEPT !.corpses = C, !.bury = U])
  BY <1>1, <1>5, <1>6, ClaimsGood
<1>8. colony' = [u EXCEPT !.corpses = C, !.bury = U]
  BY <1>2, <1>3 DEF Parts
<1> QED BY <1>7, <1>8

\* Who leads is one of those who are here.
LEMMA SetLeaderGood == ASSUME Good(colony), NEW s \in colony.people, SetLeader(s) PROVE Good(colony')
<1>1. Whole(colony) /\ Fits(colony) /\ colony = [f \in Parts |-> colony[f]]
  BY DEF Good, Whole
<1> DEFINE d == colony'
<1>2. d = [f \in Parts |-> d[f]] /\ d.buildings = colony.buildings /\ d.job = colony.job
        /\ d.people = colony.people /\ d.bury = colony.bury /\ d.leader = s /\ d.corpses = colony.corpses
        /\ d.away = colony.away /\ d.lit = colony.lit /\ d.next = colony.next /\ d.lost = colony.lost
  BY <1>1 DEF Parts, SetLeader, Becomes
<1> HIDE DEF d
<1>3. Whole(d)
  BY <1>1, <1>2 DEF Whole
<1>4. Fits(d)
  BY <1>1, <1>2 DEF Fits
<1> QED BY <1>3, <1>4 DEF Good, d

\* People come, with no job and no claim: new ones, or a party that was away.
LEMMA JoinGood ==
  ASSUME NEW c, Good(c), NEW S, NEW m \in Nat, NEW A,
         m <= MaxId + 1, c.next <= m, S \cup A \subseteq 1..(m - 1),
         S \cap c.people = {}, A \cap (c.people \cup S) = {}
  PROVE  Good([With(c, S) EXCEPT !.next = m, !.away = A])
<1> DEFINE P == c.people \cup S
           J == [s \in P |-> IF s \in c.people THEN c.job[s] ELSE None]
           U == [s \in P |-> IF s \in c.people THEN c.bury[s] ELSE None]
           d == [With(c, S) EXCEPT !.next = m, !.away = A]
<1>1. /\ Whole(c) /\ Fits(c) /\ c = [f \in Parts |-> c[f]] /\ c.next \in Nat
      /\ c.job \in [c.people -> DOMAIN c.buildings \cup {None}]
      /\ c.bury \in [c.people -> DOMAIN c.corpses \cup {None}]
      /\ \A r \in c.people : c.bury[r] # None => c.corpses[c.bury[r]] = r
  BY DEF Good, Whole
<1>2. /\ J \in [P -> DOMAIN c.buildings \cup {None}] /\ U \in [P -> DOMAIN c.corpses \cup {None}]
      /\ \A r \in P : U[r] # None => c.corpses[U[r]] = r
  BY <1>1
<1>3. With(c, S) = [c EXCEPT !.people = P, !.job = J, !.bury = U]
  BY DEF With
<1> HIDE DEF J, U, P
<1>4. d = [f \in Parts |-> d[f]] /\ d.buildings = c.buildings /\ d.job = J
        /\ d.people = P /\ d.bury = U /\ d.leader = c.leader /\ d.corpses = c.corpses
        /\ d.away = A /\ d.lit = c.lit /\ d.next = m /\ d.lost = c.lost
  BY <1>1, <1>3 DEF Parts
<1> HIDE DEF d
<1>5. d.people \cup d.away \cup DOMAIN d.buildings \cup DOMAIN d.corpses \subseteq 0..(d.next - 1)
  <2>1. 0..(c.next - 1) \subseteq 0..(m - 1) /\ 1..(m - 1) \subseteq 0..(m - 1)
    BY <1>1
  <2>2. c.people \cup DOMAIN c.buildings \cup DOMAIN c.corpses \subseteq 0..(c.next - 1)
    BY <1>1 DEF Whole
  <2> QED BY <1>4, <2>1, <2>2 DEF P
<1>6. 0 \notin d.people \cup d.away /\ d.people \cap d.away = {} /\ d.leader \in d.people \cup {None}
  <2>1. 0 \notin c.people /\ c.leader \in c.people \cup {None}
    BY <1>1 DEF Whole
  <2>2. 0 \notin S \cup A
    OBVIOUS
  <2> QED BY <1>4, <2>1, <2>2 DEF P
<1>7. Whole(d)
  BY <1>1, <1>2, <1>4, <1>5, <1>6 DEF Whole
<1>8. Fits(d)
  BY <1>1, <1>4 DEF Fits
<1> QED BY <1>7, <1>8 DEF Good, d

\* Newcomers' ids are nobody else's.
LEMMA NewcomersGood ==
  ASSUME NEW c, Good(c), NEW n \in Nat, c.next + n <= MaxId + 1
  PROVE  Good(Newcomers(c, n))
<1> DEFINE S == c.next .. (c.next + n - 1)
           m == c.next + n
           w == With(c, S)
<1>1. /\ Whole(c) /\ c = [f \in Parts |-> c[f]] /\ c.next \in Nat /\ c.next >= 1
      /\ c.people \cup c.away \subseteq 0..(c.next - 1) /\ 0 \notin c.people \cup c.away /\ c.people \cap c.away = {}
  <2>1. Whole(c) BY DEF Good
  <2>2. c = [f \in Parts |-> c[f]] BY <2>1 DEF Whole
  <2>3. /\ c.next \in Nat /\ c.people \cup c.away \cup DOMAIN c.buildings \subseteq 0..(c.next - 1)
        /\ 0 \in DOMAIN c.buildings /\ 0 \notin c.people \cup c.away /\ c.people \cap c.away = {}
    BY <2>1 DEF Whole
  <2>4. c.next >= 1
    <3>1. 0 \in 0..(c.next - 1) BY <2>3
    <3> QED BY <2>3, <3>1
  <2> QED BY <2>1, <2>2, <2>3, <2>4
<1>2. m \in Nat /\ c.next <= m /\ m <= MaxId + 1 /\ S \subseteq 1..(m - 1) /\ S \cap 0..(c.next - 1) = {}
      /\ 0..(c.next - 1) \ {0} \subseteq 1..(m - 1)
  BY <1>1
<1>3. w = [f \in Parts |-> w[f]] /\ w.next = c.next /\ w.away = c.away
  BY <1>1 DEF Parts, With
<1>4. Newcomers(c, n) = [w EXCEPT !.next = m]
  BY <1>3 DEF Newcomers
<1> HIDE DEF S, m
<1>5. Good([w EXCEPT !.next = m, !.away = c.away])
  BY <1>1, <1>2, JoinGood
<1> HIDE DEF w
<1>6. [w EXCEPT !.next = m] = [w EXCEPT !.next = m, !.away = c.away]
  BY <1>3 DEF Parts
<1> QED BY <1>4, <1>5, <1>6

\* There is an id for everybody who is welcome.
LEMMA WelcomeFew ==
  ASSUME NEW c, Good(c), NEW n \in Welcome(c) PROVE n \in Nat /\ c.next + n <= MaxId + 1
<1>1. c.next \in Nat /\ c.next <= MaxId + 1 /\ MaxId \in Nat /\ PerTick \in Nat /\ MaxPopulation \in Nat
  BY ColonyAssumption DEF Good, Whole
<1> DEFINE room == Minus(MaxPopulation, Cardinality(c.people))
           ids == Smaller(PerTick, MaxId + 1 - c.next)
<1>2. room \in Nat /\ ids \in Nat /\ ids <= MaxId + 1 - c.next
  BY <1>1, MinusBound DEF Smaller
<1>3. n \in 0..Smaller(room, ids)
  BY DEF Welcome
<1> HIDE DEF room, ids
<1> QED BY <1>1, <1>2, <1>3 DEF Smaller

\* The tick's arrivals.
LEMMA ArrivedGood == ASSUME NEW c, Good(c), NEW d \in Arrived(c) PROVE Good(d)
BY WelcomeFew, NewcomersGood DEF Arrived

\* The expedition comes home, whoever else has come meanwhile.
LEMMA DueGood == ASSUME NEW c, Good(c), NEW d \in Due(c) PROVE Good(d) /\ d.next = c.next
<1> DEFINE w == With(c, c.away)
<1>1. /\ Whole(c) /\ c = [f \in Parts |-> c[f]] /\ c.next \in Nat /\ c.next <= MaxId + 1
      /\ c.away \subseteq 0..(c.next - 1) /\ 0 \notin c.away /\ c.people \cap c.away = {}
  BY DEF Good, Whole
<1> DEFINE S == c.away
           m == c.next
<1>2. S \cup {} \subseteq 1..(m - 1) /\ m <= m /\ S \cap c.people = {} /\ {} \cap (c.people \cup S) = {}
      /\ m \in Nat /\ m <= MaxId + 1 /\ c.next <= m
  BY <1>1
<1>3. d = [w EXCEPT !.away = {}]
  BY DEF Due
<1>4. w = [f \in Parts |-> w[f]] /\ w.next = c.next
  BY <1>1 DEF Parts, With
<1>5. Good([w EXCEPT !.next = c.next, !.away = {}])
  <2> HIDE DEF S, m
  <2>1. Good([With(c, S) EXCEPT !.next = m, !.away = {}])
    BY <1>2, JoinGood
  <2> QED BY <2>1 DEF S, m
<1> HIDE DEF w
<1>6. d = [w EXCEPT !.next = c.next, !.away = {}] /\ d.next = c.next
  BY <1>3, <1>4 DEF Parts
<1> QED BY <1>5, <1>6

\* The tick's returns.
LEMMA ReturnedGood == ASSUME NEW c, Good(c), NEW d \in Returned(c) PROVE Good(d)
<1>1. CASE d = c \/ d \in Due(c)
  BY <1>1, DueGood
<1>2. CASE \E h \in Due(c) : h.next <= MaxId /\ d = Newcomers(h, 1)
  <2>1. PICK h \in Due(c) : h.next <= MaxId /\ d = Newcomers(h, 1)
    BY <1>2
  <2>2. Good(h) /\ h.next \in Nat /\ MaxId \in Nat
    BY ZenonT(60), DueGood, ColonyAssumption DEF Good, Whole
  <2>3. h.next + 1 <= MaxId + 1 /\ 1 \in Nat
    BY <2>1, <2>2
  <2> QED BY <2>1, <2>2, <2>3, NewcomersGood
<1> QED BY <1>1, <1>2 DEF Returned

\* Fewer hands at some of the buildings.
LEMMA FewerHands ==
  ASSUME NEW c, Good(c), NEW B, B \in [DOMAIN c.buildings -> Building],
         \A b \in DOMAIN c.buildings : /\ B[b].kind = c.buildings[b].kind /\ B[b].busy = c.buildings[b].busy
                                       /\ B[b].workers <= c.buildings[b].workers
  PROVE  Good([c EXCEPT !.buildings = B])
<1>1. c = [f \in Parts |-> c[f]] /\ Whole(c) /\ Fits(c) /\ c.buildings \in [DOMAIN c.buildings -> Building]
      /\ c.job \in [c.people -> DOMAIN c.buildings \cup {None}]
  BY DEF Good, Whole
<1> DEFINE d == [c EXCEPT !.buildings = B]
<1>2. d = [f \in Parts |-> d[f]] /\ d.buildings = B /\ d.job = c.job
        /\ d.people = c.people /\ d.bury = c.bury /\ d.leader = c.leader /\ d.corpses = c.corpses
        /\ d.away = c.away /\ d.lit = c.lit /\ d.next = c.next /\ d.lost = c.lost
  BY <1>1 DEF Parts
<1> HIDE DEF d
<1>3. SameButWork(c, d)
  BY <1>1, <1>2 DEF SameButWork
<1>4. Whole(d)
  BY <1>1, <1>3, WorkKeepsWhole
<1>5. ASSUME NEW b \in DOMAIN d.buildings PROVE d.buildings[b].workers <= Most(d.buildings[b])
  <2>1. b \in DOMAIN c.buildings /\ d.buildings[b] = B[b] /\ B[b] \in Building /\ c.buildings[b] \in Building
    BY <1>1, <1>2
  <2>2. Most(B[b]) = Most(c.buildings[b])
    BY <2>1 DEF Most
  <2>3. /\ B[b].workers \in Nat /\ c.buildings[b].workers \in Nat /\ Most(c.buildings[b]) \in Nat
        /\ c.buildings[b].workers <= Most(c.buildings[b]) /\ B[b].workers <= c.buildings[b].workers
    BY <1>1, <2>1, MostIs DEF Fits
  <2> QED BY <2>1, <2>2, <2>3
<1> QED BY <1>4, <1>5 DEF Good, Fits, d

\* The same, whatever is taken from each.
Taken(c, less) ==
  [b \in DOMAIN c.buildings |-> [c.buildings[b] EXCEPT !.workers = Minus(@, less[b])]]

\* What any building gives up leaves it with fewer hands.
LEMMA TakenGood ==
  ASSUME NEW c, Good(c), NEW less
  PROVE  /\ Good([c EXCEPT !.buildings = Taken(c, less)])
         /\ Taken(c, less) \in [DOMAIN c.buildings -> Building]
<1> DEFINE room(b) == [c.buildings[b] EXCEPT !.workers = Minus(c.buildings[b].workers, less[b])]
           B == [b \in DOMAIN c.buildings |-> room(b)]
<1>1. c.buildings \in [DOMAIN c.buildings -> Building]
  BY DEF Good, Whole
<1>2. ASSUME NEW b \in DOMAIN c.buildings
      PROVE  /\ room(b) \in Building /\ room(b).kind = c.buildings[b].kind
             /\ room(b).busy = c.buildings[b].busy /\ room(b).workers <= c.buildings[b].workers
  <2> DEFINE n == Minus(c.buildings[b].workers, less[b])
  <2>1. c.buildings[b] \in Building /\ c.buildings[b].workers \in Nat
    BY <1>1 DEF Building
  <2>2. n \in Nat /\ n <= c.buildings[b].workers
    BY <2>1, MinusBound
  <2> HIDE DEF n
  <2>3. [c.buildings[b] EXCEPT !.workers = n] \in Building
    BY <2>1, <2>2 DEF Building
  <2>4. [c.buildings[b] EXCEPT !.workers = n].workers = n /\ [c.buildings[b] EXCEPT !.workers = n].kind = c.buildings[b].kind
        /\ [c.buildings[b] EXCEPT !.workers = n].busy = c.buildings[b].busy
    BY <2>1 DEF Building
  <2> QED BY <2>2, <2>3, <2>4 DEF n
<1> HIDE DEF room
<1>3. B \in [DOMAIN c.buildings -> Building] /\ \A b \in DOMAIN c.buildings : B[b] = room(b)
  BY <1>2
<1> HIDE DEF B
<1>4. Good([c EXCEPT !.buildings = B])
  BY <1>2, <1>3, FewerHands
<1> QED BY <1>3, <1>4 DEF B, room, Taken

\* clamp_workers.
LEMMA ClampedGood == ASSUME NEW c, Good(c) PROVE Good(Clamped(c))
<1> DEFINE excess == Minus(TotalWorkers(c), Cardinality(c.people))
           after(b) == MapThenSumSet(LAMBDA d : c.buildings[d].workers, {d \in Standing(c) : d > b})
           less == [b \in DOMAIN c.buildings |-> Minus(excess, after(b))]
<1> HIDE DEF excess, after
<1>1. Clamped(c) = [c EXCEPT !.buildings = Taken(c, less)]
  BY DEF Clamped, Taken, Standing, excess, after
<1> HIDE DEF less
<1> QED BY <1>1, TakenGood

\* People leave, their slots with them.  Who is away, who leads and which bodies lie there may
\* change with it, as long as they are nobody who is gone.
LEMMA LeaveGood ==
  ASSUME NEW c, Good(c), NEW S \in SUBSET c.people, NEW L, NEW A, NEW C,
         L \in (c.people \ S) \cup {None},
         A \subseteq 1..(c.next - 1), A \cap (c.people \ S) = {},
         C \in [DOMAIN C -> Ids \cup {None}],
         DOMAIN c.corpses \subseteq DOMAIN C, DOMAIN C \subseteq 0..(c.next - 1),
         \A k \in DOMAIN c.corpses : C[k] = c.corpses[k]
  PROVE  Good([Leaving(c, S) EXCEPT !.leader = L, !.away = A, !.corpses = C])
<1> DEFINE P == c.people \ S
           J == [s \in P |-> c.job[s]]
           U == [s \in P |-> c.bury[s]]
           less == [b \in DOMAIN c.buildings |-> Cardinality(Named(c, b) \cap S)]
           B == Taken(c, less)
           d == [Leaving(c, S) EXCEPT !.leader = L, !.away = A, !.corpses = C]
           e == [c EXCEPT !.buildings = B]
<1>1. /\ Whole(c) /\ Fits(c) /\ c = [f \in Parts |-> c[f]]
      /\ c.job \in [c.people -> DOMAIN c.buildings \cup {None}]
      /\ c.bury \in [c.people -> DOMAIN c.corpses \cup {None}]
      /\ \A r \in c.people : c.bury[r] # None => c.corpses[c.bury[r]] = r
  BY DEF Good, Whole
<1>2. /\ J \in [P -> DOMAIN c.buildings \cup {None}] /\ U \in [P -> DOMAIN C \cup {None}]
  BY <1>1
<1>3. \A r \in P : U[r] # None => C[U[r]] = r
  BY <1>1
<1>4. Good(e) /\ B \in [DOMAIN c.buildings -> Building]
  <2> HIDE DEF less
  <2> QED BY TakenGood
<1>5. Leaving(c, S) = [Without(c, S) EXCEPT !.buildings = B]
  BY DEF Leaving, Taken, Standing
<1>6. Without(c, S) = [c EXCEPT !.people = P, !.job = J, !.bury = U]
  BY DEF Without
<1> HIDE DEF J, U, P, B, less
<1>7. d = [f \in Parts |-> d[f]] /\ d.buildings = B /\ d.job = J
        /\ d.people = P /\ d.bury = U /\ d.leader = L /\ d.corpses = C
        /\ d.away = A /\ d.lit = c.lit /\ d.next = c.next /\ d.lost = c.lost
  <2> DEFINE w == Without(c, S)
             l == Leaving(c, S)
  <2>1. w = [f \in Parts |-> w[f]] /\ w.job = J /\ w.people = P /\ w.bury = U /\ w.buildings = c.buildings
        /\ w.leader = c.leader /\ w.corpses = c.corpses /\ w.away = c.away /\ w.lit = c.lit
        /\ w.next = c.next /\ w.lost = c.lost
    BY <1>1, <1>6 DEF Parts
  <2> HIDE DEF w
  <2>2. l = [w EXCEPT !.buildings = B]
    BY <1>5 DEF w
  <2> HIDE DEF l
  <2>3. d = [l EXCEPT !.leader = L, !.away = A, !.corpses = C]
    BY DEF l
  <2> HIDE DEF d
  <2>4. l = [f \in Parts |-> l[f]] /\ l.job = J /\ l.people = P /\ l.bury = U /\ l.buildings = B
        /\ l.leader = c.leader /\ l.corpses = c.corpses /\ l.away = c.away /\ l.lit = c.lit
        /\ l.next = c.next /\ l.lost = c.lost
    BY <2>1, <2>2 DEF Parts
  <2> QED BY <2>3, <2>4 DEF Parts
<1>8. e.buildings = B
  BY <1>1 DEF Parts
<1> HIDE DEF d, e
<1>9. DOMAIN B = DOMAIN c.buildings /\ B[0].kind = Furnace /\ 0 \in DOMAIN B
  BY <1>4, <1>8 DEF Good, Whole
<1>10. d.people \cup d.away \cup DOMAIN d.buildings \cup DOMAIN d.corpses \subseteq 0..(d.next - 1)
  <2>1. c.next \in Nat /\ c.people \cup DOMAIN c.buildings \subseteq 0..(c.next - 1)
    BY <1>1 DEF Whole
  <2>2. A \subseteq 0..(c.next - 1)
    BY <2>1
  <2> QED BY <1>7, <1>9, <2>1, <2>2 DEF P
<1>11. 0 \notin d.people \cup d.away /\ d.people \cap d.away = {}
  <2>1. 0 \notin c.people /\ 0 \notin A
    BY <1>1 DEF Whole
  <2> QED BY <1>7, <2>1 DEF P
<1>12. d.leader \in d.people \cup {None}
  BY <1>7 DEF P
<1>13. Whole(d)
  BY <1>1, <1>2, <1>3, <1>4, <1>7, <1>9, <1>10, <1>11, <1>12 DEF Whole
<1>14. Fits(d)
  BY <1>4, <1>7, <1>8 DEF Good, Fits
<1> QED BY <1>13, <1>14 DEF Good, d

\* The seat is empty, or somebody who has not left sits on it.
LEMMA SeatFilled ==
  ASSUME NEW c, Good(c), NEW S \in SUBSET c.people PROVE SeatOf(c, S) \in (c.people \ S) \cup {None}
BY DEF Good, Whole, SeatOf

\* An expedition sets out.
LEMMA LaunchGood == ASSUME Good(colony), NEW S \in SUBSET colony.people, LaunchExpedition(S) PROVE Good(colony')
<1> DEFINE l == Leaving(colony, S)
           L == SeatOf(colony, S)
           C == colony.corpses
<1>1. /\ Whole(colony) /\ colony = [f \in Parts |-> colony[f]] /\ colony.next \in Nat
      /\ colony.people \cup DOMAIN C \subseteq 0..(colony.next - 1) /\ 0 \notin colony.people
      /\ C \in [DOMAIN C -> Ids \cup {None}]
  BY DEF Good, Whole
<1>2. S \subseteq 1..(colony.next - 1) /\ S \cap (colony.people \ S) = {}
  BY <1>1
<1>3. l = [f \in Parts |-> l[f]] /\ l.corpses = C
  BY <1>1 DEF Leaving, Without, Parts
<1>4. colony' = [l EXCEPT !.leader = L, !.away = S]
  BY DEF LaunchExpedition, Becomes
<1>5. L \in (colony.people \ S) \cup {None}
  BY SeatFilled
<1> HIDE DEF L, C
<1>6. Good([l EXCEPT !.leader = L, !.away = S, !.corpses = C])
  BY <1>1, <1>2, <1>5, LeaveGood DEF C
<1> HIDE DEF l
<1>7. colony' = [l EXCEPT !.leader = L, !.away = S, !.corpses = C]
  BY <1>3, <1>4 DEF Parts
<1> QED BY <1>6, <1>7

\* Migrants leave through the Tunnel.
LEMMA ExtractGood ==
  ASSUME Good(colony), NEW max \in 1..MaxPopulation, ExtractMigrants(max) PROVE Good(colony')
<1>1. PICK S \in SUBSET colony.people : colony' = [Leaving(colony, S) EXCEPT !.leader = SeatOf(colony, S)]
  BY DEF ExtractMigrants, Becomes
<1> DEFINE l == Leaving(colony, S)
           L == SeatOf(colony, S)
           C == colony.corpses
           A == colony.away
<1>2. /\ Whole(colony) /\ colony = [f \in Parts |-> colony[f]] /\ colony.next \in Nat
      /\ A \subseteq 0..(colony.next - 1) /\ 0 \notin A /\ colony.people \cap A = {}
      /\ DOMAIN C \subseteq 0..(colony.next - 1) /\ C \in [DOMAIN C -> Ids \cup {None}]
  BY DEF Good, Whole
<1>3. A \subseteq 1..(colony.next - 1) /\ A \cap (colony.people \ S) = {}
  BY <1>2
<1>4. l = [f \in Parts |-> l[f]] /\ l.corpses = C /\ l.away = A
  BY <1>2 DEF Leaving, Without, Parts
<1>5. L \in (colony.people \ S) \cup {None}
  BY SeatFilled
<1> HIDE DEF L, C, A
<1>6. Good([l EXCEPT !.leader = L, !.away = A, !.corpses = C])
  BY <1>2, <1>3, <1>5, LeaveGood DEF C
<1>7. colony' = [l EXCEPT !.leader = L]
  BY <1>1 DEF L
<1> HIDE DEF l
<1>8. colony' = [l EXCEPT !.leader = L, !.away = A, !.corpses = C]
  BY <1>4, <1>7 DEF Parts
<1> QED BY <1>6, <1>8

\* The dead leave a body each, which nobody has claimed.
LEMMA DeadGood == ASSUME NEW c, Good(c), NEW D \in SUBSET c.people PROVE Good(Dead(c, D))
<1> DEFINE l == Leaving(c, D)
           L == SeatOf(c, D)
           A == c.away
           C == [k \in DOMAIN c.corpses \cup D |-> IF k \in DOMAIN c.corpses THEN c.corpses[k] ELSE None]
           d == [l EXCEPT !.leader = L, !.corpses = C]
<1>1. /\ Whole(c) /\ c = [f \in Parts |-> c[f]] /\ c.next \in Nat
      /\ A \subseteq 0..(c.next - 1) /\ 0 \notin A /\ c.people \cap A = {}
      /\ c.people \cup DOMAIN c.corpses \subseteq 0..(c.next - 1)
      /\ c.corpses \in [DOMAIN c.corpses -> Ids \cup {None}]
  BY DEF Good, Whole
<1>2. A \subseteq 1..(c.next - 1) /\ A \cap (c.people \ D) = {}
  <2> HIDE DEF A, C, L, l, d
  <2> QED BY <1>1
<1>3. /\ DOMAIN C = DOMAIN c.corpses \cup D /\ C \in [DOMAIN C -> Ids \cup {None}]
      /\ \A k \in DOMAIN c.corpses : C[k] = c.corpses[k]
  BY <1>1
<1>4. DOMAIN c.corpses \subseteq DOMAIN C /\ DOMAIN C \subseteq 0..(c.next - 1)
  BY <1>1, <1>3
<1>5. l = [f \in Parts |-> l[f]] /\ l.corpses = c.corpses /\ l.away = A
  BY <1>1 DEF Leaving, Without, Parts
<1>6. L \in (c.people \ D) \cup {None}
  BY SeatFilled
<1>7. Dead(c, D) = IF D = {} THEN c ELSE Clamped(d)
  BY <1>5 DEF Dead
<1> HIDE DEF L, C, A
<1>8. Good([l EXCEPT !.leader = L, !.away = A, !.corpses = C])
  BY <1>2, <1>3, <1>4, <1>6, LeaveGood
<1> HIDE DEF l
<1>9. d = [l EXCEPT !.leader = L, !.away = A, !.corpses = C]
  BY <1>5 DEF Parts
<1> HIDE DEF d
<1> QED BY <1>7, <1>8, <1>9, ClampedGood

\* The whole tick, in its order.
LEMMA TickGood == ASSUME Good(colony), Tick PROVE Good(colony')
<1>1. PICK built \in Built(colony) : \E buried \in Buried(built) :
        \E D \in AtMost(buried.people, PerTick) : \E decayed \in Decayed(buried) :
        \E arrived \in Arrived(Dead(decayed, D)) : \E returned \in Returned(arrived) :
          colony' = Judged(returned)
  BY DEF Tick, Becomes
<1>2. PICK buried \in Buried(built) :
        \E D \in AtMost(buried.people, PerTick) : \E decayed \in Decayed(buried) :
        \E arrived \in Arrived(Dead(decayed, D)) : \E returned \in Returned(arrived) :
          colony' = Judged(returned)
  BY <1>1
<1>3. PICK D \in AtMost(buried.people, PerTick) : \E decayed \in Decayed(buried) :
        \E arrived \in Arrived(Dead(decayed, D)) : \E returned \in Returned(arrived) :
          colony' = Judged(returned)
  BY <1>2
<1>4. PICK decayed \in Decayed(buried) :
        \E arrived \in Arrived(Dead(decayed, D)) : \E returned \in Returned(arrived) :
          colony' = Judged(returned)
  BY <1>3
<1>5. PICK arrived \in Arrived(Dead(decayed, D)) :
        \E returned \in Returned(arrived) : colony' = Judged(returned)
  BY <1>4
<1>6. PICK returned \in Returned(arrived) : colony' = Judged(returned)
  BY <1>5
<1>7. Good(built) /\ Good(buried)
  BY <1>1, <1>2, BuiltGood, BuriedGood
<1>8. Good(decayed) /\ decayed.people = buried.people
  <2>1. PICK K : decayed = Graves(buried, K)
    BY <1>4 DEF Decayed
  <2>2. buried = [f \in Parts |-> buried[f]]
    BY <1>7 DEF Good, Whole
  <2> QED BY <1>7, <2>1, <2>2, GravesGood DEF Graves, Parts
<1>9. Good(Dead(decayed, D))
  BY <1>3, <1>8, DeadGood DEF AtMost
<1>10. Good(returned)
  BY <1>6, <1>9, <1>5, ArrivedGood, ReturnedGood
<1>11. Nobody(returned) \in BOOLEAN
  BY DEF Nobody
<1> QED BY <1>6, <1>10, <1>11, FlagsGood DEF Judged

-----------------------------------------------------------------------------
ColonyInv == Good(colony)

\* However the commands, the Tunnel's messages and the ticks are mixed, the colony stays whole and
\* no building counts more than it may: the invariant the two below are read off.
THEOREM ColonyInductive == Spec => []ColonyInv
<1>1. Init => ColonyInv
  <2> SUFFICES Good(Start)
    BY DEF Init, ColonyInv
  <2>1. Fits(Start)
    <3>1. Start.buildings = [b \in {0} |-> [kind |-> Furnace, busy |-> TRUE, workers |-> 0]]
      BY DEF Start
    <3> DEFINE room == [kind |-> Furnace, busy |-> TRUE, workers |-> 0]
    <3>2. room \in Building /\ room.workers = 0
      BY DEF Building
    <3> HIDE DEF room
    <3>3. 0 <= Most(room)
      BY <3>2, MostIs
    <3> QED BY <3>1, <3>2, <3>3 DEF Fits, room
  <2> QED BY <2>1, ColonyStarts DEF Good
<1>2. ColonyInv /\ [Next]_colony => ColonyInv'
  <2> SUFFICES ASSUME Good(colony), [Next]_colony PROVE Good(colony')
    BY DEF ColonyInv
  <2>1. CASE \E kind \in Kinds : Place(kind)
    BY <2>1, PlaceGood
  <2>2. CASE \E b \in Standing(colony) :
               \/ Demolish(b) \/ Rebuild(b)
               \/ \E up \in BOOLEAN : AdjustWorkers(b, up)
               \/ \E s \in colony.people : AssignSurvivor(s, b)
    BY <2>2, DemolishGood, RebuildGood, AdjustGood, AssignGood
  <2>3. CASE \E s \in colony.people :
               \/ Redirect(s) \/ ClearSnow(s) \/ SetLeader(s)
               \/ \E k \in DOMAIN colony.corpses : Bury(s, k)
    BY <2>3, RedirectGood, ClearSnowGood, SetLeaderGood, BuryGood
  <2>4. CASE RespondEvent \/ InjectReturnees
    <3>1. PICK n \in Welcome(colony) : colony' = Newcomers(colony, n)
      BY <2>4 DEF RespondEvent, InjectReturnees, Becomes
    <3> QED BY <3>1, WelcomeFew, NewcomersGood
  <2>5. CASE \E S \in SUBSET colony.people : LaunchExpedition(S)
    BY <2>5, LaunchGood
  <2>6. CASE \E max \in 1..MaxPopulation : ExtractMigrants(max)
    BY <2>6, ExtractGood
  <2>7. CASE Tick
    BY <2>7, TickGood
  <2>8. CASE UNCHANGED colony
    BY <2>8
  <2> QED BY <2>1, <2>2, <2>3, <2>4, <2>5, <2>6, <2>7, <2>8 DEF Next
<1> QED BY <1>1, <1>2, PTL DEF Spec

\* Every job, claim and leader is of somebody or something that is there.
THEOREM NamesAlwaysResolve == Spec => []NamesResolve
<1>1. ColonyInv => NamesResolve
  BY WholeNames DEF Good, ColonyInv
<1> QED BY <1>1, ColonyInductive, PTL

\* No building counts more workers than it employs, or than its crew may be.
THEOREM CrewsAlwaysFit == Spec => []CrewsFit
<1>1. ColonyInv => CrewsFit
  BY DEF ColonyInv, Good, Fits, Most, CrewsFit, Headcount, FullStaff, Standing
<1> QED BY <1>1, ColonyInductive, PTL

-----------------------------------------------------------------------------
(* THE GLOBAL WORLD.  A room counts exactly the settlers whose post it is, *)
(* and what an account has placed only it can raise, fit out, take down or *)
(* put back to work.  The first needs ids given once, to settlers and      *)
(* rooms alike, and every post a room that stands; with those it is        *)
(* inductive.  The second is about each step, whatever the state before.   *)

Settler == [owner : Accounts, post : Nat \cup {NoOne}]
Room    == [account : Accounts \cup {NoOne}, session : Nat \cup {NoOne}, workers : Nat, level : Nat,
            busy : BOOLEAN, fitted : BOOLEAN]

\* Ids are given once, to settlers and rooms alike, and a post is a room that stands.
Roll(settlers, rooms, next) ==
  /\ settlers \in [DOMAIN settlers -> Settler] /\ IsFiniteSet(DOMAIN settlers)
  /\ rooms \in [DOMAIN rooms -> Room] /\ Fire \in DOMAIN rooms
  /\ next \in Nat /\ \A x \in DOMAIN settlers \cup DOMAIN rooms : x \in Nat /\ x < next
  /\ \A s \in DOMAIN settlers : settlers[s].post \in DOMAIN rooms \cup {NoOne}

Posted(settlers, b) == {s \in DOMAIN settlers : settlers[s].post = b}
Counted(settlers, rooms) == \A b \in DOMAIN rooms : rooms[b].workers = Cardinality(Posted(settlers, b))

Fields == {"settlers", "rooms", "players", "wood", "lit", "logs", "next"}

\* Who is connected, by the number of the connection.
Roster == UNION {[D -> Accounts] : D \in SUBSET Nat}

Sound(h) ==
  /\ h = [f \in Fields |-> h[f]]
  /\ h.players \in Roster
  /\ Roll(h.settlers, h.rooms, h.next) /\ Counted(h.settlers, h.rooms)

\* new_game_central is sound.
LEMMA HubStarts == CommuneInit => Sound(hub)
<1> SUFFICES ASSUME CommuneInit PROVE Sound(hub)
  OBVIOUS
<1>1. NoOne \notin Nat /\ Fire \in Nat /\ Relic \in Nat /\ Fire # Relic
  BY CommuneAssumption DEF Fire, Relic
<1>2. /\ hub = [f \in Fields |-> hub[f]]
      /\ hub.settlers = [s \in {} |-> NoOne] /\ hub.players = [s \in {} |-> NoOne] /\ hub.next = 2
      /\ DOMAIN hub.rooms = {Fire, Relic}
      /\ \A b \in {Fire, Relic} : hub.rooms[b] \in Room /\ hub.rooms[b].workers = 0
      /\ hub.rooms = [b \in DOMAIN hub.rooms |-> hub.rooms[b]]
  BY <1>1 DEF CommuneInit, Fields, Room, Fire, Relic
<1>3. Posted(hub.settlers, Fire) = {} /\ Posted(hub.settlers, Relic) = {} /\ DOMAIN hub.settlers = {}
  BY <1>2 DEF Posted
<1>4. Counted(hub.settlers, hub.rooms)
  BY <1>2, <1>3, FS_EmptySet DEF Counted
<1>5. Roll(hub.settlers, hub.rooms, hub.next)
  <2>1. hub.settlers \in [DOMAIN hub.settlers -> Settler] /\ IsFiniteSet(DOMAIN hub.settlers)
    BY <1>2, <1>3, FS_EmptySet
  <2>2. hub.rooms \in [DOMAIN hub.rooms -> Room]
    BY <1>2
  <2>3. \A x \in DOMAIN hub.settlers \cup DOMAIN hub.rooms : x \in Nat /\ x < hub.next
    <3>1. DOMAIN hub.settlers \cup DOMAIN hub.rooms = {0, 1} /\ hub.next = 2
      BY <1>2, <1>3 DEF Fire, Relic
    <3> QED BY <3>1
  <2>4. Fire \in DOMAIN hub.rooms
    BY <1>2
  <2>5. hub.next \in Nat
    BY <1>2
  <2>6. \A s \in DOMAIN hub.settlers : hub.settlers[s].post \in DOMAIN hub.rooms \cup {NoOne}
    BY <1>3
  <2> QED BY <2>1, <2>2, <2>3, <2>4, <2>5, <2>6 DEF Roll
<1>6. hub.players \in Roster
  <2>1. hub.players \in [{} -> Accounts] /\ {} \in SUBSET Nat
    BY <1>2
  <2> QED BY <2>1 DEF Roster
<1> QED BY <1>2, <1>4, <1>5, <1>6 DEF Sound

\* From h to g settler s gives up his post, and nothing else changes but a headcount.
GivenUp(h, g, s) ==
  /\ g.settlers[s].post = NoOne
  /\ DOMAIN g.settlers = DOMAIN h.settlers /\ DOMAIN g.rooms = DOMAIN h.rooms
  /\ g.next = h.next /\ g.players = h.players
  /\ \A r \in DOMAIN h.settlers : g.settlers[r].owner = h.settlers[r].owner
  /\ \A r \in DOMAIN h.settlers \ {s} : g.settlers[r] = h.settlers[r]
  /\ \A b \in DOMAIN h.rooms :
       /\ g.rooms[b].level = h.rooms[b].level /\ g.rooms[b].fitted = h.rooms[b].fitted
       /\ g.rooms[b].busy = h.rooms[b].busy /\ g.rooms[b].account = h.rooms[b].account

\* A post given up is a headcount less.
LEMMA PostGiven ==
  ASSUME NEW h, Sound(h), NEW s \in DOMAIN h.settlers
  PROVE  Sound(OffPost(h, s)) /\ GivenUp(h, OffPost(h, s), s)
<1> DEFINE g == OffPost(h, s)
           b0 == h.settlers[s].post
<1>1. /\ g = [f \in Fields |-> g[f]]
      /\ g.settlers = [h.settlers EXCEPT ![s].post = NoOne]
      /\ g.rooms = [r \in DOMAIN h.rooms |->
                      IF r = b0 THEN [h.rooms[r] EXCEPT !.workers = Less(h.rooms[r].workers)] ELSE h.rooms[r]]
      /\ g.players = h.players /\ g.next = h.next
  <2>1. h = [f \in Fields |-> h[f]]
    BY DEF Sound
  <2>2. g = [f \in Fields |-> IF f = "settlers" THEN [h.settlers EXCEPT ![s].post = NoOne]
                              ELSE IF f = "rooms" THEN [r \in DOMAIN h.rooms |->
                      IF r = b0 THEN [h.rooms[r] EXCEPT !.workers = Less(h.rooms[r].workers)] ELSE h.rooms[r]]
                              ELSE h[f]]
    BY <2>1 DEF Fields, OffPost
  <2> QED BY <2>2 DEF Fields
<1> HIDE DEF g
<1>2. /\ NoOne \notin Nat /\ Roll(h.settlers, h.rooms, h.next) /\ Counted(h.settlers, h.rooms)
      /\ h.players \in Roster
      /\ \A r \in DOMAIN h.settlers : h.settlers[r] \in Settler
      /\ \A b \in DOMAIN h.rooms : h.rooms[b] \in Room
      /\ IsFiniteSet(DOMAIN h.settlers)
  BY CommuneAssumption DEF Sound, Roll
<1>3. /\ DOMAIN g.settlers = DOMAIN h.settlers
      /\ g.settlers[s].post = NoOne
      /\ \A r \in DOMAIN h.settlers : g.settlers[r] \in Settler /\ g.settlers[r].owner = h.settlers[r].owner
      /\ \A r \in DOMAIN h.settlers \ {s} : g.settlers[r] = h.settlers[r]
      /\ g.settlers \in [DOMAIN h.settlers -> Settler]
  <2>1. h.settlers \in [DOMAIN h.settlers -> Settler]
    BY <1>2 DEF Roll
  <2>2. [h.settlers[s] EXCEPT !.post = NoOne] \in Settler
    BY <2>1 DEF Settler
  <2>3. g.settlers = [h.settlers EXCEPT ![s] = [h.settlers[s] EXCEPT !.post = NoOne]]
    BY <1>1
  <2>4. [h.settlers[s] EXCEPT !.post = NoOne].post = NoOne
        /\ [h.settlers[s] EXCEPT !.post = NoOne].owner = h.settlers[s].owner
    BY <2>1 DEF Settler
  <2> DEFINE x == [h.settlers[s] EXCEPT !.post = NoOne]
  <2> HIDE DEF x
  <2> QED BY <2>1, <2>2, <2>3, <2>4
<1>4. /\ DOMAIN g.rooms = DOMAIN h.rooms
      /\ \A b \in DOMAIN h.rooms :
           /\ g.rooms[b] \in Room
           /\ g.rooms[b].level = h.rooms[b].level /\ g.rooms[b].fitted = h.rooms[b].fitted
           /\ g.rooms[b].busy = h.rooms[b].busy /\ g.rooms[b].account = h.rooms[b].account
           /\ g.rooms[b].workers = IF b = b0 THEN Less(h.rooms[b].workers) ELSE h.rooms[b].workers
  BY <1>1, <1>2 DEF Room, Less
<1>5. Roll(g.settlers, g.rooms, g.next)
  BY <1>1, <1>2, <1>3, <1>4 DEF Roll
<1>6. Counted(g.settlers, g.rooms)
  <2> SUFFICES ASSUME NEW b \in DOMAIN h.rooms PROVE g.rooms[b].workers = Cardinality(Posted(g.settlers, b))
    BY <1>4 DEF Counted
  <2>1. b \in Nat /\ h.rooms[b].workers = Cardinality(Posted(h.settlers, b)) /\ IsFiniteSet(Posted(h.settlers, b))
    <3>1. Posted(h.settlers, b) \subseteq DOMAIN h.settlers
      BY DEF Posted
    <3> QED BY <1>2, <3>1, FS_Subset DEF Roll, Counted
  <2>2. CASE b = b0
    <3>1. s \in Posted(h.settlers, b) /\ Posted(g.settlers, b) = Posted(h.settlers, b) \ {s}
      BY <1>2, <1>3, <2>1, <2>2 DEF Posted
    <3>2. Cardinality(Posted(g.settlers, b)) = Cardinality(Posted(h.settlers, b)) - 1
          /\ Cardinality(Posted(h.settlers, b)) \in Nat /\ Cardinality(Posted(h.settlers, b)) # 0
      BY <2>1, <3>1, FS_RemoveElement, FS_CardinalityType, FS_EmptySet
    <3> QED BY <1>4, <2>1, <2>2, <3>2 DEF Less
  <2>3. CASE b # b0
    <3>1. Posted(g.settlers, b) = Posted(h.settlers, b)
      BY <1>2, <1>3, <2>1, <2>3 DEF Posted
    <3> QED BY <1>4, <2>1, <2>3, <3>1
  <2> QED BY <2>2, <2>3
<1>7. Sound(g)
  BY <1>1, <1>2, <1>5, <1>6 DEF Sound
<1> QED BY <1>1, <1>3, <1>4, <1>7 DEF g, GivenUp

\* A step that leaves every post and every headcount alone.
LEMMA WorkUntouched ==
  ASSUME NEW h, Sound(h), NEW g, g = [f \in Fields |-> g[f]],
         g.players \in Roster,
         g.settlers = h.settlers, g.next = h.next,
         g.rooms \in [DOMAIN h.rooms -> Room],
         \A b \in DOMAIN h.rooms : g.rooms[b].workers = h.rooms[b].workers
  PROVE  Sound(g)
<1>1. Roll(h.settlers, h.rooms, h.next) /\ Counted(h.settlers, h.rooms)
  BY DEF Sound
<1>2. DOMAIN g.rooms = DOMAIN h.rooms
  OBVIOUS
<1>3. Roll(g.settlers, g.rooms, g.next)
  BY <1>1, <1>2 DEF Roll
<1>4. Counted(g.settlers, g.rooms)
  BY <1>1, <1>2 DEF Counted
<1> QED BY <1>3, <1>4 DEF Sound

\* Who is connected has nothing to do with the rest.
LEMMA ComeAndGo ==
  ASSUME Sound(hub), nextSession \in Nat, NEW a, NEW p,
         (a \in Accounts /\ JoinCommune(a)) \/ LeaveCommune(p) \/ RestartServer
  PROVE  Sound(hub') /\ nextSession' \in Nat
<1>1. hub = [f \in Fields |-> hub[f]] /\ hub.players \in Roster
      /\ hub.rooms \in [DOMAIN hub.rooms -> Room]
  BY DEF Sound, Roll
<1>2. PICK D \in SUBSET Nat : hub.players \in [D -> Accounts]
  BY <1>1 DEF Roster
<1>3. PICK P : hub' = [hub EXCEPT !.players = P] /\ P \in Roster
  <2>1. CASE a \in Accounts /\ JoinCommune(a)
    <3> DEFINE P == WithKey(hub.players, nextSession, a)
    <3>1. hub' = [hub EXCEPT !.players = P]
      BY <2>1 DEF JoinCommune
    <3>2. P \in [D \cup {nextSession} -> Accounts] /\ D \cup {nextSession} \in SUBSET Nat
      BY <1>2, <2>1 DEF WithKey
    <3>3. P \in Roster
      BY <3>2 DEF Roster
    <3> HIDE DEF P
    <3> QED BY <3>1, <3>3
  <2>2. CASE LeaveCommune(p)
    <3> DEFINE P == Keeping(hub.players, D \ {p})
    <3>1. hub' = [hub EXCEPT !.players = P]
      BY <1>2, <2>2 DEF LeaveCommune, HubBecomes
    <3>2. P \in [D \ {p} -> Accounts] /\ D \ {p} \in SUBSET Nat
      BY <1>2 DEF Keeping
    <3>3. P \in Roster
      BY <3>2 DEF Roster
    <3> HIDE DEF P
    <3> QED BY <3>1, <3>3
  <2>3. CASE RestartServer
    <3> DEFINE P == Keeping(hub.players, {})
    <3>1. hub' = [hub EXCEPT !.players = P]
      BY <2>3 DEF RestartServer
    <3>2. P \in [{} -> Accounts] /\ {} \in SUBSET Nat
      BY DEF Keeping
    <3>3. P \in Roster
      BY <3>2 DEF Roster
    <3> HIDE DEF P
    <3> QED BY <3>1, <3>3
  <2> QED BY <2>1, <2>2, <2>3
<1>4. /\ hub' = [f \in Fields |-> hub'[f]] /\ hub'.players = P
      /\ hub'.settlers = hub.settlers /\ hub'.next = hub.next /\ hub'.rooms = hub.rooms
  BY <1>1, <1>3 DEF Fields
<1>5. nextSession' \in Nat
  BY DEF JoinCommune, LeaveCommune, RestartServer, HubBecomes
<1> QED BY <1>1, <1>3, <1>4, <1>5, WorkUntouched

\* From h to g rooms may change, but nobody's post and no headcount.
SameWork(h, g) ==
  /\ g = [f \in Fields |-> g[f]] /\ g.players = h.players /\ g.settlers = h.settlers /\ g.next = h.next
  /\ g.rooms \in [DOMAIN h.rooms -> Room]
  /\ \A b \in DOMAIN h.rooms : g.rooms[b].workers = h.rooms[b].workers

\* A room is a site again, with the workers it had.
LEMMA SiteAgain ==
  ASSUME NEW h, h = [f \in Fields |-> h[f]], NEW b \in DOMAIN h.rooms, h.rooms \in [DOMAIN h.rooms -> Room]
  PROVE  SameWork(h, Reopened(h, b))
<1> DEFINE g == Reopened(h, b)
           x == h.rooms[b].workers + Called(b)
           old == h.rooms[b]
<1>1. old \in Room /\ x = old.workers
  BY DEF Room, Called
<1>2. g = [h EXCEPT !.rooms[b].busy = TRUE, !.rooms[b].workers = x]
  BY DEF Reopened
<1> HIDE DEF x, g
<1>3. /\ g = [f \in Fields |-> g[f]] /\ g.players = h.players /\ g.settlers = h.settlers /\ g.next = h.next
      /\ g.rooms = [h.rooms EXCEPT ![b].busy = TRUE, ![b].workers = x]
  BY <1>2 DEF Fields
<1>4. g.rooms = [h.rooms EXCEPT ![b] = [old EXCEPT !.busy = TRUE, !.workers = x]]
  BY <1>1, <1>3 DEF Room
<1>5. [old EXCEPT !.busy = TRUE, !.workers = x] \in Room
      /\ [old EXCEPT !.busy = TRUE, !.workers = x].workers = old.workers
  BY <1>1 DEF Room
<1> DEFINE room == [old EXCEPT !.busy = TRUE, !.workers = x]
<1> HIDE DEF room
<1>6. g.rooms = [h.rooms EXCEPT ![b] = room] /\ room \in Room /\ room.workers = old.workers
  BY <1>4, <1>5 DEF room
<1>7. g.rooms \in [DOMAIN h.rooms -> Room] /\ \A c \in DOMAIN h.rooms : g.rooms[c].workers = h.rooms[c].workers
  BY <1>6
<1> QED BY <1>3, <1>7 DEF g, SameWork

\* Raised, fitted, moved, worked: a room changes and nobody's post does.
LEMMA RoomsChange ==
  ASSUME Sound(hub), NEW b \in Rooms, NEW p,
         UpgradeRoom(p, b) \/ FitRoom(p, b) \/ MoveRoom(p, b) \/ WorkRoom(b)
  PROVE  Sound(hub')
<1>1. /\ hub = [f \in Fields |-> hub[f]] /\ hub.players \in Roster
      /\ hub.rooms \in [Rooms -> Room] /\ hub.rooms[b] \in Room /\ Rooms = DOMAIN hub.rooms
  BY DEF Sound, Roll, Rooms
<1>2. SameWork(hub, hub')
  <2>1. CASE UpgradeRoom(p, b)
    <3> DEFINE n   == hub.rooms[b].level + 1
               up  == [hub.rooms[b] EXCEPT !.level = n, !.fitted = FALSE]
               mid == [hub EXCEPT !.wood = @ - RaiseCost, !.rooms[b].level = @ + 1, !.rooms[b].fitted = FALSE]
    <3>1. n \in Nat
      BY <1>1 DEF Room
    <3>2. mid = [hub EXCEPT !.wood = hub.wood - RaiseCost, !.rooms[b].level = n, !.rooms[b].fitted = FALSE]
      BY <1>1 DEF Fields
    <3>3. hub' = Reopened(mid, b)
      BY <2>1 DEF UpgradeRoom, HubBecomes
    <3> HIDE DEF n, mid
    <3>4. up \in Room /\ up.workers = hub.rooms[b].workers
      BY <1>1, <3>1 DEF Room
    <3>5. /\ mid = [f \in Fields |-> mid[f]] /\ mid.players = hub.players /\ mid.settlers = hub.settlers
          /\ mid.next = hub.next /\ mid.rooms = [hub.rooms EXCEPT ![b].level = n, ![b].fitted = FALSE]
      BY <1>1, <3>2 DEF Fields
    <3>6. mid.rooms = [hub.rooms EXCEPT ![b] = up]
      BY <1>1, <3>5 DEF Room
    <3> HIDE DEF up
    <3>7. mid.rooms \in [Rooms -> Room] /\ \A c \in Rooms : mid.rooms[c].workers = hub.rooms[c].workers
      BY <1>1, <3>4, <3>6
    <3>8. DOMAIN mid.rooms = Rooms /\ b \in DOMAIN mid.rooms
      BY <3>7
    <3>9. SameWork(mid, Reopened(mid, b))
      BY <3>5, <3>7, <3>8, SiteAgain
    <3> QED BY <1>1, <3>3, <3>5, <3>7, <3>8, <3>9 DEF SameWork
  <2>2. CASE FitRoom(p, b)
    <3> DEFINE room == [hub.rooms[b] EXCEPT !.fitted = TRUE]
    <3>1. hub' = [hub EXCEPT !.wood = hub.wood - FitCost, !.rooms = [@ EXCEPT ![b] = room]]
      BY <1>1, <2>2 DEF FitRoom, HubBecomes, Fields, Room
    <3>2. room \in Room /\ room.workers = hub.rooms[b].workers
      BY <1>1 DEF Room
    <3> HIDE DEF room
    <3>3. hub' = [f \in Fields |-> hub'[f]] /\ hub'.players = hub.players /\ hub'.settlers = hub.settlers
          /\ hub'.next = hub.next /\ hub'.rooms = [hub.rooms EXCEPT ![b] = room]
      BY <1>1, <3>1 DEF Fields
    <3> QED BY <1>1, <3>2, <3>3 DEF SameWork
  <2>3. CASE MoveRoom(p, b)
    BY <1>1, <2>3, SiteAgain DEF MoveRoom, HubBecomes
  <2>4. CASE WorkRoom(b)
    BY <1>1, <2>4 DEF WorkRoom, HubBecomes, Fields, SameWork
  <2> QED BY <2>1, <2>2, <2>3, <2>4
<1> QED BY <1>1, <1>2, WorkUntouched DEF SameWork

\* What is sound of a hub, taken apart.
LEMMA SoundParts ==
  ASSUME NEW h, Sound(h)
  PROVE  /\ h = [f \in Fields |-> h[f]] /\ h.players \in Roster
         /\ h.settlers \in [DOMAIN h.settlers -> Settler] /\ IsFiniteSet(DOMAIN h.settlers)
         /\ h.rooms \in [DOMAIN h.rooms -> Room] /\ Fire \in DOMAIN h.rooms
         /\ h.next \in Nat /\ (\A x \in DOMAIN h.settlers \cup DOMAIN h.rooms : x \in Nat /\ x < h.next)
         /\ \A s \in DOMAIN h.settlers : h.settlers[s].post \in DOMAIN h.rooms \cup {NoOne}
         /\ \A b \in DOMAIN h.rooms :
              /\ h.rooms[b].workers = Cardinality(Posted(h.settlers, b))
              /\ IsFiniteSet(Posted(h.settlers, b)) /\ Posted(h.settlers, b) \subseteq DOMAIN h.settlers
              /\ Cardinality(Posted(h.settlers, b)) \in Nat
<1>1. Roll(h.settlers, h.rooms, h.next) /\ Counted(h.settlers, h.rooms)
  BY DEF Sound
<1>2. IsFiniteSet(DOMAIN h.settlers)
  BY <1>1 DEF Roll
<1>3. \A b \in DOMAIN h.rooms :
        /\ IsFiniteSet(Posted(h.settlers, b)) /\ Posted(h.settlers, b) \subseteq DOMAIN h.settlers
        /\ Cardinality(Posted(h.settlers, b)) \in Nat
  <2> TAKE b \in DOMAIN h.rooms
  <2>1. Posted(h.settlers, b) \subseteq DOMAIN h.settlers
    BY DEF Posted
  <2> QED BY <1>2, <2>1, FS_Subset, FS_CardinalityType
<1> QED BY <1>1, <1>3 DEF Sound, Roll, Counted

\* Ids below the next one stay below it, and it is none of them.
LEMMA NextId ==
  ASSUME NEW S, NEW k \in Nat, \A x \in S : x \in Nat /\ x < k
  PROVE  /\ k \notin S /\ k + 1 \in Nat /\ \A x \in S \cup {k} : x \in Nat /\ x < k + 1
<1>1. \A x \in S : x \in Nat /\ x < k + 1
  OBVIOUS
<1>2. k < k + 1 /\ ~(k < k)
  OBVIOUS
<1> QED BY <1>1, <1>2

\* A migrant settles, under a new id and with no post.
LEMMA SettlersCome ==
  ASSUME Sound(hub), NEW a \in Accounts, Settle(a)
  PROVE  Sound(hub')
<1> DEFINE h == hub
           k == hub.next
           new == [owner |-> a, post |-> NoOne]
<1>1. /\ h = [f \in Fields |-> h[f]] /\ h.players \in Roster
      /\ h.settlers \in [DOMAIN h.settlers -> Settler] /\ IsFiniteSet(DOMAIN h.settlers)
      /\ h.rooms \in [DOMAIN h.rooms -> Room] /\ Fire \in DOMAIN h.rooms
      /\ h.next \in Nat /\ (\A x \in DOMAIN h.settlers \cup DOMAIN h.rooms : x \in Nat /\ x < h.next)
      /\ \A s \in DOMAIN h.settlers : h.settlers[s].post \in DOMAIN h.rooms \cup {NoOne}
      /\ \A b \in DOMAIN h.rooms : h.rooms[b].workers = Cardinality(Posted(h.settlers, b))
  BY SoundParts
<1>2. hub' = [h EXCEPT !.settlers = WithKey(@, k, new), !.next = @ + 1]
  BY DEF Settle, HubBecomes
<1>3. /\ hub' = [f \in Fields |-> hub'[f]] /\ hub'.players = h.players /\ hub'.rooms = h.rooms
      /\ hub'.settlers = WithKey(h.settlers, k, new) /\ hub'.next = k + 1
  BY <1>1, <1>2 DEF Fields
<1>4. new \in Settler /\ NoOne \notin Nat /\ new.post = NoOne
  BY CommuneAssumption DEF Settler
<1> HIDE DEF new
<1>5. /\ DOMAIN hub'.settlers = DOMAIN h.settlers \cup {k} /\ k \notin DOMAIN h.settlers
      /\ hub'.settlers[k] = new /\ \A s \in DOMAIN h.settlers : hub'.settlers[s] = h.settlers[s]
      /\ hub'.settlers \in [DOMAIN hub'.settlers -> Settler]
  <2>1. k \notin DOMAIN h.settlers
    BY <1>1, NextId
  <2> DEFINE f == h.settlers
  <2>2. f \in [DOMAIN f -> Settler] /\ k \notin DOMAIN f /\ hub'.settlers = WithKey(f, k, new)
    BY <1>1, <1>3, <2>1
  <2> HIDE DEF f, k
  <2>3. /\ DOMAIN WithKey(f, k, new) = DOMAIN f \cup {k}
        /\ WithKey(f, k, new) \in [DOMAIN f \cup {k} -> Settler]
        /\ WithKey(f, k, new)[k] = new /\ \A x \in DOMAIN f : WithKey(f, k, new)[x] = f[x]
    BY <1>4, <2>2 DEF WithKey
  <2> QED BY <2>2, <2>3 DEF f, k
<1>6. Roll(hub'.settlers, hub'.rooms, hub'.next)
  <2>1. IsFiniteSet(DOMAIN hub'.settlers)
    <3>1. IsFiniteSet(DOMAIN h.settlers \cup {k})
      BY <1>1, FS_AddElement
    <3> QED BY <1>5, <3>1
  <2>2. hub'.next \in Nat /\ \A x \in DOMAIN hub'.settlers \cup DOMAIN hub'.rooms : x \in Nat /\ x < hub'.next
    <3>1. DOMAIN hub'.settlers \cup DOMAIN hub'.rooms = (DOMAIN h.settlers \cup DOMAIN h.rooms) \cup {k}
      BY <1>3, <1>5
    <3> DEFINE S == DOMAIN h.settlers \cup DOMAIN h.rooms
    <3>2. k \in Nat /\ \A x \in S : x \in Nat /\ x < k
      BY <1>1
    <3> HIDE DEF S
    <3>3. k + 1 \in Nat /\ \A x \in S \cup {k} : x \in Nat /\ x < k + 1
      BY <3>2, NextId
    <3> QED BY <1>3, <3>1, <3>3 DEF S
  <2>3. \A s \in DOMAIN hub'.settlers : hub'.settlers[s].post \in DOMAIN hub'.rooms \cup {NoOne}
    BY <1>1, <1>3, <1>4, <1>5
  <2> QED BY <1>1, <1>3, <1>5, <2>1, <2>2, <2>3 DEF Roll
<1>7. Counted(hub'.settlers, hub'.rooms)
  <2>1. \A b \in DOMAIN h.rooms : b \in Nat /\ Posted(hub'.settlers, b) = Posted(h.settlers, b)
    BY <1>1, <1>4, <1>5 DEF Posted
  <2> QED BY <1>1, <1>3, <2>1 DEF Counted
<1> QED BY <1>1, <1>3, <1>6, <1>7 DEF Sound

\* A room is placed, under a new id and with nobody in it.
LEMMA RoomsPlaced ==
  ASSUME Sound(hub), NEW p \in DOMAIN hub.players, p \in Nat, PlaceRoom(p)
  PROVE  Sound(hub')
<1> DEFINE h == hub
           k == hub.next
           site == [account |-> AccountOf(p), session |-> p, workers |-> 0, level |-> 1, busy |-> TRUE, fitted |-> FALSE]
<1>1. /\ h = [f \in Fields |-> h[f]] /\ h.players \in Roster
      /\ h.settlers \in [DOMAIN h.settlers -> Settler] /\ IsFiniteSet(DOMAIN h.settlers)
      /\ h.rooms \in [DOMAIN h.rooms -> Room] /\ Fire \in DOMAIN h.rooms
      /\ h.next \in Nat /\ (\A x \in DOMAIN h.settlers \cup DOMAIN h.rooms : x \in Nat /\ x < h.next)
      /\ \A s \in DOMAIN h.settlers : h.settlers[s].post \in DOMAIN h.rooms \cup {NoOne}
      /\ \A b \in DOMAIN h.rooms : h.rooms[b].workers = Cardinality(Posted(h.settlers, b))
  BY SoundParts
<1>2. /\ hub' = [f \in Fields |-> hub'[f]] /\ hub'.players = h.players /\ hub'.settlers = h.settlers
      /\ hub'.rooms = WithKey(h.rooms, k, site) /\ hub'.next = k + 1
  <2>1. hub' = [h EXCEPT !.wood = @ - RoomCost, !.rooms = WithKey(@, k, site), !.next = @ + 1]
    BY DEF PlaceRoom, HubBecomes
  <2> HIDE DEF site
  <2>2. hub' = [h EXCEPT !.wood = h.wood - RoomCost, !.rooms = WithKey(h.rooms, k, site), !.next = k + 1]
    BY <2>1
  <2> DEFINE w == h.wood - RoomCost
             r == WithKey(h.rooms, k, site)
             n == k + 1
  <2>3. hub' = [h EXCEPT !.wood = w, !.rooms = r, !.next = n]
    BY <2>2
  <2> HIDE DEF w, r, n
  <2>4. /\ hub' = [f \in Fields |-> hub'[f]] /\ hub'.players = h.players /\ hub'.settlers = h.settlers
        /\ hub'.rooms = r /\ hub'.next = n
    BY <1>1, <2>3 DEF Fields
  <2> QED BY <2>4 DEF r, n
<1>3. site \in Room /\ site.workers = 0 /\ NoOne \notin Nat
  <2>1. AccountOf(p) \in Accounts
    BY <1>1 DEF AccountOf, Roster
  <2> QED BY <2>1, CommuneAssumption DEF Room
<1> HIDE DEF site
<1>4. /\ DOMAIN hub'.rooms = DOMAIN h.rooms \cup {k} /\ k \notin DOMAIN h.rooms /\ k \in Nat
      /\ hub'.rooms[k] = site /\ \A b \in DOMAIN h.rooms : hub'.rooms[b] = h.rooms[b]
      /\ hub'.rooms \in [DOMAIN hub'.rooms -> Room]
  <2>1. k \notin DOMAIN h.rooms
    BY <1>1, NextId
  <2> DEFINE f == h.rooms
  <2>2. f \in [DOMAIN f -> Room] /\ k \notin DOMAIN f /\ hub'.rooms = WithKey(f, k, site) /\ k \in Nat
    BY <1>1, <1>2, <2>1
  <2> HIDE DEF f, k
  <2>3. /\ DOMAIN WithKey(f, k, site) = DOMAIN f \cup {k}
        /\ WithKey(f, k, site) \in [DOMAIN f \cup {k} -> Room]
        /\ WithKey(f, k, site)[k] = site /\ \A x \in DOMAIN f : WithKey(f, k, site)[x] = f[x]
    BY <1>3, <2>2 DEF WithKey
  <2> QED BY <2>2, <2>3 DEF f, k
<1>5. Roll(hub'.settlers, hub'.rooms, hub'.next)
  <2>1. hub'.next \in Nat /\ \A x \in DOMAIN hub'.settlers \cup DOMAIN hub'.rooms : x \in Nat /\ x < hub'.next
    <3>1. DOMAIN hub'.settlers \cup DOMAIN hub'.rooms = (DOMAIN h.settlers \cup DOMAIN h.rooms) \cup {k}
      BY <1>2, <1>4
    <3> DEFINE S == DOMAIN h.settlers \cup DOMAIN h.rooms
    <3>2. k \in Nat /\ \A x \in S : x \in Nat /\ x < k
      BY <1>1
    <3> HIDE DEF S
    <3>3. k + 1 \in Nat /\ \A x \in S \cup {k} : x \in Nat /\ x < k + 1
      BY <3>2, NextId
    <3> QED BY <1>2, <3>1, <3>3 DEF S
  <2>2. \A s \in DOMAIN hub'.settlers : hub'.settlers[s].post \in DOMAIN hub'.rooms \cup {NoOne}
    BY <1>1, <1>2, <1>4
  <2> QED BY <1>1, <1>2, <1>4, <2>1, <2>2 DEF Roll
<1>6. Counted(hub'.settlers, hub'.rooms)
  <2>1. Posted(hub'.settlers, k) = {}
    BY <1>1, <1>2, <1>3, <1>4 DEF Posted
  <2>2. \A b \in DOMAIN h.rooms : Posted(hub'.settlers, b) = Posted(h.settlers, b)
    BY <1>2
  <2> QED BY <1>1, <1>3, <1>4, <2>1, <2>2, FS_EmptySet DEF Counted
<1> QED BY <1>1, <1>2, <1>5, <1>6 DEF Sound

\* The settlers when those of R have given up their posts.
Idled(settlers, R) == [s \in DOMAIN settlers |-> IF s \in R THEN [settlers[s] EXCEPT !.post = NoOne] ELSE settlers[s]]

\* Nobody is left at a room that is gone, and nobody else loses his post.
LEMMA IdledLeave ==
  ASSUME NEW settlers, settlers \in [DOMAIN settlers -> Settler], NEW R
  PROVE  /\ DOMAIN Idled(settlers, R) = DOMAIN settlers
         /\ Idled(settlers, R) \in [DOMAIN settlers -> Settler]
         /\ \A s \in DOMAIN settlers : Idled(settlers, R)[s].post = IF s \in R THEN NoOne ELSE settlers[s].post
         /\ \A b \in Nat : Posted(Idled(settlers, R), b) = Posted(settlers, b) \ R
<1> DEFINE idled == Idled(settlers, R)
<1>1. \A s \in DOMAIN settlers : /\ [settlers[s] EXCEPT !.post = NoOne] \in Settler
                                 /\ [settlers[s] EXCEPT !.post = NoOne].post = NoOne
  BY DEF Settler
<1>2. /\ DOMAIN idled = DOMAIN settlers /\ idled \in [DOMAIN settlers -> Settler]
      /\ \A s \in DOMAIN settlers : idled[s].post = IF s \in R THEN NoOne ELSE settlers[s].post
  BY <1>1 DEF Idled
<1>3. NoOne \notin Nat
  BY CommuneAssumption
<1> HIDE DEF idled
<1>4. \A b \in Nat : Posted(idled, b) = Posted(settlers, b) \ R
  BY <1>2, <1>3 DEF Posted
<1> QED BY <1>2, <1>4 DEF idled

\* A room comes down, and who worked there is idle.
LEMMA RoomsComeDown ==
  ASSUME Sound(hub), NEW p, NEW b \in Rooms, DemolishRoom(p, b)
  PROVE  Sound(hub')
<1> DEFINE h == hub
           gone == {s \in DOMAIN h.settlers : h.settlers[s].post = b}
           left == DOMAIN h.rooms \ {b}
<1>1. /\ h = [f \in Fields |-> h[f]] /\ h.players \in Roster
      /\ h.settlers \in [DOMAIN h.settlers -> Settler] /\ IsFiniteSet(DOMAIN h.settlers)
      /\ h.rooms \in [DOMAIN h.rooms -> Room] /\ Fire \in DOMAIN h.rooms
      /\ h.next \in Nat /\ (\A x \in DOMAIN h.settlers \cup DOMAIN h.rooms : x \in Nat /\ x < h.next)
      /\ \A s \in DOMAIN h.settlers : h.settlers[s].post \in DOMAIN h.rooms \cup {NoOne}
      /\ \A c \in DOMAIN h.rooms : h.rooms[c].workers = Cardinality(Posted(h.settlers, c))
  BY SoundParts
<1>2. /\ hub' = [f \in Fields |-> hub'[f]] /\ hub'.players = h.players /\ hub'.next = h.next
      /\ hub'.settlers = Idled(h.settlers, gone) /\ hub'.rooms = Keeping(h.rooms, left)
  <2>1. [s \in Settlers |-> IF h.settlers[s].post = b THEN [h.settlers[s] EXCEPT !.post = NoOne] ELSE h.settlers[s]]
          = Idled(h.settlers, gone)
    BY DEF Settlers, Idled
  <2> DEFINE w == h.wood + Salvage
             i == Idled(h.settlers, gone)
             r == Keeping(h.rooms, left)
  <2>2. hub' = [h EXCEPT !.wood = w, !.rooms = r, !.settlers = i]
    BY <2>1 DEF DemolishRoom, HubBecomes, Rooms
  <2> HIDE DEF w, i, r
  <2>3. /\ hub' = [f \in Fields |-> hub'[f]] /\ hub'.players = h.players /\ hub'.next = h.next
        /\ hub'.settlers = i /\ hub'.rooms = r
    BY <1>1, <2>2 DEF Fields
  <2> QED BY <2>3 DEF i, r
<1>3. /\ DOMAIN hub'.rooms = left /\ hub'.rooms \in [left -> Room] /\ b # Fire
      /\ \A c \in left : hub'.rooms[c] = h.rooms[c]
  BY <1>1, <1>2 DEF Keeping, DemolishRoom
<1>4. /\ DOMAIN hub'.settlers = DOMAIN h.settlers /\ hub'.settlers \in [DOMAIN h.settlers -> Settler]
      /\ \A s \in DOMAIN h.settlers : hub'.settlers[s].post = IF s \in gone THEN NoOne ELSE h.settlers[s].post
      /\ \A c \in Nat : Posted(hub'.settlers, c) = Posted(h.settlers, c) \ gone
  <2> DEFINE f == h.settlers
             R == gone
  <2>1. f \in [DOMAIN f -> Settler] /\ hub'.settlers = Idled(f, R)
    BY <1>1, <1>2
  <2> HIDE DEF f, R
  <2>2. /\ DOMAIN Idled(f, R) = DOMAIN f /\ Idled(f, R) \in [DOMAIN f -> Settler]
        /\ \A s \in DOMAIN f : Idled(f, R)[s].post = IF s \in R THEN NoOne ELSE f[s].post
        /\ \A c \in Nat : Posted(Idled(f, R), c) = Posted(f, c) \ R
    BY <2>1, IdledLeave
  <2> QED BY <2>1, <2>2 DEF f, R
<1>5. Roll(hub'.settlers, hub'.rooms, hub'.next)
  BY <1>1, <1>2, <1>3, <1>4 DEF Roll
<1>6. \A c \in left : Posted(hub'.settlers, c) = Posted(h.settlers, c)
  BY <1>1, <1>4 DEF Posted
<1>7. Counted(hub'.settlers, hub'.rooms)
  BY <1>1, <1>3, <1>6 DEF Counted
<1> QED BY <1>1, <1>2, <1>5, <1>7 DEF Sound

\* Everybody of an account goes home, and the rooms count them no more.
LEMMA SettlersGo ==
  ASSUME Sound(hub), NEW a, Withdraw(a)
  PROVE  Sound(hub')
<1> DEFINE h == hub
           S == OwnedBy(hub, a)
           less(b) == Cardinality(Staff(b) \cap S)
           room(b) == [h.rooms[b] EXCEPT !.workers = IF @ > less(b) THEN @ - less(b) ELSE 0]
<1>1. /\ h = [f \in Fields |-> h[f]] /\ h.players \in Roster
      /\ h.settlers \in [DOMAIN h.settlers -> Settler] /\ IsFiniteSet(DOMAIN h.settlers)
      /\ h.rooms \in [DOMAIN h.rooms -> Room] /\ Fire \in DOMAIN h.rooms
      /\ h.next \in Nat /\ (\A x \in DOMAIN h.settlers \cup DOMAIN h.rooms : x \in Nat /\ x < h.next)
      /\ \A s \in DOMAIN h.settlers : h.settlers[s].post \in DOMAIN h.rooms \cup {NoOne}
      /\ \A b \in DOMAIN h.rooms :
              /\ h.rooms[b].workers = Cardinality(Posted(h.settlers, b))
              /\ IsFiniteSet(Posted(h.settlers, b)) /\ Cardinality(Posted(h.settlers, b)) \in Nat
  BY SoundParts
<1>2. /\ hub' = [f \in Fields |-> hub'[f]] /\ hub'.players = h.players /\ hub'.next = h.next
      /\ hub'.settlers = Keeping(h.settlers, DOMAIN h.settlers \ S)
      /\ hub'.rooms = [b \in DOMAIN h.rooms |-> room(b)]
  <2> DEFINE i == Keeping(h.settlers, DOMAIN h.settlers \ S)
             r == [b \in DOMAIN h.rooms |-> room(b)]
  <2>1. hub' = [h EXCEPT !.settlers = i, !.rooms = r]
    BY DEF Withdraw, HubBecomes, Withdrawn
  <2> HIDE DEF i, r
  <2>2. /\ hub' = [f \in Fields |-> hub'[f]] /\ hub'.players = h.players /\ hub'.next = h.next
        /\ hub'.settlers = i /\ hub'.rooms = r
    BY <1>1, <2>1 DEF Fields
  <2> QED BY <2>2 DEF i, r
<1>3. \A b \in DOMAIN h.rooms : room(b) \in Room /\ room(b).workers = Cardinality(Posted(h.settlers, b) \ S)
  <2> TAKE b \in DOMAIN h.rooms
  <2> DEFINE n == IF h.rooms[b].workers > less(b) THEN h.rooms[b].workers - less(b) ELSE 0
             P == Posted(h.settlers, b)
  <2>1. n = Cardinality(P \ S) /\ n \in Nat
    <3>1. IsFiniteSet(P) /\ h.rooms[b].workers = Cardinality(P) /\ Staff(b) = P
      BY <1>1 DEF Staff, Settlers, Posted
    <3> HIDE DEF P, S
    <3>2. /\ Cardinality(P \ S) = Cardinality(P) - Cardinality(P \cap S)
          /\ Cardinality(P \ S) \in Nat /\ Cardinality(P \cap S) \in Nat /\ Cardinality(P) \in Nat
      <4>1. IsFiniteSet(P \ S) /\ IsFiniteSet(P \cap S)
        BY <3>1, FS_Subset
      <4> QED BY <3>1, <4>1, FS_Difference, FS_CardinalityType
    <3> QED BY <3>1, <3>2
  <2>2. room(b) = [h.rooms[b] EXCEPT !.workers = n] /\ h.rooms[b] \in Room
    BY <1>1
  <2> HIDE DEF n, room
  <2> QED BY <2>1, <2>2 DEF Room
<1> HIDE DEF room
<1>4. /\ DOMAIN hub'.rooms = DOMAIN h.rooms /\ hub'.rooms \in [DOMAIN h.rooms -> Room]
      /\ \A b \in DOMAIN h.rooms : hub'.rooms[b].workers = Cardinality(Posted(h.settlers, b) \ S)
  BY <1>2, <1>3
<1> HIDE DEF S
<1>5. /\ DOMAIN hub'.settlers = DOMAIN h.settlers \ S
      /\ hub'.settlers \in [DOMAIN hub'.settlers -> Settler]
      /\ \A s \in DOMAIN hub'.settlers : hub'.settlers[s] = h.settlers[s]
  BY <1>1, <1>2 DEF Keeping
<1>6. Roll(hub'.settlers, hub'.rooms, hub'.next)
  <2>1. IsFiniteSet(DOMAIN hub'.settlers)
    BY <1>1, <1>5, FS_Subset
  <2> QED BY <1>1, <1>2, <1>4, <1>5, <2>1 DEF Roll
<1>7. \A b : Posted(hub'.settlers, b) = Posted(h.settlers, b) \ S
  BY <1>5 DEF Posted
<1>8. Counted(hub'.settlers, hub'.rooms)
  BY <1>4, <1>7 DEF Counted
<1> QED BY <1>1, <1>2, <1>6, <1>8 DEF Sound

\* A settler with no post takes one, and the room counts him.
LEMMA PostTaken ==
  ASSUME NEW h, Sound(h), NEW s \in DOMAIN h.settlers, h.settlers[s].post = NoOne, NEW b \in DOMAIN h.rooms
  PROVE  Sound([h EXCEPT !.settlers[s].post = b, !.rooms[b].workers = @ + 1])
<1> DEFINE n == h.rooms[b].workers + 1
           g == [h EXCEPT !.settlers[s].post = b, !.rooms[b].workers = n]
           him == [h.settlers[s] EXCEPT !.post = b]
           room == [h.rooms[b] EXCEPT !.workers = n]
           i == [h.settlers EXCEPT ![s] = him]
           r == [h.rooms EXCEPT ![b] = room]
<1>1. /\ h = [f \in Fields |-> h[f]] /\ h.players \in Roster
      /\ h.settlers \in [DOMAIN h.settlers -> Settler] /\ IsFiniteSet(DOMAIN h.settlers)
      /\ h.rooms \in [DOMAIN h.rooms -> Room] /\ Fire \in DOMAIN h.rooms
      /\ h.next \in Nat /\ (\A x \in DOMAIN h.settlers \cup DOMAIN h.rooms : x \in Nat /\ x < h.next)
      /\ \A x \in DOMAIN h.settlers : h.settlers[x].post \in DOMAIN h.rooms \cup {NoOne}
      /\ \A c \in DOMAIN h.rooms :
              /\ h.rooms[c].workers = Cardinality(Posted(h.settlers, c))
              /\ IsFiniteSet(Posted(h.settlers, c)) /\ Cardinality(Posted(h.settlers, c)) \in Nat
  BY SoundParts
<1>2. [h EXCEPT !.settlers[s].post = b, !.rooms[b].workers = @ + 1] = g
  BY <1>1 DEF Fields
<1>3. NoOne \notin Nat /\ b \in Nat /\ n \in Nat /\ n = h.rooms[b].workers + 1
  <2>1. h.rooms[b].workers \in Nat /\ b \in Nat
    BY <1>1
  <2> QED BY <2>1, CommuneAssumption
<1> HIDE DEF n
<1>4. /\ g = [f \in Fields |-> g[f]] /\ g.players = h.players /\ g.next = h.next
      /\ g.settlers = i /\ g.rooms = r
  BY <1>1 DEF Fields
<1> HIDE DEF g
<1>5. him \in Settler /\ him.post = b /\ room \in Room /\ room.workers = n
  <2>1. h.settlers[s] \in Settler /\ h.rooms[b] \in Room
    BY <1>1
  <2>2. him \in Settler /\ him.post = b
    BY <1>3, <2>1 DEF Settler
  <2>3. room \in Room /\ room.workers = n
    BY <1>3, <2>1 DEF Room
  <2> QED BY <2>2, <2>3
<1> HIDE DEF him, room
<1>6. /\ DOMAIN g.settlers = DOMAIN h.settlers /\ g.settlers \in [DOMAIN h.settlers -> Settler]
      /\ g.settlers[s].post = b /\ \A x \in DOMAIN h.settlers \ {s} : g.settlers[x] = h.settlers[x]
  BY <1>1, <1>4, <1>5
<1>7. /\ DOMAIN g.rooms = DOMAIN h.rooms /\ g.rooms \in [DOMAIN h.rooms -> Room]
      /\ g.rooms[b].workers = n /\ \A c \in DOMAIN h.rooms \ {b} : g.rooms[c] = h.rooms[c]
  BY <1>1, <1>4, <1>5
<1>8. Roll(g.settlers, g.rooms, g.next)
  BY <1>1, <1>4, <1>6, <1>7 DEF Roll
<1>9. \A c \in DOMAIN h.rooms \ {b} : Posted(g.settlers, c) = Posted(h.settlers, c)
  BY <1>1, <1>3, <1>6 DEF Posted
<1>10. Cardinality(Posted(g.settlers, b)) = n
  <2>1. Posted(g.settlers, b) = Posted(h.settlers, b) \cup {s} /\ s \notin Posted(h.settlers, b)
    BY <1>3, <1>6 DEF Posted
  <2> DEFINE Q == Posted(h.settlers, b)
  <2>2. IsFiniteSet(Q) /\ s \notin Q /\ Cardinality(Q) = h.rooms[b].workers
    BY <1>1, <2>1
  <2> HIDE DEF Q
  <2>3. Cardinality(Q \cup {s}) = Cardinality(Q) + 1
    BY <2>2, FS_AddElement
  <2> QED BY <1>3, <2>1, <2>2, <2>3 DEF Q
<1>11. Counted(g.settlers, g.rooms)
  BY <1>1, <1>7, <1>9, <1>10 DEF Counted
<1>12. Sound(g)
  BY <1>1, <1>4, <1>8, <1>11 DEF Sound
<1> QED BY <1>2, <1>12

\* A settler is given a post, or another, or none.
LEMMA PostsChange ==
  ASSUME Sound(hub), NEW p, NEW s \in Settlers, NEW b \in Rooms,
         PostSettler(p, s, b) \/ RelieveSettler(p, s) \/ FellTree(p, s)
  PROVE  Sound(hub')
<1> DEFINE h == OffPost(hub, s)
<1>1. Sound(h) /\ GivenUp(hub, h, s)
  BY PostGiven DEF Settlers
<1>2. CASE PostSettler(p, s, b)
  <2>1. hub' = [h EXCEPT !.settlers[s].post = b, !.rooms[b].workers = @ + 1]
    BY <1>2 DEF PostSettler, HubBecomes
  <2>2. s \in DOMAIN h.settlers /\ h.settlers[s].post = NoOne /\ b \in DOMAIN h.rooms
    BY <1>1 DEF GivenUp, Settlers, Rooms
  <2> HIDE DEF h
  <2> QED BY <1>1, <2>1, <2>2, PostTaken
<1>3. CASE RelieveSettler(p, s)
  BY <1>1, <1>3 DEF RelieveSettler, HubBecomes
<1>4. CASE FellTree(p, s)
  <2>1. hub' = [h EXCEPT !.wood = @ + 1]
    BY <1>4 DEF FellTree, HubBecomes
  <2> HIDE DEF h
  <2>2. h = [f \in Fields |-> h[f]] /\ h.rooms \in [DOMAIN h.rooms -> Room] /\ h.players \in Roster
    BY <1>1, SoundParts
  <2>3. /\ hub' = [f \in Fields |-> hub'[f]] /\ hub'.players = h.players /\ hub'.settlers = h.settlers
        /\ hub'.next = h.next /\ hub'.rooms = h.rooms
    BY <2>1, <2>2 DEF Fields
  <2> QED BY <1>1, <2>2, <2>3, WorkUntouched
<1> QED BY <1>2, <1>3, <1>4

\* A site is finished, and the lowest ids keep their places.
LEMMA SitesFinish ==
  ASSUME Sound(hub), NEW b \in Rooms, FinishRoom(b)
  PROVE  Sound(hub')
<1> DEFINE h == hub
           P == Posted(h.settlers, b)
           kept == Lowest(P, Trade)
           w == h.rooms[b].workers
           n == IF w < Trade THEN w ELSE Trade
           i == Idled(h.settlers, P \ kept)
           room == [h.rooms[b] EXCEPT !.busy = FALSE, !.workers = n]
           r == [h.rooms EXCEPT ![b] = room]
<1>1. /\ h = [f \in Fields |-> h[f]] /\ h.players \in Roster
      /\ h.settlers \in [DOMAIN h.settlers -> Settler] /\ IsFiniteSet(DOMAIN h.settlers)
      /\ h.rooms \in [DOMAIN h.rooms -> Room] /\ Fire \in DOMAIN h.rooms
      /\ h.next \in Nat /\ (\A x \in DOMAIN h.settlers \cup DOMAIN h.rooms : x \in Nat /\ x < h.next)
      /\ \A s \in DOMAIN h.settlers : h.settlers[s].post \in DOMAIN h.rooms \cup {NoOne}
      /\ \A c \in DOMAIN h.rooms :
              /\ h.rooms[c].workers = Cardinality(Posted(h.settlers, c))
              /\ IsFiniteSet(Posted(h.settlers, c)) /\ Posted(h.settlers, c) \subseteq DOMAIN h.settlers
              /\ Cardinality(Posted(h.settlers, c)) \in Nat
  BY SoundParts
<1>2. /\ b \in DOMAIN h.rooms /\ b \in Nat /\ P \in SUBSET Nat /\ IsFiniteSet(P) /\ w = Cardinality(P) /\ w \in Nat
      /\ NoOne \notin Nat
  BY <1>1, CommuneAssumption DEF Rooms
<1>3. Trade \in Nat
  BY CommuneAssumption
<1>4. n = Cardinality(kept) /\ n \in Nat /\ kept \subseteq P
  <2>1. Cardinality(kept) = IF Cardinality(P) < Trade THEN Cardinality(P) ELSE Trade
    BY <1>2, <1>3, LowestCount DEF Lowest
  <2>2. kept \subseteq P
    BY DEF Lowest
  <2> HIDE DEF kept, P
  <2> QED BY <1>2, <1>3, <2>1, <2>2
<1>5. /\ hub' = [f \in Fields |-> hub'[f]] /\ hub'.players = h.players /\ hub'.next = h.next
      /\ hub'.settlers = i /\ hub'.rooms = r
  <2>1. Staff(b) = P /\ {s \in Staff(b) : Cardinality({x \in Staff(b) : x < s}) < Trade} = kept
    BY DEF Staff, Settlers, Posted, Lowest
  <2>2. [s \in Settlers |-> IF s \in P \ kept THEN [h.settlers[s] EXCEPT !.post = NoOne] ELSE h.settlers[s]] = i
    BY DEF Idled, Settlers
  <2>3. hub' = [h EXCEPT !.rooms[b].busy = FALSE, !.rooms[b].workers = n, !.settlers = i]
    <3> HIDE DEF kept, P, i
    <3>1. hub' = [h EXCEPT !.rooms[b].busy = FALSE, !.rooms[b].workers = IF @ < Trade THEN @ ELSE Trade, !.settlers = i]
      BY <2>1, <2>2 DEF FinishRoom, HubBecomes
    <3> QED BY <1>1, <1>2, <3>1 DEF Fields, Room
  <2> HIDE DEF i, n
  <2>4. /\ hub' = [f \in Fields |-> hub'[f]] /\ hub'.players = h.players /\ hub'.next = h.next
        /\ hub'.settlers = i /\ hub'.rooms = [h.rooms EXCEPT ![b].busy = FALSE, ![b].workers = n]
    <3>1. h = [x \in Fields |-> h[x]]
      BY <1>1
    <3> HIDE DEF h
    <3> HIDE DEF P, kept
    <3> QED BY <2>3, <3>1 DEF Fields
  <2>5. [h.rooms EXCEPT ![b].busy = FALSE, ![b].workers = n] = r
    BY <1>1, <1>2 DEF Room
  <2> QED BY <2>4, <2>5
<1> HIDE DEF kept, n
<1>6. room \in Room /\ room.workers = n
  <2>1. h.rooms[b] \in Room
    BY <1>1, <1>2
  <2> QED BY <1>4, <2>1 DEF Room
<1> HIDE DEF room
<1>7. /\ DOMAIN hub'.rooms = DOMAIN h.rooms /\ hub'.rooms \in [DOMAIN h.rooms -> Room]
      /\ hub'.rooms[b].workers = n /\ \A c \in DOMAIN h.rooms \ {b} : hub'.rooms[c] = h.rooms[c]
  BY <1>1, <1>2, <1>5, <1>6
<1>8. /\ DOMAIN hub'.settlers = DOMAIN h.settlers /\ hub'.settlers \in [DOMAIN h.settlers -> Settler]
      /\ \A s \in DOMAIN h.settlers : hub'.settlers[s].post = IF s \in P \ kept THEN NoOne ELSE h.settlers[s].post
      /\ \A c \in Nat : Posted(hub'.settlers, c) = Posted(h.settlers, c) \ (P \ kept)
  <2> DEFINE f == h.settlers
             R == P \ kept
  <2>1. f \in [DOMAIN f -> Settler] /\ hub'.settlers = Idled(f, R)
    BY <1>1, <1>5
  <2> HIDE DEF f, R
  <2>2. /\ DOMAIN Idled(f, R) = DOMAIN f /\ Idled(f, R) \in [DOMAIN f -> Settler]
        /\ \A s \in DOMAIN f : Idled(f, R)[s].post = IF s \in R THEN NoOne ELSE f[s].post
        /\ \A c \in Nat : Posted(Idled(f, R), c) = Posted(f, c) \ R
    BY <2>1, IdledLeave
  <2> QED BY <2>1, <2>2 DEF f, R
<1>9. Roll(hub'.settlers, hub'.rooms, hub'.next)
  BY <1>1, <1>5, <1>7, <1>8 DEF Roll
<1>10. /\ Posted(hub'.settlers, b) = kept
       /\ \A c \in DOMAIN h.rooms \ {b} : Posted(hub'.settlers, c) = Posted(h.settlers, c)
  <2>1. P \ (P \ kept) = kept
    BY <1>4
  <2>2. \A c \in DOMAIN h.rooms \ {b} : Posted(h.settlers, c) \ (P \ kept) = Posted(h.settlers, c)
    BY DEF Posted
  <2> QED BY <1>1, <1>2, <1>8, <2>1, <2>2
<1>11. Counted(hub'.settlers, hub'.rooms)
  BY <1>1, <1>4, <1>7, <1>10 DEF Counted
<1> QED BY <1>1, <1>5, <1>9, <1>11 DEF Sound

\* A log is brought: the last one lights the fire and frees its crew.
LEMMA LogsCome ==
  ASSUME Sound(hub), NEW s \in Settlers, BringLog(s)
  PROVE  Sound(hub')
<1> DEFINE h == hub
           P == Posted(h.settlers, Fire)
           i == Idled(h.settlers, P)
           room == [h.rooms[Fire] EXCEPT !.busy = FALSE, !.workers = 0]
           r == [h.rooms EXCEPT ![Fire] = room]
<1>1. /\ h = [f \in Fields |-> h[f]] /\ h.players \in Roster
      /\ h.settlers \in [DOMAIN h.settlers -> Settler] /\ IsFiniteSet(DOMAIN h.settlers)
      /\ h.rooms \in [DOMAIN h.rooms -> Room] /\ Fire \in DOMAIN h.rooms
      /\ h.next \in Nat /\ (\A x \in DOMAIN h.settlers \cup DOMAIN h.rooms : x \in Nat /\ x < h.next)
      /\ \A x \in DOMAIN h.settlers : h.settlers[x].post \in DOMAIN h.rooms \cup {NoOne}
      /\ \A c \in DOMAIN h.rooms : h.rooms[c].workers = Cardinality(Posted(h.settlers, c))
  BY SoundParts
<1>2. CASE h.logs > 1
  <2>1. /\ hub' = [f \in Fields |-> hub'[f]] /\ hub'.players = h.players /\ hub'.settlers = h.settlers
        /\ hub'.next = h.next /\ hub'.rooms = h.rooms
    <3>1. hub' = [h EXCEPT !.logs = @ - 1]
      BY <1>2 DEF BringLog, HubBecomes
    <3> QED BY <1>1, <3>1 DEF Fields
  <2> QED BY <1>1, <2>1, WorkUntouched
<1>3. CASE ~(h.logs > 1)
  <2>1. /\ hub' = [f \in Fields |-> hub'[f]] /\ hub'.players = h.players /\ hub'.next = h.next
        /\ hub'.settlers = i /\ hub'.rooms = r
    <3>1. [x \in Settlers |-> IF h.settlers[x].post = Fire THEN [h.settlers[x] EXCEPT !.post = NoOne] ELSE h.settlers[x]] = i
      BY DEF Idled, Settlers, Posted
    <3> HIDE DEF i
    <3>2. hub' = [h EXCEPT !.logs = 0, !.lit = TRUE, !.rooms[Fire].busy = FALSE, !.rooms[Fire].workers = 0, !.settlers = i]
      BY <1>3, <3>1 DEF BringLog, HubBecomes
    <3>3. /\ hub' = [f \in Fields |-> hub'[f]] /\ hub'.players = h.players /\ hub'.next = h.next
          /\ hub'.settlers = i /\ hub'.rooms = [h.rooms EXCEPT ![Fire].busy = FALSE, ![Fire].workers = 0]
      BY <1>1, <3>2 DEF Fields
    <3>4. [h.rooms EXCEPT ![Fire].busy = FALSE, ![Fire].workers = 0] = r
      BY <1>1 DEF Room
    <3> QED BY <3>3, <3>4
  <2>2. room \in Room /\ room.workers = 0 /\ NoOne \notin Nat /\ Fire \in Nat
    BY <1>1, CommuneAssumption DEF Room, Fire
  <2> HIDE DEF room
  <2>3. /\ DOMAIN hub'.rooms = DOMAIN h.rooms /\ hub'.rooms \in [DOMAIN h.rooms -> Room]
        /\ hub'.rooms[Fire].workers = 0 /\ \A c \in DOMAIN h.rooms \ {Fire} : hub'.rooms[c] = h.rooms[c]
    BY <1>1, <2>1, <2>2
  <2>4. /\ DOMAIN hub'.settlers = DOMAIN h.settlers /\ hub'.settlers \in [DOMAIN h.settlers -> Settler]
        /\ \A x \in DOMAIN h.settlers : hub'.settlers[x].post = IF x \in P THEN NoOne ELSE h.settlers[x].post
        /\ \A c \in Nat : Posted(hub'.settlers, c) = Posted(h.settlers, c) \ P
    <3> DEFINE f == h.settlers
               R == P
    <3>1. f \in [DOMAIN f -> Settler] /\ hub'.settlers = Idled(f, R)
      BY <1>1, <2>1
    <3> HIDE DEF f, R
    <3>2. /\ DOMAIN Idled(f, R) = DOMAIN f /\ Idled(f, R) \in [DOMAIN f -> Settler]
          /\ \A x \in DOMAIN f : Idled(f, R)[x].post = IF x \in R THEN NoOne ELSE f[x].post
          /\ \A c \in Nat : Posted(Idled(f, R), c) = Posted(f, c) \ R
      BY <3>1, IdledLeave
    <3> QED BY <3>1, <3>2 DEF f, R
  <2>5. Roll(hub'.settlers, hub'.rooms, hub'.next)
    BY <1>1, <2>1, <2>3, <2>4 DEF Roll
  <2>6. /\ Posted(hub'.settlers, Fire) = {}
        /\ \A c \in DOMAIN h.rooms \ {Fire} : Posted(hub'.settlers, c) = Posted(h.settlers, c)
    <3>1. \A c \in DOMAIN h.rooms \ {Fire} : Posted(h.settlers, c) \ P = Posted(h.settlers, c) /\ c \in Nat
      BY <1>1 DEF Posted
    <3> QED BY <2>2, <2>4, <3>1
  <2>7. Counted(hub'.settlers, hub'.rooms)
    BY <1>1, <2>3, <2>6, FS_EmptySet DEF Counted
  <2> QED BY <1>1, <2>1, <2>5, <2>7 DEF Sound
<1> QED BY <1>2, <1>3

HubInv == Sound(hub) /\ nextSession \in Nat

\* The roll and the headcounts hold in every state, with any accounts, settlers and rooms.
THEOREM HubInductive == CommuneSpec => []HubInv
<1>1. CommuneInit => HubInv
  <2>1. CommuneInit => nextSession \in Nat
    BY DEF CommuneInit
  <2> QED BY <2>1, HubStarts DEF HubInv
<1>2. HubInv /\ [CommuneNext]_communeVars => HubInv'
  <2> SUFFICES ASSUME HubInv, [CommuneNext]_communeVars PROVE Sound(hub') /\ nextSession' \in Nat
    BY DEF HubInv
  <2>1. Sound(hub) /\ nextSession \in Nat /\ \A p \in DOMAIN hub.players : p \in Nat
    BY DEF HubInv, Sound, Roster
  <2>2. CASE \E a \in Accounts : JoinCommune(a) \/ Settle(a) \/ Withdraw(a)
    <3>1. CASE \E a \in Accounts : JoinCommune(a)
      BY <2>1, <3>1, ComeAndGo
    <3>2. CASE \E a \in Accounts : Settle(a) \/ Withdraw(a)
      BY <2>1, <3>2, SettlersCome, SettlersGo DEF Settle, Withdraw, HubBecomes
    <3> QED BY <2>2, <3>1, <3>2
  <2>3. CASE RestartServer
    BY <2>1, <2>3, ComeAndGo
  <2>4. CASE \E p \in DOMAIN hub.players :
       \/ LeaveCommune(p) \/ PlaceRoom(p)
       \/ \E b \in Rooms : DemolishRoom(p, b) \/ UpgradeRoom(p, b) \/ FitRoom(p, b) \/ MoveRoom(p, b)
       \/ \E s \in Settlers : RelieveSettler(p, s) \/ FellTree(p, s) \/ \E b \in Rooms : PostSettler(p, s, b)
    <3>1. PICK p \in DOMAIN hub.players :
       \/ LeaveCommune(p) \/ PlaceRoom(p)
       \/ \E b \in Rooms : DemolishRoom(p, b) \/ UpgradeRoom(p, b) \/ FitRoom(p, b) \/ MoveRoom(p, b)
       \/ \E s \in Settlers : RelieveSettler(p, s) \/ FellTree(p, s) \/ \E b \in Rooms : PostSettler(p, s, b)
      BY <2>4
    <3>2. CASE LeaveCommune(p)
      BY <2>1, <3>2, ComeAndGo
    <3>3. CASE PlaceRoom(p)
      BY <2>1, <3>3, RoomsPlaced DEF PlaceRoom, HubBecomes
    <3>4. CASE \E b \in Rooms : DemolishRoom(p, b) \/ UpgradeRoom(p, b) \/ FitRoom(p, b) \/ MoveRoom(p, b)
      <4>1. UNCHANGED nextSession
        BY <3>4 DEF DemolishRoom, UpgradeRoom, FitRoom, MoveRoom, HubBecomes
      <4> QED BY <2>1, <3>4, <4>1, RoomsComeDown, RoomsChange
    <3>5. CASE \E s \in Settlers : RelieveSettler(p, s) \/ FellTree(p, s) \/ \E b \in Rooms : PostSettler(p, s, b)
      <4>1. UNCHANGED nextSession
        BY <3>5 DEF RelieveSettler, FellTree, PostSettler, HubBecomes
      <4>2. Fire \in Rooms
        BY <2>1, SoundParts DEF Rooms
      <4> QED BY <2>1, <3>5, <4>1, <4>2, PostsChange
    <3> QED BY <3>1, <3>2, <3>3, <3>4, <3>5
  <2>5. CASE \E b \in Rooms : FinishRoom(b) \/ WorkRoom(b)
    <3>1. UNCHANGED nextSession
      BY <2>5 DEF FinishRoom, WorkRoom, HubBecomes
    <3> QED BY <2>1, <2>5, <3>1, SitesFinish, RoomsChange
  <2>6. CASE \E s \in Settlers : BringLog(s)
    <3>1. UNCHANGED nextSession
      BY <2>6 DEF BringLog, HubBecomes
    <3> QED BY <2>1, <2>6, <3>1, LogsCome
  <2>7. CASE UNCHANGED communeVars
    BY <2>1, <2>7 DEF communeVars
  <2> QED BY <2>2, <2>3, <2>4, <2>5, <2>6, <2>7 DEF CommuneNext
<1> QED BY <1>1, <1>2, PTL DEF CommuneSpec

\* No room ever counts a worker who is not posted there, nor forgets one who is.
THEOREM WorkersCounted == CommuneSpec => []PostsCountTheirWorkers
<1>1. HubInv => PostsCountTheirWorkers
  BY DEF HubInv, Sound, Counted, PostsCountTheirWorkers, Posted, Staff, Rooms, Settlers
<1> QED BY <1>1, HubInductive, PTL

\* From a to b a room stays as its account has it: not raised, fitted or opened again.
Untouched(a, b) == b.level = a.level /\ b.fitted = a.fitted /\ (b.busy => a.busy)

\* What others do to a room: they may finish it and change who works there.
LEMMA OthersKeepOff ==
  ASSUME Sound(hub), NEW c \in Rooms, NEW a, NEW p, NEW s, NEW b,
         \/ JoinCommune(a) \/ Settle(a) \/ Withdraw(a) \/ RestartServer \/ LeaveCommune(p) \/ PlaceRoom(p)
         \/ s \in Settlers /\ (RelieveSettler(p, s) \/ FellTree(p, s) \/ PostSettler(p, s, b))
         \/ FinishRoom(b) \/ WorkRoom(b) \/ BringLog(s)
  PROVE  c \in DOMAIN hub'.rooms /\ Untouched(hub.rooms[c], hub'.rooms[c])
<1>1. /\ hub = [f \in Fields |-> hub[f]] /\ hub.rooms \in [Rooms -> Room] /\ DOMAIN hub.rooms = Rooms
      /\ hub.rooms[c] \in Room /\ c \in Nat /\ c < hub.next /\ hub.next \in Nat
  BY SoundParts DEF Rooms
<1>2. CASE JoinCommune(a) \/ RestartServer \/ LeaveCommune(p) \/ Settle(a) \/ WorkRoom(b)
  <2>1. hub'.rooms = hub.rooms
    BY <1>1, <1>2 DEF JoinCommune, RestartServer, LeaveCommune, Settle, WorkRoom, HubBecomes, Fields
  <2> QED BY <1>1, <2>1 DEF Untouched
<1>3. CASE Withdraw(a)
  <2> DEFINE S == OwnedBy(hub, a)
             room(d) == [hub.rooms[d] EXCEPT !.workers =
                           IF @ > Cardinality(Staff(d) \cap S) THEN @ - Cardinality(Staff(d) \cap S) ELSE 0]
             n == IF hub.rooms[c].workers > Cardinality(Staff(c) \cap S)
                    THEN hub.rooms[c].workers - Cardinality(Staff(c) \cap S) ELSE 0
  <2>1. hub'.rooms = [d \in Rooms |-> room(d)]
    BY <1>1, <1>3 DEF Withdraw, Withdrawn, HubBecomes, Fields
  <2>2. hub'.rooms[c] = [hub.rooms[c] EXCEPT !.workers = n] /\ c \in DOMAIN hub'.rooms
    BY <2>1
  <2> HIDE DEF n
  <2> QED BY <1>1, <2>2 DEF Untouched, Room
<1>4. CASE PlaceRoom(p)
  <2> DEFINE site == [account |-> AccountOf(p), session |-> p, workers |-> 0, level |-> 1, busy |-> TRUE, fitted |-> FALSE]
  <2> HIDE DEF site
  <2>1. hub'.rooms = WithKey(hub.rooms, hub.next, site)
    BY <1>1, <1>4 DEF PlaceRoom, HubBecomes, Fields, site
  <2>2. c # hub.next
    BY <1>1
  <2>3. c \in DOMAIN hub'.rooms /\ hub'.rooms[c] = hub.rooms[c]
    BY <1>1, <2>1, <2>2 DEF WithKey
  <2> QED BY <1>1, <2>3 DEF Untouched
<1>5. CASE s \in Settlers /\ (RelieveSettler(p, s) \/ FellTree(p, s) \/ PostSettler(p, s, b))
  <2> DEFINE h == OffPost(hub, s)
  <2>1. Sound(h) /\ GivenUp(hub, h, s)
    BY <1>5, PostGiven DEF Settlers
  <2>2. /\ h = [f \in Fields |-> h[f]] /\ h.rooms \in [Rooms -> Room] /\ DOMAIN h.rooms = Rooms /\ h.rooms[c] \in Room
        /\ Untouched(hub.rooms[c], h.rooms[c])
    <3>1. DOMAIN h.rooms = DOMAIN hub.rooms /\ Untouched(hub.rooms[c], h.rooms[c])
      BY <1>1, <2>1 DEF GivenUp, Untouched
    <3> HIDE DEF h
    <3> QED BY <1>1, <2>1, <3>1, SoundParts
  <2> HIDE DEF h
  <2>3. CASE RelieveSettler(p, s) \/ FellTree(p, s)
    <3>1. hub' = h \/ hub' = [h EXCEPT !.wood = @ + 1]
      BY <2>3 DEF RelieveSettler, FellTree, HubBecomes, h
    <3>2. hub'.rooms = h.rooms
      BY <2>2, <3>1 DEF Fields
    <3> QED BY <2>2, <3>2
  <2>4. CASE PostSettler(p, s, b)
    <3>1. hub' = [h EXCEPT !.settlers[s].post = b, !.rooms[b].workers = @ + 1]
      BY <2>4 DEF PostSettler, HubBecomes, h
    <3> DEFINE n == h.rooms[b].workers + 1
    <3>2. hub'.rooms = [h.rooms EXCEPT ![b].workers = n]
      BY <2>2, <3>1 DEF Fields
    <3> HIDE DEF n
    <3>3. c \in DOMAIN hub'.rooms /\ Untouched(h.rooms[c], hub'.rooms[c])
      BY <2>2, <3>2 DEF Room, Untouched
    <3> QED BY <2>2, <3>3 DEF Untouched
  <2> QED BY <1>5, <2>3, <2>4
<1>6. CASE FinishRoom(b)
  <2> DEFINE n == IF hub.rooms[b].workers < Trade THEN hub.rooms[b].workers ELSE Trade
  <2>1. hub'.rooms = [hub.rooms EXCEPT ![b].busy = FALSE, ![b].workers = n]
    BY <1>1, <1>6 DEF FinishRoom, HubBecomes, Fields, Room
  <2> HIDE DEF n
  <2>2. CASE c = b
    <3>1. c \in DOMAIN hub'.rooms /\ hub'.rooms[c] = [hub.rooms[c] EXCEPT !.busy = FALSE, !.workers = n]
      BY <1>1, <2>1, <2>2
    <3> QED BY <1>1, <3>1 DEF Room, Untouched
  <2>3. CASE c # b
    BY <1>1, <2>1, <2>3 DEF Untouched
  <2> QED BY <2>2, <2>3
<1>7. CASE BringLog(s)
  <2>1. hub'.rooms = hub.rooms \/ hub'.rooms = [hub.rooms EXCEPT ![Fire].busy = FALSE, ![Fire].workers = 0]
    BY <1>1, <1>7 DEF BringLog, HubBecomes, Fields
  <2>2. CASE c = Fire
    <3>1. c \in DOMAIN hub'.rooms
          /\ (hub'.rooms[c] = hub.rooms[c] \/ hub'.rooms[c] = [hub.rooms[c] EXCEPT !.busy = FALSE, !.workers = 0])
      BY <1>1, <2>1, <2>2
    <3> QED BY <1>1, <3>1 DEF Room, Untouched
  <2>3. CASE c # Fire
    BY <1>1, <2>1, <2>3 DEF Untouched
  <2> QED BY <2>2, <2>3
<1> QED BY <1>2, <1>3, <1>4, <1>5, <1>6, <1>7

\* What a player does to a room he does to one he may change.
LEMMA OwnRoomsOnly ==
  ASSUME Sound(hub), NEW c \in Rooms, NEW p \in DOMAIN hub.players, NEW b,
         hub.rooms[c].account # NoOne, \A q \in DOMAIN hub.players : AccountOf(q) # hub.rooms[c].account,
         DemolishRoom(p, b) \/ UpgradeRoom(p, b) \/ FitRoom(p, b) \/ MoveRoom(p, b)
  PROVE  c \in DOMAIN hub'.rooms /\ Untouched(hub.rooms[c], hub'.rooms[c])
<1>1. /\ hub = [f \in Fields |-> hub[f]] /\ hub.rooms \in [Rooms -> Room] /\ DOMAIN hub.rooms = Rooms
  BY SoundParts DEF Rooms
<1>2. c # b
  BY DEF DemolishRoom, UpgradeRoom, FitRoom, MoveRoom, MayChange
<1>3. c \in DOMAIN hub'.rooms /\ hub'.rooms[c] = hub.rooms[c]
  <2>1. CASE DemolishRoom(p, b)
    BY <1>1, <1>2, <2>1 DEF DemolishRoom, HubBecomes, Keeping, Fields
  <2>2. CASE UpgradeRoom(p, b)
    <3> DEFINE mid == [hub EXCEPT !.wood = @ - RaiseCost, !.rooms[b].level = @ + 1, !.rooms[b].fitted = FALSE]
               n == mid.rooms[b].workers + Called(b)
    <3>1. hub' = [mid EXCEPT !.rooms[b].busy = TRUE, !.rooms[b].workers = n]
      BY <2>2 DEF UpgradeRoom, Reopened, HubBecomes
    <3>2. mid = [f \in Fields |-> mid[f]] /\ c \in DOMAIN mid.rooms /\ mid.rooms[c] = hub.rooms[c]
      <4> DEFINE w == hub.wood - RaiseCost
                 l == hub.rooms[b].level + 1
      <4>1. mid = [hub EXCEPT !.wood = w, !.rooms[b].level = l, !.rooms[b].fitted = FALSE]
        BY <1>1 DEF Fields
      <4> HIDE DEF w, l, mid
      <4>2. mid.rooms = [hub.rooms EXCEPT ![b].level = l, ![b].fitted = FALSE]
        BY <1>1, <4>1 DEF Fields
      <4>3. mid = [f \in Fields |-> mid[f]]
        <5> DEFINE r1 == [hub.rooms EXCEPT ![b].level = l]
                   r2 == [r1 EXCEPT ![b].fitted = FALSE]
        <5>1. [hub EXCEPT !.wood = w, !.rooms[b].level = l] = [hub EXCEPT !.wood = w, !.rooms = r1]
          BY <1>1 DEF Fields
        <5>2. [hub EXCEPT !.wood = w, !.rooms = r1].rooms = r1
          BY <1>1 DEF Fields
        <5>3. mid = [[hub EXCEPT !.wood = w, !.rooms = r1] EXCEPT !.rooms = r2]
          BY <4>1, <5>1, <5>2
        <5> HIDE DEF r1, r2
        <5> QED BY <1>1, <5>3 DEF Fields
      <4> QED BY <1>1, <1>2, <4>2, <4>3
    <3> HIDE DEF mid, n
    <3>3. hub'.rooms = [mid.rooms EXCEPT ![b].busy = TRUE, ![b].workers = n]
      BY <3>1, <3>2 DEF Fields
    <3> QED BY <1>2, <3>2, <3>3
  <2>3. CASE FitRoom(p, b)
    BY <1>1, <1>2, <2>3 DEF FitRoom, HubBecomes, Fields
  <2>4. CASE MoveRoom(p, b)
    <3> DEFINE n == hub.rooms[b].workers + Called(b)
    <3>1. hub' = [hub EXCEPT !.rooms[b].busy = TRUE, !.rooms[b].workers = n]
      BY <2>4 DEF MoveRoom, Reopened, HubBecomes
    <3> HIDE DEF n
    <3>2. hub'.rooms = [hub.rooms EXCEPT ![b].busy = TRUE, ![b].workers = n]
      BY <1>1, <3>1 DEF Fields
    <3> QED BY <1>1, <1>2, <3>2
  <2> QED BY <2>1, <2>2, <2>3, <2>4
<1> QED BY <1>3 DEF Untouched

\* What an account placed stays as it is while none of its players is here.
THEOREM AccountsObeyed == CommuneSpec => RoomsObeyTheirAccount
<1>1. HubInv /\ [CommuneNext]_communeVars => [OnlyItsAccount]_communeVars
  <2> SUFFICES ASSUME HubInv, CommuneNext, NEW c \in Rooms, hub.rooms[c].account # NoOne,
                      \A p \in DOMAIN hub.players : AccountOf(p) # hub.rooms[c].account
               PROVE  c \in DOMAIN hub'.rooms /\ Untouched(hub.rooms[c], hub'.rooms[c])
    BY DEF OnlyItsAccount, Rooms, Untouched
  <2> DEFINE Safe == c \in DOMAIN hub'.rooms /\ Untouched(hub.rooms[c], hub'.rooms[c])
  <2>1. Sound(hub)
    BY DEF HubInv
  <2>2. ASSUME NEW a, JoinCommune(a) \/ Settle(a) \/ Withdraw(a) PROVE Safe
    BY <2>1, <2>2, OthersKeepOff
  <2>3. CASE RestartServer
    BY <2>1, <2>3, OthersKeepOff
  <2>4. ASSUME NEW p \in DOMAIN hub.players,
               \/ LeaveCommune(p) \/ PlaceRoom(p)
               \/ \E s \in Settlers : RelieveSettler(p, s) \/ FellTree(p, s) \/ \E b \in Rooms : PostSettler(p, s, b)
        PROVE  Safe
    BY <2>1, <2>4, OthersKeepOff
  <2>5. ASSUME NEW p \in DOMAIN hub.players, NEW b \in Rooms,
               DemolishRoom(p, b) \/ UpgradeRoom(p, b) \/ FitRoom(p, b) \/ MoveRoom(p, b)
        PROVE  Safe
    BY <2>1, <2>5, OwnRoomsOnly
  <2>6. ASSUME NEW b \in Rooms, FinishRoom(b) \/ WorkRoom(b) PROVE Safe
    BY <2>1, <2>6, OthersKeepOff
  <2>7. ASSUME NEW s \in Settlers, BringLog(s) PROVE Safe
    BY <2>1, <2>7, OthersKeepOff
  <2> QED BY <2>2, <2>3, <2>4, <2>5, <2>6, <2>7 DEF CommuneNext
<1> QED BY <1>1, HubInductive, PTL DEF RoomsObeyTheirAccount, CommuneSpec

=================================================================================
