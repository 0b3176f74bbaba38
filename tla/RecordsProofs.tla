---------------------------- MODULE RecordsProofs ----------------------------
(***************************************************************************)
(* What is recorded of a world.  A client's copy is never stale, for any   *)
(* clients, lengths of worlds and numbers of them; a save is never torn,   *)
(* never behind the one it replaces and, of whatever version it is, read   *)
(* whole, for every version, world and length of play; and the market's    *)
(* book and wallets hold what the stockpiles gave, for any accounts,       *)
(* worlds and interleaving of their statements.                            *)
(***************************************************************************)
EXTENDS Snapshots, Saves, Market, Counting

(* The snapshots *)

World == [world : Nat \ {0}, tick : Nat, phase : Phases, events : Nat, chat : Nat,
          pings : SUBSET Nat, goals : {0, 1}]
Memory == [events : Nat, chat : Nat, pings : SUBSET Nat, goals : {0, 1}]
Shown == [phase : Phases, tiles : Clock, events : Clock, chat : Clock,
          pings : SUBSET Nat, goals : {0, 1}, countdown : SUBSET Int]

Typed ==
  /\ game \in World /\ sent \in Memory /\ view \in [clients -> Shown]
  /\ over_for \in SUBSET Int /\ countdown_sent \in SUBSET Int
  /\ instep \subseteq clients

\* The last count sent is the log's only if every client has the log as it is: the totals of
\* one world only grow, a joiner adds a line, and a new world forgets what was sent.
SentIsHeld ==
  /\ sent.events <= game.events
  /\ sent.events = game.events => \A c \in clients : view[c].events = Log(game.world, game.events)

\* A client counts down what was last sent or nothing; and where no world is ever replaced
\* nothing counts.
OneCountdown ==
  /\ \A c \in clients : view[c].countdown \in {{}, countdown_sent}
  /\ ~Persistent => over_for = {} /\ countdown_sent = {}

\* Clients in step hold what was last sent.
InStepHolds ==
  \A c \in instep : view[c].pings = sent.pings /\ view[c].goals = sent.goals

SnapInv == Typed /\ SentIsHeld /\ OneCountdown /\ InStepHolds /\ NothingStale

\* The copy a joiner starts from, and what a merge makes of one, are copies.
LEMMA Copies ==
  ASSUME NEW g \in World
  PROVE  /\ Welcomed(g) \in Shown
         /\ \A v \in Shown, count \in SUBSET Int : \A inc : Merged(v, g, inc, count) \in Shown
<1>1. \A w, n \in Nat : Log(w, n) \in Clock
  BY DEF Log, NoLog, Clock
<1>2. /\ Log(g.world, g.events) \in Clock
      /\ Log(g.world, g.chat) \in Clock
      /\ <<g.world, g.tick>> \in Clock
  BY <1>1 DEF World, Clock
<1>3. Welcomed(g) \in Shown
  BY <1>2 DEF Welcomed, Shown, World
<1>4. ASSUME NEW v \in Shown, NEW inc, NEW count \in SUBSET Int PROVE Merged(v, g, inc, count) \in Shown
  <2>1. CountdownShown(v, g, count) \in SUBSET Int
    BY DEF CountdownShown, Shown
  <2> QED
    BY <1>2, <2>1 DEF Merged, Shown, World
<1> QED
  BY <1>3, <1>4

\* What a merge makes of the fields the properties read.
LEMMA MergedIs ==
  ASSUME NEW v, NEW g, NEW inc, NEW count
  PROVE  /\ Merged(v, g, inc, count).events = IF inc.events THEN Log(g.world, g.events) ELSE v.events
         /\ Merged(v, g, inc, count).pings = IF inc.pings THEN g.pings ELSE v.pings
         /\ Merged(v, g, inc, count).goals = IF inc.goals THEN g.goals ELSE v.goals
         /\ Merged(v, g, inc, count).countdown = CountdownShown(v, g, count)
  BY DEF Merged

\* Nobody is connected and nothing was sent.
LEMMA SnapStarts == SnapInit => SnapInv
<1> SUFFICES ASSUME SnapInit PROVE SnapInv
  OBVIOUS
<1>1. Typed
  BY SnapshotsAssumption
  DEF SnapInit, NewWorld, NothingSent, Typed, World, Memory, Phases
<1> QED
  BY <1>1 DEF SnapInit, NewWorld, NothingSent, SnapInv, SentIsHeld, OneCountdown, InStepHolds,
     NothingStale, EventsCurrent, CountdownTrue

\* A joiner is welcomed with the whole world, and their arrival is an event of its log.
LEMMA JoinKeeps == ASSUME SnapInv, NEW c \in Conns, Join(c) PROVE SnapInv'
<1>1. Typed
  BY DEF SnapInv
<1>2. /\ game' \in World
      /\ game'.events = game.events + 1
      /\ game.events \in Nat
      /\ sent.events \in Nat
  BY <1>1 DEF Join, Typed, World, Memory
<1>3. /\ clients' = clients \cup {c}
      /\ c \notin clients
      /\ view' = [d \in clients' |-> IF d = c THEN Welcomed(game') ELSE view[d]]
  BY DEF Join
<1>4. view' \in [clients' -> Shown]
  BY <1>1, <1>2, <1>3, Copies DEF Typed
<1>5. Typed'
  BY <1>1, <1>2, <1>3, <1>4 DEF Join, Typed
<1>6. SentIsHeld'
  BY <1>2 DEF SnapInv, SentIsHeld, Join
<1>7. OneCountdown'
  <2>1. Welcomed(game').countdown = {}
    BY DEF Welcomed
  <2> QED
    BY <1>3, <2>1 DEF SnapInv, OneCountdown, Join
<1>8. InStepHolds'
  BY <1>1, <1>3 DEF SnapInv, InStepHolds, Join, Typed
<1> QED
  BY <1>5, <1>6, <1>7, <1>8 DEF SnapInv, NothingStale, EventsCurrent, CountdownTrue, Join

\* One that leaves takes their copy along, and adds a line to the log.
LEMMA LeaveKeeps == ASSUME SnapInv, NEW c \in Conns, LeaveWorld(c) PROVE SnapInv'
<1>1. Typed
  BY DEF SnapInv
<1>2. /\ game' \in World
      /\ game'.events = game.events + 1
      /\ game.events \in Nat
      /\ sent.events \in Nat
  BY <1>1 DEF LeaveWorld, Typed, World, Memory
<1>3. /\ clients' \subseteq clients
      /\ view' = [d \in clients' |-> view[d]]
      /\ instep' \subseteq instep
      /\ instep' \subseteq clients'
  BY <1>1 DEF LeaveWorld, Typed
<1>5. Typed'
  BY <1>1, <1>2, <1>3 DEF LeaveWorld, Typed
<1>6. SentIsHeld'
  BY <1>2 DEF SnapInv, SentIsHeld, LeaveWorld
<1>7. OneCountdown' /\ InStepHolds'
  BY <1>3 DEF SnapInv, OneCountdown, InStepHolds, LeaveWorld
<1> QED
  BY <1>5, <1>6, <1>7 DEF SnapInv, NothingStale, EventsCurrent, CountdownTrue, LeaveWorld

\* A line of chat or a ping changes nothing but the world.
LEMMA TalkKeeps == ASSUME SnapInv, NEW c \in Conns, Chat(c) \/ Ping(c) PROVE SnapInv'
<1>1. Typed
  BY DEF SnapInv
<1>2. game' \in World /\ game'.events = game.events /\ game'.world = game.world
  <2>1. CASE Chat(c)
    BY <1>1, <2>1 DEF Chat, Typed, World
  <2>2. CASE Ping(c)
    <3>1. Capped(game.pings \cup {game.tick}) \in SUBSET Nat
      BY <1>1 DEF Capped, Typed, World
    <3> QED
      BY <1>1, <2>2, <3>1 DEF Ping, Typed, World
  <2> QED
    BY <2>1, <2>2
<1>3. UNCHANGED <<over_for, clients, sent, countdown_sent, view, instep>> /\ ~fresh'
  BY DEF Chat, Ping
<1>4. Typed'
  BY <1>1, <1>2, <1>3 DEF Typed
<1> QED
  BY <1>2, <1>3, <1>4 DEF SnapInv, SentIsHeld, OneCountdown, InStepHolds, NothingStale,
     EventsCurrent, CountdownTrue

-----------------------------------------------------------------------------
(* The tick *)

\* The simulation leaves a world, with as many events or more.
LEMMA SimulatedIs ==
  ASSUME NEW g \in World, NEW h \in Simulated(g)
  PROVE  h \in World /\ h.events \in Nat /\ h.events >= g.events /\ h.world = g.world
<1>1. Live(g.pings, g.tick + 1) \in SUBSET Nat
  BY DEF Live, World
<1>2. CASE h = g
  BY <1>2 DEF World
<1>3. CASE h = Ended(g) \/ h = TunnelWon(g)
  <2>1. g.tick + 1 \in Nat /\ g.events + 1 \in Nat /\ g.events \in Nat /\ g.events + 1 >= g.events
    BY DEF World
  <2>2. "Over" \in Phases /\ {} \in SUBSET Nat
    BY DEF Phases
  <2>3. h \in World
    BY <1>3, <2>1, <2>2 DEF Ended, TunnelWon, World
  <2>4. h.events = g.events + 1 /\ h.world = g.world
    BY <1>3 DEF Ended, TunnelWon, World
  <2> QED
    BY <2>1, <2>3, <2>4
<1>4. CASE \E news \in 0..1, goals \in {g.goals, 1} : h = Lived(g, news, goals)
  <2>1. PICK news \in 0..1, goals \in {g.goals, 1} : h = Lived(g, news, goals)
    BY <1>4
  <2>2. /\ g.tick + 1 \in Nat
        /\ g.events + news \in Nat
        /\ g.events \in Nat
        /\ g.events + news >= g.events
        /\ goals \in {0, 1}
    BY DEF World
  <2>3. h \in World
    BY <1>1, <2>1, <2>2 DEF Lived, World
  <2>4. h.events = g.events + news /\ h.world = g.world
    BY <2>1 DEF Lived, World
  <2> QED
    BY <2>2, <2>3, <2>4
<1> QED
  BY <1>2, <1>3, <1>4 DEF Simulated

\* A new world has two events, the arrival's and the reset's.
LEMMA ReplacedIs ==
  ASSUME NEW g \in World
  PROVE  Replaced(g) \in World /\ Replaced(g).events = 2 /\ Replaced(g).phase = "Running"
BY SnapshotsAssumption DEF Replaced, NewWorld, World, Phases

\* A broadcast to somebody leaves everybody with the log, and with the countdown or none.
LEMMA TellsAll ==
  ASSUME Typed, OneCountdown, InStepHolds, game' \in World, clients' = clients, clients # {},
         NEW last \in Memory, Broadcast(last),
         last.events = game'.events => \A c \in clients : view[c].events = Log(game'.world, game'.events),
         last.pings = sent.pings /\ last.goals = sent.goals,
         over_for' \in SUBSET Int,
         ~Persistent => over_for' = {},
         Persistent /\ game'.phase = "Over" => over_for' # {}
  PROVE  SnapInv' /\ instep \subseteq instep'
<1> DEFINE inc == Included(game', last)
           count == Countdown(over_for')
<1>1. /\ sent' = Remembered(game', last) /\ countdown_sent' = count
      /\ view' = [c \in clients |-> Merged(view[c], game', inc, count)]
      /\ instep' = {c \in clients : Right(view'[c], game')}
  BY DEF Broadcast
<1>2. count \in SUBSET Int /\ (over_for' = {} <=> count = {})
  BY SnapshotsAssumption DEF Countdown
<1>3. /\ sent' \in Memory
      /\ sent'.events = game'.events
      /\ sent'.pings = game'.pings
      /\ sent'.goals = game'.goals
  BY <1>1 DEF Remembered, World, Memory
<1>4. \A c \in clients : view'[c] = Merged(view[c], game', inc, count) /\ view[c] \in Shown
  BY <1>1 DEF Typed
<1>5. view' \in [clients' -> Shown]
  BY <1>1, <1>2, <1>4, Copies
<1>6. Typed'
  BY <1>1, <1>2, <1>3, <1>5 DEF Typed
<1>7. ASSUME NEW c \in clients PROVE view'[c].events = Log(game'.world, game'.events)
  <2>1. view'[c].events = IF inc.events THEN Log(game'.world, game'.events) ELSE view[c].events
    BY <1>4, MergedIs
  <2> QED
    BY <2>1 DEF Included
<1>8. ASSUME NEW c \in clients PROVE view'[c].countdown \in {{}, count}
  <2>1. view'[c].countdown = CountdownShown(view[c], game', count)
    BY <1>4, MergedIs
  <2>2. view[c].countdown \in {{}, countdown_sent}
    BY DEF OneCountdown
  <2>3. game'.phase = "Running" \/ game'.phase = "Over"
    BY DEF World, Phases
  <2> QED
    BY <1>2, <2>1, <2>2, <2>3 DEF CountdownShown, OneCountdown
<1>9. ASSUME NEW c \in instep PROVE c \in instep'
  <2>1. c \in clients
    BY DEF Typed
  <2>2. /\ view'[c].pings = IF inc.pings THEN game'.pings ELSE view[c].pings
        /\ view'[c].goals = IF inc.goals THEN game'.goals ELSE view[c].goals
    BY <1>4, <2>1, MergedIs
  <2>3. view[c].pings = last.pings /\ view[c].goals = last.goals
    BY DEF InStepHolds
  <2> QED
    BY <1>1, <2>1, <2>2, <2>3 DEF Right, Included
<1>10. SentIsHeld'
  <2>1. game'.events \in Nat
    BY DEF World
  <2> QED
    BY <1>3, <1>7, <2>1 DEF SentIsHeld
<1>11. OneCountdown' /\ InStepHolds'
  BY <1>1, <1>2, <1>3, <1>8 DEF OneCountdown, InStepHolds, Right
<1>12. NothingStale'
  BY <1>1, <1>7, <1>8 DEF NothingStale, EventsCurrent, CountdownTrue
<1> QED
  BY <1>6, <1>9, <1>10, <1>11, <1>12 DEF SnapInv

\* A broadcast to nobody.
LEMMA TellsNobody ==
  ASSUME Typed, OneCountdown, game' \in World, clients' = clients, clients = {},
         NEW last \in Memory, Broadcast(last), last.events <= game'.events,
         over_for' \in SUBSET Int, ~Persistent => over_for' = {}
  PROVE  SnapInv' /\ ~fresh'
<1>1. sent' = last /\ ~fresh' /\ UNCHANGED <<countdown_sent, view, instep>>
  BY DEF Broadcast
<1>2. instep = {}
  BY DEF Typed
<1> QED
  BY <1>1, <1>2 DEF SnapInv, Typed, SentIsHeld, OneCountdown, InStepHolds, NothingStale,
     EventsCurrent, CountdownTrue

\* The wait for a reset has begun in a finished world that somebody watches, and never in one
\* that is not kept.
LEMMA Waits ==
  ASSUME NEW g, NEW dt \in 0..1, over_for \in SUBSET Int, ~Persistent => over_for = {}
  PROVE  /\ Waited(g, dt) \in SUBSET Int
         /\ ~Persistent => Waited(g, dt) = {}
         /\ Persistent /\ g.phase = "Over" /\ clients # {} => Waited(g, dt) # {}
<1>1. {IF e + dt > ResetAfter THEN ResetAfter ELSE e + dt : e \in over_for} \in SUBSET Int
  <2>1. ResetAfter \in Int
    BY SnapshotsAssumption DEF SnapshotsAssumption
  <2>2. \A e \in over_for : (IF e + dt > ResetAfter THEN ResetAfter ELSE e + dt) \in Int
    BY <2>1
  <2> QED
    BY <2>2
<1>2. over_for # {} => {IF e + dt > ResetAfter THEN ResetAfter ELSE e + dt : e \in over_for} # {}
  OBVIOUS
<1>3. Waited(g, dt) \in SUBSET Int
  <2>1. {0} \in SUBSET Int /\ {} \in SUBSET Int
    OBVIOUS
  <2> DEFINE waiting == {IF e + dt > ResetAfter THEN ResetAfter ELSE e + dt : e \in over_for}
  <2>2. waiting \in SUBSET Int
    BY <1>1
  <2>3. Waited(g, dt) \in {{0}, {}, waiting}
    BY DEF Waited
  <2> HIDE DEF waiting
  <2> QED
    BY <2>1, <2>2, <2>3
<1>4. ~Persistent => Waited(g, dt) = {}
  BY DEF Waited
<1>5. ASSUME Persistent, g.phase = "Over", clients # {} PROVE Waited(g, dt) # {}
  <2>1. Counting(g)
    BY <1>5 DEF Counting
  <2> QED
    BY <1>2, <1>5, <2>1 DEF Waited
<1> QED
  BY <1>3, <1>4, <1>5

\* A tick lives the world, replaces it when its wait is over, and broadcasts it.
LEMMA TickKeeps ==
  ASSUME SnapInv, Tick
  PROVE  SnapInv' /\ (fresh' => instep \subseteq instep')
<1>1. PICK g \in Simulated(game), dt \in 0..1 :
         IF Due(g, Waited(g, dt)) /\ g.world < MaxWorlds
           THEN game' = Replaced(g) /\ over_for' = {} /\ Broadcast(Forgotten)
           ELSE game' = g /\ over_for' = Waited(g, dt) /\ Broadcast(sent)
  BY DEF Tick
<1>2. clients' = clients
  BY DEF Tick
<1>3. Typed /\ SentIsHeld /\ OneCountdown /\ InStepHolds
  BY DEF SnapInv
<1>4. game \in World /\ sent \in Memory /\ over_for \in SUBSET Int /\ (~Persistent => over_for = {})
  BY <1>3 DEF Typed, OneCountdown
<1>5. g \in World /\ g.events \in Nat /\ g.events >= game.events /\ g.world = game.world
  BY <1>4, SimulatedIs
<1>6. CASE Due(g, Waited(g, dt)) /\ g.world < MaxWorlds
  <2>1. game' = Replaced(g) /\ over_for' = {} /\ Broadcast(Forgotten)
    BY <1>1, <1>6
  <2>2. game' \in World /\ game'.events = 2 /\ game'.phase = "Running"
    BY <1>5, <2>1, ReplacedIs
  <2>3. /\ Forgotten \in Memory /\ Forgotten.events = 0
        /\ Forgotten.pings = sent.pings /\ Forgotten.goals = sent.goals
    BY <1>4 DEF Forgotten, Memory
  <2>4. CASE clients = {}
    BY <1>2, <1>3, <2>1, <2>2, <2>3, <2>4, TellsNobody
  <2>5. CASE clients # {}
    BY <1>2, <1>3, <2>1, <2>2, <2>3, <2>5, TellsAll
  <2> QED
    BY <2>4, <2>5
<1>7. CASE ~(Due(g, Waited(g, dt)) /\ g.world < MaxWorlds)
  <2>1. game' = g /\ over_for' = Waited(g, dt) /\ Broadcast(sent)
    BY <1>1, <1>7
  <2>2. /\ over_for' \in SUBSET Int /\ (~Persistent => over_for' = {})
        /\ Persistent /\ game'.phase = "Over" /\ clients # {} => over_for' # {}
    BY <1>4, <2>1, Waits
  <2>3. sent.events <= game.events /\ sent.events \in Nat /\ game.events \in Nat
    BY <1>3, <1>4 DEF SentIsHeld, World, Memory
  <2>4. sent.events <= game'.events
    BY <1>5, <2>1, <2>3
  <2>5. sent.events = game'.events => \A c \in clients : view[c].events = Log(game'.world, game'.events)
    BY <1>3, <1>5, <2>1, <2>3 DEF SentIsHeld
  <2>6. CASE clients = {}
    BY <1>2, <1>3, <1>4, <1>5, <2>1, <2>2, <2>4, <2>6, TellsNobody
  <2>7. CASE clients # {}
    BY <1>2, <1>3, <1>4, <1>5, <2>1, <2>2, <2>5, <2>7, TellsAll
  <2> QED
    BY <2>6, <2>7
<1> QED
  BY <1>6, <1>7

\* Every step of the world and its clients.
LEMMA SnapKeeps == ASSUME SnapInv, [SnapNext]_snapVars PROVE SnapInv'
<1>1. ASSUME NEW c \in Conns, Join(c) PROVE SnapInv'
  BY <1>1, JoinKeeps
<1>2. ASSUME NEW c \in Conns, LeaveWorld(c) PROVE SnapInv'
  BY <1>2, LeaveKeeps
<1>3. ASSUME NEW c \in Conns, Chat(c) \/ Ping(c) PROVE SnapInv'
  BY <1>3, TalkKeeps
<1>4. ASSUME Tick PROVE SnapInv'
  BY <1>4, TickKeeps
<1>5. ASSUME UNCHANGED snapVars PROVE SnapInv'
  BY <1>5 DEF snapVars, SnapInv, Typed, SentIsHeld, OneCountdown, InStepHolds, NothingStale,
     EventsCurrent, CountdownTrue
<1> QED
  BY <1>1, <1>2, <1>3, <1>4, <1>5 DEF SnapNext

\* What was last sent is what the clients have, in every state: the invariant the two below
\* are read off.
THEOREM SentIsKnown == SnapSpec => []SnapInv
<1> QED
  BY SnapStarts, SnapKeeps, PTL DEF SnapSpec

\* No broadcast leaves a client with an old event log or with a countdown that does not run,
\* whoever joins and leaves and however many worlds come and go (Included, Merged).
THEOREM NeverStale == SnapSpec => []NothingStale
<1>1. SnapInv => NothingStale
  BY DEF SnapInv
<1> QED
  BY <1>1, SentIsKnown, PTL

\* A client with the right pings, missions and techs keeps the right ones through every later
\* broadcast, although each is sent only when it has changed.
THEOREM InStepStays == SnapSpec => StaysInStep
<1>1. SnapInv /\ [SnapNext]_snapVars => [fresh' => instep \cap clients' \subseteq instep']_snapVars
  <2> SUFFICES ASSUME SnapInv, SnapNext, fresh' PROVE instep \cap clients' \subseteq instep'
    OBVIOUS
  <2>1. Tick
    BY DEF SnapNext, Join, LeaveWorld, Chat, Ping
  <2> QED
    BY <2>1, TickKeeps
<1> QED
  BY <1>1, SentIsKnown, PTL DEF SnapSpec, StaysInStep

-----------------------------------------------------------------------------
(* The versions of a save *)

\* The tables of a world, and a world with the fields of a given shape.
Tables == {"state", "tile", "hut", "tunnel", "survivor", "stock", "player"}
Formed(w, shape) == DOMAIN w = Tables /\ \A t \in Tables : DOMAIN w[t] = shape[t]

\* What every version has had.
Carrying(shape) ==
  /\ {"tick", "graduated", "rng", "owner_id"} \subseteq shape.state
  /\ {"id"} \subseteq shape.survivor
  /\ {"kind"} \subseteq shape.tunnel
  /\ {"kind"} \subseteq shape.hut

\* What a world that lacks a field is given for it, whichever version it comes from: it
\* depends on nothing but the stream of random numbers and, for a survivor, on their id.
FreshState(rng) ==
  [central |-> FALSE, central_ledger |-> Empty, leader |-> None, mourning_until |-> 0,
   morale |-> MORALE_START, pending_migrant |-> None, wildlife |-> WildlifeStart,
   corpses |-> Empty, graves |-> Empty, livestock |-> LivestockStart, pending_caravan |-> None,
   illness_rng |-> Stream(rng, 37), expeditions |-> Empty, expedition_rng |-> Stream(rng, 11),
   laws |-> Empty, law_cooldown_until |-> 0, lifecycle_rng |-> Stream(rng, 53),
   mission_cycle |-> 0, clear_orders |-> Empty]
FreshSurvivor(id) ==
  [owner |-> None, x |-> SpawnPosition(id), y |-> SpawnPosition(id), move_target |-> None,
   profession |-> ProfessionOf(id), xp |-> 0, trained_kind |-> None, chop_target |-> None,
   carrying_wood |-> FALSE, thirst |-> 0, bury_target |-> None, fatigue |-> 0,
   sick_left |-> 0, age_days |-> MigratedAge(id), partner |-> None]
FreshBuilding ==
  [owner_account |-> None, level |-> 1, build_left |-> 0, facing |-> 0, furnishings |-> Empty]
FreshTile == [road |-> FALSE, snow |-> 0]
FreshStock == [fur |-> 0, cloth |-> 0, water |-> 0, gold |-> 0]
FreshPlayer == [account |-> None]
Fresh(w) ==
  [state |-> FreshState(w.state.rng), tile |-> FreshTile, hut |-> FreshBuilding,
   tunnel |-> FreshBuilding, survivor |-> FreshSurvivor(w.survivor.id), stock |-> FreshStock,
   player |-> FreshPlayer]

\* A row with further fields, filled in from a row of fresh values.
Added(r, s, new, fill) ==
  /\ DOMAIN s = DOMAIN r \cup new
  /\ \A f \in DOMAIN r : s[f] = r[f]
  /\ \A f \in new \ DOMAIN r : s[f] = fill[f]

\* A world brought forward keeps the fields it had that are still there, and has the fresh
\* values in those it lacked; a hop of the chain moreover drops none.
Keeps(w, x) == \A t \in Tables : \A f \in DOMAIN w[t] \cap DOMAIN x[t] : x[t][f] = w[t][f]
Fills(w, x) == \A t \in Tables : \A f \in DOMAIN x[t] \ DOMAIN w[t] : x[t][f] = Fresh(w)[t][f]
Grows(w, x) ==
  /\ \A t \in Tables : DOMAIN w[t] \subseteq DOMAIN x[t]
  /\ Keeps(w, x) /\ Fills(w, x)

\* A row with further fields has them, and keeps its own.
LEMMA Withs ==
  ASSUME NEW row, NEW more, NEW fill, \A f \in DOMAIN more : more[f] = fill[f]
  PROVE  Added(row, With(row, more), DOMAIN more, fill)
  BY DEF With, Added

\* The tables of version 1.
LEMMA Shape1 ==
  /\ DOMAIN GameStateV1 = Tables /\ Carrying(GameStateV1)
  /\ GameStateV1.tile = TileV15 /\ GameStateV1.hut = BuildingV2 /\ GameStateV1.tunnel = BuildingV2
  /\ GameStateV1.survivor = SurvivorV1
  /\ GameStateV1.stock = StockpileV7
  /\ GameStateV1.player = PlayerInfoV1
  BY DEF GameStateV1, Tables, Carrying, SurvivorV1, BuildingV2

\* The tables of version 2.
LEMMA Shape2 ==
  /\ DOMAIN GameStateV2 = Tables /\ Carrying(GameStateV2)
  /\ GameStateV2.state = GameStateV1.state \cup {"central"}
  /\ GameStateV2.tile = TileV15 /\ GameStateV2.hut = BuildingV2 /\ GameStateV2.tunnel = BuildingV2
  /\ GameStateV2.survivor = SurvivorV3
  /\ GameStateV2.stock = StockpileV7
  /\ GameStateV2.player = PlayerInfo
  BY Shape1 DEF GameStateV2, Tables, Carrying, SurvivorV3

\* The tables of version 3.
LEMMA Shape3 ==
  /\ DOMAIN GameStateV3 = Tables /\ Carrying(GameStateV3)
  /\ GameStateV3.state = GameStateV2.state \cup {"central_ledger"}
  /\ GameStateV3.tile = TileV15 /\ GameStateV3.hut = BuildingV4 /\ GameStateV3.tunnel = BuildingV4
  /\ GameStateV3.survivor = SurvivorV3
  /\ GameStateV3.stock = StockpileV7
  /\ GameStateV3.player = PlayerInfo
  BY Shape2 DEF GameStateV3, WithBuildings, Tables, Carrying, BuildingV4

\* The tables of version 4.
LEMMA Shape4 ==
  /\ DOMAIN GameStateV4 = Tables /\ Carrying(GameStateV4)
  /\ GameStateV4.state = GameStateV3.state \cup {"leader", "mourning_until", "morale"}
  /\ GameStateV4.tile = TileV15 /\ GameStateV4.hut = BuildingV4 /\ GameStateV4.tunnel = BuildingV4
  /\ GameStateV4.survivor = SurvivorV5
  /\ GameStateV4.stock = StockpileV7
  /\ GameStateV4.player = PlayerInfo
  BY Shape3 DEF GameStateV4, Tables, Carrying, SurvivorV5

\* The tables of version 5.
LEMMA Shape5 ==
  /\ DOMAIN GameStateV5 = Tables /\ Carrying(GameStateV5)
  /\ GameStateV5.state = GameStateV4.state
  /\ GameStateV5.tile = TileV15 /\ GameStateV5.hut = BuildingV12 /\ GameStateV5.tunnel = BuildingV12
  /\ GameStateV5.survivor = SurvivorV5
  /\ GameStateV5.stock = StockpileV7
  /\ GameStateV5.player = PlayerInfo
  BY Shape4 DEF GameStateV5, WithBuildings, Tables, Carrying, BuildingV12

\* The tables of version 6.
LEMMA Shape6 ==
  /\ DOMAIN GameStateV6 = Tables /\ Carrying(GameStateV6)
  /\ GameStateV6.state = GameStateV5.state
  /\ GameStateV6.tile = TileV15 /\ GameStateV6.hut = BuildingV12 /\ GameStateV6.tunnel = BuildingV12
  /\ GameStateV6.survivor = SurvivorV8
  /\ GameStateV6.stock = StockpileV7
  /\ GameStateV6.player = PlayerInfo
  BY Shape5 DEF GameStateV6, Tables, Carrying, SurvivorV8

\* The tables of version 7.
LEMMA Shape7 ==
  /\ DOMAIN GameStateV7 = Tables /\ Carrying(GameStateV7)
  /\ GameStateV7.state = GameStateV6.state \cup {"pending_migrant"}
  /\ GameStateV7.tile = TileV15 /\ GameStateV7.hut = BuildingV12 /\ GameStateV7.tunnel = BuildingV12
  /\ GameStateV7.survivor = SurvivorV8
  /\ GameStateV7.stock = StockpileV7
  /\ GameStateV7.player = PlayerInfo
  BY Shape6 DEF GameStateV7, Tables, Carrying

\* The tables of version 8.
LEMMA Shape8 ==
  /\ DOMAIN GameStateV8 = Tables /\ Carrying(GameStateV8)
  /\ GameStateV8.state = GameStateV7.state \cup {"wildlife"}
  /\ GameStateV8.tile = TileV15 /\ GameStateV8.hut = BuildingV12 /\ GameStateV8.tunnel = BuildingV12
  /\ GameStateV8.survivor = SurvivorV8
  /\ GameStateV8.stock = StockpileV8
  /\ GameStateV8.player = PlayerInfo
  BY Shape7 DEF GameStateV8, Tables, Carrying

\* The tables of version 9.
LEMMA Shape9 ==
  /\ DOMAIN GameStateV9 = Tables /\ Carrying(GameStateV9)
  /\ GameStateV9.state = GameStateV8.state \cup {"corpses", "graves"}
  /\ GameStateV9.tile = TileV15 /\ GameStateV9.hut = BuildingV12 /\ GameStateV9.tunnel = BuildingV12
  /\ GameStateV9.survivor = SurvivorV13
  /\ GameStateV9.stock = StockpileV10
  /\ GameStateV9.player = PlayerInfo
  BY Shape8 DEF GameStateV9, Tables, Carrying, SurvivorV13

\* The tables of version 10.
LEMMA Shape10 ==
  /\ DOMAIN GameStateV10 = Tables /\ Carrying(GameStateV10)
  /\ GameStateV10.state = GameStateV9.state \cup {"livestock"}
  /\ GameStateV10.tile = TileV15
  /\ GameStateV10.hut = BuildingV12
  /\ GameStateV10.tunnel = BuildingV12
  /\ GameStateV10.survivor = SurvivorV13
  /\ GameStateV10.stock = StockpileV10
  /\ GameStateV10.player = PlayerInfo
  BY Shape9 DEF GameStateV10, Tables, Carrying

\* The tables of version 11.
LEMMA Shape11 ==
  /\ DOMAIN GameStateV11 = Tables /\ Carrying(GameStateV11)
  /\ GameStateV11.state = GameStateV10.state \cup {"pending_caravan"}
  /\ GameStateV11.tile = TileV15
  /\ GameStateV11.hut = BuildingV12
  /\ GameStateV11.tunnel = BuildingV12
  /\ GameStateV11.survivor = SurvivorV13
  /\ GameStateV11.stock = Stockpile
  /\ GameStateV11.player = PlayerInfo
  BY Shape10 DEF GameStateV11, Tables, Carrying

\* The tables of version 12.
LEMMA Shape12 ==
  /\ DOMAIN GameStateV12 = Tables /\ Carrying(GameStateV12)
  /\ GameStateV12.state = GameStateV11.state \ {"guest_perm"}
  /\ GameStateV12.tile = TileV15
  /\ GameStateV12.hut = BuildingV12
  /\ GameStateV12.tunnel = BuildingV12
  /\ GameStateV12.survivor = SurvivorV13
  /\ GameStateV12.stock = Stockpile
  /\ GameStateV12.player = PlayerInfo
  BY Shape11 DEF GameStateV12, Tables, Carrying

\* The tables of version 13.
LEMMA Shape13 ==
  /\ DOMAIN GameStateV13 = Tables /\ Carrying(GameStateV13)
  /\ GameStateV13.state = GameStateV12.state
  /\ GameStateV13.tile = TileV15
  /\ GameStateV13.hut = BuildingV16
  /\ GameStateV13.tunnel = BuildingV16
  /\ GameStateV13.survivor = SurvivorV13
  /\ GameStateV13.stock = Stockpile
  /\ GameStateV13.player = PlayerInfo
  BY Shape12 DEF GameStateV13, WithBuildings, Tables, Carrying, BuildingV16

\* The tables of version 14.
LEMMA Shape14 ==
  /\ DOMAIN GameStateV14 = Tables /\ Carrying(GameStateV14)
  /\ GameStateV14.state = GameStateV13.state \cup {"illness_rng"}
  /\ GameStateV14.tile = TileV15
  /\ GameStateV14.hut = BuildingV16
  /\ GameStateV14.tunnel = BuildingV16
  /\ GameStateV14.survivor = SurvivorV14
  /\ GameStateV14.stock = Stockpile
  /\ GameStateV14.player = PlayerInfo
  BY Shape13 DEF GameStateV14, Tables, Carrying, SurvivorV14

\* The tables of version 15.
LEMMA Shape15 ==
  /\ DOMAIN GameStateV15 = Tables /\ Carrying(GameStateV15)
  /\ GameStateV15.state = GameStateV14.state
         \cup {"expeditions", "expedition_rng", "laws",
               "law_cooldown_until", "lifecycle_rng", "mission_cycle"}
  /\ GameStateV15.tile = TileV15
  /\ GameStateV15.hut = BuildingV16
  /\ GameStateV15.tunnel = BuildingV16
  /\ GameStateV15.survivor = Survivor
  /\ GameStateV15.stock = Stockpile
  /\ GameStateV15.player = PlayerInfo
  BY Shape14 DEF GameStateV15, Tables, Carrying, Survivor

\* The tables of version 16.
LEMMA Shape16 ==
  /\ DOMAIN GameStateV16 = Tables /\ Carrying(GameStateV16)
  /\ GameStateV16.state = GameStateV15.state \cup {"clear_orders"}
  /\ GameStateV16.tile = Tile /\ GameStateV16.hut = BuildingV16 /\ GameStateV16.tunnel = BuildingV16
  /\ GameStateV16.survivor = Survivor
  /\ GameStateV16.stock = Stockpile
  /\ GameStateV16.player = PlayerInfo
  BY Shape15 DEF GameStateV16, Tables, Carrying

\* The tables of the live version.
LEMMA Shape17 ==
  /\ DOMAIN GameState = Tables /\ Carrying(GameState)
  /\ GameState.state = GameStateV16.state
  /\ GameState.tile = Tile /\ GameState.hut = Building /\ GameState.tunnel = Building
  /\ GameState.survivor = Survivor /\ GameState.stock = Stockpile /\ GameState.player = PlayerInfo
  BY Shape16 DEF GameState, WithBuildings, Tables, Carrying, Building

\* The hop to version 2.
LEMMA To2 ==
  ASSUME NEW w, Formed(w, GameStateV1)
  PROVE  Formed(ToV2(w), GameStateV2) /\ Grows(w, ToV2(w))
<1>1. /\ DOMAIN ToV2(w) = Tables
      /\ \A t \in {"tile", "hut", "tunnel", "stock"} : ToV2(w)[t] = w[t]
  BY DEF Formed, ToV2, Tables
<1>2. Added(w.state, ToV2(w).state, {"central"}, FreshState(w.state.rng))
  <2> DEFINE more == [central |-> FALSE]
  <2>1. ToV2(w).state = With(w.state, more)
    BY DEF Formed, ToV2, Tables
  <2>2. DOMAIN more = {"central"} /\ \A f \in DOMAIN more : more[f] = FreshState(w.state.rng)[f]
    <3>1. more.central = FreshState(w.state.rng).central
      BY DEF FreshState
    <3> QED
      BY <3>1
  <2> HIDE DEF more
  <2> QED
    BY <2>1, <2>2, Withs
<1>3. Added(w.survivor, ToV2(w).survivor, {"owner"}, FreshSurvivor(w.survivor.id))
  <2> DEFINE more == [owner |-> None]
  <2>1. ToV2(w).survivor = With(w.survivor, more)
    BY DEF Formed, ToV2, Tables
  <2>2. DOMAIN more = {"owner"} /\ \A f \in DOMAIN more : more[f] = FreshSurvivor(w.survivor.id)[f]
    <3>1. more.owner = FreshSurvivor(w.survivor.id).owner
      BY DEF FreshSurvivor
    <3> QED
      BY <3>1
  <2> HIDE DEF more
  <2> QED
    BY <2>1, <2>2, Withs
<1>4. Added(w.player, ToV2(w).player, {"account"}, FreshPlayer)
  <2> DEFINE more == [account |-> None]
  <2>1. ToV2(w).player = With(w.player, more)
    BY DEF Formed, ToV2, Tables
  <2>2. DOMAIN more = {"account"} /\ \A f \in DOMAIN more : more[f] = FreshPlayer[f]
    BY DEF FreshPlayer
  <2> HIDE DEF more
  <2> QED
    BY <2>1, <2>2, Withs
<1>5. Formed(ToV2(w), GameStateV2)
  <2>1. DOMAIN ToV2(w).state = GameStateV2.state
    BY <1>2, Shape1, Shape2 DEF Formed, Tables, Added
  <2>2. DOMAIN ToV2(w).survivor = GameStateV2.survivor
    BY <1>3, Shape1, Shape2 DEF Formed, Tables, Added, SurvivorV3
  <2>3. DOMAIN ToV2(w).player = GameStateV2.player
    BY <1>4, Shape1, Shape2 DEF Formed, Tables, Added, PlayerInfo
  <2> QED
    BY <1>1, <2>1, <2>2, <2>3, Shape1, Shape2 DEF Formed, Tables
<1>6. Grows(w, ToV2(w))
  BY <1>1, <1>2, <1>3, <1>4 DEF Grows, Keeps, Fills, Added, Fresh, Tables
<1> QED
  BY <1>5, <1>6

\* The hop to version 3.
LEMMA To3 ==
  ASSUME NEW w, Formed(w, GameStateV2)
  PROVE  Formed(ToV3(w), GameStateV3) /\ Grows(w, ToV3(w))
<1>1. /\ DOMAIN ToV3(w) = Tables
      /\ \A t \in {"tile", "survivor", "stock", "player"} : ToV3(w)[t] = w[t]
  BY DEF Formed, ToV3, Tables
<1>2. Added(w.state, ToV3(w).state, {"central_ledger"}, FreshState(w.state.rng))
  <2> DEFINE more == [central_ledger |-> Empty]
  <2>1. ToV3(w).state = With(w.state, more)
    BY DEF Formed, ToV3, Tables
  <2>2. /\ DOMAIN more = {"central_ledger"}
        /\ \A f \in DOMAIN more : more[f] = FreshState(w.state.rng)[f]
    BY DEF FreshState
  <2> HIDE DEF more
  <2> QED
    BY <2>1, <2>2, Withs
<1>3. Added(w.hut, ToV3(w).hut, {"owner_account"}, FreshBuilding)
  <2> DEFINE more == [owner_account |-> None]
  <2>1. ToV3(w).hut = With(w.hut, more)
    BY DEF Formed, ToV3, Tables
  <2>2. DOMAIN more = {"owner_account"} /\ \A f \in DOMAIN more : more[f] = FreshBuilding[f]
    BY DEF FreshBuilding
  <2> HIDE DEF more
  <2> QED
    BY <2>1, <2>2, Withs
<1>4. Added(w.tunnel, ToV3(w).tunnel, {"owner_account"}, FreshBuilding)
  <2> DEFINE more == [owner_account |-> None]
  <2>1. ToV3(w).tunnel = With(w.tunnel, more)
    BY DEF Formed, ToV3, Tables
  <2>2. DOMAIN more = {"owner_account"} /\ \A f \in DOMAIN more : more[f] = FreshBuilding[f]
    BY DEF FreshBuilding
  <2> HIDE DEF more
  <2> QED
    BY <2>1, <2>2, Withs
<1>5. Formed(ToV3(w), GameStateV3)
  <2>1. DOMAIN ToV3(w).state = GameStateV3.state
    BY <1>2, Shape2, Shape3 DEF Formed, Tables, Added
  <2>2. DOMAIN ToV3(w).hut = GameStateV3.hut
    BY <1>3, Shape2, Shape3 DEF Formed, Tables, Added, BuildingV4
  <2>3. DOMAIN ToV3(w).tunnel = GameStateV3.tunnel
    BY <1>4, Shape2, Shape3 DEF Formed, Tables, Added, BuildingV4
  <2> QED
    BY <1>1, <2>1, <2>2, <2>3, Shape2, Shape3 DEF Formed, Tables
<1>6. Grows(w, ToV3(w))
  BY <1>1, <1>2, <1>3, <1>4 DEF Grows, Keeps, Fills, Added, Fresh, Tables
<1> QED
  BY <1>5, <1>6

\* The hop to version 4.
LEMMA To4 ==
  ASSUME NEW w, Formed(w, GameStateV3)
  PROVE  Formed(ToV4(w), GameStateV4) /\ Grows(w, ToV4(w))
<1>1. /\ DOMAIN ToV4(w) = Tables
      /\ \A t \in {"tile", "hut", "tunnel", "stock", "player"} : ToV4(w)[t] = w[t]
  BY DEF Formed, ToV4, Tables
<1>2. Added(w.state, ToV4(w).state, {"leader", "mourning_until", "morale"}, FreshState(w.state.rng))
  <2> DEFINE more == [leader |-> None, mourning_until |-> 0, morale |-> MORALE_START]
  <2>1. ToV4(w).state = With(w.state, more)
    BY DEF Formed, ToV4, Tables
  <2>2. /\ DOMAIN more = {"leader", "mourning_until", "morale"}
        /\ \A f \in DOMAIN more : more[f] = FreshState(w.state.rng)[f]
    BY DEF FreshState
  <2> HIDE DEF more
  <2> QED
    BY <2>1, <2>2, Withs
<1>3. Added(w.survivor, ToV4(w).survivor,
            {"x", "y", "move_target", "profession", "xp", "trained_kind"}, FreshSurvivor(w.survivor.id))
  <2> DEFINE more == [x |-> SpawnPosition(w.survivor.id), y |-> SpawnPosition(w.survivor.id),
                      move_target |-> None, profession |-> ProfessionOf(w.survivor.id), xp |-> 0,
                      trained_kind |-> None]
  <2>1. ToV4(w).survivor = With(w.survivor, more)
    BY DEF Formed, ToV4, Tables
  <2>2. /\ DOMAIN more = {"x", "y", "move_target", "profession", "xp", "trained_kind"}
        /\ \A f \in DOMAIN more : more[f] = FreshSurvivor(w.survivor.id)[f]
    BY DEF FreshSurvivor
  <2> HIDE DEF more
  <2> QED
    BY <2>1, <2>2, Withs
<1>4. Formed(ToV4(w), GameStateV4)
  <2>1. DOMAIN ToV4(w).state = GameStateV4.state
    BY <1>2, Shape3, Shape4 DEF Formed, Tables, Added
  <2>2. DOMAIN ToV4(w).survivor = GameStateV4.survivor
    BY <1>3, Shape3, Shape4 DEF Formed, Tables, Added, SurvivorV5
  <2> QED
    BY <1>1, <2>1, <2>2, Shape3, Shape4 DEF Formed, Tables
<1>5. Grows(w, ToV4(w))
  BY <1>1, <1>2, <1>3 DEF Grows, Keeps, Fills, Added, Fresh, Tables
<1> QED
  BY <1>4, <1>5

\* The hop to version 5.
LEMMA To5 ==
  ASSUME NEW w, Formed(w, GameStateV4)
  PROVE  Formed(ToV5(w), GameStateV5) /\ Grows(w, ToV5(w))
<1>1. /\ DOMAIN ToV5(w) = Tables
      /\ \A t \in {"state", "tile", "survivor", "stock", "player"} : ToV5(w)[t] = w[t]
  BY DEF Formed, ToV5, Tables
<1>2. Added(w.hut, ToV5(w).hut, {"level", "build_left"}, FreshBuilding)
  <2> DEFINE more == [level |-> 1, build_left |-> 0]
  <2>1. ToV5(w).hut = With(w.hut, more)
    BY DEF Formed, ToV5, Tables
  <2>2. DOMAIN more = {"level", "build_left"} /\ \A f \in DOMAIN more : more[f] = FreshBuilding[f]
    BY DEF FreshBuilding
  <2> HIDE DEF more
  <2> QED
    BY <2>1, <2>2, Withs
<1>3. Added(w.tunnel, ToV5(w).tunnel, {"level", "build_left"}, FreshBuilding)
  <2> DEFINE more == [level |-> 1, build_left |-> 0]
  <2>1. ToV5(w).tunnel = With(w.tunnel, more)
    BY DEF Formed, ToV5, Tables
  <2>2. DOMAIN more = {"level", "build_left"} /\ \A f \in DOMAIN more : more[f] = FreshBuilding[f]
    BY DEF FreshBuilding
  <2> HIDE DEF more
  <2> QED
    BY <2>1, <2>2, Withs
<1>4. Formed(ToV5(w), GameStateV5)
  <2>1. DOMAIN ToV5(w).hut = GameStateV5.hut
    BY <1>2, Shape4, Shape5 DEF Formed, Tables, Added, BuildingV12
  <2>2. DOMAIN ToV5(w).tunnel = GameStateV5.tunnel
    BY <1>3, Shape4, Shape5 DEF Formed, Tables, Added, BuildingV12
  <2> QED
    BY <1>1, <2>1, <2>2, Shape4, Shape5 DEF Formed, Tables
<1>5. Grows(w, ToV5(w))
  BY <1>1, <1>2, <1>3 DEF Grows, Keeps, Fills, Added, Fresh, Tables
<1> QED
  BY <1>4, <1>5

\* The hop to version 6.
LEMMA To6 ==
  ASSUME NEW w, Formed(w, GameStateV5)
  PROVE  Formed(ToV6(w), GameStateV6) /\ Grows(w, ToV6(w))
<1>1. /\ DOMAIN ToV6(w) = Tables
      /\ \A t \in {"state", "tile", "hut", "tunnel", "stock", "player"} : ToV6(w)[t] = w[t]
  BY DEF Formed, ToV6, Tables
<1>2. Added(w.survivor, ToV6(w).survivor, {"chop_target", "carrying_wood"}, FreshSurvivor(w.survivor.id))
  <2> DEFINE more == [chop_target |-> None, carrying_wood |-> FALSE]
  <2>1. ToV6(w).survivor = With(w.survivor, more)
    BY DEF Formed, ToV6, Tables
  <2>2. /\ DOMAIN more = {"chop_target", "carrying_wood"}
        /\ \A f \in DOMAIN more : more[f] = FreshSurvivor(w.survivor.id)[f]
    <3>1. more.chop_target = FreshSurvivor(w.survivor.id).chop_target
      BY DEF FreshSurvivor
    <3>2. more.carrying_wood = FreshSurvivor(w.survivor.id).carrying_wood
      BY DEF FreshSurvivor
    <3> QED
      BY <3>1, <3>2
  <2> HIDE DEF more
  <2> QED
    BY <2>1, <2>2, Withs
<1>3. Formed(ToV6(w), GameStateV6)
  <2>1. DOMAIN ToV6(w).survivor = GameStateV6.survivor
    BY <1>2, Shape5, Shape6 DEF Formed, Tables, Added, SurvivorV8
  <2> QED
    BY <1>1, <2>1, Shape5, Shape6 DEF Formed, Tables
<1>4. Grows(w, ToV6(w))
  BY <1>1, <1>2 DEF Grows, Keeps, Fills, Added, Fresh, Tables
<1> QED
  BY <1>3, <1>4

\* The hop to version 7.
LEMMA To7 ==
  ASSUME NEW w, Formed(w, GameStateV6)
  PROVE  Formed(ToV7(w), GameStateV7) /\ Grows(w, ToV7(w))
<1>1. /\ DOMAIN ToV7(w) = Tables
      /\ \A t \in {"tile", "hut", "tunnel", "survivor", "stock", "player"} : ToV7(w)[t] = w[t]
  BY DEF Formed, ToV7, Tables
<1>2. Added(w.state, ToV7(w).state, {"pending_migrant"}, FreshState(w.state.rng))
  <2> DEFINE more == [pending_migrant |-> None]
  <2>1. ToV7(w).state = With(w.state, more)
    BY DEF Formed, ToV7, Tables
  <2>2. /\ DOMAIN more = {"pending_migrant"}
        /\ \A f \in DOMAIN more : more[f] = FreshState(w.state.rng)[f]
    BY DEF FreshState
  <2> HIDE DEF more
  <2> QED
    BY <2>1, <2>2, Withs
<1>3. Formed(ToV7(w), GameStateV7)
  <2>1. DOMAIN ToV7(w).state = GameStateV7.state
    BY <1>2, Shape6, Shape7 DEF Formed, Tables, Added
  <2> QED
    BY <1>1, <2>1, Shape6, Shape7 DEF Formed, Tables
<1>4. Grows(w, ToV7(w))
  BY <1>1, <1>2 DEF Grows, Keeps, Fills, Added, Fresh, Tables
<1> QED
  BY <1>3, <1>4

\* The hop to version 8.
LEMMA To8 ==
  ASSUME NEW w, Formed(w, GameStateV7)
  PROVE  Formed(ToV8(w), GameStateV8) /\ Grows(w, ToV8(w))
<1>1. /\ DOMAIN ToV8(w) = Tables
      /\ \A t \in {"tile", "hut", "tunnel", "survivor", "player"} : ToV8(w)[t] = w[t]
  BY DEF Formed, ToV8, Tables
<1>2. Added(w.state, ToV8(w).state, {"wildlife"}, FreshState(w.state.rng))
  <2> DEFINE more == [wildlife |-> WildlifeStart]
  <2>1. ToV8(w).state = With(w.state, more)
    BY DEF Formed, ToV8, Tables
  <2>2. DOMAIN more = {"wildlife"} /\ \A f \in DOMAIN more : more[f] = FreshState(w.state.rng)[f]
    BY DEF FreshState
  <2> HIDE DEF more
  <2> QED
    BY <2>1, <2>2, Withs
<1>3. Added(w.stock, ToV8(w).stock, {"fur", "cloth"}, FreshStock)
  <2> DEFINE more == [fur |-> 0, cloth |-> 0]
  <2>1. ToV8(w).stock = With(w.stock, more)
    BY DEF Formed, ToV8, Tables
  <2>2. DOMAIN more = {"fur", "cloth"} /\ \A f \in DOMAIN more : more[f] = FreshStock[f]
    BY DEF FreshStock
  <2> HIDE DEF more
  <2> QED
    BY <2>1, <2>2, Withs
<1>4. Formed(ToV8(w), GameStateV8)
  <2>1. DOMAIN ToV8(w).state = GameStateV8.state
    BY <1>2, Shape7, Shape8 DEF Formed, Tables, Added
  <2>2. DOMAIN ToV8(w).stock = GameStateV8.stock
    BY <1>3, Shape7, Shape8 DEF Formed, Tables, Added, StockpileV8
  <2> QED
    BY <1>1, <2>1, <2>2, Shape7, Shape8 DEF Formed, Tables
<1>5. Grows(w, ToV8(w))
  BY <1>1, <1>2, <1>3 DEF Grows, Keeps, Fills, Added, Fresh, Tables
<1> QED
  BY <1>4, <1>5

\* The hop to version 9.
LEMMA To9 ==
  ASSUME NEW w, Formed(w, GameStateV8)
  PROVE  Formed(ToV9(w), GameStateV9) /\ Grows(w, ToV9(w))
<1>1. /\ DOMAIN ToV9(w) = Tables
      /\ \A t \in {"tile", "hut", "tunnel", "player"} : ToV9(w)[t] = w[t]
  BY DEF Formed, ToV9, Tables
<1>2. Added(w.state, ToV9(w).state, {"corpses", "graves"}, FreshState(w.state.rng))
  <2> DEFINE more == [corpses |-> Empty, graves |-> Empty]
  <2>1. ToV9(w).state = With(w.state, more)
    BY DEF Formed, ToV9, Tables
  <2>2. /\ DOMAIN more = {"corpses", "graves"}
        /\ \A f \in DOMAIN more : more[f] = FreshState(w.state.rng)[f]
    BY DEF FreshState
  <2> HIDE DEF more
  <2> QED
    BY <2>1, <2>2, Withs
<1>3. Added(w.survivor, ToV9(w).survivor, {"thirst", "bury_target"}, FreshSurvivor(w.survivor.id))
  <2> DEFINE more == [thirst |-> 0, bury_target |-> None]
  <2>1. ToV9(w).survivor = With(w.survivor, more)
    BY DEF Formed, ToV9, Tables
  <2>2. /\ DOMAIN more = {"thirst", "bury_target"}
        /\ \A f \in DOMAIN more : more[f] = FreshSurvivor(w.survivor.id)[f]
    BY DEF FreshSurvivor
  <2> HIDE DEF more
  <2> QED
    BY <2>1, <2>2, Withs
<1>4. Added(w.stock, ToV9(w).stock, {"water"}, FreshStock)
  <2> DEFINE more == [water |-> 0]
  <2>1. ToV9(w).stock = With(w.stock, more)
    BY DEF Formed, ToV9, Tables
  <2>2. DOMAIN more = {"water"} /\ \A f \in DOMAIN more : more[f] = FreshStock[f]
    BY DEF FreshStock
  <2> HIDE DEF more
  <2> QED
    BY <2>1, <2>2, Withs
<1>5. Formed(ToV9(w), GameStateV9)
  <2>1. DOMAIN ToV9(w).state = GameStateV9.state
    BY <1>2, Shape8, Shape9 DEF Formed, Tables, Added
  <2>2. DOMAIN ToV9(w).survivor = GameStateV9.survivor
    BY <1>3, Shape8, Shape9 DEF Formed, Tables, Added, SurvivorV13
  <2>3. DOMAIN ToV9(w).stock = GameStateV9.stock
    BY <1>4, Shape8, Shape9 DEF Formed, Tables, Added, StockpileV10
  <2> QED
    BY <1>1, <2>1, <2>2, <2>3, Shape8, Shape9 DEF Formed, Tables
<1>6. Grows(w, ToV9(w))
  BY <1>1, <1>2, <1>3, <1>4 DEF Grows, Keeps, Fills, Added, Fresh, Tables
<1> QED
  BY <1>5, <1>6

\* The hop to version 10.
LEMMA To10 ==
  ASSUME NEW w, Formed(w, GameStateV9)
  PROVE  Formed(ToV10(w), GameStateV10) /\ Grows(w, ToV10(w))
<1>1. /\ DOMAIN ToV10(w) = Tables
      /\ \A t \in {"tile", "hut", "tunnel", "survivor", "stock", "player"} : ToV10(w)[t] = w[t]
  BY DEF Formed, ToV10, Tables
<1>2. Added(w.state, ToV10(w).state, {"livestock"}, FreshState(w.state.rng))
  <2> DEFINE more == [livestock |-> LivestockStart]
  <2>1. ToV10(w).state = With(w.state, more)
    BY DEF Formed, ToV10, Tables
  <2>2. DOMAIN more = {"livestock"} /\ \A f \in DOMAIN more : more[f] = FreshState(w.state.rng)[f]
    BY DEF FreshState
  <2> HIDE DEF more
  <2> QED
    BY <2>1, <2>2, Withs
<1>3. Formed(ToV10(w), GameStateV10)
  <2>1. DOMAIN ToV10(w).state = GameStateV10.state
    BY <1>2, Shape9, Shape10 DEF Formed, Tables, Added
  <2> QED
    BY <1>1, <2>1, Shape9, Shape10 DEF Formed, Tables
<1>4. Grows(w, ToV10(w))
  BY <1>1, <1>2 DEF Grows, Keeps, Fills, Added, Fresh, Tables
<1> QED
  BY <1>3, <1>4

\* The hop to version 11.
LEMMA To11 ==
  ASSUME NEW w, Formed(w, GameStateV10)
  PROVE  Formed(ToV11(w), GameStateV11) /\ Grows(w, ToV11(w))
<1>1. /\ DOMAIN ToV11(w) = Tables
      /\ \A t \in {"tile", "hut", "tunnel", "survivor", "player"} : ToV11(w)[t] = w[t]
  BY DEF Formed, ToV11, Tables
<1>2. Added(w.state, ToV11(w).state, {"pending_caravan"}, FreshState(w.state.rng))
  <2> DEFINE more == [pending_caravan |-> None]
  <2>1. ToV11(w).state = With(w.state, more)
    BY DEF Formed, ToV11, Tables
  <2>2. /\ DOMAIN more = {"pending_caravan"}
        /\ \A f \in DOMAIN more : more[f] = FreshState(w.state.rng)[f]
    BY DEF FreshState
  <2> HIDE DEF more
  <2> QED
    BY <2>1, <2>2, Withs
<1>3. Added(w.stock, ToV11(w).stock, {"gold"}, FreshStock)
  <2> DEFINE more == [gold |-> 0]
  <2>1. ToV11(w).stock = With(w.stock, more)
    BY DEF Formed, ToV11, Tables
  <2>2. DOMAIN more = {"gold"} /\ \A f \in DOMAIN more : more[f] = FreshStock[f]
    BY DEF FreshStock
  <2> HIDE DEF more
  <2> QED
    BY <2>1, <2>2, Withs
<1>4. Formed(ToV11(w), GameStateV11)
  <2>1. DOMAIN ToV11(w).state = GameStateV11.state
    BY <1>2, Shape10, Shape11 DEF Formed, Tables, Added
  <2>2. DOMAIN ToV11(w).stock = GameStateV11.stock
    BY <1>3, Shape10, Shape11 DEF Formed, Tables, Added, Stockpile
  <2> QED
    BY <1>1, <2>1, <2>2, Shape10, Shape11 DEF Formed, Tables
<1>5. Grows(w, ToV11(w))
  BY <1>1, <1>2, <1>3 DEF Grows, Keeps, Fills, Added, Fresh, Tables
<1> QED
  BY <1>4, <1>5

\* The rows of the conversions to the live format.
LEMMA Rows ==
  ASSUME NEW r
  PROVE  /\ Added(r, TileFromV15(r), {"road", "snow"}, FreshTile)
         /\ Added(r, BuildingFromV12(r), {"facing", "furnishings"}, FreshBuilding)
         /\ Added(r, BuildingFromV16(r), {"furnishings"}, FreshBuilding)
         /\ Added(r, SurvivorFromV13(r), {"fatigue", "sick_left", "age_days", "partner"}, FreshSurvivor(r.id))
         /\ Added(r, SurvivorFromV14(r), {"age_days", "partner"}, FreshSurvivor(r.id))
         /\ Added(r, V019(r), {"clear_orders"}, FreshState(r.rng))
<1>1. Added(r, TileFromV15(r), {"road", "snow"}, FreshTile)
  <2> DEFINE more == [road |-> FALSE, snow |-> 0]
  <2>1. DOMAIN more = {"road", "snow"} /\ \A f \in DOMAIN more : more[f] = FreshTile[f]
    BY DEF FreshTile
  <2>2. TileFromV15(r) = With(r, more)
    BY DEF TileFromV15
  <2> HIDE DEF more
  <2> QED
    BY <2>1, <2>2, Withs
<1>2. Added(r, BuildingFromV12(r), {"facing", "furnishings"}, FreshBuilding)
  <2> DEFINE more == [facing |-> 0, furnishings |-> Empty]
  <2>1. DOMAIN more = {"facing", "furnishings"} /\ \A f \in DOMAIN more : more[f] = FreshBuilding[f]
    BY DEF FreshBuilding
  <2>2. BuildingFromV12(r) = With(r, more)
    BY DEF BuildingFromV12
  <2> HIDE DEF more
  <2> QED
    BY <2>1, <2>2, Withs
<1>3. Added(r, BuildingFromV16(r), {"furnishings"}, FreshBuilding)
  <2> DEFINE more == [furnishings |-> Empty]
  <2>1. DOMAIN more = {"furnishings"} /\ \A f \in DOMAIN more : more[f] = FreshBuilding[f]
    BY DEF FreshBuilding
  <2>2. BuildingFromV16(r) = With(r, more)
    BY DEF BuildingFromV16
  <2> HIDE DEF more
  <2> QED
    BY <2>1, <2>2, Withs
<1>4. Added(r, SurvivorFromV13(r), {"fatigue", "sick_left", "age_days", "partner"}, FreshSurvivor(r.id))
  <2> DEFINE more == [fatigue |-> 0, sick_left |-> 0, age_days |-> MigratedAge(r.id), partner |-> None]
  <2>1. /\ DOMAIN more = {"fatigue", "sick_left", "age_days", "partner"}
        /\ \A f \in DOMAIN more : more[f] = FreshSurvivor(r.id)[f]
    BY DEF FreshSurvivor
  <2>2. SurvivorFromV13(r) = With(r, more)
    BY DEF SurvivorFromV13
  <2> HIDE DEF more
  <2> QED
    BY <2>1, <2>2, Withs
<1>5. Added(r, SurvivorFromV14(r), {"age_days", "partner"}, FreshSurvivor(r.id))
  <2> DEFINE more == [age_days |-> MigratedAge(r.id), partner |-> None]
  <2>1. /\ DOMAIN more = {"age_days", "partner"}
        /\ \A f \in DOMAIN more : more[f] = FreshSurvivor(r.id)[f]
    BY DEF FreshSurvivor
  <2>2. SurvivorFromV14(r) = With(r, more)
    BY DEF SurvivorFromV14
  <2> HIDE DEF more
  <2> QED
    BY <2>1, <2>2, Withs
<1>6. Added(r, V019(r), {"clear_orders"}, FreshState(r.rng))
  <2> DEFINE more == [clear_orders |-> Empty]
  <2>1. DOMAIN more = {"clear_orders"} /\ \A f \in DOMAIN more : more[f] = FreshState(r.rng)[f]
    BY DEF FreshState
  <2>2. V019(r) = With(r, more)
    BY DEF V019
  <2> HIDE DEF more
  <2> QED
    BY <2>1, <2>2, Withs
<1> QED
  BY <1>1, <1>2, <1>3, <1>4, <1>5, <1>6

\* What a state of version 14 lacks, and one of version 13.
Streams == {"expedition_rng", "lifecycle_rng"}
Lists == {"expeditions", "laws", "law_cooldown_until", "mission_cycle"}
Since14 == {"clear_orders"} \cup Streams \cup Lists
Ill(r) == With(V018(r), [illness_rng |-> Stream(r.rng, 37)])

\* The states of the conversions from versions 14 and 13.
LEMMA StateRows ==
  ASSUME NEW r
  PROVE  /\ Added(r, V018(r), Since14, FreshState(r.rng))
         /\ Added(r, Ill(r), Since14 \cup {"illness_rng"}, FreshState(r.rng))
<1> DEFINE fill == FreshState(r.rng)
           a == V019(r)
           b == With(a, V018Streams(r.rng))
           lists == [expeditions |-> Empty, laws |-> Empty, law_cooldown_until |-> 0, mission_cycle |-> 0]
           ill == [illness_rng |-> Stream(r.rng, 37)]
<1>1. DOMAIN V018Streams(r.rng) = Streams /\ \A f \in Streams : V018Streams(r.rng)[f] = fill[f]
  BY DEF V018Streams, Streams, FreshState
<1>2. DOMAIN lists = Lists /\ \A f \in Lists : lists[f] = fill[f]
  BY DEF Lists, FreshState
<1>3. DOMAIN ill = {"illness_rng"} /\ \A f \in DOMAIN ill : ill[f] = fill[f]
  BY DEF FreshState
<1>4. Added(r, a, {"clear_orders"}, fill)
  BY Rows
<1>5. V018(r) = With(b, lists) /\ Ill(r) = With(V018(r), ill)
  BY DEF V018, Ill
<1> HIDE DEF fill, a, lists, ill
<1>6. Added(a, b, Streams, fill)
  BY <1>1, Withs
<1> HIDE DEF b
<1>7. Added(b, V018(r), Lists, fill)
  BY <1>2, <1>5, Withs
<1>8. Added(V018(r), Ill(r), {"illness_rng"}, fill)
  BY <1>3, <1>5, Withs
<1>9. Added(r, V018(r), Since14, fill)
  BY <1>4, <1>6, <1>7 DEF Added, Since14
<1>10. Added(r, Ill(r), Since14 \cup {"illness_rng"}, fill)
  BY <1>8, <1>9 DEF Added
<1> QED
  BY <1>9, <1>10 DEF fill

\* The conversion from version 16.
LEMMA From16 ==
  ASSUME NEW w, Formed(w, GameStateV16)
  PROVE  Formed(FromV16(w), GameState) /\ Keeps(w, FromV16(w)) /\ Fills(w, FromV16(w))
<1> DEFINE x == FromV16(w)
<1>1. /\ DOMAIN x = Tables
      /\ \A t \in {"state", "tile", "survivor", "stock", "player"} : x[t] = w[t]
      /\ x.hut = BuildingFromV16(w.hut)
      /\ x.tunnel = BuildingFromV16(w.tunnel)
  BY DEF Formed, FromV16, Tables
<1> HIDE DEF x
<1>2. Added(w.hut, x.hut, {"furnishings"}, FreshBuilding)
  BY <1>1, Rows
<1>3. Added(w.tunnel, x.tunnel, {"furnishings"}, FreshBuilding)
  BY <1>1, Rows
<1>4. Keeps(w, x) /\ Fills(w, x)
  BY <1>1, <1>2, <1>3 DEF Keeps, Fills, Added, Fresh, Tables
<1>5. Formed(x, GameState)
  <2>1. DOMAIN x.hut = GameState.hut
    BY <1>2, Shape16, Shape17 DEF Formed, Tables, Added, Building
  <2>2. DOMAIN x.tunnel = GameState.tunnel
    BY <1>3, Shape16, Shape17 DEF Formed, Tables, Added, Building
  <2>3. \A t \in {"state", "tile", "survivor", "stock", "player"} : DOMAIN x[t] = GameState[t]
    BY <1>1, Shape16, Shape17 DEF Formed, Tables
  <2> QED
    BY <1>1, <2>1, <2>2, <2>3 DEF Formed, Tables
<1> QED
  BY <1>4, <1>5 DEF x

\* The conversion from version 15.
LEMMA From15 ==
  ASSUME NEW w, Formed(w, GameStateV15)
  PROVE  Formed(FromV15(w), GameState) /\ Keeps(w, FromV15(w)) /\ Fills(w, FromV15(w))
<1> DEFINE x == FromV15(w)
<1>1. /\ DOMAIN x = Tables
      /\ \A t \in {"survivor", "stock", "player"} : x[t] = w[t]
      /\ x.state = V019(w.state)
      /\ x.tile = TileFromV15(w.tile)
      /\ x.hut = BuildingFromV16(w.hut)
      /\ x.tunnel = BuildingFromV16(w.tunnel)
  BY DEF Formed, FromV15, Tables
<1> HIDE DEF x
<1>2. Added(w.state, x.state, {"clear_orders"}, FreshState(w.state.rng))
  BY <1>1, Rows
<1>3. Added(w.tile, x.tile, {"road", "snow"}, FreshTile)
  BY <1>1, Rows
<1>4. Added(w.hut, x.hut, {"furnishings"}, FreshBuilding)
  BY <1>1, Rows
<1>5. Added(w.tunnel, x.tunnel, {"furnishings"}, FreshBuilding)
  BY <1>1, Rows
<1>6. Keeps(w, x) /\ Fills(w, x)
  BY <1>1, <1>2, <1>3, <1>4, <1>5 DEF Keeps, Fills, Added, Fresh, Tables
<1>7. Formed(x, GameState)
  <2>1. DOMAIN x.state = GameState.state
    BY <1>2, Shape15, Shape16, Shape17 DEF Formed, Tables, Added
  <2>2. DOMAIN x.tile = GameState.tile
    BY <1>3, Shape15, Shape16, Shape17 DEF Formed, Tables, Added, Tile
  <2>3. DOMAIN x.hut = GameState.hut
    BY <1>4, Shape15, Shape16, Shape17 DEF Formed, Tables, Added, Building
  <2>4. DOMAIN x.tunnel = GameState.tunnel
    BY <1>5, Shape15, Shape16, Shape17 DEF Formed, Tables, Added, Building
  <2>5. \A t \in {"survivor", "stock", "player"} : DOMAIN x[t] = GameState[t]
    BY <1>1, Shape15, Shape16, Shape17 DEF Formed, Tables
  <2> QED
    BY <1>1, <2>1, <2>2, <2>3, <2>4, <2>5 DEF Formed, Tables
<1> QED
  BY <1>6, <1>7 DEF x

\* The conversion from version 14.
LEMMA From14 ==
  ASSUME NEW w, Formed(w, GameStateV14)
  PROVE  Formed(FromV14(w), GameState) /\ Keeps(w, FromV14(w)) /\ Fills(w, FromV14(w))
<1> DEFINE x == FromV14(w)
<1>1. /\ DOMAIN x = Tables
      /\ \A t \in {"stock", "player"} : x[t] = w[t]
      /\ x.state = V018(w.state)
      /\ x.tile = TileFromV15(w.tile)
      /\ x.hut = BuildingFromV16(w.hut)
      /\ x.tunnel = BuildingFromV16(w.tunnel)
      /\ x.survivor = SurvivorFromV14(w.survivor)
  BY DEF Formed, FromV14, Tables
<1> HIDE DEF x
<1>2. Added(w.state, x.state, Since14, FreshState(w.state.rng))
  BY <1>1, StateRows
<1>3. Added(w.tile, x.tile, {"road", "snow"}, FreshTile)
  BY <1>1, Rows
<1>4. Added(w.hut, x.hut, {"furnishings"}, FreshBuilding)
  BY <1>1, Rows
<1>5. Added(w.tunnel, x.tunnel, {"furnishings"}, FreshBuilding)
  BY <1>1, Rows
<1>6. Added(w.survivor, x.survivor, {"age_days", "partner"}, FreshSurvivor(w.survivor.id))
  BY <1>1, Rows
<1>7. Keeps(w, x) /\ Fills(w, x)
  BY <1>1, <1>2, <1>3, <1>4, <1>5, <1>6 DEF Keeps, Fills, Added, Fresh, Tables
<1>8. Formed(x, GameState)
  <2>1. DOMAIN x.state = GameState.state
    BY <1>2, Shape14, Shape15, Shape16, Shape17 DEF Formed, Tables, Added, Since14, Streams, Lists
  <2>2. DOMAIN x.tile = GameState.tile
    BY <1>3, Shape14, Shape15, Shape16, Shape17 DEF Formed, Tables, Added, Tile
  <2>3. DOMAIN x.hut = GameState.hut
    BY <1>4, Shape14, Shape15, Shape16, Shape17 DEF Formed, Tables, Added, Building
  <2>4. DOMAIN x.tunnel = GameState.tunnel
    BY <1>5, Shape14, Shape15, Shape16, Shape17 DEF Formed, Tables, Added, Building
  <2>5. DOMAIN x.survivor = GameState.survivor
    BY <1>6, Shape14, Shape15, Shape16, Shape17 DEF Formed, Tables, Added, Survivor
  <2>6. \A t \in {"stock", "player"} : DOMAIN x[t] = GameState[t]
    BY <1>1, Shape14, Shape15, Shape16, Shape17 DEF Formed, Tables
  <2> QED
    BY <1>1, <2>1, <2>2, <2>3, <2>4, <2>5, <2>6 DEF Formed, Tables
<1> QED
  BY <1>7, <1>8 DEF x

\* The conversion from version 13.
LEMMA From13 ==
  ASSUME NEW w, Formed(w, GameStateV13)
  PROVE  Formed(FromV13(w), GameState) /\ Keeps(w, FromV13(w)) /\ Fills(w, FromV13(w))
<1> DEFINE x == FromV13(w)
<1>1. /\ DOMAIN x = Tables
      /\ \A t \in {"stock", "player"} : x[t] = w[t]
      /\ x.state = Ill(w.state)
      /\ x.tile = TileFromV15(w.tile)
      /\ x.hut = BuildingFromV16(w.hut)
      /\ x.tunnel = BuildingFromV16(w.tunnel)
      /\ x.survivor = SurvivorFromV13(w.survivor)
  BY DEF Formed, FromV13, Tables, Ill
<1> HIDE DEF x
<1>2. Added(w.state, x.state, Since14 \cup {"illness_rng"}, FreshState(w.state.rng))
  BY <1>1, StateRows
<1>3. Added(w.tile, x.tile, {"road", "snow"}, FreshTile)
  BY <1>1, Rows
<1>4. Added(w.hut, x.hut, {"furnishings"}, FreshBuilding)
  BY <1>1, Rows
<1>5. Added(w.tunnel, x.tunnel, {"furnishings"}, FreshBuilding)
  BY <1>1, Rows
<1>6. Added(w.survivor, x.survivor, {"fatigue", "sick_left", "age_days", "partner"},
            FreshSurvivor(w.survivor.id))
  BY <1>1, Rows
<1>7. Keeps(w, x) /\ Fills(w, x)
  BY <1>1, <1>2, <1>3, <1>4, <1>5, <1>6 DEF Keeps, Fills, Added, Fresh, Tables
<1>8. Formed(x, GameState)
  <2>1. DOMAIN x.state = GameState.state
    BY <1>2, Shape13, Shape14, Shape15, Shape16, Shape17
    DEF Formed, Tables, Added, Since14, Streams, Lists
  <2>2. DOMAIN x.tile = GameState.tile
    BY <1>3, Shape13, Shape14, Shape15, Shape16, Shape17 DEF Formed, Tables, Added, Tile
  <2>3. DOMAIN x.hut = GameState.hut
    BY <1>4, Shape13, Shape14, Shape15, Shape16, Shape17 DEF Formed, Tables, Added, Building
  <2>4. DOMAIN x.tunnel = GameState.tunnel
    BY <1>5, Shape13, Shape14, Shape15, Shape16, Shape17 DEF Formed, Tables, Added, Building
  <2>5. DOMAIN x.survivor = GameState.survivor
    BY <1>6, Shape13, Shape14, Shape15, Shape16, Shape17
    DEF Formed, Tables, Added, Survivor, SurvivorV14
  <2>6. \A t \in {"stock", "player"} : DOMAIN x[t] = GameState[t]
    BY <1>1, Shape13, Shape14, Shape15, Shape16, Shape17 DEF Formed, Tables
  <2> QED
    BY <1>1, <2>1, <2>2, <2>3, <2>4, <2>5, <2>6 DEF Formed, Tables
<1> QED
  BY <1>7, <1>8 DEF x

\* The conversion from version 12.
LEMMA From12 ==
  ASSUME NEW w, Formed(w, GameStateV12)
  PROVE  Formed(FromV12(w), GameState) /\ Keeps(w, FromV12(w)) /\ Fills(w, FromV12(w))
<1> DEFINE x == FromV12(w)
<1>1. /\ DOMAIN x = Tables
      /\ \A t \in {"stock", "player"} : x[t] = w[t]
      /\ x.state = Ill(w.state)
      /\ x.tile = TileFromV15(w.tile)
      /\ x.hut = BuildingFromV12(w.hut)
      /\ x.tunnel = BuildingFromV12(w.tunnel)
      /\ x.survivor = SurvivorFromV13(w.survivor)
  BY DEF Formed, FromV12, Tables, Ill
<1> HIDE DEF x
<1>2. Added(w.state, x.state, Since14 \cup {"illness_rng"}, FreshState(w.state.rng))
  BY <1>1, StateRows
<1>3. Added(w.tile, x.tile, {"road", "snow"}, FreshTile)
  BY <1>1, Rows
<1>4. Added(w.hut, x.hut, {"facing", "furnishings"}, FreshBuilding)
  BY <1>1, Rows
<1>5. Added(w.tunnel, x.tunnel, {"facing", "furnishings"}, FreshBuilding)
  BY <1>1, Rows
<1>6. Added(w.survivor, x.survivor, {"fatigue", "sick_left", "age_days", "partner"},
            FreshSurvivor(w.survivor.id))
  BY <1>1, Rows
<1>7. Keeps(w, x) /\ Fills(w, x)
  BY <1>1, <1>2, <1>3, <1>4, <1>5, <1>6 DEF Keeps, Fills, Added, Fresh, Tables
<1>8. Formed(x, GameState)
  <2>1. DOMAIN x.state = GameState.state
    BY <1>2, Shape12, Shape13, Shape14, Shape15, Shape16, Shape17
    DEF Formed, Tables, Added, Since14, Streams, Lists
  <2>2. DOMAIN x.tile = GameState.tile
    BY <1>3, Shape12, Shape13, Shape14, Shape15, Shape16, Shape17 DEF Formed, Tables, Added, Tile
  <2>3. DOMAIN x.hut = GameState.hut
    BY <1>4, Shape12, Shape13, Shape14, Shape15, Shape16, Shape17
    DEF Formed, Tables, Added, Building, BuildingV16
  <2>4. DOMAIN x.tunnel = GameState.tunnel
    BY <1>5, Shape12, Shape13, Shape14, Shape15, Shape16, Shape17
    DEF Formed, Tables, Added, Building, BuildingV16
  <2>5. DOMAIN x.survivor = GameState.survivor
    BY <1>6, Shape12, Shape13, Shape14, Shape15, Shape16, Shape17
    DEF Formed, Tables, Added, Survivor, SurvivorV14
  <2>6. \A t \in {"stock", "player"} : DOMAIN x[t] = GameState[t]
    BY <1>1, Shape12, Shape13, Shape14, Shape15, Shape16, Shape17 DEF Formed, Tables
  <2> QED
    BY <1>1, <2>1, <2>2, <2>3, <2>4, <2>5, <2>6 DEF Formed, Tables
<1> QED
  BY <1>7, <1>8 DEF x

\* The conversion from version 11, which also drops guest_perm.
LEMMA From11 ==
  ASSUME NEW w, Formed(w, GameStateV11)
  PROVE  Formed(FromV11(w), GameState) /\ Keeps(w, FromV11(w)) /\ Fills(w, FromV11(w))
<1> DEFINE x == FromV11(w)
           s == [f \in DOMAIN w.state \ {"guest_perm"} |-> w.state[f]]
<1>1. /\ DOMAIN x = Tables
      /\ \A t \in {"stock", "player"} : x[t] = w[t]
      /\ x.state = Ill(s)
      /\ x.tile = TileFromV15(w.tile) /\ x.survivor = SurvivorFromV13(w.survivor)
      /\ x.hut = BuildingFromV12(w.hut) /\ x.tunnel = BuildingFromV12(w.tunnel)
  BY DEF Formed, FromV11, Tables, Ill
<1>2. DOMAIN s = DOMAIN w.state \ {"guest_perm"} /\ \A f \in DOMAIN s : s[f] = w.state[f]
  OBVIOUS
<1>3. s.rng = w.state.rng
  BY <1>2, Shape11 DEF Formed, Tables, Carrying
<1> HIDE DEF x, s
<1>4. Added(s, x.state, Since14 \cup {"illness_rng"}, FreshState(w.state.rng))
  BY <1>1, <1>3, StateRows
<1>5. /\ Added(w.tile, x.tile, {"road", "snow"}, FreshTile)
      /\ Added(w.hut, x.hut, {"facing", "furnishings"}, FreshBuilding)
      /\ Added(w.tunnel, x.tunnel, {"facing", "furnishings"}, FreshBuilding)
      /\ Added(w.survivor, x.survivor, {"fatigue", "sick_left", "age_days", "partner"},
               FreshSurvivor(w.survivor.id))
  BY <1>1, Rows
<1>6. Formed(x, GameState)
  <2>1. DOMAIN x.state = GameState.state
    BY <1>2, <1>4, Shape11, Shape12, Shape13, Shape14, Shape15, Shape16, Shape17
    DEF Formed, Tables, Added, Since14, Streams, Lists
  <2>2. DOMAIN x.tile = GameState.tile
    BY <1>5, Shape11, Shape17 DEF Formed, Tables, Added, Tile
  <2>3. DOMAIN x.hut = GameState.hut /\ DOMAIN x.tunnel = GameState.tunnel
    BY <1>5, Shape11, Shape17 DEF Formed, Tables, Added, Building, BuildingV16
  <2>4. DOMAIN x.survivor = GameState.survivor
    BY <1>5, Shape11, Shape17 DEF Formed, Tables, Added, Survivor, SurvivorV14
  <2>5. \A t \in {"stock", "player"} : DOMAIN x[t] = GameState[t]
    BY <1>1, Shape11, Shape17 DEF Formed, Tables
  <2> QED
    BY <1>1, <2>1, <2>2, <2>3, <2>4, <2>5 DEF Formed, Tables
<1>7. "guest_perm" \notin DOMAIN x.state
  BY <1>2, <1>4 DEF Added, Since14, Streams, Lists
<1>8. /\ \A f \in DOMAIN w.state \cap DOMAIN x.state : x.state[f] = w.state[f]
      /\ \A f \in DOMAIN x.state \ DOMAIN w.state : x.state[f] = Fresh(w).state[f]
  BY <1>2, <1>4, <1>7 DEF Added, Fresh
<1>9. \A t \in Tables \ {"state"} :
         /\ \A f \in DOMAIN w[t] \cap DOMAIN x[t] : x[t][f] = w[t][f]
         /\ \A f \in DOMAIN x[t] \ DOMAIN w[t] : x[t][f] = Fresh(w)[t][f]
  BY <1>1, <1>5 DEF Added, Fresh, Tables
<1>10. Keeps(w, x) /\ Fills(w, x)
  BY <1>8, <1>9 DEF Keeps, Fills, Tables
<1> QED
  BY <1>6, <1>10 DEF x

\* A hop that adds, and then conversions that keep and fill.
LEMMA HopsKeep ==
  ASSUME NEW w, NEW x, NEW y, Grows(w, x), Keeps(x, y), Fills(x, y),
         "rng" \in DOMAIN w.state, "id" \in DOMAIN w.survivor
  PROVE  Keeps(w, y) /\ Fills(w, y)
<1>1. Keeps(w, y)
  <2> SUFFICES ASSUME NEW t \in Tables, NEW f \in DOMAIN w[t] \cap DOMAIN y[t]
               PROVE  y[t][f] = w[t][f]
    BY DEF Keeps
  <2>1. f \in DOMAIN x[t] /\ x[t][f] = w[t][f]
    BY DEF Grows, Keeps
  <2> QED
    BY <2>1 DEF Keeps
<1>2. Fresh(x) = Fresh(w)
  <2>1. x.state.rng = w.state.rng /\ x.survivor.id = w.survivor.id
    BY DEF Grows, Keeps, Tables
  <2> QED
    BY <2>1 DEF Fresh
<1>3. Fills(w, y)
  <2> SUFFICES ASSUME NEW t \in Tables, NEW f \in DOMAIN y[t] \ DOMAIN w[t]
               PROVE  y[t][f] = Fresh(w)[t][f]
    BY DEF Fills
  <2>1. CASE f \in DOMAIN x[t]
    BY <2>1 DEF Grows, Fills, Keeps
  <2>2. CASE f \notin DOMAIN x[t]
    BY <1>2, <2>2 DEF Fills
  <2> QED
    BY <2>1, <2>2
<1> QED
  BY <1>1, <1>3

\* The chain from version 10.
LEMMA From10 ==
  ASSUME NEW w, Formed(w, GameStateV10)
  PROVE  Formed(FromV10(w), GameState) /\ Keeps(w, FromV10(w)) /\ Fills(w, FromV10(w))
<1>1. "rng" \in DOMAIN w.state /\ "id" \in DOMAIN w.survivor
  BY Shape10 DEF Formed, Tables, Carrying
<1> QED
  BY <1>1, To11, From11, HopsKeep DEF FromV10

\* The chain from version 9.
LEMMA From9 ==
  ASSUME NEW w, Formed(w, GameStateV9)
  PROVE  Formed(FromV9(w), GameState) /\ Keeps(w, FromV9(w)) /\ Fills(w, FromV9(w))
<1>1. "rng" \in DOMAIN w.state /\ "id" \in DOMAIN w.survivor
  BY Shape9 DEF Formed, Tables, Carrying
<1> QED
  BY <1>1, To10, From10, HopsKeep DEF FromV9

\* The chain from version 8.
LEMMA From8 ==
  ASSUME NEW w, Formed(w, GameStateV8)
  PROVE  Formed(FromV8(w), GameState) /\ Keeps(w, FromV8(w)) /\ Fills(w, FromV8(w))
<1>1. "rng" \in DOMAIN w.state /\ "id" \in DOMAIN w.survivor
  BY Shape8 DEF Formed, Tables, Carrying
<1> QED
  BY <1>1, To9, From9, HopsKeep DEF FromV8

\* The chain from version 7.
LEMMA From7 ==
  ASSUME NEW w, Formed(w, GameStateV7)
  PROVE  Formed(FromV7(w), GameState) /\ Keeps(w, FromV7(w)) /\ Fills(w, FromV7(w))
<1>1. "rng" \in DOMAIN w.state /\ "id" \in DOMAIN w.survivor
  BY Shape7 DEF Formed, Tables, Carrying
<1> QED
  BY <1>1, To8, From8, HopsKeep DEF FromV7

\* The chain from version 6.
LEMMA From6 ==
  ASSUME NEW w, Formed(w, GameStateV6)
  PROVE  Formed(FromV6(w), GameState) /\ Keeps(w, FromV6(w)) /\ Fills(w, FromV6(w))
<1>1. "rng" \in DOMAIN w.state /\ "id" \in DOMAIN w.survivor
  BY Shape6 DEF Formed, Tables, Carrying
<1> QED
  BY <1>1, To7, From7, HopsKeep DEF FromV6

\* The chain from version 5.
LEMMA From5 ==
  ASSUME NEW w, Formed(w, GameStateV5)
  PROVE  Formed(FromV5(w), GameState) /\ Keeps(w, FromV5(w)) /\ Fills(w, FromV5(w))
<1>1. "rng" \in DOMAIN w.state /\ "id" \in DOMAIN w.survivor
  BY Shape5 DEF Formed, Tables, Carrying
<1> QED
  BY <1>1, To6, From6, HopsKeep DEF FromV5

\* The chain from version 4.
LEMMA From4 ==
  ASSUME NEW w, Formed(w, GameStateV4)
  PROVE  Formed(FromV4(w), GameState) /\ Keeps(w, FromV4(w)) /\ Fills(w, FromV4(w))
<1>1. "rng" \in DOMAIN w.state /\ "id" \in DOMAIN w.survivor
  BY Shape4 DEF Formed, Tables, Carrying
<1> QED
  BY <1>1, To5, From5, HopsKeep DEF FromV4

\* The chain from version 3.
LEMMA From3 ==
  ASSUME NEW w, Formed(w, GameStateV3)
  PROVE  Formed(FromV3(w), GameState) /\ Keeps(w, FromV3(w)) /\ Fills(w, FromV3(w))
<1>1. "rng" \in DOMAIN w.state /\ "id" \in DOMAIN w.survivor
  BY Shape3 DEF Formed, Tables, Carrying
<1> QED
  BY <1>1, To4, From4, HopsKeep DEF FromV3

\* The chain from version 2.
LEMMA From2 ==
  ASSUME NEW w, Formed(w, GameStateV2)
  PROVE  Formed(FromV2(w), GameState) /\ Keeps(w, FromV2(w)) /\ Fills(w, FromV2(w))
<1>1. "rng" \in DOMAIN w.state /\ "id" \in DOMAIN w.survivor
  BY Shape2 DEF Formed, Tables, Carrying
<1> QED
  BY <1>1, To3, From3, HopsKeep DEF FromV2

\* The chain from version 1.
LEMMA From1 ==
  ASSUME NEW w, Formed(w, GameStateV1)
  PROVE  Formed(FromV1(w), GameState) /\ Keeps(w, FromV1(w)) /\ Fills(w, FromV1(w))
<1>1. "rng" \in DOMAIN w.state /\ "id" \in DOMAIN w.survivor
  BY Shape1 DEF Formed, Tables, Carrying
<1> QED
  BY <1>1, To2, From2, HopsKeep DEF FromV1

\* The shape behind each header.
LEMMA Mirrors ==
  /\ Mirror[1] = GameStateV1  /\ Mirror[2] = GameStateV2  /\ Mirror[3] = GameStateV3
  /\ Mirror[4] = GameStateV4  /\ Mirror[5] = GameStateV5  /\ Mirror[6] = GameStateV6
  /\ Mirror[7] = GameStateV7  /\ Mirror[8] = GameStateV8  /\ Mirror[9] = GameStateV9
  /\ Mirror[10] = GameStateV10  /\ Mirror[11] = GameStateV11  /\ Mirror[12] = GameStateV12
  /\ Mirror[13] = GameStateV13  /\ Mirror[14] = GameStateV14  /\ Mirror[15] = GameStateV15
  /\ Mirror[16] = GameStateV16  /\ Mirror[17] = GameState
  BY DEF Mirror

\* Each of them is a function of the tables and has what every version has had.
LEMMA MirrorIs ==
  ASSUME NEW v \in 1..17
  PROVE  Mirror[v] = [t \in Tables |-> Mirror[v][t]] /\ Carrying(Mirror[v])
<1>1. GameStateV1 = [t \in Tables |-> GameStateV1[t]]
  BY DEF GameStateV1, Tables
<1>2. GameStateV2 = [t \in Tables |-> GameStateV2[t]]
  BY <1>1 DEF GameStateV2, Tables
<1>3. GameStateV3 = [t \in Tables |-> GameStateV3[t]]
  BY <1>2 DEF GameStateV3, Tables, WithBuildings
<1>4. GameStateV4 = [t \in Tables |-> GameStateV4[t]]
  BY <1>3 DEF GameStateV4, Tables
<1>5. GameStateV5 = [t \in Tables |-> GameStateV5[t]]
  BY <1>4 DEF GameStateV5, Tables, WithBuildings
<1>6. GameStateV6 = [t \in Tables |-> GameStateV6[t]]
  BY <1>5 DEF GameStateV6, Tables
<1>7. GameStateV7 = [t \in Tables |-> GameStateV7[t]]
  BY <1>6 DEF GameStateV7, Tables
<1>8. GameStateV8 = [t \in Tables |-> GameStateV8[t]]
  BY <1>7 DEF GameStateV8, Tables
<1>9. GameStateV9 = [t \in Tables |-> GameStateV9[t]]
  BY <1>8 DEF GameStateV9, Tables
<1>10. GameStateV10 = [t \in Tables |-> GameStateV10[t]]
  BY <1>9 DEF GameStateV10, Tables
<1>11. GameStateV11 = [t \in Tables |-> GameStateV11[t]]
  BY <1>10 DEF GameStateV11, Tables
<1>12. GameStateV12 = [t \in Tables |-> GameStateV12[t]]
  BY <1>11 DEF GameStateV12, Tables
<1>13. GameStateV13 = [t \in Tables |-> GameStateV13[t]]
  BY <1>12 DEF GameStateV13, Tables, WithBuildings
<1>14. GameStateV14 = [t \in Tables |-> GameStateV14[t]]
  BY <1>13 DEF GameStateV14, Tables
<1>15. GameStateV15 = [t \in Tables |-> GameStateV15[t]]
  BY <1>14 DEF GameStateV15, Tables
<1>16. GameStateV16 = [t \in Tables |-> GameStateV16[t]]
  BY <1>15 DEF GameStateV16, Tables
<1>17. GameState = [t \in Tables |-> GameState[t]]
  BY <1>16 DEF GameState, Tables, WithBuildings
<1>18. /\ Carrying(GameStateV1)
       /\ Carrying(GameStateV2)
       /\ Carrying(GameStateV3)
       /\ Carrying(GameStateV4)
       /\ Carrying(GameStateV5)
       /\ Carrying(GameStateV6)
       /\ Carrying(GameStateV7)
       /\ Carrying(GameStateV8)
       /\ Carrying(GameStateV9)
       /\ Carrying(GameStateV10)
       /\ Carrying(GameStateV11)
       /\ Carrying(GameStateV12)
       /\ Carrying(GameStateV13)
       /\ Carrying(GameStateV14)
       /\ Carrying(GameStateV15)
       /\ Carrying(GameStateV16) /\ Carrying(GameState)
  BY Shape1, Shape2, Shape3, Shape4, Shape5, Shape6, Shape7, Shape8, Shape9, Shape10, Shape11,
     Shape12, Shape13, Shape14, Shape15, Shape16, Shape17
<1>21. CASE v = 1
  BY <1>21, <1>18, <1>1, Mirrors
<1>22. CASE v = 2
  BY <1>22, <1>18, <1>2, Mirrors
<1>23. CASE v = 3
  BY <1>23, <1>18, <1>3, Mirrors
<1>24. CASE v = 4
  BY <1>24, <1>18, <1>4, Mirrors
<1>25. CASE v = 5
  BY <1>25, <1>18, <1>5, Mirrors
<1>26. CASE v = 6
  BY <1>26, <1>18, <1>6, Mirrors
<1>27. CASE v = 7
  BY <1>27, <1>18, <1>7, Mirrors
<1>28. CASE v = 8
  BY <1>28, <1>18, <1>8, Mirrors
<1>29. CASE v = 9
  BY <1>29, <1>18, <1>9, Mirrors
<1>30. CASE v = 10
  BY <1>30, <1>18, <1>10, Mirrors
<1>31. CASE v = 11
  BY <1>31, <1>18, <1>11, Mirrors
<1>32. CASE v = 12
  BY <1>32, <1>18, <1>12, Mirrors
<1>33. CASE v = 13
  BY <1>33, <1>18, <1>13, Mirrors
<1>34. CASE v = 14
  BY <1>34, <1>18, <1>14, Mirrors
<1>35. CASE v = 15
  BY <1>35, <1>18, <1>15, Mirrors
<1>36. CASE v = 16
  BY <1>36, <1>18, <1>16, Mirrors
<1>37. CASE v = 17
  BY <1>37, <1>18, <1>17, Mirrors
<1> QED
  BY <1>21, <1>22, <1>23, <1>24, <1>25, <1>26, <1>27, <1>28, <1>29, <1>30, <1>31, <1>32, <1>33,
     <1>34, <1>35, <1>36, <1>37

\* What the header's hop makes of a world of that version.
LEMMA MigratedIs ==
  ASSUME NEW v \in 1..17, NEW w, Formed(w, Mirror[v])
  PROVE  Formed(Migrated(v, w), GameState) /\ Keeps(w, Migrated(v, w)) /\ Fills(w, Migrated(v, w))
<1>1. CASE v = 1
  BY <1>1, Mirrors, From1 DEF Migrated
<1>2. CASE v = 2
  BY <1>2, Mirrors, From2 DEF Migrated
<1>3. CASE v = 3
  BY <1>3, Mirrors, From3 DEF Migrated
<1>4. CASE v = 4
  BY <1>4, Mirrors, From4 DEF Migrated
<1>5. CASE v = 5
  BY <1>5, Mirrors, From5 DEF Migrated
<1>6. CASE v = 6
  BY <1>6, Mirrors, From6 DEF Migrated
<1>7. CASE v = 7
  BY <1>7, Mirrors, From7 DEF Migrated
<1>8. CASE v = 8
  BY <1>8, Mirrors, From8 DEF Migrated
<1>9. CASE v = 9
  BY <1>9, Mirrors, From9 DEF Migrated
<1>10. CASE v = 10
  BY <1>10, Mirrors, From10 DEF Migrated
<1>11. CASE v = 11
  BY <1>11, Mirrors, From11 DEF Migrated
<1>12. CASE v = 12
  BY <1>12, Mirrors, From12 DEF Migrated
<1>13. CASE v = 13
  BY <1>13, Mirrors, From13 DEF Migrated
<1>14. CASE v = 14
  BY <1>14, Mirrors, From14 DEF Migrated
<1>15. CASE v = 15
  BY <1>15, Mirrors, From15 DEF Migrated
<1>16. CASE v = 16
  BY <1>16, Mirrors, From16 DEF Migrated
<1>17. CASE v = 17
  BY <1>17, Mirrors DEF Migrated, Keeps, Fills, Formed
<1> QED
  BY <1>1, <1>2, <1>3, <1>4, <1>5, <1>6, <1>7, <1>8, <1>9, <1>10, <1>11, <1>12, <1>13, <1>14,
     <1>15, <1>16, <1>17

\* Once a field that is still there was added, every later version has it.
LEMMA NothingDropped ==
  ASSUME NEW v \in 1..17, NEW u \in v..17, NEW t \in Tables
  PROVE  GameState[t] \cap Mirror[v][t] \subseteq Mirror[u][t]
<1> DEFINE Has(n) == \A m \in 1..n : GameState[t] \cap Mirror[m][t] \subseteq Mirror[n][t]
<1>1. Has(1)
  OBVIOUS
<1>2. Has(2)
  <2>1. GameStateV1[t] \subseteq GameStateV2[t]
    BY Shape1, Shape2 DEF Tables, SurvivorV3, PlayerInfo
  <2>2. \A m \in 1..2 : m \in 1..1 \/ m = 2
    OBVIOUS
  <2> QED
    BY <1>1, <2>1, <2>2, Mirrors
<1>3. Has(3)
  <2>1. GameStateV2[t] \subseteq GameStateV3[t]
    BY Shape2, Shape3 DEF Tables, BuildingV4
  <2>2. \A m \in 1..3 : m \in 1..2 \/ m = 3
    OBVIOUS
  <2> QED
    BY <1>2, <2>1, <2>2, Mirrors
<1>4. Has(4)
  <2>1. GameStateV3[t] \subseteq GameStateV4[t]
    BY Shape3, Shape4 DEF Tables, SurvivorV5
  <2>2. \A m \in 1..4 : m \in 1..3 \/ m = 4
    OBVIOUS
  <2> QED
    BY <1>3, <2>1, <2>2, Mirrors
<1>5. Has(5)
  <2>1. GameStateV4[t] \subseteq GameStateV5[t]
    BY Shape4, Shape5 DEF Tables, BuildingV12
  <2>2. \A m \in 1..5 : m \in 1..4 \/ m = 5
    OBVIOUS
  <2> QED
    BY <1>4, <2>1, <2>2, Mirrors
<1>6. Has(6)
  <2>1. GameStateV5[t] \subseteq GameStateV6[t]
    BY Shape5, Shape6 DEF Tables, SurvivorV8
  <2>2. \A m \in 1..6 : m \in 1..5 \/ m = 6
    OBVIOUS
  <2> QED
    BY <1>5, <2>1, <2>2, Mirrors
<1>7. Has(7)
  <2>1. GameStateV6[t] \subseteq GameStateV7[t]
    BY Shape6, Shape7 DEF Tables
  <2>2. \A m \in 1..7 : m \in 1..6 \/ m = 7
    OBVIOUS
  <2> QED
    BY <1>6, <2>1, <2>2, Mirrors
<1>8. Has(8)
  <2>1. GameStateV7[t] \subseteq GameStateV8[t]
    BY Shape7, Shape8 DEF Tables, StockpileV8
  <2>2. \A m \in 1..8 : m \in 1..7 \/ m = 8
    OBVIOUS
  <2> QED
    BY <1>7, <2>1, <2>2, Mirrors
<1>9. Has(9)
  <2>1. GameStateV8[t] \subseteq GameStateV9[t]
    BY Shape8, Shape9 DEF Tables, SurvivorV13, StockpileV10
  <2>2. \A m \in 1..9 : m \in 1..8 \/ m = 9
    OBVIOUS
  <2> QED
    BY <1>8, <2>1, <2>2, Mirrors
<1>10. Has(10)
  <2>1. GameStateV9[t] \subseteq GameStateV10[t]
    BY Shape9, Shape10 DEF Tables
  <2>2. \A m \in 1..10 : m \in 1..9 \/ m = 10
    OBVIOUS
  <2> QED
    BY <1>9, <2>1, <2>2, Mirrors
<1>11. Has(11)
  <2>1. GameStateV10[t] \subseteq GameStateV11[t]
    BY Shape10, Shape11 DEF Tables, Stockpile
  <2>2. \A m \in 1..11 : m \in 1..10 \/ m = 11
    OBVIOUS
  <2> QED
    BY <1>10, <2>1, <2>2, Mirrors
<1>12. Has(12)
  <2>1. GameState[t] \cap GameStateV11[t] \subseteq GameStateV12[t]
    BY Shape11, Shape12, Shape13, Shape14, Shape15, Shape16, Shape17 DEF Tables
  <2>2. \A m \in 1..12 : m \in 1..11 \/ m = 12
    OBVIOUS
  <2> QED
    BY <1>11, <2>1, <2>2, Mirrors
<1>13. Has(13)
  <2>1. GameStateV12[t] \subseteq GameStateV13[t]
    BY Shape12, Shape13 DEF Tables, BuildingV16
  <2>2. \A m \in 1..13 : m \in 1..12 \/ m = 13
    OBVIOUS
  <2> QED
    BY <1>12, <2>1, <2>2, Mirrors
<1>14. Has(14)
  <2>1. GameStateV13[t] \subseteq GameStateV14[t]
    BY Shape13, Shape14 DEF Tables, SurvivorV14
  <2>2. \A m \in 1..14 : m \in 1..13 \/ m = 14
    OBVIOUS
  <2> QED
    BY <1>13, <2>1, <2>2, Mirrors
<1>15. Has(15)
  <2>1. GameStateV14[t] \subseteq GameStateV15[t]
    BY Shape14, Shape15 DEF Tables, Survivor
  <2>2. \A m \in 1..15 : m \in 1..14 \/ m = 15
    OBVIOUS
  <2> QED
    BY <1>14, <2>1, <2>2, Mirrors
<1>16. Has(16)
  <2>1. GameStateV15[t] \subseteq GameStateV16[t]
    BY Shape15, Shape16 DEF Tables, Tile
  <2>2. \A m \in 1..16 : m \in 1..15 \/ m = 16
    OBVIOUS
  <2> QED
    BY <1>15, <2>1, <2>2, Mirrors
<1>17. Has(17)
  <2>1. GameStateV16[t] \subseteq GameState[t]
    BY Shape16, Shape17 DEF Tables, Building
  <2>2. \A m \in 1..17 : m \in 1..16 \/ m = 17
    OBVIOUS
  <2> QED
    BY <1>16, <2>1, <2>2, Mirrors
<1>18. Has(u)
  <2>1. CASE u = 1
    BY <1>1, <2>1
  <2>2. CASE u = 2
    BY <1>2, <2>2
  <2>3. CASE u = 3
    BY <1>3, <2>3
  <2>4. CASE u = 4
    BY <1>4, <2>4
  <2>5. CASE u = 5
    BY <1>5, <2>5
  <2>6. CASE u = 6
    BY <1>6, <2>6
  <2>7. CASE u = 7
    BY <1>7, <2>7
  <2>8. CASE u = 8
    BY <1>8, <2>8
  <2>9. CASE u = 9
    BY <1>9, <2>9
  <2>10. CASE u = 10
    BY <1>10, <2>10
  <2>11. CASE u = 11
    BY <1>11, <2>11
  <2>12. CASE u = 12
    BY <1>12, <2>12
  <2>13. CASE u = 13
    BY <1>13, <2>13
  <2>14. CASE u = 14
    BY <1>14, <2>14
  <2>15. CASE u = 15
    BY <1>15, <2>15
  <2>16. CASE u = 16
    BY <1>16, <2>16
  <2>17. CASE u = 17
    BY <1>17, <2>17
  <2> HIDE DEF Has
  <2>18. u \in 1..17
    OBVIOUS
  <2> QED
    BY <2>1, <2>2, <2>3, <2>4, <2>5, <2>6, <2>7, <2>8, <2>9, <2>10, <2>11, <2>12, <2>13, <2>14,
       <2>15, <2>16, <2>17, <2>18
<1>19. v \in 1..u
  OBVIOUS
<1> QED
  BY <1>18, <1>19

-----------------------------------------------------------------------------
(* The save file *)

\* The clock of a world and whether its colony came through the Tunnel.
Sound(w) == w.state.tick \in Nat /\ w.state.graduated \in BOOLEAN

\* A whole file is a world of its version, and one of an older version is as it was found:
\* only the live version is ever written.
Found(v, w) ==
  \E g \in BOOLEAN, id \in Ids, kind \in {"Tunnel", "Misread"} : w = Earned(Mirror[v], 1, g, id, kind)
SaveOf(f) ==
  IsWhole(f) => /\ f.version \in 1..17 /\ Formed(f.body, Mirror[f.version]) /\ Sound(f.body)
                /\ f.version = 17 \/ Found(f.version, f.body)

\* While the process runs, the file is not ahead of the world it was read into, and a save
\* about to be put in place is of that world.
NotBehind ==
  world # NoWorld /\ IsWhole(origin) /\ IsWhole(disk) =>
    /\ reset \/ world.state.tick >= disk.body.state.tick
    /\ disk.body.state.graduated => world.state.graduated
SaveInv ==
  /\ SaveOf(disk) /\ SaveOf(tmp) /\ SaveOf(origin)
  /\ world # NoWorld => Formed(world, GameState) /\ Sound(world)
  /\ saving # "no" => world # NoWorld
  /\ saving = "renaming" => tmp = Whole(LiveVersion, world)
  /\ IsWhole(origin) => started = Load(origin)
  /\ NotBehind

\* What a file is.
LEMMA Files ==
  ASSUME NEW v, NEW w
  PROVE  /\ IsWhole(Whole(v, w)) /\ Whole(v, w).version = v /\ Whole(v, w).body = w
         /\ ~IsWhole(Missing) /\ ~IsWhole(Torn)
  BY DEF IsWhole, Whole, Missing, Torn

\* A world with the tables is a world.
LEMMA FormedIsWorld == ASSUME NEW w, NEW shape, Formed(w, shape) PROVE w # NoWorld
  BY DEF Formed, NoWorld, Tables

\* A world a player made of a version: every field holds what they made of it.
LEMMA EarnedIs ==
  ASSUME NEW v \in 1..17, NEW tick, NEW g \in BOOLEAN, NEW id, NEW kind,
         NEW w, w = Earned(Mirror[v], tick, g, id, kind)
  PROVE  /\ Formed(w, Mirror[v])
         /\ w.state.tick = tick /\ w.state.graduated \in BOOLEAN
         /\ w.survivor.id = id /\ w.state.rng = <<"state", "rng">>
<1> DEFINE shape == Mirror[v]
<1>1. DOMAIN shape = Tables /\ Carrying(shape) /\ w = Earned(shape, tick, g, id, kind)
  BY MirrorIs
<1> HIDE DEF shape
<1>2. DOMAIN w = Tables
  BY <1>1 DEF Earned
<1>3. \A t \in Tables : DOMAIN w[t] = shape[t]
  BY <1>1 DEF Earned
<1>4. w.state.tick = tick /\ w.state.graduated \in BOOLEAN
  BY <1>1 DEF Earned, Carrying, Tables
<1>5. w.survivor.id = id /\ w.state.rng = <<"state", "rng">>
  BY <1>1 DEF Earned, Carrying, Tables
<1> QED
  BY <1>2, <1>3, <1>4, <1>5 DEF Formed, shape

\* The Tunnel's kind is all a repair touches.
LEMMA RepairedIs ==
  ASSUME NEW w, Formed(w, GameState)
  PROVE  /\ Formed(Repaired(w), GameState)
         /\ \A t \in Tables : \A f \in DOMAIN w[t] :
              Repaired(w)[t][f] = w[t][f] \/ <<t, f>> = <<"tunnel", "kind">>
<1> DEFINE x == [w EXCEPT !.tunnel.kind = "Tunnel"]
<1>1. DOMAIN w = Tables /\ \A t \in Tables : DOMAIN w[t] = GameState[t]
  BY DEF Formed
<1>2. DOMAIN x = Tables /\ \A t \in Tables \ {"tunnel"} : x[t] = w[t]
  BY <1>1
<1>3. x.tunnel = [w.tunnel EXCEPT !.kind = "Tunnel"]
  BY <1>1 DEF Tables
<1> HIDE DEF x
<1>4. /\ DOMAIN x.tunnel = DOMAIN w.tunnel
      /\ \A f \in DOMAIN w.tunnel \ {"kind"} : x.tunnel[f] = w.tunnel[f]
  BY <1>3
<1>5. Formed(x, GameState)
  BY <1>1, <1>2, <1>4 DEF Formed
<1>6. \A t \in Tables : \A f \in DOMAIN w[t] : x[t][f] = w[t][f] \/ (t = "tunnel" /\ f = "kind")
  BY <1>2, <1>4
<1>7. Repaired(w) = w \/ Repaired(w) = x
  BY DEF Repaired, x
<1> QED
  BY <1>5, <1>6, <1>7

\* What a whole file is loaded as: a live world that keeps what the file held and has the
\* fresh values in the fields it lacked.
LEMMA LoadIs ==
  ASSUME NEW f, IsWhole(f), f.version \in 1..17, Formed(f.body, Mirror[f.version])
  PROVE  /\ Formed(Load(f), GameState)
         /\ \A t \in Tables : \A g \in DOMAIN Load(f)[t] :
              \/ <<t, g>> = <<"tunnel", "kind">>
              \/ Load(f)[t][g] = IF g \in DOMAIN f.body[t] THEN f.body[t][g] ELSE Fresh(f.body)[t][g]
         /\ Load(f).state.tick = f.body.state.tick
         /\ Load(f).state.graduated = f.body.state.graduated
         /\ Load(f).survivor.id = f.body.survivor.id
<1> DEFINE v == f.version
           w == f.body
           m == Migrated(v, w)
           x == Repaired(m)
<1>1. v \in 1..17 /\ Formed(w, Mirror[v])
  OBVIOUS
<1>2. Mirror[v] = [t \in Tables |-> Mirror[v][t]] /\ Carrying(Mirror[v])
  BY <1>1, MirrorIs
<1>3. ShapeOf(w) = Mirror[v]
  BY <1>1, <1>2 DEF ShapeOf, Formed
<1>4. Formed(m, GameState) /\ Keeps(w, m) /\ Fills(w, m)
  BY <1>1, MigratedIs
<1>5. LoadRaw(f) = m
  BY <1>3 DEF LoadRaw, Decoded
<1> HIDE DEF m
<1>6. /\ Formed(x, GameState)
      /\ \A t \in Tables : \A g \in DOMAIN m[t] : x[t][g] = m[t][g] \/ <<t, g>> = <<"tunnel", "kind">>
  BY <1>4, RepairedIs
<1>7. Load(f) = x
  BY <1>4, <1>5, FormedIsWorld DEF Load
<1>8. \A t \in Tables : DOMAIN x[t] = DOMAIN m[t]
  BY <1>4, <1>6 DEF Formed
<1> HIDE DEF v, w, x
<1>9. \A t \in Tables : \A g \in DOMAIN x[t] :
         \/ <<t, g>> = <<"tunnel", "kind">>
         \/ x[t][g] = IF g \in DOMAIN w[t] THEN w[t][g] ELSE Fresh(w)[t][g]
  <2> SUFFICES ASSUME NEW t \in Tables, NEW g \in DOMAIN x[t], <<t, g>> # <<"tunnel", "kind">>
               PROVE  x[t][g] = IF g \in DOMAIN w[t] THEN w[t][g] ELSE Fresh(w)[t][g]
    OBVIOUS
  <2>1. x[t][g] = m[t][g] /\ g \in DOMAIN m[t]
    BY <1>6, <1>8
  <2>2. g \in DOMAIN w[t] => m[t][g] = w[t][g]
    BY <1>4, <2>1 DEF Keeps
  <2>3. g \notin DOMAIN w[t] => m[t][g] = Fresh(w)[t][g]
    BY <1>4, <2>1 DEF Fills
  <2> QED
    BY <2>1, <2>2, <2>3
<1>10. /\ {"tick", "graduated"} \subseteq DOMAIN w.state /\ "id" \in DOMAIN w.survivor
       /\ {"tick", "graduated"} \subseteq DOMAIN x.state /\ "id" \in DOMAIN x.survivor
  BY <1>1, <1>2, <1>6, Shape17 DEF Formed, Carrying, Tables
<1>11. /\ x.state.tick = w.state.tick
       /\ x.state.graduated = w.state.graduated
       /\ x.survivor.id = w.survivor.id
  <2>1. \A g : <<"state", g>> # <<"tunnel", "kind">> /\ <<"survivor", g>> # <<"tunnel", "kind">>
    OBVIOUS
  <2> QED
    BY <1>9, <1>10, <2>1 DEF Tables
<1> QED
  BY <1>6, <1>7, <1>9, <1>11 DEF w

\* A fresh world, one a boot has entered and one that starts over are live worlds.
LEMMA LiveWorlds ==
  /\ Formed(NewGame, GameState) /\ Sound(NewGame) /\ NewGame.state.tick = 0
  /\ \A w : Formed(w, GameState) =>
       /\ Formed(Entered(w), GameState) /\ Formed(StartedOver(w), GameState)
       /\ Entered(w).state.tick = w.state.tick /\ Entered(w).state.graduated = w.state.graduated
       /\ StartedOver(w).state.tick = 0 /\ StartedOver(w).state.graduated = w.state.graduated
<1>1. Formed(NewGame, GameState) /\ Sound(NewGame) /\ NewGame.state.tick = 0
  <2>1. 17 \in 1..17 /\ Mirror[17] = GameState
    BY Mirrors
  <2>2. NewGame = Earned(Mirror[17], 0, FALSE, 0, "Tunnel")
    BY <2>1 DEF NewGame
  <2>3. PICK g \in BOOLEAN : NewGame = Earned(Mirror[17], 0, g, 0, "Tunnel")
    BY <2>2
  <2>4. Formed(NewGame, Mirror[17]) /\ NewGame.state.tick = 0 /\ NewGame.state.graduated \in BOOLEAN
    BY <2>1, <2>3, EarnedIs
  <2> QED
    BY <2>1, <2>4 DEF Sound
<1>2. ASSUME NEW w, Formed(w, GameState)
      PROVE  /\ Formed(Entered(w), GameState)
             /\ Entered(w).state.tick = w.state.tick
             /\ Entered(w).state.graduated = w.state.graduated
  <2>1. DOMAIN w = Tables /\ \A t \in Tables : DOMAIN w[t] = GameState[t]
    BY <1>2 DEF Formed
  <2>2. /\ DOMAIN Entered(w) = Tables
        /\ \A t \in Tables \ {"player", "state"} : Entered(w)[t] = w[t]
        /\ DOMAIN Entered(w).player = DOMAIN w.player
        /\ DOMAIN Entered(w).state = DOMAIN w.state
        /\ \A f \in DOMAIN w.state : f = "central" \/ Entered(w).state[f] = w.state[f]
    BY <2>1 DEF Entered, Tables
  <2>3. {"tick", "graduated"} \subseteq DOMAIN w.state
    BY <2>1, Shape17 DEF Carrying, Tables
  <2> QED
    BY <2>1, <2>2, <2>3 DEF Formed
<1>3. ASSUME NEW w, Formed(w, GameState)
      PROVE  /\ Formed(StartedOver(w), GameState)
             /\ StartedOver(w).state.tick = 0 /\ StartedOver(w).state.graduated = w.state.graduated
  <2>1. /\ DOMAIN w = Tables /\ \A t \in Tables : DOMAIN w[t] = GameState[t]
        /\ DOMAIN NewGame = Tables /\ \A t \in Tables : DOMAIN NewGame[t] = GameState[t]
    BY <1>1, <1>3 DEF Formed
  <2>2. "graduated" \in DOMAIN NewGame.state /\ "tick" \in DOMAIN NewGame.state
    BY <2>1, Shape17 DEF Carrying, Tables
  <2>3. /\ DOMAIN StartedOver(w) = Tables
        /\ \A t \in Tables \ {"player", "state"} : StartedOver(w)[t] = NewGame[t]
        /\ StartedOver(w).player = w.player
        /\ DOMAIN StartedOver(w).state = DOMAIN NewGame.state
        /\ StartedOver(w).state.tick = NewGame.state.tick
        /\ StartedOver(w).state.graduated = w.state.graduated
    BY <2>1, <2>2 DEF StartedOver, Tables
  <2> QED
    BY <1>1, <2>1, <2>3 DEF Formed
<1> QED
  BY <1>1, <1>2, <1>3

\* The first boot finds no file, a torn one or one of the versions.
LEMMA SaveStarts == Init => SaveInv
<1> SUFFICES ASSUME Init PROVE SaveInv
  OBVIOUS
<1>1. SaveOf(Missing) /\ SaveOf(Torn)
  BY Files DEF SaveOf
<1>2. SaveOf(disk)
  <2>1. CASE disk \in {Missing, Torn}
    BY <1>1, <2>1
  <2>2. CASE \E v \in Versions, g \in BOOLEAN, id \in Ids, k \in {"Tunnel", "Misread"} :
               disk = Whole(v, Earned(Mirror[v], 1, g, id, k))
    <3>1. PICK v \in Versions, g \in BOOLEAN, id \in Ids, k \in {"Tunnel", "Misread"} :
            disk = Whole(v, Earned(Mirror[v], 1, g, id, k))
      BY <2>2
    <3> DEFINE w == Earned(Mirror[v], 1, g, id, k)
    <3>2. v \in 1..17
      BY SavesAssumption DEF LiveVersion
    <3>4. Found(v, w)
      BY DEF Found
    <3>5. disk.version = v /\ disk.body = w
      BY <3>1, Files
    <3> HIDE DEF w
    <3>6. w = Earned(Mirror[v], 1, g, id, k)
      BY DEF w
    <3>3. Formed(w, Mirror[v]) /\ w.state.tick = 1 /\ w.state.graduated \in BOOLEAN
      BY <3>2, <3>6, EarnedIs
    <3> QED
      BY <3>2, <3>3, <3>4, <3>5 DEF SaveOf, Sound
  <2> QED
    BY <2>1, <2>2 DEF Init
<1> QED
  BY <1>1, <1>2, Files DEF Init, SaveInv, NotBehind

\* The world a boot starts from is entered whole, and where a file was read it is as far on.
LEMMA BootKeeps == ASSUME SaveInv, Boot \/ BootBlind PROVE SaveInv'
<1>1. UNCHANGED <<disk, tmp, saving>> /\ world = NoWorld /\ saving = "no"
  BY DEF Boot, BootBlind, SaveInv
<1>2. CASE BootBlind
  <2>3. world' = Entered(NewGame)
    BY <1>2 DEF BootBlind
  <2>1. Formed(world', GameState) /\ Sound(world')
    BY <2>3, LiveWorlds DEF Sound
  <2>2. origin' = Missing
    BY <1>2 DEF BootBlind
  <2> QED
    BY <1>1, <2>1, <2>2, Files DEF SaveInv, SaveOf, Sound, NotBehind
<1>3. CASE Boot
  <2> DEFINE w == IF Load(disk) = NoWorld THEN NewGame ELSE Load(disk)
  <2>1. started' = w /\ world' = Entered(w) /\ origin' = disk
    BY <1>3 DEF Boot
  <2>2. CASE IsWhole(disk)
    <3>7. disk.version \in 1..17 /\ Formed(disk.body, Mirror[disk.version])
      BY <2>2 DEF SaveInv, SaveOf
    <3>1. /\ Formed(Load(disk), GameState)
          /\ Load(disk).state.tick = disk.body.state.tick
          /\ Load(disk).state.graduated = disk.body.state.graduated
      BY <2>2, <3>7, LoadIs
    <3>2. w = Load(disk)
      BY <3>1, FormedIsWorld
    <3>3. disk.body.state.tick \in Nat /\ disk.body.state.graduated \in BOOLEAN
      BY <2>2 DEF SaveInv, SaveOf, Sound
    <3> HIDE DEF w
    <3>4. /\ Formed(world', GameState)
          /\ world'.state.tick = disk.body.state.tick
          /\ world'.state.graduated = disk.body.state.graduated
      BY <2>1, <3>1, <3>2, LiveWorlds
    <3>5. Sound(world')
      BY <3>3, <3>4 DEF Sound
    <3>6. NotBehind'
      BY <1>1, <3>3, <3>4 DEF NotBehind
    <3> QED
      BY <1>1, <2>1, <3>2, <3>4, <3>5, <3>6 DEF SaveInv, SaveOf, Sound
  <2>3. CASE ~IsWhole(disk)
    <3>1. w = NewGame
      BY <2>3 DEF Load, LoadRaw
    <3> HIDE DEF w
    <3>2. Formed(world', GameState) /\ Sound(world')
      BY <2>1, <3>1, LiveWorlds DEF Sound
    <3> QED
      BY <1>1, <2>1, <2>3, <3>2 DEF SaveInv, SaveOf, Sound, NotBehind
  <2> QED
    BY <2>2, <2>3
<1> QED
  BY <1>2, <1>3

\* What the world goes through while it runs: play, the Tunnel, a fresh start.
LEMMA PlayKeeps == ASSUME SaveInv, Play \/ Graduate \/ StartOver PROVE SaveInv'
<1>1. /\ UNCHANGED <<disk, tmp, saving, origin, started>> /\ saving = "no"
      /\ Formed(world, GameState) /\ Sound(world)
  BY DEF Play, Graduate, StartOver, SaveInv
<1>2. DOMAIN world = Tables /\ {"tick", "graduated"} \subseteq DOMAIN world.state
  BY <1>1, Shape17 DEF Formed, Carrying, Tables
<1>3. /\ Formed(world', GameState) /\ Sound(world')
      /\ reset' \/ (reset' = reset /\ world'.state.tick >= world.state.tick)
      /\ world.state.graduated => world'.state.graduated
  <2>1. CASE Play
    <3>1. world' = [world EXCEPT !.state.tick = @ + 1] /\ reset' = reset
      BY <2>1 DEF Play
    <3>2. /\ DOMAIN world' = DOMAIN world /\ \A t \in Tables : DOMAIN world'[t] = DOMAIN world[t]
          /\ world'.state.tick = world.state.tick + 1
          /\ world'.state.graduated = world.state.graduated
      BY <1>2, <3>1 DEF Tables
    <3> QED
      BY <1>1, <3>1, <3>2 DEF Formed, Sound
  <2>2. CASE Graduate
    <3>1. world' = [world EXCEPT !.state.graduated = TRUE] /\ reset' = reset
      BY <2>2 DEF Graduate
    <3>2. /\ DOMAIN world' = DOMAIN world /\ \A t \in Tables : DOMAIN world'[t] = DOMAIN world[t]
          /\ world'.state.tick = world.state.tick
      BY <1>2, <3>1 DEF Tables
    <3>3. world'.state.graduated \in BOOLEAN /\ world'.state.graduated
      BY <1>2, <3>1 DEF Tables
    <3>4. Formed(world', GameState)
      BY <1>1, <3>2 DEF Formed
    <3> QED
      BY <1>1, <3>1, <3>2, <3>3, <3>4 DEF Sound
  <2>3. CASE StartOver
    <3>1. world' = StartedOver(world) /\ reset'
      BY <2>3 DEF StartOver
    <3> QED
      BY <1>1, <3>1, LiveWorlds DEF Sound
  <2> QED
    BY <2>1, <2>2, <2>3
<1>4. world # NoWorld
  BY <1>1, FormedIsWorld
<1>5. NotBehind'
  <2> SUFFICES ASSUME IsWhole(origin), IsWhole(disk)
               PROVE  /\ reset' \/ world'.state.tick >= disk.body.state.tick
                      /\ disk.body.state.graduated => world'.state.graduated
    BY <1>1 DEF NotBehind
  <2>1. /\ reset \/ world.state.tick >= disk.body.state.tick
        /\ disk.body.state.graduated => world.state.graduated
    BY <1>4 DEF SaveInv, NotBehind
  <2>2. world.state.tick \in Nat /\ world'.state.tick \in Nat /\ disk.body.state.tick \in Nat
    BY <1>1, <1>3 DEF SaveInv, SaveOf, Sound
  <2> QED
    BY <1>3, <2>1, <2>2
<1> QED
  BY <1>1, <1>3, <1>5 DEF SaveInv, SaveOf, Sound

\* The save: through the temporary file, and renamed when all of it is there.
LEMMA SavingKeeps == ASSUME SaveInv, BeginSave \/ WriteTmp \/ RenameTmp \/ SaveFails PROVE SaveInv'
<1>1. UNCHANGED <<origin, started, reset>>
  BY DEF BeginSave, WriteTmp, RenameTmp, SaveFails, Over
<1>2. world # NoWorld /\ Formed(world, GameState) /\ Sound(world)
  BY DEF BeginSave, WriteTmp, RenameTmp, SaveFails, SaveInv
<1>3. world' = world \/ (world' = NoWorld /\ saving' = "no")
  BY DEF BeginSave, WriteTmp, RenameTmp, SaveFails, Over
<1>4. SaveOf(Missing) /\ SaveOf(Torn)
  BY Files DEF SaveOf
<1>5. SaveOf(Whole(LiveVersion, world))
  BY <1>2, Files, Mirrors DEF SaveOf, LiveVersion
<1>6. CASE BeginSave
  BY <1>1, <1>2, <1>4, <1>6 DEF SaveInv, BeginSave, SaveOf, Sound, NotBehind
<1>7. CASE WriteTmp
  BY <1>1, <1>2, <1>5, <1>7 DEF SaveInv, WriteTmp, SaveOf, Sound, NotBehind
<1>8. CASE RenameTmp
  <2>1. disk' = Whole(LiveVersion, world) /\ tmp' = Missing /\ saving' = "no"
    BY <1>8 DEF SaveInv, RenameTmp, Over
  <2>2. SaveOf(disk') /\ SaveOf(tmp') /\ disk'.body = world
    BY <1>4, <1>5, <2>1, Files
  <2>3. NotBehind'
    BY <1>2, <1>3, <2>2 DEF NotBehind, Sound
  <2> QED
    BY <1>1, <1>2, <1>3, <2>1, <2>2, <2>3 DEF SaveInv, SaveOf, Sound
<1>9. CASE SaveFails
  BY <1>1, <1>2, <1>3, <1>9 DEF SaveInv, SaveFails, Over, SaveOf, Sound, NotBehind
<1> QED
  BY <1>6, <1>7, <1>8, <1>9

\* Every step of the process, a kill at any point included.
LEMMA SaveKeeps == ASSUME SaveInv, [Next]_vars PROVE SaveInv'
<1>1. CASE Leave
  BY <1>1 DEF SaveInv, Leave, SaveOf, Sound, NotBehind
<1>2. CASE Kill
  BY <1>2 DEF SaveInv, Kill, SaveOf, Sound, NotBehind
<1>3. CASE UNCHANGED vars
  BY <1>3 DEF SaveInv, vars, SaveOf, Sound, NotBehind
<1> QED
  BY <1>1, <1>2, <1>3, BootKeeps, PlayKeeps, SavingKeeps DEF Next

\* What every file and the world in memory are, in every state.
THEOREM SavesKnown == Spec => []SaveInv
<1> QED
  BY SaveStarts, SaveKeeps, PTL DEF Spec

\* The file a save replaces is never ahead of the save, and no save takes a graduation back
\* (save_at, and what StartOver carries across), for every version, world and length of play.
THEOREM ProgressSurvives == Spec => ProgressKept
<1>1. SaveInv /\ [Next]_vars =>
        [IsWhole(disk) /\ Read =>
           /\ reset \/ disk'.body.state.tick >= disk.body.state.tick
           /\ disk.body.state.graduated => disk'.body.state.graduated]_disk
  <2> SUFFICES ASSUME SaveInv, Next, disk' # disk, IsWhole(disk), Read
               PROVE  /\ reset \/ disk'.body.state.tick >= disk.body.state.tick
                      /\ disk.body.state.graduated => disk'.body.state.graduated
    BY DEF vars
  <2>1. RenameTmp
    BY DEF Next, Boot, BootBlind, Play, Graduate, StartOver, Leave, BeginSave, WriteTmp,
           SaveFails, Kill
  <2>2. disk' = Whole(LiveVersion, world) /\ world # NoWorld
    BY <2>1 DEF RenameTmp, SaveInv
  <2>3. disk'.body = world
    BY <2>2, Files
  <2> QED
    BY <2>2, <2>3 DEF SaveInv, NotBehind, Read
<1> QED
  BY <1>1, SavesKnown, PTL DEF Spec, ProgressKept

\* What the invariant says of the world a boot decoded.
LEMMA InvCarries == ASSUME SaveInv PROVE MigratedWhole
<1> SUFFICES ASSUME IsWhole(origin) PROVE Carried /\ Agreed
  BY DEF MigratedWhole, Read
<1> DEFINE v == origin.version
           w == origin.body
<1>1. SaveOf(origin) /\ started = Load(origin)
  BY DEF SaveInv
<1>2. v \in 1..17 /\ Formed(w, Mirror[v]) /\ (v = 17 \/ Found(v, w))
  BY <1>1 DEF SaveOf
<1>3. /\ Formed(started, GameState)
      /\ \A t \in Tables : \A g \in DOMAIN started[t] :
           \/ <<t, g>> = <<"tunnel", "kind">>
           \/ started[t][g] = IF g \in DOMAIN w[t] THEN w[t][g] ELSE Fresh(w)[t][g]
      /\ started.survivor.id = w.survivor.id
  BY <1>1, <1>2, LoadIs
<1> HIDE DEF v, w
<1>4. Carried
  <2>1. GameState = [t \in Tables |-> GameState[t]]
    BY Mirrors, MirrorIs
  <2>2. ShapeOf(started) = GameState
    BY <1>3, <2>1 DEF ShapeOf, Formed
  <2>3. \A t \in DOMAIN started : \A f \in DOMAIN started[t] : f \in DOMAIN w[t] =>
           started[t][f] = w[t][f] \/ <<t, f>> = <<"tunnel", "kind">>
    BY <1>3 DEF Formed
  <2> QED
    BY <2>2, <2>3 DEF Carried, w
<1>5. Agreed
  <2> SUFFICES ASSUME NEW u \in v..LiveVersion, NEW t \in DOMAIN started,
                      NEW f \in DOMAIN started[t] \ Mirror[u][t]
               PROVE  started[t][f] = Reference[u][started.survivor.id][t][f]
    BY DEF Agreed, v
  <2>1. t \in Tables /\ f \in GameState[t]
    BY <1>3 DEF Formed
  <2>2. u \in 1..17 /\ u \in v..17
    BY <1>2 DEF LiveVersion
  <2>3. u # 17
    BY <2>1, Mirrors
  <2>4. PICK g \in BOOLEAN, id \in Ids, kind \in {"Tunnel", "Misread"} :
          w = Earned(Mirror[v], 1, g, id, kind)
    BY <1>2, <2>2, <2>3 DEF Found
  <2>5. started.survivor.id = id /\ w.state.rng = <<"state", "rng">> /\ w.survivor.id = id
    <3>1. w.state.rng = <<"state", "rng">> /\ w.survivor.id = id
      BY <1>2, <2>4, EarnedIs
    <3> QED
      BY <1>3, <3>1
  <2> DEFINE b == Earned(Mirror[u], 0, FALSE, id, "Tunnel")
             r == Whole(u, b)
  <2>7. Reference[u][id] = Load(r)
    BY <2>2 DEF Reference, LiveVersion
  <2>11. b = Earned(Mirror[u], 0, FALSE, id, "Tunnel")
    OBVIOUS
  <2> HIDE DEF b
  <2>8. IsWhole(r) /\ r.version = u /\ r.body = b
    BY Files
  <2> HIDE DEF r
  <2>15. PICK no \in BOOLEAN : b = Earned(Mirror[u], 0, no, id, "Tunnel")
    BY <2>11
  <2>6. Formed(b, Mirror[u]) /\ b.survivor.id = id /\ b.state.rng = <<"state", "rng">>
    BY <2>2, <2>15, EarnedIs
  <2>9. /\ Formed(Load(r), GameState)
        /\ \A s \in Tables : \A h \in DOMAIN Load(r)[s] :
              \/ <<s, h>> = <<"tunnel", "kind">>
              \/ Load(r)[s][h] = IF h \in DOMAIN b[s] THEN b[s][h] ELSE Fresh(b)[s][h]
    BY <2>2, <2>6, <2>8, LoadIs
  <2>10. f \notin DOMAIN b[t] /\ f \notin DOMAIN w[t] /\ f \in DOMAIN Load(r)[t]
    BY <1>2, <2>1, <2>2, <2>6, <2>9, NothingDropped DEF Formed
  <2>12. Fresh(b) = Fresh(w)
    BY <2>5, <2>6 DEF Fresh
  <2>13. <<t, f>> # <<"tunnel", "kind">>
    BY <2>2, <2>10, <2>6, MirrorIs DEF Carrying, Formed
  <2>14. started[t][f] = Fresh(w)[t][f] /\ Load(r)[t][f] = Fresh(b)[t][f]
    BY <1>3, <2>1, <2>9, <2>10, <2>13
  <2> QED
    BY <2>5, <2>7, <2>12, <2>14
<1> QED
  BY <1>4, <1>5

\* Every old save becomes the same kind of world (MigratedWhole), whichever version wrote it
\* and whichever survivor is in it: what a boot reads keeps every field the file had and the
\* live format still has, but for the mislabelled Tunnel, and a field the file lacked has
\* the value that every later version without it is given.
THEOREM OldSavesAgree == Spec => []MigratedWhole
<1>1. SaveInv => MigratedWhole
  BY InvCarries
<1> QED
  BY <1>1, SavesKnown, PTL

\* Once a world has a whole file it has one for ever: no step of save_at, no
\* failure inside it and no kill leaves a truncated one in its place.
THEOREM SavesSurvive == Spec => NeverTorn
<1>1. SaveInv /\ [Next]_vars => [IsWhole(disk) => IsWhole(disk')]_disk
  <2> SUFFICES ASSUME SaveInv, Next, disk' # disk PROVE IsWhole(disk')
    BY DEF vars
  <2>1. RenameTmp
    BY DEF Next, Boot, BootBlind, Play, Graduate, StartOver, Leave, BeginSave, WriteTmp,
           SaveFails, Kill
  <2> QED
    BY <2>1, Files DEF RenameTmp, SaveInv
<1> QED
  BY <1>1, SavesKnown, PTL DEF Spec, NeverTorn

-----------------------------------------------------------------------------
(* The market *)

\* What is traded.
Kinds == {"gold", "wood"}

\* A sum is one over its domain, and an integer.
LEMMA Sums ==
  ASSUME NEW D, IsFiniteSet(D), NEW f \in [D -> Int]
  PROVE  SumFunction(f) = SumFunctionOnSet(f, D) /\ SumFunction(f) \in Int
<1>1. SumFunction(f) = SumFunctionOnSet(f, D) BY DEF SumFunction
<1> QED BY <1>1, SumInt

\* One entry changes: the sum by as much.
LEMMA Moved ==
  ASSUME NEW D, IsFiniteSet(D), NEW f \in [D -> Int], NEW g \in [D -> Int], NEW y \in D,
         \A x \in D : x # y => g[x] = f[x]
  PROVE  /\ SumFunction(f) \in Int /\ SumFunction(g) \in Int
         /\ SumFunction(g) = SumFunction(f) + g[y] - f[y]
BY Sums, SumChange

(* Piles *)

\* Piles add and, where one covers the other, subtract, kind by kind.
LEMMA PileFacts ==
  /\ Nothing \in Pile /\ \A k \in Kinds : Nothing[k] = 0
  /\ \A p \in Pile, k \in Kinds : p[k] \in Nat
  /\ \A p, q \in Pile : /\ Plus(p, q) \in Pile /\ (Covers(p, q) => Minus(p, q) \in Pile)
                        /\ \A k \in Kinds : Plus(p, q)[k] = p[k] + q[k] /\ Minus(p, q)[k] = p[k] - q[k]
  /\ \A n \in Nat : /\ Goods(n) \in Pile /\ Gold(n) \in Pile
                    /\ Goods(n)["gold"] = 0 /\ Goods(n)["wood"] = n
                    /\ Gold(n)["gold"] = n /\ Gold(n)["wood"] = 0
BY DEF Pile, Nothing, Kinds, Plus, Minus, Covers, Goods, Gold

\* What the solvers need of a price times an amount.
LEMMA Products ==
  /\ \A n \in Nat, p \in Nat : n * p \in Nat
  /\ \A m \in Nat, n \in Nat, p \in Nat : (m + n) * p = m * p + n * p
  /\ \A p \in Nat : 0 * p = 0
OBVIOUS

\* What an order holds and what filling it yields are piles; of nothing, nothing.
LEMMA EscrowFacts ==
  ASSUME NEW o \in Order, NEW n \in Nat
  PROVE  /\ Escrow(o, n) \in Pile /\ Proceeds(o, n) \in Pile
         /\ n = 0 => Escrow(o, n) = Nothing
<1>1. o.price \in Nat /\ o.selling \in BOOLEAN BY MarketAssumption DEF Order, MarketAssumption
<1>2. n * o.price \in Nat BY <1>1, Products
<1>3. n = 0 => n * o.price = 0 BY <1>1, Products
<1> QED BY <1>1, <1>2, <1>3, PileFacts DEF Escrow, Proceeds, Nothing, Goods, Gold

\* The escrow of an amount is that of its parts.
LEMMA EscrowSplits ==
  ASSUME NEW o \in Order, NEW m \in Nat, NEW n \in Nat, NEW k \in Kinds
  PROVE  Escrow(o, m + n)[k] = Escrow(o, m)[k] + Escrow(o, n)[k]
<1>1. o.price \in Nat /\ o.selling \in BOOLEAN BY MarketAssumption DEF Order, MarketAssumption
<1>2. (m + n) * o.price = m * o.price + n * o.price BY <1>1, Products
<1>3. m * o.price \in Nat /\ n * o.price \in Nat /\ (m + n) * o.price \in Nat /\ m + n \in Nat
  BY <1>1, Products
<1>4. CASE o.selling BY <1>1, <1>4, PileFacts DEF Escrow, Kinds
<1>5. CASE ~o.selling BY <1>2, <1>3, <1>5, PileFacts DEF Escrow, Kinds
<1> QED BY <1>4, <1>5

(* Changes of the sums *)

\* A pile each.
Piles(f, D) == f \in [D -> Pile]

\* A stockpile changes: what is in stockpiles changes by as much.
LEMMA StocksMove ==
  ASSUME NEW w \in Worlds, NEW p \in Pile, Piles(stock, Worlds), stock' = [stock EXCEPT ![w] = p],
         NEW k \in Kinds
  PROVE  /\ Stocks(k) \in Int /\ Stocks(k)' \in Int
         /\ Stocks(k)' = Stocks(k) + p[k] - stock[w][k]
<1> DEFINE f == [v \in Worlds |-> stock[v][k]]
           g == [v \in Worlds |-> stock'[v][k]]
<1>1. IsFiniteSet(Worlds) BY MarketAssumption DEF MarketAssumption
<1>2. stock' \in [Worlds -> Pile] /\ stock'[w] = p /\ \A v \in Worlds : v # w => stock'[v] = stock[v]
  BY DEF Piles
<1>3. f \in [Worlds -> Int] /\ g \in [Worlds -> Int] BY <1>2, PileFacts DEF Piles
<1>4. \A v \in Worlds : v # w => g[v] = f[v] BY <1>2
<1>5. g[w] = p[k] /\ f[w] = stock[w][k] BY <1>2
<1>6. Stocks(k) = SumFunction(f) /\ Stocks(k)' = SumFunction(g) BY DEF Stocks
<1> HIDE DEF f, g
<1>7. /\ SumFunction(f) \in Int
      /\ SumFunction(g) \in Int
      /\ SumFunction(g) = SumFunction(f) + g[w] - f[w]
  BY <1>1, <1>3, <1>4, Moved
<1> QED BY <1>5, <1>6, <1>7

\* The same of a wallet.
LEMMA OwedMove ==
  ASSUME NEW a \in Accounts, NEW p \in Pile, Piles(wallet, Accounts), wallet' = [wallet EXCEPT ![a] = p],
         NEW k \in Kinds
  PROVE  /\ Owed(k) \in Int /\ Owed(k)' \in Int
         /\ Owed(k)' = Owed(k) + p[k] - wallet[a][k]
<1> DEFINE f == [v \in Accounts |-> wallet[v][k]]
           g == [v \in Accounts |-> wallet'[v][k]]
<1>1. IsFiniteSet(Accounts) BY MarketAssumption DEF MarketAssumption
<1>2. wallet' \in [Accounts -> Pile] /\ wallet'[a] = p /\ \A v \in Accounts : v # a => wallet'[v] = wallet[v]
  BY DEF Piles
<1>3. f \in [Accounts -> Int] /\ g \in [Accounts -> Int] BY <1>2, PileFacts DEF Piles
<1>4. \A v \in Accounts : v # a => g[v] = f[v] BY <1>2
<1>5. g[a] = p[k] /\ f[a] = wallet[a][k] BY <1>2
<1>6. Owed(k) = SumFunction(f) /\ Owed(k)' = SumFunction(g) BY DEF Owed
<1> HIDE DEF f, g
<1>7. /\ SumFunction(f) \in Int
      /\ SumFunction(g) \in Int
      /\ SumFunction(g) = SumFunction(f) + g[a] - f[a]
  BY <1>1, <1>3, <1>4, Moved
<1> QED BY <1>5, <1>6, <1>7

\* A command each.
Ops == op = [w \in Worlds |-> op[w]] /\ \A w \in Worlds : OpType(op[w])

\* A command carries a pile.
LEMMA CarriedPile == ASSUME NEW o, OpType(o) PROVE OnTheWay(o) \in Pile
BY PileFacts DEF OpType, OnTheWay

\* A thread goes from one statement to the next: what is under way changes by what they carry.
LEMMA MovingMove ==
  ASSUME NEW w \in Worlds, NEW o, OpType(o), Ops, op' = [op EXCEPT ![w] = o], NEW k \in Kinds
  PROVE  /\ Ops' /\ Moving(k) \in Int /\ Moving(k)' \in Int
         /\ Moving(k)' = Moving(k) + OnTheWay(o)[k] - OnTheWay(op[w])[k]
<1> DEFINE f == [v \in Worlds |-> OnTheWay(op[v])[k]]
           g == [v \in Worlds |-> OnTheWay(op'[v])[k]]
<1>1. IsFiniteSet(Worlds) BY MarketAssumption DEF MarketAssumption
<1>2. DOMAIN op' = Worlds /\ op'[w] = o /\ \A v \in Worlds : v # w => op'[v] = op[v] BY DEF Ops
<1>3. Ops' BY <1>2 DEF Ops
<1>4. f \in [Worlds -> Int] /\ g \in [Worlds -> Int]
  <2>1. \A v \in Worlds : OnTheWay(op[v]) \in Pile /\ OnTheWay(op'[v]) \in Pile
    BY <1>3, CarriedPile DEF Ops
  <2> QED BY <2>1, PileFacts
<1>5. \A v \in Worlds : v # w => g[v] = f[v] BY <1>2
<1>6. g[w] = OnTheWay(o)[k] /\ f[w] = OnTheWay(op[w])[k] BY <1>2
<1>7. Moving(k) = SumFunction(f) /\ Moving(k)' = SumFunction(g) BY DEF Moving
<1> HIDE DEF f, g
<1> QED BY <1>1, <1>3, <1>4, <1>5, <1>6, <1>7, Moved

(* The book *)

\* An order book, what an order holds in escrow, and what all of them do.
IsBook(b) == IsFiniteSet(DOMAIN b) /\ DOMAIN b \subseteq Nat \ {0} /\ b \in [DOMAIN b -> Order]

Worth(o) == Escrow(o, o.amount)
Worths(b, k) == [i \in DOMAIN b |-> Worth(b[i])[k]]
Held(b, k) == SumFunction(Worths(b, k))

\* Each is a number, and they are a finite sum of numbers.
LEMMA Values ==
  ASSUME NEW b, IsBook(b), NEW k \in Kinds
  PROVE  /\ \A i \in DOMAIN b : Worths(b, k)[i] \in Int /\ Worths(b, k)[i] = Worth(b[i])[k] /\ Worth(b[i]) \in Pile
         /\ IsFiniteSet(DOMAIN b) /\ Held(b, k) \in Int
         /\ Held(b, k) = SumFunctionOnSet(Worths(b, k), DOMAIN b)
<1>1. \A i \in DOMAIN b : b[i] \in Order /\ b[i].amount \in Nat BY DEF IsBook, Order
<1>2. \A i \in DOMAIN b : Worth(b[i]) \in Pile BY <1>1, EscrowFacts DEF Worth
<1>3. \A i \in DOMAIN b : Worths(b, k)[i] \in Int /\ Worths(b, k)[i] = Worth(b[i])[k]
  BY <1>2, PileFacts DEF Worths
<1>4. Worths(b, k) \in [DOMAIN b -> Int] BY <1>3 DEF Worths
<1>5. IsFiniteSet(DOMAIN b) BY DEF IsBook
<1>6. Held(b, k) = SumFunctionOnSet(Worths(b, k), DOMAIN b) /\ Held(b, k) \in Int
  BY <1>4, <1>5, Sums DEF Held
<1> QED BY <1>2, <1>3, <1>5, <1>6

\* An order more.
LEMMA Posted ==
  ASSUME NEW b, IsBook(b), NEW c, IsBook(c), NEW k \in Kinds, NEW n, n \notin DOMAIN b,
         DOMAIN c = DOMAIN b \cup {n}, \A i \in DOMAIN b : c[i] = b[i]
  PROVE  Held(c, k) = Held(b, k) + Worth(c[n])[k] /\ Worth(c[n])[k] \in Int
<1> DEFINE f == Worths(b, k)
           g == Worths(c, k)
<1>1. /\ \A i \in DOMAIN b : f[i] \in Int /\ f[i] = Worth(b[i])[k]
      /\ IsFiniteSet(DOMAIN b) /\ Held(b, k) = SumFunctionOnSet(f, DOMAIN b)
  BY Values
<1>2. /\ \A i \in DOMAIN c : g[i] \in Int /\ g[i] = Worth(c[i])[k]
      /\ IsFiniteSet(DOMAIN c) /\ Held(c, k) = SumFunctionOnSet(g, DOMAIN c)
  BY Values
<1>3. \A i \in DOMAIN b : g[i] = f[i] BY <1>1, <1>2
<1>4. n \in DOMAIN c /\ (DOMAIN c) \ {n} = DOMAIN b OBVIOUS
<1> HIDE DEF f, g
<1>5. SumFunctionOnSet(g, DOMAIN c) = g[n] + SumFunctionOnSet(g, (DOMAIN c) \ {n})
  BY <1>2, <1>4, SumAdd
<1>6. SumFunctionOnSet(g, DOMAIN b) = SumFunctionOnSet(f, DOMAIN b) BY <1>1, <1>3, SumSame
<1>7. g[n] \in Int /\ g[n] = Worth(c[n])[k] /\ SumFunctionOnSet(f, DOMAIN b) \in Int
  BY <1>1, <1>2, <1>4, SumInt
<1> QED BY <1>1, <1>2, <1>4, <1>5, <1>6, <1>7

\* An order that holds more or less.
LEMMA Altered ==
  ASSUME NEW b, IsBook(b), NEW c, IsBook(c), NEW k \in Kinds, NEW n \in DOMAIN b,
         DOMAIN c = DOMAIN b, \A i \in DOMAIN b : i # n => c[i] = b[i]
  PROVE  Held(c, k) = Held(b, k) + Worth(c[n])[k] - Worth(b[n])[k]
<1> DEFINE f == Worths(b, k)
           g == Worths(c, k)
<1>1. /\ \A i \in DOMAIN b : f[i] \in Int /\ f[i] = Worth(b[i])[k]
      /\ IsFiniteSet(DOMAIN b) /\ Held(b, k) = SumFunctionOnSet(f, DOMAIN b)
  BY Values
<1>2. /\ \A i \in DOMAIN b : g[i] \in Int /\ g[i] = Worth(c[i])[k]
      /\ Held(c, k) = SumFunctionOnSet(g, DOMAIN b)
  BY Values
<1>3. \A i \in DOMAIN b : i # n => g[i] = f[i] BY <1>1, <1>2
<1> HIDE DEF f, g
<1>4. SumFunctionOnSet(g, DOMAIN b) = SumFunctionOnSet(f, DOMAIN b) + g[n] - f[n]
  BY <1>1, <1>2, <1>3, SumChange
<1> QED BY <1>1, <1>2, <1>4

\* Orders that hold nothing are gone.
LEMMA Swept ==
  ASSUME NEW b, IsBook(b), NEW c, IsBook(c), NEW k \in Kinds,
         DOMAIN c \subseteq DOMAIN b, \A i \in DOMAIN c : c[i] = b[i],
         \A i \in DOMAIN b : i \notin DOMAIN c => b[i].amount = 0
  PROVE  Held(c, k) = Held(b, k)
<1> DEFINE f == Worths(b, k)
           g == Worths(c, k)
<1>1. /\ \A i \in DOMAIN b : f[i] \in Int /\ f[i] = Worth(b[i])[k]
      /\ IsFiniteSet(DOMAIN b) /\ Held(b, k) = SumFunctionOnSet(f, DOMAIN b)
  BY Values
<1>2. /\ \A i \in DOMAIN c : g[i] \in Int /\ g[i] = Worth(c[i])[k]
      /\ IsFiniteSet(DOMAIN c) /\ Held(c, k) = SumFunctionOnSet(g, DOMAIN c)
  BY Values
<1>3. \A i \in DOMAIN c : f[i] \in Int /\ g[i] = f[i] BY <1>1, <1>2
<1>4. \A i \in (DOMAIN b) \ DOMAIN c : f[i] = 0
  <2> SUFFICES ASSUME NEW i \in DOMAIN b, i \notin DOMAIN c PROVE f[i] = 0 OBVIOUS
  <2>1. b[i] \in Order /\ b[i].amount = 0 BY DEF IsBook
  <2>2. Worth(b[i]) = Nothing BY <2>1, EscrowFacts DEF Worth
  <2> QED BY <1>1, <2>2, PileFacts
<1> HIDE DEF f, g
<1>5. SumFunctionOnSet(f, DOMAIN c) = SumFunctionOnSet(f, DOMAIN b) BY <1>1, <1>4, SumDrop
<1>6. SumFunctionOnSet(g, DOMAIN c) = SumFunctionOnSet(f, DOMAIN c) BY <1>2, <1>3, SumSame
<1> QED BY <1>1, <1>2, <1>5, <1>6

(* Steps *)

\* What the proofs carry through every step.
MarketInv == TypeOK /\ CommandsCovered

\* What an operation is about to take out of a stock is there.
CoveredBy(o, p) ==
  /\ o.at = "post" => Covers(p, Escrow(o.order, o.order.amount))
  /\ o.at = "take" => Covers(p, Proceeds(o.order, o.qty))

\* The invariant and the total, part by part.
LEMMA Parts ==
  /\ TypeOK <=> /\ Piles(stock, Worlds) /\ Piles(saved, Worlds) /\ Piles(wallet, Accounts)
                /\ IsBook(orders) /\ Ops
                /\ posts \in Nat /\ uncounted \in [Accounts -> Nat] /\ stale \in BOOLEAN /\ lost \in BOOLEAN /\ crashed \in BOOLEAN
  /\ CommandsCovered <=> \A w \in Worlds : CoveredBy(op[w], stock[w])
  /\ \A k \in Kinds : Everything(k) = Stocks(k) + Held(orders, k) + Owed(k) + Moving(k)
BY DEF TypeOK, Piles, IsBook, Ops, CommandsCovered, CoveredBy, Everything, Escrowed, Held, Worths,
   Worth, Kinds

\* The same of the next state.
LEMMA PartsNext ==
  /\ TypeOK' <=> /\ Piles(stock', Worlds) /\ Piles(saved', Worlds) /\ Piles(wallet', Accounts)
                 /\ IsBook(orders') /\ Ops'
                 /\ posts' \in Nat /\ uncounted' \in [Accounts -> Nat]
                 /\ stale' \in BOOLEAN
                 /\ lost' \in BOOLEAN
                 /\ crashed' \in BOOLEAN
  /\ CommandsCovered' <=> \A w \in Worlds : CoveredBy(op'[w], stock'[w])
  /\ \A k \in Kinds : Everything(k)' = Stocks(k)' + Held(orders', k) + Owed(k)' + Moving(k)'
BY DEF TypeOK, Piles, IsBook, Ops, CommandsCovered, CoveredBy, Everything, Escrowed, Held, Worths,
   Worth, Kinds

\* Of a state that has the invariant every part of the total is a number.
LEMMA AllNumbers ==
  ASSUME MarketInv, NEW k \in Kinds
  PROVE  /\ Stocks(k) \in Int /\ Held(orders, k) \in Int /\ Owed(k) \in Int /\ Moving(k) \in Int
<1>1. Piles(stock, Worlds) /\ Piles(wallet, Accounts) /\ IsBook(orders) /\ Ops
  BY Parts DEF MarketInv
<1>2. IsFiniteSet(Worlds) /\ IsFiniteSet(Accounts) BY MarketAssumption DEF MarketAssumption
<1>3. [w \in Worlds |-> stock[w][k]] \in [Worlds -> Int] BY <1>1, PileFacts DEF Piles
<1>4. [a \in Accounts |-> wallet[a][k]] \in [Accounts -> Int] BY <1>1, PileFacts DEF Piles
<1>5. [w \in Worlds |-> OnTheWay(op[w])[k]] \in [Worlds -> Int]
  <2>1. \A w \in Worlds : OnTheWay(op[w]) \in Pile BY <1>1, CarriedPile DEF Ops
  <2> QED BY <2>1, PileFacts
<1> QED BY <1>1, <1>2, <1>3, <1>4, <1>5, Sums, Values DEF Stocks, Owed, Moving

\* A thread goes on from one statement to the next.
LEMMA Goes ==
  ASSUME MarketInv, NEW w \in Worlds, NEW o, OpType(o), op' = [op EXCEPT ![w] = o],
         NEW p \in Pile, stock' = [stock EXCEPT ![w] = p], CoveredBy(o, p),
         IsBook(orders'), Piles(wallet', Accounts), UNCHANGED <<saved, crashed>>,
         posts' \in Nat /\ uncounted' \in [Accounts -> Nat], stale' \in BOOLEAN, lost' \in BOOLEAN
  PROVE  /\ MarketInv'
         /\ \A k \in Kinds : Stocks(k)' = Stocks(k) + p[k] - stock[w][k] /\ Stocks(k)' \in Int
         /\ \A k \in Kinds : Moving(k)' = Moving(k) + OnTheWay(o)[k] - OnTheWay(op[w])[k] /\ Moving(k)' \in Int
<1>1. Piles(stock, Worlds) /\ Piles(saved, Worlds) /\ Ops /\ crashed \in BOOLEAN
      /\ \A v \in Worlds : CoveredBy(op[v], stock[v])
  BY Parts DEF MarketInv
<1>2. \A k \in Kinds : Stocks(k)' = Stocks(k) + p[k] - stock[w][k] /\ Stocks(k)' \in Int
  BY <1>1, StocksMove
<1>3. \A k \in Kinds : Moving(k)' = Moving(k) + OnTheWay(o)[k] - OnTheWay(op[w])[k] /\ Moving(k)' \in Int
  BY <1>1, MovingMove
<1>4. Ops' /\ \A v \in Worlds : op'[v] = IF v = w THEN o ELSE op[v] BY <1>1 DEF Ops
<1>5. Piles(stock', Worlds) /\ \A v \in Worlds : stock'[v] = IF v = w THEN p ELSE stock[v]
  BY <1>1 DEF Piles
<1>6. \A v \in Worlds : CoveredBy(op'[v], stock'[v]) BY <1>1, <1>4, <1>5
<1>7. MarketInv' BY <1>1, <1>4, <1>5, <1>6, PartsNext DEF MarketInv
<1> QED BY <1>2, <1>3, <1>7

\* A step that keeps the invariant and the total.
KeepsAll == MarketInv' /\ \A k \in Kinds : Everything(k)' = Everything(k)

\* What the invariant says of one thread, one wallet and one order.
LEMMA Types ==
  ASSUME MarketInv
  PROVE  /\ \A w \in Worlds : stock[w] \in Pile /\ saved[w] \in Pile /\ OpType(op[w]) /\ CoveredBy(op[w], stock[w])
         /\ \A a \in Accounts : wallet[a] \in Pile
         /\ IsBook(orders)
         /\ Piles(wallet, Accounts)
         /\ Piles(saved, Worlds)
         /\ Piles(stock, Worlds)
         /\ Ops
         /\ \A i \in DOMAIN orders : orders[i] \in Order
         /\ posts \in Nat /\ uncounted \in [Accounts -> Nat] /\ stale \in BOOLEAN /\ lost \in BOOLEAN /\ crashed \in BOOLEAN
BY Parts DEF MarketInv, Piles, IsBook, Ops

\* When a thread only turns to another statement that carries as much.
LEMMA Turns ==
  ASSUME MarketInv, NEW w \in Worlds, NEW o, OpType(o), op' = [op EXCEPT ![w] = o], CoveredBy(o, stock[w]),
         OnTheWay(o) = OnTheWay(op[w]), UNCHANGED <<stock, saved, orders, wallet, posts, uncounted, crashed>>,
         stale' \in BOOLEAN, lost' \in BOOLEAN
  PROVE  KeepsAll
<1>1. stock' = [stock EXCEPT ![w] = stock[w]] /\ stock[w] \in Pile BY Types DEF Piles
<1>2. IsBook(orders') /\ Piles(wallet', Accounts) /\ posts' \in Nat /\ uncounted' \in [Accounts -> Nat] BY Types
<1>3. /\ MarketInv' /\ \A k \in Kinds : Stocks(k)' = Stocks(k) + stock[w][k] - stock[w][k]
      /\ \A k \in Kinds : Moving(k)' = Moving(k) + OnTheWay(o)[k] - OnTheWay(op[w])[k]
  BY <1>1, <1>2, Goes
<1>4. ASSUME NEW k \in Kinds PROVE Everything(k)' = Everything(k)
  <2>1. Stocks(k) \in Int /\ Held(orders, k) \in Int /\ Owed(k) \in Int /\ Moving(k) \in Int
    BY AllNumbers
  <2>2. stock[w][k] \in Int /\ OnTheWay(op[w])[k] \in Int
    <3>1. OnTheWay(op[w]) \in Pile BY Types, CarriedPile
    <3> QED BY <1>1, <3>1, PileFacts
  <2>3. Stocks(k)' = Stocks(k) /\ Moving(k)' = Moving(k) BY <1>3, <2>1, <2>2
  <2>4. Held(orders', k) = Held(orders, k) /\ Owed(k)' = Owed(k) BY DEF Owed
  <2> QED BY <2>3, <2>4, Parts, PartsNext
<1> QED BY <1>3, <1>4 DEF KeepsAll

\* Counting an account's orders carries nothing and has checked the escrow.
LEMMA PostCountKeeps ==
  ASSUME MarketInv, NEW w \in Worlds, NEW a \in Accounts, NEW n \in Amounts, NEW p \in Prices,
         NEW selling \in BOOLEAN, PostCount(w, a, n, p, selling)
  PROVE  KeepsAll
<1> DEFINE q == [account |-> a, amount |-> n, price |-> p, selling |-> selling]
           o == [at |-> "post", by |-> a, order |-> q, counted |-> HasRoom(a, Cardinality(OpenOrders(a)))]
<1>1. n \in Nat BY MarketAssumption DEF MarketAssumption
<1>2. q \in Order BY <1>1 DEF Order
<1>3. OpType(o)
  <2>1. o.at = "post" /\ o.by = a /\ o.order = q OBVIOUS
  <2>2. o.counted \in BOOLEAN BY DEF HasRoom
  <2> HIDE DEF o, q
  <2> QED BY <1>2, <2>1, <2>2 DEF OpType
<1>4. op' = [op EXCEPT ![w] = o] /\ op[w] = Idle /\ Covers(stock[w], Escrow(q, n)) /\ q.amount = n
      /\ UNCHANGED <<stock, saved, orders, wallet, posts, uncounted, stale, lost, crashed>>
  BY DEF PostCount, Affords
<1>5. CoveredBy(o, stock[w]) BY <1>4 DEF CoveredBy
<1>6. OnTheWay(o) = OnTheWay(op[w]) BY <1>4 DEF OnTheWay, Idle
<1>7. stale' \in BOOLEAN /\ lost' \in BOOLEAN BY <1>4, Types
<1> HIDE DEF o
<1> QED BY <1>3, <1>4, <1>5, <1>6, <1>7, Turns

\* Reading an order carries nothing and has checked the proceeds.
LEMMA TakeSelectKeeps ==
  ASSUME MarketInv, NEW w \in Worlds, NEW a \in Accounts, NEW want \in Amounts, NEW i \in DOMAIN orders,
         TakeSelect(w, a, i, want)
  PROVE  KeepsAll
<1> DEFINE q == orders[i]
           n == IF want < q.amount THEN want ELSE q.amount
           o == [at |-> "take", by |-> a, row |-> i, order |-> q, qty |-> n]
<1>1. want \in Nat /\ q \in Order /\ q.amount \in Nat /\ i \in Nat
  BY Types, MarketAssumption DEF MarketAssumption, Order, IsBook
<1>2. n \in Nat BY <1>1
<1>3. OpType(o) BY <1>1, <1>2 DEF OpType
<1>4. op' = [op EXCEPT ![w] = o] /\ op[w] = Idle /\ Covers(stock[w], Proceeds(q, n))
      /\ UNCHANGED <<stock, saved, orders, wallet, posts, uncounted, stale, lost, crashed>>
  BY DEF TakeSelect, Affords
<1>5. CoveredBy(o, stock[w]) BY <1>4 DEF CoveredBy
<1>6. OnTheWay(o) = OnTheWay(op[w]) BY <1>4 DEF OnTheWay, Idle
<1>7. stale' \in BOOLEAN /\ lost' \in BOOLEAN BY <1>4, Types
<1> HIDE DEF o
<1> QED BY <1>3, <1>4, <1>5, <1>6, <1>7, Turns

\* A thread at rest, or about to sweep, carries nothing and needs nothing.
LEMMA IdleFacts ==
  /\ OpType(Idle) /\ OnTheWay(Idle) = Nothing /\ \A p : CoveredBy(Idle, p)
  /\ OpType([at |-> "sweep"]) /\ OnTheWay([at |-> "sweep"]) = Nothing /\ \A p : CoveredBy([at |-> "sweep"], p)
BY DEF OpType, OnTheWay, CoveredBy, Idle

\* An UPDATE that matched no row moves nothing.
LEMMA TakeLostKeeps == ASSUME MarketInv, NEW w \in Worlds, TakeLost(w) PROVE KeepsAll
<1>1. op[w].at = "take" /\ op' = [op EXCEPT ![w] = Idle]
      /\ UNCHANGED <<stock, saved, orders, wallet, posts, uncounted, stale, lost, crashed>>
  BY DEF TakeLost
<1>2. OnTheWay(op[w]) = Nothing BY <1>1 DEF OnTheWay
<1>3. stale' \in BOOLEAN /\ lost' \in BOOLEAN BY <1>1, Types
<1> QED BY <1>1, <1>2, <1>3, IdleFacts, Turns

\* An id above all in use is nobody's.
LEMMA FreshRow == ASSUME IsBook(orders) PROVE NextRow \in Nat \ {0} /\ NextRow \notin DOMAIN orders
<1> DEFINE S == DOMAIN orders \cup {0}
<1>1. IsFiniteSet(S) /\ S \in SUBSET Nat /\ S # {}
  <2>1. IsFiniteSet(DOMAIN orders) /\ DOMAIN orders \subseteq Nat BY DEF IsBook
  <2> QED BY <2>1, FS_AddElement
<1>2. PICK m \in S : \A n \in S : n <= m BY <1>1, GreatestNatural
<1>3. \E x \in S : \A n \in S : x >= n
  <2>1. \A n \in S : n \in Nat BY <1>1
  <2> QED BY <1>2, <2>1
<1>4. Max(S) \in S /\ \A n \in S : Max(S) >= n BY <1>3 DEF Max
<1>5. Max(S) \in Nat /\ NextRow = Max(S) + 1 BY <1>1, <1>4 DEF NextRow
<1>6. ASSUME NextRow \in DOMAIN orders PROVE FALSE
  <2>1. NextRow \in S /\ Max(S) >= NextRow BY <1>4, <1>6
  <2> HIDE DEF S
  <2> QED BY <1>5, <2>1
<1> QED BY <1>5, <1>6

\* The INSERT puts in the book what it takes out of the stock.
LEMMA PostInsertKeeps == ASSUME MarketInv, NEW w \in Worlds, PostInsert(w) PROVE KeepsAll
<1> DEFINE o == op[w].order
           cost == Escrow(o, o.amount)
           p == Minus(stock[w], cost)
<1>1. op[w].at = "post" /\ o \in Order /\ o.amount \in Nat /\ Covers(stock[w], cost)
  <2>1. op[w].at = "post" BY DEF PostInsert
  <2> QED BY <2>1, Types DEF OpType, CoveredBy, Order
<1>2. cost \in Pile /\ stock[w] \in Pile BY <1>1, EscrowFacts, Types
<1>3. p \in Pile BY <1>1, <1>2, PileFacts
<1>4. /\ orders' = [i \in DOMAIN orders \cup {NextRow} |-> IF i = NextRow THEN o ELSE orders[i]]
      /\ stock' = [stock EXCEPT ![w] = p] /\ op' = [op EXCEPT ![w] = Idle] /\ posts' = posts + 1
      /\ UNCHANGED <<saved, wallet, stale, lost, crashed>>
  <2>1. stock' = [stock EXCEPT ![w] = Minus(stock[w], cost)] BY DEF PostInsert
  <2> QED BY <2>1 DEF PostInsert
<1>5. IsBook(orders) /\ NextRow \in Nat \ {0} /\ NextRow \notin DOMAIN orders BY Types, FreshRow
<1>6. /\ DOMAIN orders' = DOMAIN orders \cup {NextRow} /\ orders'[NextRow] = o
      /\ \A i \in DOMAIN orders : orders'[i] = orders[i]
  BY <1>4, <1>5
<1>7. IsBook(orders')
  <2>1. IsFiniteSet(DOMAIN orders') BY <1>5, <1>6, FS_AddElement DEF IsBook
  <2>2. \A i \in DOMAIN orders' : orders'[i] \in Order BY <1>1, <1>5, <1>6 DEF IsBook
  <2>3. orders' \in [DOMAIN orders' -> Order] BY <1>4, <2>2
  <2> QED BY <1>5, <1>6, <2>1, <2>3 DEF IsBook
<1>8. posts' \in Nat /\ uncounted' \in [Accounts -> Nat] /\ stale' \in BOOLEAN /\ lost' \in BOOLEAN
      /\ Piles(wallet', Accounts)
  <2>1. uncounted' = [uncounted EXCEPT ![op[w].by] = IF op[w].counted THEN @ ELSE @ + 1]
    BY DEF PostInsert
  <2>2. uncounted \in [Accounts -> Nat] /\ posts \in Nat BY Types
  <2>3. uncounted' \in [Accounts -> Nat]
    <3>1. op[w].by \in Accounts BY <1>1, Types DEF OpType
    <3> DEFINE more == IF op[w].counted THEN uncounted[op[w].by] ELSE uncounted[op[w].by] + 1
    <3>2. more \in Nat BY <2>2, <3>1
    <3>3. uncounted' = [uncounted EXCEPT ![op[w].by] = more] BY <2>1
    <3> HIDE DEF more
    <3> QED BY <2>2, <3>1, <3>2, <3>3
  <2>4. posts' \in Nat BY <1>4, <2>2
  <2> QED BY <1>4, <2>3, <2>4, Types
<1>9. CoveredBy(Idle, p) BY IdleFacts
<1> HIDE DEF p
<1>10. /\ MarketInv' /\ \A k \in Kinds : Stocks(k)' = Stocks(k) + p[k] - stock[w][k]
       /\ \A k \in Kinds : Moving(k)' = Moving(k) + OnTheWay(Idle)[k] - OnTheWay(op[w])[k]
  BY <1>3, <1>4, <1>7, <1>8, <1>9, IdleFacts, Goes
<1>11. ASSUME NEW k \in Kinds PROVE Everything(k)' = Everything(k)
  <2>1. Stocks(k) \in Int /\ Held(orders, k) \in Int /\ Owed(k) \in Int /\ Moving(k) \in Int
    BY AllNumbers
  <2>2. OnTheWay(op[w]) = Nothing BY <1>1 DEF OnTheWay
  <2>3. Moving(k)' = Moving(k) BY <1>10, <2>1, <2>2, IdleFacts, PileFacts
  <2>4. p[k] = stock[w][k] - cost[k] /\ stock[w][k] \in Int /\ cost[k] \in Int
    BY <1>2, PileFacts DEF p
  <2>5. Held(orders', k) = Held(orders, k) + cost[k] BY <1>5, <1>6, <1>7, Posted DEF Worth
  <2>6. Owed(k)' = Owed(k) BY <1>4 DEF Owed
  <2>7. Stocks(k)' = Stocks(k) - cost[k] BY <1>10, <2>1, <2>4
  <2> HIDE DEF cost
  <2> QED BY <2>1, <2>3, <2>4, <2>5, <2>6, <2>7, Parts, PartsNext
<1> QED BY <1>10, <1>11 DEF KeepsAll

\* What an UPDATE takes off an order it adds to what is carried and to the stock, and takes the
\* proceeds off the stock; the order it takes it off is the order that was read, or stale is set.
LEMMA TakeUpdateKeeps ==
  ASSUME MarketInv, NEW w \in Worlds, TakeUpdate(w)
  PROVE  MarketInv' /\ (stale \/ stale' \/ KeepsAll)
<1> DEFINE o == op[w].order
           i == op[w].row
           n == op[w].qty
           pay == Proceeds(o, n)
           got == Escrow(o, n)
           p == Plus(Minus(stock[w], pay), got)
           c == [at |-> "credit", by |-> o.account, pile |-> pay, then |-> "sweep"]
<1>1. op[w].at = "take" /\ o \in Order /\ o.amount \in Nat /\ n \in Nat /\ Covers(stock[w], pay)
  <2>1. op[w].at = "take" BY DEF TakeUpdate
  <2> QED BY <2>1, Types DEF OpType, CoveredBy, Order
<1>2. pay \in Pile /\ got \in Pile /\ stock[w] \in Pile BY <1>1, EscrowFacts, Types
<1>3. Minus(stock[w], pay) \in Pile /\ p \in Pile BY <1>1, <1>2, PileFacts
<1>4. o.account \in Accounts BY <1>1 DEF Order
<1>5. OpType(c) /\ CoveredBy(c, p) /\ OnTheWay(c) = pay
  BY <1>2, <1>4 DEF OpType, CoveredBy, OnTheWay
<1>6. /\ i \in DOMAIN orders
      /\ orders[i].amount >= n
      /\ orders' = [orders EXCEPT ![i].amount = Left(i, n)]
      /\ stale' = (stale \/ [orders[i] EXCEPT !.amount = 0] # [o EXCEPT !.amount = 0])
      /\ UNCHANGED <<saved, wallet, posts, uncounted, lost, crashed>>
  BY DEF TakeUpdate, StillThere
<1>7. stock' = [stock EXCEPT ![w] = p] /\ op' = [op EXCEPT ![w] = c] BY DEF TakeUpdate
<1>8. orders[i] \in Order /\ orders[i].amount \in Nat BY <1>6, Types DEF Order
<1>9. Left(i, n) \in Nat /\ orders[i].amount = Left(i, n) + n BY <1>1, <1>6, <1>8 DEF Left
<1>10. /\ DOMAIN orders' = DOMAIN orders /\ orders'[i] = [orders[i] EXCEPT !.amount = Left(i, n)]
       /\ \A j \in DOMAIN orders : j # i => orders'[j] = orders[j]
  BY <1>6
<1>11. orders'[i] \in Order BY <1>8, <1>9, <1>10 DEF Order
<1>12. IsBook(orders')
  <2>1. IsBook(orders) BY Types
  <2>2. \A j \in DOMAIN orders : orders'[j] \in Order BY <1>10, <1>11, <2>1 DEF IsBook
  <2>3. orders' \in [DOMAIN orders' -> Order] BY <1>6, <1>10, <2>2
  <2> QED BY <1>10, <2>1, <2>3 DEF IsBook
<1>13. posts' \in Nat /\ uncounted' \in [Accounts -> Nat] /\ stale' \in BOOLEAN /\ lost' \in BOOLEAN /\ Piles(wallet', Accounts)
  BY <1>6, Types
<1> HIDE DEF p, c
<1>14. /\ MarketInv' /\ \A k \in Kinds : Stocks(k)' = Stocks(k) + p[k] - stock[w][k]
       /\ \A k \in Kinds : Moving(k)' = Moving(k) + OnTheWay(c)[k] - OnTheWay(op[w])[k]
  BY ZenonT(60), <1>3, <1>5, <1>6, <1>7, <1>12, <1>13, Goes
<1>15. ASSUME NEW k \in Kinds, [orders[i] EXCEPT !.amount = 0] = [o EXCEPT !.amount = 0]
       PROVE  Everything(k)' = Everything(k)
  <2>1. Stocks(k) \in Int /\ Held(orders, k) \in Int /\ Owed(k) \in Int /\ Moving(k) \in Int
    BY AllNumbers
  <2>2. OnTheWay(op[w]) = Nothing BY <1>1 DEF OnTheWay
  <2>3. pay[k] \in Int /\ got[k] \in Int /\ stock[w][k] \in Int BY <1>2, PileFacts
  <2>4. Moving(k)' = Moving(k) + pay[k] BY <1>5, <1>14, <2>1, <2>2, <2>3, PileFacts
  <2>5. p[k] = stock[w][k] - pay[k] + got[k] BY <1>1, <1>2, <1>3, PileFacts DEF p
  <2>6. Stocks(k)' = Stocks(k) - pay[k] + got[k] BY <1>14, <2>1, <2>3, <2>5
  <2>7. \A m \in Nat : Escrow(orders[i], m) = Escrow(o, m) /\ Escrow(orders'[i], m) = Escrow(o, m)
    <3>1. [orders[i] EXCEPT !.amount = 0].selling = orders[i].selling
          /\ [orders[i] EXCEPT !.amount = 0].price = orders[i].price
          /\ [o EXCEPT !.amount = 0].selling = o.selling /\ [o EXCEPT !.amount = 0].price = o.price
      BY <1>1, <1>8 DEF Order
    <3>2. orders[i].selling = o.selling /\ orders[i].price = o.price BY <1>15, <3>1
    <3>3. orders'[i].selling = orders[i].selling /\ orders'[i].price = orders[i].price
      BY <1>8, <1>10 DEF Order
    <3> QED BY <3>2, <3>3 DEF Escrow
  <2>8. orders'[i].amount = Left(i, n) BY <1>8, <1>10 DEF Order
  <2>9. Worth(orders[i]) = Escrow(o, Left(i, n) + n) /\ Worth(orders'[i]) = Escrow(o, Left(i, n))
    BY <1>8, <1>9, <2>7, <2>8 DEF Worth
  <2>10. Escrow(o, Left(i, n) + n)[k] = Escrow(o, Left(i, n))[k] + got[k]
    BY <1>1, <1>9, EscrowSplits
  <2>11. Held(orders', k) = Held(orders, k) + Worth(orders'[i])[k] - Worth(orders[i])[k]
    <3>1. i \in DOMAIN orders /\ IsBook(orders) BY <1>6, Types
    <3>2. DOMAIN orders' = DOMAIN orders /\ \A j \in DOMAIN orders : j # i => orders'[j] = orders[j]
      BY <1>10
    <3> QED BY <3>1, <3>2, <1>12, Altered
  <2>12. Escrow(o, Left(i, n))[k] \in Int BY <1>1, <1>9, EscrowFacts, PileFacts
  <2>13. Owed(k)' = Owed(k) BY <1>6 DEF Owed
  <2> DEFINE x == Escrow(o, Left(i, n))[k]
  <2>14. Held(orders', k) = Held(orders, k) + x - (x + got[k]) BY <2>9, <2>10, <2>11
  <2> HIDE DEF pay, got, x
  <2>15. Held(orders', k) = Held(orders, k) - got[k] BY <2>1, <2>3, <2>12, <2>14 DEF x
  <2> QED BY <2>1, <2>3, <2>4, <2>6, <2>13, <2>15, Parts, PartsNext
<1>16. ~stale' => [orders[i] EXCEPT !.amount = 0] = [o EXCEPT !.amount = 0] BY <1>6
<1> QED BY <1>14, <1>15, <1>16 DEF KeepsAll

\* A credit puts in a wallet what the thread carried.
LEMMA CreditKeeps == ASSUME MarketInv, NEW w \in Worlds, Credit(w) PROVE KeepsAll
<1> DEFINE a == op[w].by
           pile == op[w].pile
           o == IF op[w].then = "sweep" THEN [at |-> "sweep"] ELSE Idle
           p == Plus(wallet[a], pile)
<1>1. op[w].at = "credit" BY DEF Credit
<1>2. a \in Accounts /\ pile \in Pile /\ OnTheWay(op[w]) = pile /\ stock[w] \in Pile
  BY <1>1, Types DEF OpType, OnTheWay
<1>3. OpType(o) /\ CoveredBy(o, stock[w]) /\ OnTheWay(o) = Nothing BY IdleFacts
<1>4. wallet[a] \in Pile /\ p \in Pile BY <1>2, Types, PileFacts
<1>5. /\ wallet' = [wallet EXCEPT ![a] = p] /\ op' = [op EXCEPT ![w] = o]
      /\ UNCHANGED <<stock, saved, orders, posts, uncounted, stale, lost, crashed>>
  BY DEF Credit, Credited
<1>6. stock' = [stock EXCEPT ![w] = stock[w]] BY <1>5, Types DEF Piles
<1>7. /\ Piles(wallet, Accounts)
      /\ IsBook(orders')
      /\ posts' \in Nat /\ uncounted' \in [Accounts -> Nat]
      /\ stale' \in BOOLEAN
      /\ lost' \in BOOLEAN
  BY <1>5, Types
<1>8. Piles(wallet', Accounts) BY <1>2, <1>4, <1>5, <1>7 DEF Piles
<1>9. \A k \in Kinds : Owed(k)' = Owed(k) + p[k] - wallet[a][k]
  BY <1>2, <1>4, <1>5, <1>7, OwedMove
<1> HIDE DEF o, p
<1>10. /\ MarketInv' /\ \A k \in Kinds : Stocks(k)' = Stocks(k) + stock[w][k] - stock[w][k]
       /\ \A k \in Kinds : Moving(k)' = Moving(k) + OnTheWay(o)[k] - OnTheWay(op[w])[k]
  BY <1>2, <1>3, <1>5, <1>6, <1>7, <1>8, Goes
<1>11. ASSUME NEW k \in Kinds PROVE Everything(k)' = Everything(k)
  <2>1. Stocks(k) \in Int /\ Held(orders, k) \in Int /\ Owed(k) \in Int /\ Moving(k) \in Int
    BY AllNumbers
  <2>2. /\ pile[k] \in Int
        /\ wallet[a][k] \in Int
        /\ stock[w][k] \in Int
        /\ p[k] = wallet[a][k] + pile[k]
    BY <1>2, <1>4, PileFacts DEF p
  <2>3. Moving(k)' = Moving(k) - pile[k] BY <1>2, <1>3, <1>10, <2>1, <2>2, PileFacts
  <2>4. Owed(k)' = Owed(k) + pile[k] BY <1>9, <2>1, <2>2
  <2>5. Stocks(k)' = Stocks(k) /\ Held(orders', k) = Held(orders, k) BY <1>5, <1>10, <2>1, <2>2
  <2> HIDE DEF pile
  <2> QED BY <2>1, <2>2, <2>3, <2>4, <2>5, Parts, PartsNext
<1> QED BY <1>10, <1>11 DEF KeepsAll

\* The orders the sweep deletes hold nothing.
LEMMA SweepKeeps == ASSUME MarketInv, NEW w \in Worlds, Sweep(w) PROVE KeepsAll
<1> DEFINE T == {i \in DOMAIN orders : orders[i].amount > 0}
<1>1. /\ op[w].at = "sweep" /\ orders' = Restrict(orders, T) /\ op' = [op EXCEPT ![w] = Idle]
      /\ UNCHANGED <<stock, saved, wallet, posts, uncounted, stale, lost, crashed>>
  BY DEF Sweep
<1>2. IsBook(orders) /\ stock[w] \in Pile /\ Piles(stock, Worlds) BY Types
<1>3. DOMAIN orders' = T /\ \A i \in T : orders'[i] = orders[i] BY <1>1 DEF Restrict
<1>4. IsBook(orders')
  <2>1. IsFiniteSet(T) BY <1>2, FS_Subset DEF IsBook
  <2>2. \A i \in T : orders'[i] \in Order BY <1>2, <1>3 DEF IsBook
  <2>3. orders' \in [T -> Order] BY <1>1, <2>2 DEF Restrict
  <2> QED BY <1>2, <1>3, <2>1, <2>3 DEF IsBook
<1>5. stock' = [stock EXCEPT ![w] = stock[w]] BY <1>1, <1>2 DEF Piles
<1>6. Piles(wallet', Accounts) /\ posts' \in Nat /\ uncounted' \in [Accounts -> Nat] /\ stale' \in BOOLEAN /\ lost' \in BOOLEAN
  BY <1>1, Types
<1>7. OnTheWay(op[w]) = Nothing BY <1>1 DEF OnTheWay
<1>8. \A i \in DOMAIN orders : i \notin T => orders[i].amount = 0 BY <1>2 DEF IsBook, Order
<1> HIDE DEF T
<1>9. /\ MarketInv' /\ \A k \in Kinds : Stocks(k)' = Stocks(k) + stock[w][k] - stock[w][k]
      /\ \A k \in Kinds : Moving(k)' = Moving(k) + OnTheWay(Idle)[k] - OnTheWay(op[w])[k]
  <2>1. OpType(Idle) /\ CoveredBy(Idle, stock[w]) BY IdleFacts
  <2>2. op' = [op EXCEPT ![w] = Idle] /\ UNCHANGED <<saved, crashed>> BY <1>1
  <2>3. stock[w] \in Pile BY <1>2
  <2> QED BY <1>4, <1>5, <1>6, <2>1, <2>2, <2>3, Goes
<1>10. ASSUME NEW k \in Kinds PROVE Everything(k)' = Everything(k)
  <2>1. Stocks(k) \in Int /\ Held(orders, k) \in Int /\ Owed(k) \in Int /\ Moving(k) \in Int
    BY AllNumbers
  <2>2. stock[w][k] \in Int BY <1>2, PileFacts
  <2>3. T \subseteq DOMAIN orders BY DEF T
  <2>4. Held(orders', k) = Held(orders, k) BY <1>2, <1>3, <1>4, <1>8, <2>3, Swept
  <2>5. Moving(k)' = Moving(k) BY <1>7, <1>9, <2>1, IdleFacts, PileFacts
  <2>6. Stocks(k)' = Stocks(k) /\ Owed(k)' = Owed(k) BY <1>1, <1>9, <2>1, <2>2 DEF Owed
  <2> QED BY <2>4, <2>5, <2>6, Parts, PartsNext
<1> QED BY <1>9, <1>10 DEF KeepsAll

\* A cancelled order's escrow is carried until it is credited.
LEMMA CancelKeeps ==
  ASSUME MarketInv, NEW w \in Worlds, NEW a \in Accounts, NEW i \in DOMAIN orders, Cancel(w, a, i)
  PROVE  KeepsAll
<1> DEFINE rest == Escrow(orders[i], orders[i].amount)
           o == IF orders[i].amount = 0 THEN Idle
                ELSE [at |-> "credit", by |-> a, pile |-> rest, then |-> "done"]
<1>1. /\ op[w] = Idle
      /\ orders' = Restrict(orders, DOMAIN orders \ {i})
      /\ op' = [op EXCEPT ![w] = o]
      /\ UNCHANGED <<stock, saved, wallet, posts, uncounted, stale, lost, crashed>>
  BY DEF Cancel
<1>2. /\ IsBook(orders)
      /\ stock[w] \in Pile
      /\ Piles(stock, Worlds)
      /\ orders[i] \in Order
      /\ orders[i].amount \in Nat
  BY Types DEF Order
<1>3. rest \in Pile /\ (orders[i].amount = 0 => rest = Nothing) BY <1>2, EscrowFacts
<1>4. OpType(o) /\ CoveredBy(o, stock[w]) /\ OnTheWay(o) = rest
  <2>1. CASE orders[i].amount = 0 BY <2>1, <1>3, IdleFacts
  <2>2. CASE orders[i].amount # 0 BY <2>2, <1>3 DEF OpType, CoveredBy, OnTheWay
  <2> QED BY <2>1, <2>2
<1>5. DOMAIN orders' = DOMAIN orders \ {i} /\ \A j \in DOMAIN orders' : orders'[j] = orders[j]
  BY <1>1 DEF Restrict
<1>6. IsBook(orders')
  <2>1. IsFiniteSet(DOMAIN orders') BY <1>2, <1>5, FS_RemoveElement DEF IsBook
  <2>2. \A j \in DOMAIN orders' : orders'[j] \in Order BY <1>2, <1>5 DEF IsBook
  <2>3. orders' \in [DOMAIN orders' -> Order] BY <1>1, <2>2 DEF Restrict
  <2> QED BY <1>2, <1>5, <2>1, <2>3 DEF IsBook
<1>7. stock' = [stock EXCEPT ![w] = stock[w]] BY <1>1, <1>2 DEF Piles
<1>8. Piles(wallet', Accounts) /\ posts' \in Nat /\ uncounted' \in [Accounts -> Nat] /\ stale' \in BOOLEAN /\ lost' \in BOOLEAN
  BY <1>1, Types
<1> HIDE DEF o
<1>9. /\ MarketInv' /\ \A k \in Kinds : Stocks(k)' = Stocks(k) + stock[w][k] - stock[w][k]
      /\ \A k \in Kinds : Moving(k)' = Moving(k) + OnTheWay(o)[k] - OnTheWay(op[w])[k]
  BY <1>1, <1>2, <1>4, <1>6, <1>7, <1>8, Goes
<1>10. ASSUME NEW k \in Kinds PROVE Everything(k)' = Everything(k)
  <2>1. Stocks(k) \in Int /\ Held(orders, k) \in Int /\ Owed(k) \in Int /\ Moving(k) \in Int
    BY AllNumbers
  <2>2. stock[w][k] \in Int /\ rest[k] \in Int BY <1>2, <1>3, PileFacts
  <2>3. Held(orders, k) = Held(orders', k) + rest[k]
    <3>1. DOMAIN orders = DOMAIN orders' \cup {i} /\ i \notin DOMAIN orders' BY <1>5
    <3>2. \A j \in DOMAIN orders' : orders[j] = orders'[j] BY <1>5
    <3>3. Held(orders, k) = Held(orders', k) + Worth(orders[i])[k]
      BY <1>2, <1>6, <3>1, <3>2, Posted
    <3> QED BY <3>3 DEF Worth
  <2>4. Held(orders', k) \in Int BY <1>6, Values
  <2>5. Moving(k)' = Moving(k) + rest[k] BY <1>1, <1>4, <1>9, <2>1, <2>2, IdleFacts, PileFacts
  <2>6. Stocks(k)' = Stocks(k) /\ Owed(k)' = Owed(k) BY <1>1, <1>9, <2>1, <2>2 DEF Owed
  <2> HIDE DEF rest
  <2> QED BY <2>1, <2>2, <2>3, <2>4, <2>5, <2>6, Parts, PartsNext
<1> QED BY <1>9, <1>10 DEF KeepsAll

\* A claim moves a wallet into the stock.
LEMMA ClaimKeeps == ASSUME MarketInv, NEW w \in Worlds, NEW a \in Accounts, Claim(w, a) PROVE KeepsAll
<1> DEFINE p == Plus(stock[w], wallet[a])
<1>1. /\ op[w] = Idle
      /\ stock' = [stock EXCEPT ![w] = p]
      /\ wallet' = [wallet EXCEPT ![a] = Nothing]
      /\ UNCHANGED <<saved, orders, op, posts, uncounted, stale, lost, crashed>>
  BY DEF Claim, Emptied
<1>2. stock[w] \in Pile /\ wallet[a] \in Pile /\ IsBook(orders) /\ Piles(wallet, Accounts) /\ Ops
  BY Types
<1>3. p \in Pile BY <1>2, PileFacts
<1>4. op' = [op EXCEPT ![w] = Idle] BY <1>1, <1>2 DEF Ops
<1>5. Piles(wallet', Accounts) BY <1>1, <1>2, PileFacts DEF Piles
<1>6. IsBook(orders') /\ posts' \in Nat /\ uncounted' \in [Accounts -> Nat] /\ stale' \in BOOLEAN /\ lost' \in BOOLEAN BY <1>1, Types
<1>7. \A k \in Kinds : Owed(k)' = Owed(k) + Nothing[k] - wallet[a][k]
  BY <1>1, <1>2, PileFacts, OwedMove
<1> HIDE DEF p
<1>8. /\ MarketInv' /\ \A k \in Kinds : Stocks(k)' = Stocks(k) + p[k] - stock[w][k]
      /\ \A k \in Kinds : Moving(k)' = Moving(k) + OnTheWay(Idle)[k] - OnTheWay(op[w])[k]
  BY ZenonT(60), <1>1, <1>3, <1>4, <1>5, <1>6, IdleFacts, Goes
<1>9. ASSUME NEW k \in Kinds PROVE Everything(k)' = Everything(k)
  <2>1. Stocks(k) \in Int /\ Held(orders, k) \in Int /\ Owed(k) \in Int /\ Moving(k) \in Int
    BY AllNumbers
  <2>2. stock[w][k] \in Int /\ wallet[a][k] \in Int /\ p[k] = stock[w][k] + wallet[a][k]
    BY <1>2, PileFacts DEF p
  <2>3. Stocks(k)' = Stocks(k) + wallet[a][k] BY <1>8, <2>1, <2>2
  <2>4. Owed(k)' = Owed(k) - wallet[a][k] BY <1>7, <2>1, <2>2, PileFacts
  <2>5. Moving(k)' = Moving(k) BY <1>1, <1>8, <2>1, IdleFacts, PileFacts
  <2>6. Held(orders', k) = Held(orders, k) BY <1>1
  <2> QED BY <2>1, <2>2, <2>3, <2>4, <2>5, <2>6, Parts, PartsNext
<1> QED BY <1>8, <1>9 DEF KeepsAll

\* A failed credit loses what it carried, any other failure nothing.
LEMMA FailKeeps ==
  ASSUME MarketInv, NEW w \in Worlds, Fail(w)
  PROVE  MarketInv' /\ \A k \in Kinds : /\ Everything(k)' \in Int /\ Everything(k)' <= Everything(k)
                                        /\ lost' \/ Everything(k)' = Everything(k)
<1> DEFINE o == IF op[w].at = "credit" /\ op[w].then = "sweep" THEN [at |-> "sweep"] ELSE Idle
<1>1. /\ op' = [op EXCEPT ![w] = o] /\ lost' = (lost \/ op[w].at = "credit")
      /\ UNCHANGED <<stock, saved, orders, wallet, posts, uncounted, stale, crashed>>
  BY DEF Fail
<1>2. OpType(o) /\ CoveredBy(o, stock[w]) /\ OnTheWay(o) = Nothing BY IdleFacts
<1>3. stock[w] \in Pile /\ stock' = [stock EXCEPT ![w] = stock[w]] BY <1>1, Types DEF Piles
<1>4. /\ IsBook(orders')
      /\ Piles(wallet', Accounts)
      /\ posts' \in Nat /\ uncounted' \in [Accounts -> Nat]
      /\ stale' \in BOOLEAN
      /\ lost' \in BOOLEAN
  BY <1>1, Types
<1> HIDE DEF o
<1>5. /\ MarketInv' /\ \A k \in Kinds : Stocks(k)' = Stocks(k) + stock[w][k] - stock[w][k]
      /\ \A k \in Kinds : Moving(k)' = Moving(k) + OnTheWay(o)[k] - OnTheWay(op[w])[k]
  BY <1>1, <1>2, <1>3, <1>4, Goes
<1>6. ASSUME NEW k \in Kinds
      PROVE Everything(k)' \in Int /\ Everything(k)' <= Everything(k) /\ (lost' \/ Everything(k)' = Everything(k))
  <2>1. Stocks(k) \in Int /\ Held(orders, k) \in Int /\ Owed(k) \in Int /\ Moving(k) \in Int
    BY AllNumbers
  <2>2. stock[w][k] \in Int BY <1>3, PileFacts
  <2>3. OnTheWay(op[w])[k] \in Nat
    <3>1. OnTheWay(op[w]) \in Pile BY Types, CarriedPile
    <3> QED BY <3>1, PileFacts
  <2>4. Moving(k)' = Moving(k) - OnTheWay(op[w])[k] BY <1>2, <1>5, <2>1, <2>3, PileFacts
  <2>5. Stocks(k)' = Stocks(k) /\ Owed(k)' = Owed(k) /\ Held(orders', k) = Held(orders, k)
    BY <1>1, <1>5, <2>1, <2>2 DEF Owed
  <2>6. Everything(k)' = Everything(k) - OnTheWay(op[w])[k] /\ Everything(k) \in Int
    BY <2>1, <2>3, <2>4, <2>5, Parts, PartsNext
  <2>7. lost' \/ OnTheWay(op[w])[k] = 0 BY <1>1, PileFacts DEF OnTheWay
  <2> QED BY <2>3, <2>6, <2>7
<1> QED BY <1>5, <1>6

\* A save moves nothing.
LEMMA WorldSaveKeeps == ASSUME MarketInv, NEW w \in Worlds, Save(w) PROVE KeepsAll
<1>1. /\ saved' = [saved EXCEPT ![w] = stock[w]]
      /\ UNCHANGED <<stock, orders, wallet, op, posts, uncounted, stale, lost, crashed>>
  BY DEF Save
<1>2. Piles(saved', Worlds) BY <1>1, Types DEF Piles
<1>3. Piles(stock', Worlds) /\ Piles(wallet', Accounts) /\ IsBook(orders') /\ posts' \in Nat /\ uncounted' \in [Accounts -> Nat]
      /\ stale' \in BOOLEAN /\ lost' \in BOOLEAN /\ crashed' \in BOOLEAN
      /\ \A v \in Worlds : CoveredBy(op'[v], stock'[v])
  BY <1>1, Types
<1>4. Ops' BY <1>1, Types DEF Ops
<1>5. \A k \in Kinds : /\ Stocks(k)' = Stocks(k) /\ Owed(k)' = Owed(k) /\ Moving(k)' = Moving(k)
                       /\ Held(orders', k) = Held(orders, k)
  BY <1>1 DEF Stocks, Owed, Moving
<1>6. \A k \in Kinds : Everything(k)' = Everything(k) BY <1>5, Parts, PartsNext
<1> QED BY <1>2, <1>3, <1>4, <1>6, PartsNext DEF KeepsAll, MarketInv

\* After a crash no command is under way.
LEMMA CrashKeeps == ASSUME MarketInv, Crash PROVE MarketInv' /\ crashed'
<1>1. stock' = saved /\ op' = [w \in Worlds |-> Idle] /\ crashed' = TRUE
      /\ UNCHANGED <<saved, orders, wallet, posts, uncounted, stale, lost>>
  BY DEF Crash
<1>2. /\ Piles(stock', Worlds)
      /\ Piles(saved', Worlds)
      /\ Piles(wallet', Accounts)
      /\ IsBook(orders')
      /\ posts' \in Nat /\ uncounted' \in [Accounts -> Nat]
      /\ stale' \in BOOLEAN /\ lost' \in BOOLEAN /\ crashed' \in BOOLEAN
  BY <1>1, Types
<1>3. Ops' /\ \A v \in Worlds : CoveredBy(op'[v], stock'[v]) BY <1>1, IdleFacts DEF Ops
<1> QED BY <1>1, <1>2, <1>3, PartsNext DEF MarketInv

\* What every step does to what there is of a kind.
Settles ==
  /\ MarketInv' /\ (stale => stale') /\ (lost => lost') /\ (crashed => crashed')
  /\ stale' \/ crashed' \/ \A k \in Kinds : /\ Everything(k)' \in Int /\ Everything(k)' <= Everything(k)
                                            /\ lost' \/ Everything(k)' = Everything(k)

\* The total is a number.
LEMMA Summable == ASSUME MarketInv, NEW k \in Kinds PROVE Everything(k) \in Int
BY AllNumbers, Parts

\* A step that keeps the total does so whatever the histories say.
LEMMA KeepsSettles == ASSUME MarketInv, KeepsAll, UNCHANGED <<stale, lost, crashed>> PROVE Settles
BY Summable DEF KeepsAll, Settles

\* Every step does.
LEMMA NextSettles == ASSUME MarketInv, MarketNext PROVE Settles
<1>1. ASSUME NEW w \in Worlds, NEW a \in Accounts, NEW n \in Amounts, NEW p \in Prices, NEW selling \in BOOLEAN,
             PostCount(w, a, n, p, selling)
      PROVE  Settles
  BY <1>1, PostCountKeeps, KeepsSettles DEF PostCount
<1>2. ASSUME NEW w \in Worlds, NEW a \in Accounts, NEW n \in Amounts, NEW i \in DOMAIN orders, TakeSelect(w, a, i, n)
      PROVE  Settles
  BY <1>2, TakeSelectKeeps, KeepsSettles DEF TakeSelect
<1>3. ASSUME NEW w \in Worlds, PostInsert(w) PROVE Settles
  BY <1>3, PostInsertKeeps, KeepsSettles DEF PostInsert
<1>4. ASSUME NEW w \in Worlds, TakeUpdate(w) PROVE Settles
  <2>1. MarketInv' /\ (stale \/ stale' \/ KeepsAll) BY <1>4, TakeUpdateKeeps
  <2>2. (stale => stale') /\ lost' = lost /\ crashed' = crashed BY <1>4 DEF TakeUpdate
  <2>3. CASE KeepsAll BY <2>2, <2>3, Summable DEF KeepsAll, Settles
  <2>4. CASE stale' BY <2>1, <2>2, <2>4 DEF Settles
  <2> QED BY <2>1, <2>2, <2>3, <2>4
<1>5. ASSUME NEW w \in Worlds, TakeLost(w) PROVE Settles
  BY <1>5, TakeLostKeeps, KeepsSettles DEF TakeLost
<1>6. ASSUME NEW w \in Worlds, Credit(w) PROVE Settles
  BY <1>6, CreditKeeps, KeepsSettles DEF Credit
<1>7. ASSUME NEW w \in Worlds, Sweep(w) PROVE Settles
  BY <1>7, SweepKeeps, KeepsSettles DEF Sweep
<1>8. ASSUME NEW w \in Worlds, NEW a \in Accounts, Claim(w, a) PROVE Settles
  BY <1>8, ClaimKeeps, KeepsSettles DEF Claim
<1>9. ASSUME NEW w \in Worlds, NEW a \in Accounts, NEW i \in DOMAIN orders, Cancel(w, a, i) PROVE Settles
  BY <1>9, CancelKeeps, KeepsSettles DEF Cancel
<1>10. ASSUME NEW w \in Worlds, Fail(w) PROVE Settles
  <2>1. (lost => lost') /\ stale' = stale /\ crashed' = crashed BY <1>10 DEF Fail
  <2> QED BY <1>10, <2>1, FailKeeps DEF Settles
<1>11. ASSUME NEW w \in Worlds, Save(w) PROVE Settles
  BY <1>11, WorldSaveKeeps, KeepsSettles DEF Save
<1>12. ASSUME Crash PROVE Settles
  <2>1. stale' = stale /\ lost' = lost BY <1>12 DEF Crash
  <2> QED BY <1>12, <2>1, CrashKeeps DEF Settles
<1> QED
  BY <1>1, <1>2, <1>3, <1>4, <1>5, <1>6, <1>7, <1>8, <1>9, <1>10, <1>11, <1>12 DEF MarketNext

\* In the beginning all there is is in the stockpiles.
LEMMA StartsSound == ASSUME MarketInit PROVE MarketInv /\ GoodsAndGoldKept
<1>1. /\ Piles(stock, Worlds) /\ Piles(saved, Worlds) /\ Piles(wallet, Accounts)
      /\ op = [w \in Worlds |-> Idle] /\ stock = Stock0
      /\ posts \in Nat /\ uncounted \in [Accounts -> Nat] /\ stale \in BOOLEAN /\ lost \in BOOLEAN /\ crashed \in BOOLEAN
  BY MarketAssumption, PileFacts DEF MarketInit, MarketAssumption, Piles
<1>2. DOMAIN orders = {} /\ orders = [i \in {} |-> Nothing] BY DEF MarketInit
<1>3. IsBook(orders)
  <2>1. orders \in [DOMAIN orders -> Order] BY <1>2
  <2> QED BY <1>2, <2>1, FS_EmptySet DEF IsBook
<1>4. Ops /\ \A w \in Worlds : CoveredBy(op[w], stock[w]) BY <1>1, IdleFacts DEF Ops
<1>5. MarketInv BY <1>1, <1>3, <1>4, Parts DEF MarketInv
<1>6. ASSUME NEW k \in Kinds PROVE Everything(k) = Endowment(k) /\ Everything(k) \in Int
  <2>1. Stocks(k) = Endowment(k) /\ Stocks(k) \in Int
    BY <1>1, <1>5, AllNumbers DEF Stocks, Endowment
  <2>2. Held(orders, k) = 0
    <3>1. Held(orders, k) = SumFunctionOnSet(Worths(orders, k), {}) BY <1>2, <1>3, Values
    <3> QED BY <3>1, SumEmpty
  <2>3. Owed(k) = 0
    <3> DEFINE f == [a \in Accounts |-> wallet[a][k]]
    <3>1. \A a \in Accounts : f[a] = 0 BY PileFacts DEF MarketInit
    <3>2. IsFiniteSet(Accounts) /\ f \in [Accounts -> Int]
      BY <3>1, MarketAssumption DEF MarketAssumption
    <3>3. Owed(k) = SumFunction(f) BY DEF Owed
    <3> HIDE DEF f
    <3>4. SumFunction(f) = SumFunctionOnSet(f, Accounts) BY <3>2, Sums
    <3>5. SumFunctionOnSet(f, {}) = SumFunctionOnSet(f, Accounts) BY <3>1, <3>2, SumDrop
    <3> QED BY <3>3, <3>4, <3>5, SumEmpty
  <2>4. Moving(k) = 0
    <3> DEFINE f == [w \in Worlds |-> OnTheWay(op[w])[k]]
    <3>1. \A w \in Worlds : f[w] = 0 BY <1>1, IdleFacts, PileFacts
    <3>2. IsFiniteSet(Worlds) /\ f \in [Worlds -> Int]
      BY <3>1, MarketAssumption DEF MarketAssumption
    <3>3. Moving(k) = SumFunction(f) BY DEF Moving
    <3> HIDE DEF f
    <3>4. SumFunction(f) = SumFunctionOnSet(f, Worlds) BY <3>2, Sums
    <3>5. SumFunctionOnSet(f, {}) = SumFunctionOnSet(f, Worlds) BY <3>1, <3>2, SumDrop
    <3> QED BY <3>3, <3>4, <3>5, SumEmpty
  <2> QED BY <2>1, <2>2, <2>3, <2>4, Parts
<1>7. GoodsAndGoldKept BY <1>6 DEF GoodsAndGoldKept, Kinds
<1> QED BY <1>5, <1>7

\* Every variable has its type - no stockpile is overdrawn, no order goes below nothing - and what a
\* command checked is still there when its statement runs, in every state of the market.
THEOREM MarketInductive == MarketSpec => []MarketInv
<1>1. MarketInv /\ [MarketNext]_marketVars => MarketInv'
  <2>1. ASSUME MarketInv, UNCHANGED marketVars PROVE MarketInv'
    <3>1. TypeOK' <=> TypeOK BY <2>1 DEF marketVars, TypeOK, OpType
    <3>2. CommandsCovered' <=> CommandsCovered BY <2>1 DEF marketVars, CommandsCovered
    <3> QED BY <2>1, <3>1, <3>2 DEF MarketInv
  <2> QED BY <2>1, NextSettles DEF Settles
<1> QED BY StartsSound, <1>1, PTL DEF MarketSpec

\* GoodsAndGoldKept in every reachable state, for any accounts, worlds, stockpiles, amounts, prices
\* and numbers of orders: however the statements of market.rs interleave.
THEOREM TradingConserves == MarketSpec => []GoodsAndGoldKept
<1>1. MarketInv /\ GoodsAndGoldKept /\ [MarketNext]_marketVars => GoodsAndGoldKept'
  <2>1. ASSUME GoodsAndGoldKept, UNCHANGED marketVars PROVE GoodsAndGoldKept'
    BY <2>1 DEF marketVars, GoodsAndGoldKept, Everything, Stocks, Escrowed, Owed, Moving, Endowment
  <2>2. ASSUME MarketInv, GoodsAndGoldKept, MarketNext PROVE GoodsAndGoldKept'
    <3>1. Settles BY <2>2, NextSettles
    <3>2. ASSUME ~stale', ~crashed', NEW k \in Kinds
          PROVE  Everything(k)' <= Endowment(k) /\ (~lost' => Everything(k)' = Endowment(k))
      <4>1. /\ Everything(k)' \in Int
            /\ Everything(k)' <= Everything(k)
            /\ (lost' \/ Everything(k)' = Everything(k))
        <5>1. stale' \/ crashed' \/ \A j \in Kinds : /\ Everything(j)' \in Int /\ Everything(j)' <= Everything(j)
                                                     /\ lost' \/ Everything(j)' = Everything(j)
          BY <3>1 DEF Settles
        <5>2. \A j \in Kinds : /\ Everything(j)' \in Int /\ Everything(j)' <= Everything(j)
                               /\ lost' \/ Everything(j)' = Everything(j)
          BY <3>2, <5>1
        <5>3. k \in Kinds BY <3>2
        <5> QED BY <5>2, <5>3
      <4>2. Everything(k) <= Endowment(k) /\ (~lost => Everything(k) = Endowment(k))
        BY <2>2, <3>1, <3>2 DEF Settles, GoodsAndGoldKept, Kinds
      <4>3. Everything(k) \in Int BY <2>2, Summable
      <4>4. Endowment(k) \in Int
        <5> DEFINE f == [w \in Worlds |-> Stock0[w][k]]
        <5>1. f \in [Worlds -> Int] /\ IsFiniteSet(Worlds)
          BY MarketAssumption, PileFacts DEF MarketAssumption
        <5> HIDE DEF f
        <5>2. SumFunction(f) \in Int BY <5>1, Sums
        <5> QED BY <5>2 DEF f, Endowment
      <4>5. lost => lost' BY <3>1 DEF Settles
      <4> QED BY <4>1, <4>2, <4>3, <4>4, <4>5
    <3> QED BY <3>2 DEF GoodsAndGoldKept, Kinds, Endowment
  <2> QED BY <2>1, <2>2
<1> QED BY StartsSound, MarketInductive, <1>1, PTL DEF MarketSpec

(* The limit *)

\* The worlds an account is posting from, and those of them whose count found room.
Posting(a) == {w \in Worlds : op[w].at = "post" /\ op[w].by = a}
CountedPosting(a) == {w \in Posting(a) : op[w].counted}

\* A post comes from a world of its account, and is the account's.
PostsFromOutlets == \A w \in Worlds : op[w].at = "post" => /\ w \in Outlets(op[w].by)
                                                           /\ op[w].order.account = op[w].by
\* An account's orders, with those it is posting on a true count, are fewer than the limit, its
\* worlds and its uncounted orders together: every thread that found room counted all but those of
\* the threads that found it at the same time and those that posted without a count.
Counted(a) ==
  \/ OpenOrders(a) = {} /\ Posting(a) = {}
  \/ Cardinality(OpenOrders(a)) + Cardinality(CountedPosting(a))
       < MaxOrders + Cardinality(Outlets(a)) + uncounted[a]
PostsCounted == PostsFromOutlets /\ \A a \in Accounts : Counted(a)

\* All of these are finite.
LEMMA Finite ==
  ASSUME MarketInv, NEW a \in Accounts
  PROVE  /\ IsFiniteSet(OpenOrders(a)) /\ IsFiniteSet(CountedPosting(a)) /\ IsFiniteSet(Outlets(a))
         /\ Cardinality(OpenOrders(a)) \in Nat
         /\ Cardinality(CountedPosting(a)) \in Nat
         /\ Cardinality(Outlets(a)) \in Nat
         /\ MaxOrders \in Nat /\ uncounted[a] \in Nat
<1>1. IsFiniteSet(DOMAIN orders) /\ IsFiniteSet(Worlds) /\ MaxOrders \in Nat /\ uncounted[a] \in Nat
  BY Types, MarketAssumption DEF IsBook, MarketAssumption
<1>2. OpenOrders(a) \subseteq DOMAIN orders BY DEF OpenOrders
<1>3. CountedPosting(a) \subseteq Worlds /\ Outlets(a) \subseteq Worlds
  BY DEF CountedPosting, Posting, Outlets
<1>4. IsFiniteSet(OpenOrders(a)) /\ IsFiniteSet(CountedPosting(a)) /\ IsFiniteSet(Outlets(a))
  BY <1>1, <1>2, <1>3, FS_Subset
<1> QED BY <1>1, <1>4, FS_CardinalityType

\* A step that opens nothing and posts nothing.
LEMMA Fewer ==
  ASSUME MarketInv, MarketInv', PostsCounted, uncounted' = uncounted,
         \A v \in Worlds : op'[v].at = "post" => op'[v] = op[v],
         \A a \in Accounts : OpenOrders(a)' \subseteq OpenOrders(a)
  PROVE  PostsCounted'
<1>1. PostsFromOutlets'
  <2>1. \A a : Outlets(a)' = Outlets(a) BY DEF Outlets, TradingWorld
  <2> QED BY <2>1 DEF PostsCounted, PostsFromOutlets, Outlets, TradingWorld
<1>2. ASSUME NEW a \in Accounts PROVE Counted(a)'
  <2>1. Posting(a)' \subseteq Posting(a) BY DEF Posting
  <2>2. OpenOrders(a)' \subseteq OpenOrders(a) OBVIOUS
  <2>3. CountedPosting(a)' \subseteq CountedPosting(a) BY <2>1 DEF CountedPosting, Posting
  <2>4. /\ Cardinality(OpenOrders(a)') <= Cardinality(OpenOrders(a))
        /\ Cardinality(OpenOrders(a)') \in Nat
        /\ Cardinality(CountedPosting(a)') <= Cardinality(CountedPosting(a))
        /\ Cardinality(CountedPosting(a)') \in Nat
        /\ Cardinality(OpenOrders(a)) \in Nat /\ Cardinality(CountedPosting(a)) \in Nat
    <3>1. IsFiniteSet(OpenOrders(a)) /\ IsFiniteSet(CountedPosting(a)) BY Finite
    <3>2. IsFiniteSet(OpenOrders(a)') /\ IsFiniteSet(CountedPosting(a)') BY <2>2, <2>3, <3>1, FS_Subset
    <3> QED BY <2>2, <2>3, <3>1, <3>2, FS_Subset, FS_CardinalityType
  <2>5. Cardinality(Outlets(a)) \in Nat /\ MaxOrders \in Nat /\ uncounted[a] \in Nat BY Finite
  <2>6. Counted(a) BY DEF PostsCounted
  <2>7. CASE OpenOrders(a) = {} /\ Posting(a) = {} BY <2>1, <2>2, <2>7 DEF Counted
  <2>8. CASE Cardinality(OpenOrders(a)) + Cardinality(CountedPosting(a))
               < MaxOrders + Cardinality(Outlets(a)) + uncounted[a]
    <3>1. Cardinality(OpenOrders(a)') + Cardinality(CountedPosting(a)')
            < MaxOrders + Cardinality(Outlets(a)) + uncounted[a]
      BY <2>4, <2>5, <2>8
    <3>2. Outlets(a)' = Outlets(a) BY DEF Outlets, TradingWorld
    <3> QED BY <3>1, <3>2 DEF Counted
  <2> QED BY <2>6, <2>7, <2>8 DEF Counted
<1> QED BY <1>1, <1>2 DEF PostsCounted

\* A count makes one more post: it found room, or it failed.
LEMMA CountCounts ==
  ASSUME MarketInv, MarketInv', PostsCounted, NEW w \in Worlds, NEW a \in Accounts, NEW n \in Amounts,
         NEW p \in Prices, NEW selling \in BOOLEAN, PostCount(w, a, n, p, selling)
  PROVE  PostsCounted'
<1> DEFINE q == [account |-> a, amount |-> n, price |-> p, selling |-> selling]
           room == HasRoom(a, Cardinality(OpenOrders(a)))
           o == [at |-> "post", by |-> a, order |-> q, counted |-> room]
<1>1. /\ op[w] = Idle /\ op' = [op EXCEPT ![w] = o] /\ orders' = orders /\ uncounted' = uncounted
      /\ w \in Outlets(a) /\ \E open \in Counts(a) : HasRoom(a, open)
  BY DEF PostCount, Outlets
<1>2. /\ op'[w] = o /\ o.at = "post" /\ o.by = a /\ o.order.account = a /\ o.counted = room
      /\ \A v \in Worlds : v # w => op'[v] = op[v]
  BY <1>1, Types DEF Ops
<1>3. 0 < MaxOrders
  <2>1. PICK open \in Counts(a) : open < MaxOrders BY <1>1 DEF HasRoom
  <2>2. open \in Nat BY <2>1, Finite DEF Counts
  <2> QED BY <2>1, <2>2, Finite
<1> HIDE DEF o, room
<1>4. PostsFromOutlets'
  <2>1. \A b : Outlets(b)' = Outlets(b) BY DEF Outlets, TradingWorld
  <2>2. ASSUME NEW v \in Worlds, op'[v].at = "post"
        PROVE  v \in Outlets(op'[v].by) /\ op'[v].order.account = op'[v].by
    <3>1. CASE v = w BY <1>1, <1>2, <3>1
    <3>2. CASE v # w BY <1>2, <2>2, <3>2 DEF PostsCounted, PostsFromOutlets
    <3> QED BY <3>1, <3>2
  <2> QED BY <2>1, <2>2 DEF PostsFromOutlets, Outlets, TradingWorld
<1>5. ASSUME NEW b \in Accounts PROVE Counted(b)'
  <2>1. OpenOrders(b)' = OpenOrders(b) /\ Outlets(b)' = Outlets(b)
    BY <1>1 DEF OpenOrders, Outlets, TradingWorld
  <2>2. /\ Cardinality(OpenOrders(b)) \in Nat /\ Cardinality(Outlets(b)) \in Nat
        /\ MaxOrders \in Nat /\ uncounted[b] \in Nat
    BY Finite
  <2>3. Counted(b) BY DEF PostsCounted
  <2>4. CASE b = a /\ room
    <3>1. Cardinality(OpenOrders(b)) < MaxOrders BY <2>4 DEF room, HasRoom
    <3>2. CountedPosting(b)' \subseteq Outlets(b)
      <4>1. \A v \in Posting(b)' : v \in Outlets(b)' BY <1>4 DEF PostsFromOutlets, Posting
      <4> QED BY <2>1, <4>1 DEF CountedPosting
    <3>3. Cardinality(CountedPosting(b)') <= Cardinality(Outlets(b)) /\ Cardinality(CountedPosting(b)') \in Nat
      <4>1. IsFiniteSet(Outlets(b)) BY Finite
      <4> QED BY <3>2, <4>1, FS_Subset, FS_CardinalityType
    <3>4. Cardinality(OpenOrders(b)) + Cardinality(CountedPosting(b)')
            < MaxOrders + Cardinality(Outlets(b)) + uncounted[b]
      BY <2>2, <3>1, <3>3
    <3> QED BY <1>1, <2>1, <3>4 DEF Counted
  <2>5. CASE b = a /\ ~room
    <3>1. CountedPosting(b)' = CountedPosting(b)
      BY <1>1, <1>2, <2>5 DEF CountedPosting, Posting, Idle
    <3>2. OpenOrders(b) # {} BY <1>3, <2>5, FS_EmptySet DEF room, HasRoom
    <3> QED BY <1>1, <2>1, <2>3, <3>1, <3>2 DEF Counted
  <2>6. CASE b # a
    <3>1. Posting(b)' = Posting(b) BY <1>1, <1>2, <2>6 DEF Posting, Idle
    <3>2. CountedPosting(b)' = CountedPosting(b)
      BY <1>1, <1>2, <2>6 DEF CountedPosting, Posting, Idle
    <3> QED BY <1>1, <2>1, <2>3, <3>1, <3>2 DEF Counted
  <2> QED BY <2>4, <2>5, <2>6
<1> QED BY <1>4, <1>5 DEF PostsCounted

\* The INSERT makes an order of a post, and remembers it if it was not counted.
LEMMA InsertCounts ==
  ASSUME MarketInv, MarketInv', PostsCounted, NEW w \in Worlds, PostInsert(w)
  PROVE  PostsCounted'
<1> DEFINE b == op[w].by
           miss == IF op[w].counted THEN 0 ELSE 1
<1>1. /\ op[w].at = "post" /\ op' = [op EXCEPT ![w] = Idle]
      /\ orders' = [i \in DOMAIN orders \cup {NextRow} |-> IF i = NextRow THEN op[w].order ELSE orders[i]]
      /\ uncounted' = [uncounted EXCEPT ![b] = IF op[w].counted THEN @ ELSE @ + 1]
  BY DEF PostInsert
<1>2. op'[w] = Idle /\ \A v \in Worlds : v # w => op'[v] = op[v] BY <1>1, Types DEF Ops
<1>3. Idle.at # "post" BY DEF Idle
<1>4. NextRow \notin DOMAIN orders BY Types, FreshRow
<1>5. op[w].order.account = b BY <1>1 DEF PostsCounted, PostsFromOutlets
<1>6. PostsFromOutlets'
  <2>1. \A c : Outlets(c)' = Outlets(c) BY DEF Outlets, TradingWorld
  <2> QED BY <1>2, <1>3, <2>1 DEF PostsCounted, PostsFromOutlets, Outlets, TradingWorld
<1>7. \A c : Outlets(c)' = Outlets(c) BY DEF Outlets, TradingWorld
<1>8. uncounted \in [Accounts -> Nat] BY Types
<1>9. ASSUME NEW a \in Accounts PROVE Counted(a)'
  <2>1. Counted(a) BY DEF PostsCounted
  <2>2. CASE a # b
    <3>1. Posting(a)' = Posting(a) BY <1>2, <1>3, <2>2 DEF Posting
    <3>2. CountedPosting(a)' = CountedPosting(a) BY <1>2, <1>3, <2>2 DEF CountedPosting, Posting
    <3>3. OpenOrders(a)' = OpenOrders(a) BY <1>1, <1>4, <1>5, <2>2 DEF OpenOrders
    <3>4. uncounted'[a] = uncounted[a] BY <1>1, <1>8, <2>2
    <3> QED BY <1>7, <2>1, <3>1, <3>2, <3>3, <3>4 DEF Counted
  <2>3. CASE a = b
    <3>1. w \in Posting(a) BY <1>1, <2>3 DEF Posting
    <3>2. OpenOrders(a)' \subseteq OpenOrders(a) \cup {NextRow} BY <1>1, <1>4 DEF OpenOrders
    <3>3. /\ IsFiniteSet(OpenOrders(a)) /\ IsFiniteSet(CountedPosting(a)) /\ MaxOrders \in Nat
          /\ Cardinality(OpenOrders(a)) \in Nat
          /\ Cardinality(CountedPosting(a)) \in Nat
          /\ Cardinality(Outlets(a)) \in Nat
          /\ uncounted[a] \in Nat
      BY Finite
    <3>4. /\ Cardinality(CountedPosting(a)') \in Nat
          /\ Cardinality(CountedPosting(a)') = Cardinality(CountedPosting(a)) - (1 - miss)
      <4>1. CASE op[w].counted
        <5>1. w \in CountedPosting(a) /\ CountedPosting(a)' = CountedPosting(a) \ {w}
          BY <1>2, <1>3, <3>1, <4>1 DEF CountedPosting, Posting
        <5>2. /\ Cardinality(CountedPosting(a)') = Cardinality(CountedPosting(a)) - 1
              /\ IsFiniteSet(CountedPosting(a)')
          BY <3>3, <5>1, FS_RemoveElement
        <5> QED BY <4>1, <5>2, FS_CardinalityType
      <4>2. CASE ~op[w].counted
        <5>1. CountedPosting(a)' = CountedPosting(a)
          BY <1>2, <1>3, <4>2 DEF CountedPosting, Posting
        <5> QED BY <3>3, <4>2, <5>1
      <4> QED BY <4>1, <4>2
    <3>5. /\ Cardinality(OpenOrders(a)') <= Cardinality(OpenOrders(a)) + 1
          /\ Cardinality(OpenOrders(a)') \in Nat
      <4>1. NextRow \notin OpenOrders(a) BY <1>4 DEF OpenOrders
      <4>2. IsFiniteSet(OpenOrders(a) \cup {NextRow})
            /\ Cardinality(OpenOrders(a) \cup {NextRow}) = Cardinality(OpenOrders(a)) + 1
        BY <3>3, <4>1, FS_AddElement
      <4>3. /\ IsFiniteSet(OpenOrders(a)')
            /\ Cardinality(OpenOrders(a)') <= Cardinality(OpenOrders(a) \cup {NextRow})
        BY <3>2, <4>2, FS_Subset
      <4> QED BY <4>2, <4>3, FS_CardinalityType
    <3>6. Cardinality(OpenOrders(a)) + Cardinality(CountedPosting(a))
            < MaxOrders + Cardinality(Outlets(a)) + uncounted[a]
      BY <2>1, <3>1 DEF Counted
    <3>7. uncounted'[a] = uncounted[a] + miss /\ miss \in {0, 1} BY <1>1, <1>8, <2>3, <3>3
    <3> HIDE DEF miss
    <3>8. Cardinality(OpenOrders(a)') + Cardinality(CountedPosting(a)')
            < MaxOrders + Cardinality(Outlets(a)) + uncounted'[a]
      BY <3>3, <3>4, <3>5, <3>6, <3>7
    <3> QED BY <1>7, <3>8 DEF Counted
  <2> QED BY <2>2, <2>3
<1> QED BY <1>6, <1>9 DEF PostsCounted

\* Every step keeps the count.
LEMMA NextCounts == ASSUME MarketInv, MarketInv', PostsCounted, MarketNext PROVE PostsCounted'
<1>1. ASSUME NEW w \in Worlds, NEW o, o.at # "post", op' = [op EXCEPT ![w] = o], uncounted' = uncounted,
             \A a \in Accounts : OpenOrders(a)' \subseteq OpenOrders(a)
      PROVE  PostsCounted'
  <2>1. op'[w] = o /\ \A v \in Worlds : v # w => op'[v] = op[v] BY <1>1, Types DEF Ops
  <2>2. \A v \in Worlds : op'[v].at = "post" => op'[v] = op[v] BY <1>1, <2>1
  <2> QED BY <1>1, <2>2, Fewer
<1>2. \A a : orders' = orders => OpenOrders(a)' = OpenOrders(a) BY DEF OpenOrders
<1>3. Idle.at # "post" /\ [at |-> "sweep"].at # "post" BY DEF Idle
<1>4. ASSUME NEW w \in Worlds, NEW a \in Accounts, NEW n \in Amounts, NEW i \in DOMAIN orders, TakeSelect(w, a, i, n)
      PROVE  PostsCounted'
  <2> DEFINE m == IF n < orders[i].amount THEN n ELSE orders[i].amount
             o == [at |-> "take", by |-> a, row |-> i, order |-> orders[i], qty |-> m]
  <2>1. op' = [op EXCEPT ![w] = o] /\ orders' = orders /\ uncounted' = uncounted
    BY <1>4 DEF TakeSelect
  <2>2. o.at # "post" OBVIOUS
  <2> HIDE DEF o
  <2> QED BY <1>1, <1>2, <2>1, <2>2
<1>5. ASSUME NEW w \in Worlds, TakeUpdate(w) PROVE PostsCounted'
  <2> DEFINE o == [at |-> "credit", by |-> op[w].order.account,
                   pile |-> Proceeds(op[w].order, op[w].qty), then |-> "sweep"]
             i == op[w].row
  <2>1. /\ op' = [op EXCEPT ![w] = o] /\ i \in DOMAIN orders /\ op[w].at = "take"
        /\ orders' = [orders EXCEPT ![i].amount = Left(i, op[w].qty)] /\ uncounted' = uncounted
    BY <1>5 DEF TakeUpdate, StillThere
  <2>2. o.at # "post" OBVIOUS
  <2>3. orders[i] \in Order /\ op[w].qty \in Nat /\ orders[i].amount \in Nat
    BY <2>1, Types DEF OpType, Order
  <2>4. /\ DOMAIN orders' = DOMAIN orders /\ \A j \in DOMAIN orders : j # i => orders'[j] = orders[j]
        /\ orders'[i].account = orders[i].account /\ orders'[i].amount = Left(i, op[w].qty)
    BY <2>1, <2>3 DEF Order
  <2>5. orders'[i].amount > 0 => orders[i].amount > 0 BY <2>3, <2>4 DEF Left
  <2>6. \A a \in Accounts : OpenOrders(a)' \subseteq OpenOrders(a) BY <2>4, <2>5 DEF OpenOrders
  <2> HIDE DEF o
  <2> QED BY <1>1, <2>1, <2>2, <2>6
<1>6. ASSUME NEW w \in Worlds, TakeLost(w) PROVE PostsCounted'
  BY <1>1, <1>2, <1>3, <1>6 DEF TakeLost
<1>7. ASSUME NEW w \in Worlds, Credit(w) PROVE PostsCounted'
  <2> DEFINE o == IF op[w].then = "sweep" THEN [at |-> "sweep"] ELSE Idle
  <2>1. op' = [op EXCEPT ![w] = o] /\ orders' = orders /\ uncounted' = uncounted BY <1>7 DEF Credit
  <2>2. o.at # "post" BY <1>3
  <2> HIDE DEF o
  <2> QED BY <1>1, <1>2, <2>1, <2>2
<1>8. ASSUME NEW w \in Worlds, NEW T \in SUBSET DOMAIN orders, orders' = Restrict(orders, T), NEW a
      PROVE  OpenOrders(a)' \subseteq OpenOrders(a)
  BY <1>8 DEF OpenOrders, Restrict
<1>9. ASSUME NEW w \in Worlds, Sweep(w) PROVE PostsCounted'
  <2>1. /\ orders' = Restrict(orders, {i \in DOMAIN orders : orders[i].amount > 0})
        /\ op' = [op EXCEPT ![w] = Idle] /\ uncounted' = uncounted
    BY <1>9 DEF Sweep
  <2>2. {i \in DOMAIN orders : orders[i].amount > 0} \in SUBSET DOMAIN orders OBVIOUS
  <2> QED BY <1>1, <1>3, <1>8, <2>1, <2>2
<1>10. ASSUME NEW w \in Worlds, NEW a \in Accounts, NEW i \in DOMAIN orders, Cancel(w, a, i) PROVE PostsCounted'
  <2> DEFINE o == IF orders[i].amount = 0 THEN Idle
                  ELSE [at |-> "credit", by |-> a, pile |-> Escrow(orders[i], orders[i].amount), then |-> "done"]
  <2>1. /\ op' = [op EXCEPT ![w] = o] /\ orders' = Restrict(orders, DOMAIN orders \ {i})
        /\ uncounted' = uncounted
    BY <1>10 DEF Cancel
  <2>2. o.at # "post" BY <1>3
  <2> HIDE DEF o
  <2>3. DOMAIN orders \ {i} \in SUBSET DOMAIN orders OBVIOUS
  <2> QED BY <1>1, <1>8, <2>1, <2>2, <2>3
<1>11. ASSUME NEW w \in Worlds, Fail(w) PROVE PostsCounted'
  <2> DEFINE o == IF op[w].at = "credit" /\ op[w].then = "sweep" THEN [at |-> "sweep"] ELSE Idle
  <2>1. op' = [op EXCEPT ![w] = o] /\ orders' = orders /\ uncounted' = uncounted BY <1>11 DEF Fail
  <2>2. o.at # "post" BY <1>3
  <2> HIDE DEF o
  <2> QED BY <1>1, <1>2, <2>1, <2>2
<1>12. ASSUME op' = op, orders' = orders, uncounted' = uncounted PROVE PostsCounted'
  BY <1>2, <1>12, Fewer
<1>13. ASSUME NEW w \in Worlds, NEW a \in Accounts, Claim(w, a) PROVE PostsCounted'
  BY <1>12, <1>13 DEF Claim
<1>14. ASSUME NEW w \in Worlds, Save(w) PROVE PostsCounted' BY <1>12, <1>14 DEF Save
<1>15. ASSUME Crash PROVE PostsCounted'
  <2>1. op' = [w \in Worlds |-> Idle] /\ orders' = orders /\ uncounted' = uncounted BY <1>15 DEF Crash
  <2>2. \A v \in Worlds : op'[v].at = "post" => op'[v] = op[v] BY <1>3, <2>1
  <2> QED BY <1>2, <2>1, <2>2, Fewer
<1> QED
  BY CountCounts, InsertCounts, <1>4, <1>5, <1>6, <1>7, <1>9, <1>10, <1>11, <1>13, <1>14, <1>15
  DEF MarketNext

\* In the beginning there is nothing to count.
LEMMA StartsCounted == ASSUME MarketInit PROVE PostsCounted
<1>1. \A w \in Worlds : op[w].at # "post" BY DEF MarketInit, Idle
<1>2. \A a : OpenOrders(a) = {} BY DEF MarketInit, OpenOrders
<1> QED BY <1>1, <1>2 DEF PostsCounted, PostsFromOutlets, Counted, Posting

\* So it holds in every state.
LEMMA CountsHold == MarketSpec => [](MarketInv /\ PostsCounted)
<1>1. ASSUME MarketInv, MarketInv', PostsCounted, UNCHANGED marketVars PROVE PostsCounted'
  <2>1. op' = op /\ orders' = orders /\ uncounted' = uncounted BY <1>1 DEF marketVars
  <2>2. \A a : OpenOrders(a)' = OpenOrders(a) BY <2>1 DEF OpenOrders
  <2> QED BY <1>1, <2>1, <2>2, Fewer
<1>2. MarketInv /\ MarketInv' /\ PostsCounted /\ [MarketNext]_marketVars => PostsCounted'
  BY <1>1, NextCounts
<1> QED BY MarketInductive, StartsCounted, <1>2, PTL DEF MarketSpec

\* ReadsStillTrue in every reachable state, whichever worlds an account trades from and whichever
\* statements fail: what a command takes is there when its statement runs, and an account exceeds
\* MAX_ORDERS_PER_ACCOUNT by no more than its failed counts and by less than the number of worlds it
\* posts from.
THEOREM ReadsHold == MarketSpec => []ReadsStillTrue
<1>1. ASSUME MarketInv, PostsCounted PROVE ReadsStillTrue
  <2>1. CommandsCovered BY <1>1 DEF MarketInv
  <2>2. ASSUME NEW a \in Accounts, OpenOrders(a) # {}
        PROVE  Cardinality(OpenOrders(a)) < MaxOrders + Cardinality(Outlets(a)) + uncounted[a]
    <3>1. Cardinality(OpenOrders(a)) + Cardinality(CountedPosting(a))
            < MaxOrders + Cardinality(Outlets(a)) + uncounted[a]
      BY <1>1, <2>2 DEF PostsCounted, Counted
    <3> QED BY <1>1, <3>1, Finite
  <2> QED BY <2>1, <2>2 DEF ReadsStillTrue, LimitNearlyKept
<1> QED BY CountsHold, <1>1, PTL
===============================================================================
