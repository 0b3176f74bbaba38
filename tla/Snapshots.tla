------------------------------ MODULE Snapshots ------------------------------
(***************************************************************************)
(* What a world tells its clients (crates/fc-net/src/server/simloop.rs)    *)
(* and what each client then holds (src/client/net_sync.rs).               *)
(*                                                                         *)
(* Every tick's State message leaves out the collections that have not     *)
(* changed since the last one, and the client fills them in from its own   *)
(* copy; a joiner starts from the whole state in its Welcome; and a world  *)
(* that has ended is replaced, after a countdown, under its clients.       *)
(*                                                                         *)
(* A server's messages reach a client in order and the client handles each *)
(* one whole, so a view is what the client holds once it has handled what  *)
(* was sent.  Of the game only what the snapshots carry is kept: an        *)
(* append-only log is the world it belongs to and its length, the map is   *)
(* the world and the tick it was taken at, the missions and techs - each   *)
(* compared by value, each fixed at its start by new_game - are one value. *)
(***************************************************************************)
EXTENDS Naturals, FiniteSets

CONSTANTS
  Conns,          \* connections; a connection that left may come back anew
  Persistent,     \* config.persistent
  ArrivalTick,    \* ARRIVAL_TICK, the tick new_game starts at
  TilesEvery,     \* TILES_EVERY_N_TICKS
  PingTTL,        \* PING_TTL_TICKS
  MaxPings,       \* MAX_PINGS
  ResetAfter,     \* WORLD_RESET_AFTER, in seconds
  MaxAge,         \* bound: ticks a world lives
  MaxEvents,      \* bound: events of a world after which no client joins
  MaxChat,        \* bound: chat lines of a world
  MaxWorlds       \* bound: worlds, the first and those that replace it

ASSUME SnapshotsAssumption ==
  /\ Persistent \in BOOLEAN
  /\ ArrivalTick \in Nat /\ TilesEvery \in Nat \ {0}
  /\ PingTTL \in Nat \ {0} /\ MaxPings \in Nat \ {0} /\ ResetAfter \in Nat
  /\ MaxAge \in Nat /\ MaxEvents \in Nat /\ MaxChat \in Nat /\ MaxWorlds \in Nat

VARIABLES
  personal,       \* config.owner_account is Some
  game,           \* the GameState, and which world it is
  over_for,       \* game_over_since as the seconds since: {} for None
  clients,        \* keys of `clients`
  sent,           \* last_sent_events, _chat, _pings and _missions/_techs
  countdown_sent, \* last_countdown_sent: {} for None
  view,           \* what each client holds
  \* history, read by properties only
  fresh,          \* the last step broadcast a snapshot
  instep          \* clients the last broadcast left with the right copies

snapVars == <<personal, game, over_for, clients, sent, countdown_sent, view, fresh, instep>>

Phases == {"Running", "Over"}

\* new_game: its events are the arrival and nothing else, its chat is empty.
NewWorld(w) ==
  [world |-> w, tick |-> ArrivalTick, phase |-> "Running",
   events |-> 1, chat |-> 0, pings |-> {}, goals |-> 0]

\* A log's content: nothing, or that many lines of that world.
NoLog == <<0, 0>>
Log(w, total) == IF total = 0 THEN NoLog ELSE <<w, total>>

NothingSent == [events |-> 0, chat |-> 0, pings |-> {}, goals |-> 0]

SnapInit ==
  /\ personal \in BOOLEAN
  /\ game = NewWorld(1)
  /\ over_for = {}
  /\ clients = {}
  /\ sent = NothingSent
  /\ countdown_sent = {}
  /\ view = [c \in {} |-> NothingSent]
  /\ fresh = FALSE /\ instep = {}

-----------------------------------------------------------------------------
(* Between ticks *)

\* The Welcome's whole state, and no countdown.
Welcomed(g) ==
  [phase |-> g.phase, tiles |-> <<g.world, g.tick>>,
   events |-> Log(g.world, g.events), chat |-> Log(g.world, g.chat),
   pings |-> g.pings, goals |-> g.goals, countdown |-> {}]

\* player_joined_as and player_rejoined both log an event before the Welcome.
Join(c) ==
  /\ c \notin clients
  /\ game.events < MaxEvents
  /\ game' = [game EXCEPT !.events = @ + 1]
  /\ clients' = clients \cup {c}
  /\ view' = [d \in clients' |-> IF d = c THEN Welcomed(game') ELSE view[d]]
  /\ fresh' = FALSE
  /\ UNCHANGED <<personal, over_for, sent, countdown_sent, instep>>

\* Leave, a kick, or a dead connection found by the broadcast: player_left and
\* kick_player log an event.
LeaveWorld(c) ==
  /\ c \in clients
  /\ game' = [game EXCEPT !.events = @ + 1]
  /\ clients' = clients \ {c}
  /\ view' = [d \in clients' |-> view[d]]
  /\ instep' = instep \ {c}
  /\ fresh' = FALSE
  /\ UNCHANGED <<personal, over_for, sent, countdown_sent>>

\* push_chat, which a finished world does not refuse.
Chat(c) ==
  /\ c \in clients
  /\ game.chat < MaxChat
  /\ game' = [game EXCEPT !.chat = @ + 1]
  /\ fresh' = FALSE
  /\ UNCHANGED <<personal, over_for, clients, sent, countdown_sent, view, instep>>

\* A ping is the tick it was set at; over the cap the oldest goes.
Capped(pings) ==
  IF Cardinality(pings) <= MaxPings THEN pings
  ELSE {t \in pings : \E s \in pings : s < t}

\* add_ping, which a finished world refuses.
Ping(c) ==
  /\ c \in clients
  /\ game.phase = "Running"
  /\ game' = [game EXCEPT !.pings = Capped(@ \cup {game.tick})]
  /\ fresh' = FALSE
  /\ UNCHANGED <<personal, over_for, clients, sent, countdown_sent, view, instep>>

-----------------------------------------------------------------------------
(* The tick *)

Live(pings, tick) == {t \in pings : tick - t < PingTTL}

\* A running world's tick: the clock, the expired pings, perhaps an event,
\* perhaps a mission done or a tech researched (whose commands come first).
Lived(g, news, goals) ==
  [g EXCEPT !.tick = @ + 1, !.pings = Live(@, g.tick + 1), !.events = @ + news, !.goals = goals]

\* The last survivor dies, or the last day is survived: the pings go with it.
Ended(g) == [g EXCEPT !.tick = @ + 1, !.phase = "Over", !.pings = {}, !.events = @ + 1]

\* InvestTunnel's last stage ends the world in apply_command, so the tick that
\* follows finds it finished and does nothing.
TunnelWon(g) == [g EXCEPT !.phase = "Over", !.events = @ + 1]

\* What the commands and sim::tick make of a world; a finished one is frozen.
\* A command is applied only while its player is on the roster.
Simulated(g) ==
  IF g.phase = "Over" THEN {g}
  ELSE {Ended(g)}
       \cup (IF clients # {} THEN {TunnelWon(g)} ELSE {})
       \cup (IF g.tick < ArrivalTick + MaxAge
               THEN {Lived(g, news, goals) : news \in 0..1, goals \in {g.goals, 1}}
               ELSE {})

\* The countdown of a finished persistent world starts with a tick that finds
\* somebody to see it; a world without an owner does not wait for that.
Counting(g) == Persistent /\ g.phase = "Over" /\ (~personal \/ clients # {})

\* game_over_since after a tick that comes dt seconds after the last one.  Once
\* started it runs on, watched or not.
Waited(g, dt) ==
  IF ~Persistent \/ g.phase = "Running" THEN {}
  ELSE IF over_for = {} THEN (IF Counting(g) THEN {0} ELSE {})
  ELSE {IF e + dt > ResetAfter THEN ResetAfter ELSE e + dt : e \in over_for}

Due(g, waited) == Counting(g) /\ waited = {ResetAfter}

\* The reset forgets what was sent of the logs, whose totals restart.
Forgotten == [sent EXCEPT !.events = 0, !.chat = 0]

\* The world that replaces g, which starts with one more event.
Replaced(g) == [NewWorld(g.world + 1) EXCEPT !.events = @ + 1]

\* Which collections ride along, given what was last sent.
TilesDue_OffByOne(g) == (g.tick + 1) % TilesEvery = 0
TilesDue(g) == g.tick % TilesEvery = 0

Included(g, last) ==
  [tiles |-> TilesDue(g), events |-> g.events # last.events, chat |-> g.chat # last.chat,
   pings |-> g.pings # last.pings, goals |-> g.goals # last.goals]

\* What the loop remembers of a broadcast.
Remembered(g, last) ==
  [events |-> g.events, chat |-> g.chat, pings |-> g.pings, goals |-> g.goals]

\* ResetCountdown's seconds.
Countdown(waited) == {ResetAfter - e : e \in waited}

\* net_sync: what a client shows as countdown once it has handled a tick's
\* ResetCountdown, if one was sent, and its State.
CountdownShown_Kept(v, g, count) == IF count # countdown_sent /\ count # {} THEN count ELSE v.countdown

CountdownShown(v, g, count) ==
  IF g.phase = "Running" THEN {}
  ELSE IF count # countdown_sent /\ count # {} THEN count
  ELSE v.countdown

\* net_sync: a State merged into a view.
Merged(v, g, inc, count) ==
  [phase     |-> g.phase,
   tiles     |-> IF inc.tiles THEN <<g.world, g.tick>> ELSE v.tiles,
   events    |-> IF inc.events THEN Log(g.world, g.events) ELSE v.events,
   chat      |-> IF inc.chat THEN Log(g.world, g.chat) ELSE v.chat,
   pings     |-> IF inc.pings THEN g.pings ELSE v.pings,
   goals     |-> IF inc.goals THEN g.goals ELSE v.goals,
   countdown |-> CountdownShown(v, g, count)]

\* A client's copies of the collections compared by value are the world's.
Right(v, g) == v.pings = g.pings /\ v.goals = g.goals

\* The tick's last part: nothing is sent, and nothing remembered, with nobody
\* connected.
Broadcast(last) ==
  IF clients = {}
    THEN /\ sent' = last
         /\ fresh' = FALSE
         /\ UNCHANGED <<countdown_sent, view, instep>>
    ELSE LET inc   == Included(game', last)
             count == Countdown(over_for')
         IN  /\ sent' = Remembered(game', last)
             /\ countdown_sent' = count
             /\ view' = [c \in clients |-> Merged(view[c], game', inc, count)]
             /\ fresh' = TRUE
             /\ instep' = {c \in clients : Right(view'[c], game')}

\* One due tick of the loop: commands, simulation, reset and broadcast.
Tick ==
  /\ \E g \in Simulated(game), dt \in 0..1 :
       IF Due(g, Waited(g, dt)) /\ g.world < MaxWorlds
         THEN /\ game' = Replaced(g)
              /\ over_for' = {}
              /\ Broadcast(Forgotten)
         ELSE /\ game' = g
              /\ over_for' = Waited(g, dt)
              /\ Broadcast(sent)
  /\ UNCHANGED <<personal, clients>>

SnapNext ==
  \/ \E c \in Conns : Join(c) \/ LeaveWorld(c) \/ Chat(c) \/ Ping(c)
  \/ Tick

SnapSpec == SnapInit /\ [][SnapNext]_snapVars

-----------------------------------------------------------------------------
(* Properties *)

\* Every variable has its type; the pings stay within their cap.
Clock == Nat \X Nat
View ==
  [phase : Phases, tiles : Clock, events : Clock, chat : Clock,
   pings : SUBSET Nat, goals : {0, 1}, countdown : SUBSET (0..ResetAfter)]
SnapTypeOK ==
  /\ personal \in BOOLEAN /\ fresh \in BOOLEAN
  /\ game \in [world : Nat \ {0}, tick : Nat, phase : Phases, events : Nat, chat : Nat,
               pings : SUBSET Nat, goals : {0, 1}]
  /\ Cardinality(game.pings) <= MaxPings
  /\ over_for \in SUBSET (0..ResetAfter) /\ countdown_sent \in SUBSET (0..ResetAfter)
  /\ clients \in SUBSET Conns /\ instep \in SUBSET clients
  /\ sent \in [events : Nat, chat : Nat, pings : SUBSET Nat, goals : {0, 1}]
  /\ view \in [clients -> View]

\* After every broadcast every client holds the event log as it is now: joins
\* and leaves between ticks, stretches with nobody connected, and the restart
\* of the counter with a new world never make the loop believe a client has
\* what it has not.
EventsCurrent ==
  fresh => \A c \in clients : view[c].events = Log(game.world, game.events)

\* A countdown that is on a client's screen after a broadcast is the one that
\* is running: none outlives the reset it announced, none stands still.
CountdownTrue ==
  fresh => \A c \in clients : view[c].countdown \in {{}, Countdown(over_for)}

\* After every broadcast every client holds the event log of the world that runs, and shows
\* the countdown that runs or none: through joins and leaves between ticks, stretches with
\* nobody connected and the counters that restart with a new world.
NothingStale == EventsCurrent /\ CountdownTrue

\* The map rides along by the tick, so it reaches the clients of a world that replaced another only
\* because a new world's first tick is one of those (simloop.rs:895): after every broadcast every
\* client holds a map of the world that runs, and none that a later map should have replaced.
MapCurrent ==
  fresh => \A c \in clients : /\ view[c].tiles[1] = game.world
                             /\ game.tick - view[c].tiles[2] < TilesEvery

\* A client that a broadcast has left with the right pings, missions and techs
\* has the right ones after every later broadcast: what changes while it
\* watches reaches it, in whatever order pings expire, worlds end and are
\* replaced and others come and go.
StaysInStep == [][fresh' => instep \cap clients' \subseteq instep']_snapVars

=============================================================================
