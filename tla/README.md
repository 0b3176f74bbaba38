# Frozen City: the verification project

Frozen City is a co-operative survival game: a simulation (`crates/fc-game`), a
server that runs one simulation thread per world and joins the worlds by
accounts, a market and a Tunnel (`crates/fc-net`), and a Bevy client
(`src/client`). This directory holds TLA+ modules of the parts whose correctness
depends on the order of events, the TLC configurations that check them on small
instances, and TLAPS proofs that carry the most important properties to every
value of the constants.

    tlc -workers 2 -config ColonyJobs.cfg MCColony.tla    # one run
    tlapm ColonyProofs.tla                                # one module's proofs

`PROJECT.json` is the index: components, runs, mutants (one seeded bug per
property, which must break it), the source lines of every definition, hazards
by line, findings, theorems.

## 1. The system

| component | code | state it keeps | operations | modules |
|---|---|---|---|---|
| world loop | `fc-net/src/server/simloop.rs`, `fc-game/src/sim/players.rs` | per connection: player, token; the reconnect store; the roster, `owner_id` and phase of its `GameState` | drain the channel (join, message, leave, kick, migration), tick, broadcast, reset, autosave, stop | Sessions |
| wire and transports | `client.rs`, `ws.rs`, `server/{listener,native,web,config}.rs` | a connection's queues, sockets and threads | connect, pump either way, shut | Wire |
| world manager | `fc-net/src/world_manager.rs` | the map from account (or the Global World's key) to thread; the entry lock | `join_account`, `enter_central`, `return_home`, `stop_all`, `join_all` | WorldManager |
| accounts and visits | `accounts.rs`, the invitations and `visit_friend` of `world_manager.rs` | SQLite rows, the invitation book | sign in, register, invite, visit policy, visit | Lobby |
| market | `fc-net/src/market.rs` | `market_orders`, `market_wallet`, each world's stock | `post`, `take`, `cancel`, `claim_wallet` | Market |
| broadcast | `simloop.rs` 833-957, `src/client/net_sync.rs` | what was last sent; each client's own copy | Welcome, State with parts left out, merge | Snapshots |
| saves | `persist.rs`, `legacy.rs` | a file per world, seventeen formats | save (temporary file, rename), load and migrate | Saves, Migrations |
| colony | `fc-game/src/sim/{command,tick,expedition,players}.rs` | survivors with their jobs, buildings with their headcounts, corpses, the party away, the leader | `apply_command`, `tick`, `launch`, `resolve_return`, `extract_migrants`, `inject_returnees` | Colony |
| the Global World | the central branches of the same files | settlers with their accounts, rooms with theirs | the same, under `can_issue` | Commune |
| ground | `types/{state,building}.rs`, `sim/{command,snow,tick}.rs` | tiles, timber, roads, snow, footprints, wood and coal | place, move, raise, tear down, fell, mine, burn, clear | Land |
| events and goals | `missions.rs`, `tick.rs`, `command.rs` | goals, offers, outbreaks, caravans, the Tunnel | tick, answers, payments | Town, Graduation |
| needs and laws | `tick.rs` from the survivor setup on, `lawbook.rs` | hunger, thirst, cold, fatigue, illness, morale, the pots | tick, enact | Needs |
| walking | `tick.rs`, `road_step`, `world.rs` | position, goal | one step a tick | Walk |
| life cycle | `lifecycle.rs`, `expedition.rs`, `players.rs` | ages, couples, illness, leader, mourning | tick, appoint, depart, return | Life |
| client | `src/client/**` | session, screens, mirrors of the snapshot, tools in hand | switch worlds, redial, draw, build, move, pave | Client, Tools |
| random numbers, game types, rate limits, telemetry, in-browser single player, bot, site, deployment | | | | none (section 7) |

**How they interact.** A connection thread reads its first message
(`listener.rs`), asks the world manager for a world and from then on puts the
player's messages into that world's channel. Every world is one thread: it
handles the messages waiting, ticks five times a second, broadcasts. Worlds share
three things: the databases, written by all threads at once; the manager's map,
under a mutex; and settlers, who move between a personal world and the Global
World in messages that a connection thread carries, under one entry lock. The main
thread stops them all on SIGTERM. The client holds a copy of the world that it
draws and never computes; a lost connection is dialled again by a thread while the
old picture stays up.

**What is hard.** Connections die without saying so, in the middle of a
broadcast, while they are being kicked, while their commands are queued. The map of
worlds is read before blocking waits and used after them. A database statement
commits at once and a stockpile only at the next autosave. Snapshots leave out what
the server believes the client has. A job is stored twice, and by two mechanisms.
Deadlines are set in one place of a tick and compared in another.

**What makes each part correct.** The loop: no ghosts, no doubled identity, a kick is
final, authority goes to the one it belongs to. The wire: in order, complete, and
whichever thread goes first brings the rest to an end. The manager: nobody is lost or
doubled by a trip, the group cap holds, every call returns, what was told to stop
saves. The market: conservation. The broadcast: what is left out is what the client
has. The saves: nothing earned is lost. The colony: no reference dangles, counts stay
within capacities and, in the Global World, are exact. The ground: nothing stands on
anything else, and what is in store is accounted for. The town: nothing outstays its deadline,
the goals never run dry. The client: it plays where it says it does and shows
nothing that its snapshot does not.

## 2. Modules

Each module is the code from one side: the roster of a world in Sessions, its stock
in Market, its settlers in WorldManager and Commune, its snapshot in Snapshots, its
posts in Colony. These sides share no variable in the code but the `GameState`,
of which each keeps the fields its question is about; what the others decide is a
choice over every outcome they can produce. Source lines of every definition are in
PROJECT.json "map".

**Sessions.** Variables are the loop's locals under their own names (`clients`,
`player_of`, `token_of`, `sessions`, `session_order`, ...), the roster, owner and phase of
the state, the save (`disk`), and the connections whose writer has died (`gone`). Actions:
`Join` (new or by token), `Leave`, `Drop` (the writer dies unnoticed), `Cmd`, `Kick`,
`Tick` (apply the commands; the broadcast finds the dead), `Reap` (their teardown),
`WorldReset`, `Autosave`, `Stop`, `Crash`, `Boot`. The channel is drained only when no
teardown is under way, as in the code, where both run on one thread; `Reap` takes one
connection at a time so that every order is reached.

**Wire.** Per connection: its kind (native with four threads, web with one, local with
none), the app's end, the socket in both directions, the server's reader and writer, the
world's mail. An action is one thread moving one frame, or one end going: the app, the
network, the world, a stalled peer, a writer's timeout, a refusal, a kick.

**Market.** `op[w]` is the command the thread of world `w` is inside of, and an action is
one SQL statement with the local work that follows it: `PostCount`, `PostInsert`;
`TakeSelect`, `TakeUpdate` or `TakeLost`, `Credit`, `Sweep`; `Cancel`; `Claim`; `Fail` (a
write that fails; a count that fails is read as none, in `PostCount`); `Save`, `Crash`. A row id is one more than the largest, which is what SQLite
gives to a rowid table without AUTOINCREMENT. `stale` is history: an UPDATE changed an order
that is not the one the SELECT read; `lost`: a credit could not be written; `uncounted`: orders posted
by an account whose count failed when it was at its limit.

**WorldManager.** A world is the settlers in it. `call[c]` is where connection thread `c`
stands in its call: an action is one lock, one send or one wait, and a wait may be
answered, found dropped or - in the cases where it may - run out. `thread[t]` is a world
thread with its inbox: it boots, handles one message, quits (told to, or idle), saves and
removes its map entry, in separate steps. `case`, a record chosen at the start, says whether
waits are answered in time, how many worlds may idle out, whether SIGTERM comes and how
many calls are made. `Undisturbed` holds where waits are answered in time and no world
idles out.

**Lobby.** `visit_friend` is a row of separate looks - the book, the database, the map,
the host's world - one action each (`ReadPolicy`, `Find`, `Answer` or `Unanswered`, `Spawn`), then the
join: `Join` sends it and `TakenIn` or `Dropped` ends the wait. Between them devices sign in, register, move,
invite, change policies, and worlds idle out or wedge (`Wedge`: the thread never reads its inbox again). `seen` is
history: what was true at some moment of a visit.

**Snapshots.** A log is the world it belongs to and its length; the map is the world and
the tick it was taken at. `Tick` simulates, perhaps counts down or replaces the world, and
broadcasts; `Merged` is the client.

**Saves** and **Migrations.** Migrations is pure: a version is its list of fields, and
every hop of `legacy.rs` says what it does field by field. Saves runs them: `Boot` reads
whatever version is on the disk (`BootBlind` when it cannot), `BeginSave`, `WriteTmp`,
`RenameTmp`, with `SaveFails` and `Kill` between any two.

**Colony.** One record. Each command is an action; `Tick` composes the tick's phases in
the code's order - construction, burials, deaths, arrivals, the party's return, the
verdict - and takes from each any outcome the simulation can produce. Who dies and when a
site is done are choices, since they depend on heat, food, weather and distances.

**Commune.** The same state on a central world, where a settler and a room each have an
account: `JoinCommune`, `LeaveCommune`, migrants in (`Settle`) and out (`Withdraw`), every
command on a room under `can_issue`, posting and relieving, finishing, the furnace's crew,
and `RestartServer`, which keeps the save and starts player numbers again.

**Land.** Tiles with timber or coal, roads, snow, rooms by footprint, the people's
errands, one order of snow a tile. Wood is counted in the hundredths the furnace's rates and
penalty are written in. Commands place, move, turn, raise, fit and tear down; `Tick` is one action in the
code's order: orders, chopping and carrying, the furnace, production, building, snow.

**Town** and **Graduation.** Town is the tick's timetable: goals and their cycles, offers,
migrants, caravans, outbreaks, births, and the Tunnel dug by payments. Graduation is what the
Tunnel promises - the way opens once, never shuts, takes a fixed number of payments and
ends the game - and `WayOut` is the refinement: Town implements it.

**Needs.** One tick over every person in roster order: meals and drinks from the pots,
cold, fatigue, illness, morale, and where each is headed, under the laws. Rates are the
code's rates in integer units. **Walk** is `road_step` over drifts and roads; **Life** is ages,
couples, infection, death, leaders and mourning while some are away.

**Client** and **Tools.** Client is the session (`build`, `screen`, `next`, `session`,
`net`, `dial`, `view`) and the mirrors that draw (`seen`, `shown`, `alive`): buttons ask for
the other screen, `Transition` makes the change at a later frame, `WatchDisconnect` and
`DialEnds` redial. Tools is the hand on the map: armed kind, ghost, road stroke, moving,
modals, by mouse, finger and hotkey.

`MC*` modules give constants and, where one run covers independent modules, run them
side by side: each of their steps is one of them moving, the others standing.

## 3. What the runs check

Every passing run is exhaustive within its bounds. A P marks what section 5 proves for
every value of the constants.

**sessions_world** (MCSessions). A shared world through two process lives: identities
unique (P), maps and roster agree (P), the Owner role where `owner_id` says (P), no
queued command of someone who has left (P), a saved session goes only by return, kick,
eviction, reset or the end of the process (P), and a dead connection is torn down
(`GhostsReaped`). Beside it one connection of each kind: `NothingLostOnTheWay` (P) -
frames reach the world in order from the first, an app told its connection is gone has
heard everything - and `EveryoneLetGo`. *Bounds:* one account and guests, two connections
per life, a store of one place, so that two departures evict; three frames each way, so that
one can be in each hand.

**market_book** (MCMarket), three instances, one per behaviour: three colonies and the Global World with every
statement succeeding; two colonies of which one account posts from both; and two colonies where any statement may
fail and the process be killed between any two. `GoodsAndGoldKept` (P: everything adds up; a failed credit loses what
it carried, and until a crash nothing is doubled) and `ReadsStillTrue` (P: what was affordable when checked
is affordable when debited; the order limit is exceeded by less than the worlds an account posts from, and by
the orders posted on a failed count). *Bounds:* two takers for one order and its poster; piles of 1 or 2;
partial fills; a limit of one order and two posts, so that the second one meets it and a crash can fall in every gap.

**manager_journeys** (MCWorldManager). Four cases: prompt answers with two devices and
three calls; waits that run out and a world that idles out; SIGTERM at any point; both
SIGTERM and an idling world. `EachInOneWorld` (P: nobody lost or doubled by undisturbed trips),
`GroupWithinCap` (P), `ToldWorldsSaved` (P), `CallsReturn`. *Bounds:* four settlers of
one account and a cap of two, so that a group is cut; up to six threads, so that the
central world is respawned under a running call.

**lobby_visits** (MCLobby), two subjects. A host with one device and a guest with two:
`AdmittedByRight` (P), `OnePopup` (P), and `VisitReturns` - a visit ends with a place or a refusal,
unless the host's world wedges between its answer and the join. *Bounds:* one invitation, worlds that start
twice, so that each of the four looks of a visit can be made stale; the guest's second device moves, for the
popup, and visits nobody. And people: three ids and days of three ticks, an illness of four, `TroublesPass`:
a course of an illness runs down, and no mourning goes on beside a living leader. An illness may
be caught anew in the tick it ends, so nothing is said of how long somebody may go on being ill.

**snapshots_reset** (MCSnapshots). Two clients, three worlds one after the other:
`NothingStale` (P), `MapCurrent` - nobody is left with the map of a replaced world, since a world's
first tick is one that carries it. Pings, missions and techs (`StaysInStep`) are left to section 5.
*Bounds:* worlds of 6 ticks, longer than the tile
cadence of 5; symmetric clients. Beside it one save file of every version: `MigratedWhole` (P),
`NeverTorn` (P), `ProgressKept` (P).

**colony_jobs** (MCColony). A personal colony - `NamesResolve` (P), `CrewsFit` (P) - or the
Global World with two accounts - `PostsCountTheirWorkers` (P), `RoomsObeyTheirAccount` (P).
*Bounds:* a population ceiling of 2 and parties of 1, so that an arrival fills the
colony while a party is away; ids run through deaths and returns; session numbers are
used again after a restart.

**town_tick** (MCTown), four subjects, one per behaviour. Goals: four days of two ticks,
two harder rounds, `NothingOverdue` (P), `GoalsAhead` (P) and the refinement `WayOut` (P).
Ground: a strip of four tiles with a furnace, a seam and a wood, two people and three commands,
`FootprintsApart` (P), `LandHolds` (P), `StoresAccountedFor` (P). Needs: a worker, an idler who is
ill and a child over seven ticks of four-tick days, in a poor town and in a rich one,
`FedWhileItLasts` (P), `BunkedNeverTired` (P). Walk: all pairs of five places on four grounds
(even, deep, a road, half cleared), `WalksInTime`: at most 60 ticks. *Bounds:* a room of two
tiles may shift by one, half on its own old ground; a drift of 79, one below the depth at which
`walk_drift` traps.

**client_play** (MCClient). Either the session - every order of worlds, failed switches,
outages, redials and frames, native and web: `PlaysWhereItSays` (P), `DrawsTheSnapshot` (P: of a
version noted nothing else is on the screen, and all that is drawn by a record that teardown resets is there), `OutageEnds` - or the tools on a map of 3 by 2 tiles: `ToolsHold` (P). *Bounds:* three
scenes (empty, one of everything, the site finished), two versions, an inbox of two.

**Fairness.** Sessions: the sim thread keeps ticking and finishes a teardown
(`WF(Tick)`, `WF(Reap)`) - a loop with no exit but stop; players, sockets and operators owe
nothing. Wire: each thread is scheduled and a wait with a timeout runs out. WorldManager:
connection, world and main threads are scheduled and a free mutex is taken by some waiter;
no timeout is assumed to fire where the case lets it be answered in time, and `join` has none
at all (`config.rs:282`). Lobby: a visit's own thread, its waits with a timeout, and that a world which still
reads its inbox comes to a join; no world owes an answer to a question, a wedged one owes nothing.
Life: the world ticks. Client: frames come, a dial ends, an open connection is answered -
but may be cut at once. No call, command, join or press is ever assumed to happen.

**Deadlock** checking is off everywhere, because each bounded instance ends: ids, calls,
posts and worlds run out, and a stopped process or a lost world is a legitimate end.
Where threads wait for each other, `CallsReturn`, `VisitReturns` and `EveryoneLetGo` ask
what the deadlock check would.

## 4. Where the code departs from what it says

Four runs are expected to fail, each on one statement of a comment:

- **life_couples**: `people.rs:195-197` says `partner_id` is symmetric by construction. The
  Tunnel takes a person out without touching the partner's link and brings him back under
  a new id (`players.rs:237`): one half names an id nobody has, and is never paired again.
- **needs_beds**: `state.rs:704-709` says the night's walk and the night's rest cannot
  disagree. The walk is for the idle and while the furnace burns (`tick.rs:600`), the rest is
  for everybody who has a bunk (842-847).
- **walk_drift**: `tick.rs:649-652` says a greedy step can never trap anyone. Beyond a
  road's end with 95 of snow the best step from either of two tiles is the other (and from
  80 outside a cleared radius).
- **client_leftovers**: `components.rs:163-168` says a stale entry must never keep a building of a new world
  from its bar. `entry(id).or_insert_with` (`buildings.rs:128`) does just that for a site with the
  id of an old one; the records of corpses, graves and travellers outlive the screen likewise.

Met while modelling; the models follow the code:

- *Sessions.* `next_player_id` restarts with the process while `owner_id` is saved, so
  the first stranger after a restart has the owner's number (`players.rs:18-20`). In the
  Global World a room from before accounts were kept obeys whoever has its number.
- *Manager.* `return_home` stops waiting after five seconds; a central world that is only
  slow extracts the settlers for nobody (`world_manager.rs:383`). A thread that ends removes
  whatever entry has its key, perhaps its successor's (511), and a count that times out removes
  the central entry: the next call starts a second simulation of one save. So
  `EachInOneWorld` and `ToldWorldsSaved` are conditioned on `Undisturbed`;
  `GroupWithinCap` is not.
- *Market.* A count of open orders that fails is read as none, and the post goes on past the limit that
  `market.rs:35` states (319). An id freed by a cancel is given to the next order, and an UPDATE by id then
  settles on the old row's terms (422). A crash between a post's INSERT and the next autosave
  leaves goods and order both (350). A visitor trades the host's stock (290). An account in
  two worlds may pass the order count in both, whether or not a query fails.
- *Broadcast.* After a reset the chat count last sent, 0, equals the new one: old chat stays
  on screen (`simloop.rs:821`). Who joins between a ping and the world's end, both after one
  broadcast, keeps the ping.
- *Saves.* Every failure to read a save is taken for no save, and the fresh world then
  overwrites it (`persist.rs:130`). Two simulations of one world share one temporary file.
  Nothing is synced. The frozen mirrors of old formats reuse live nested types.
- *Colony.* `workers` is not always at least the named (`tick.rs:121-123`): an upgrade's
  crew has no names, `ClearSnow` leaves the slot behind, `clamp_workers` takes from the last
  building. A returning party ignores `MAX_POPULATION` (`expedition.rs:205`). A corpse
  stays claimed by somebody sent elsewhere until it fades. Recoveries are matched by name, which is
  not unique.
- *Ground.* `tick.rs:747-748` says each chopped tile loses one unit of wood. The log is credited when the axe
  arrives (676-682) and the unit taken later, if there still is one (752-759): two axes at the last unit,
  or one that arrives at a tree felled long ago, are all credited. `AdjustWorkers` down leaves the furnace errand, though 685 says otherwise.
  Roads may lie under buildings.
- *Global World.* The Tunnel leaves `chop_target`, `bury_target` and `carrying_wood` with
  who goes through it; a log that reaches a home kitchen at mealtime counts as a delivery to the
  furnace (`tick.rs:685-790`). Demolition and completion move other accounts' settlers off posts.
- *Town.* A goal of days may lie beyond the day the game is won (`missions.rs:63`).
- *Needs.* Steady consumption is a third of what `types.rs:310` says a survivor eats;
  `types.rs:398` says about -40 a day where the code nets -20. Who dies in the tick his illness
  ends is announced as frozen.
- *Walk.* "Standing still" is never considered, though `road_step` says so; on even ground
  walks go in eight directions, not straight (1390).
- *Visits.* The wait for a world's answer is bounded so that one wedged thread cannot hang connections for
  ever (`world_manager.rs:32-33`); the join that follows it (213) waits without an end (`config.rs:282`). The host's world found may have ended by the time of the question (209). A popup is
  sent before the invitation is booked. A rate limit documented as sliding tumbles.
- *Wire.* A native writer that meets an error does not shut its socket; a web thread that
  meets a dead world leaves its mail unwritten. A showcase thread's sender keeps a kicked
  connection's writer alive.
- *Client.* Versions are said to be kept so that what a system drew last can never collide with a fresh
  one (`mod.rs:878-879`), but every way into a game starts them at 0 again (`start.rs:108`, 216,
  `account.rs:467`, 519): after a game left at its first snapshot, the first of the next is not drawn. The menu's
  systems are not chained though `pending_switch` relies on it. Going to a friend straight from the
  Global World and then home sends a plain login (`start.rs:71-91`). Hotkeys and the
  Relocate button do not leave the other modes (`roads.rs:35-37`); relocating a demolished
  building swallows clicks until Escape; touch ignores the research modal; selections outlive
  the world they were made in.

## 5. What is proved

The theorems rest only on the assumptions on constants that each module states by name and
TLC evaluates on every run: constants are numbers, prices amounts of goods, sets are finite where they are counted, the
accounts' settlers are disjoint. Everything else - how many connections, accounts, settlers,
buildings, tiles, threads, restarts - is arbitrary.

**Sessions** (SessionsProofs). For all three kinds of world - the central and the personal
one have no TLC run - `RosterMatchesConnections`, `OneIdentityPerPlayer`, `AuthorityRule`, that a
kick is final, `NoGhostCommand` and `SessionsKeepFaith`. None is inductive alone. An identity is
unique because a new id is nobody's, which the code never states (`FreshIds`); authority in
the central world needs that no stored session carries the Owner role (`NoCentralOwner`); `Boot`
needs that a stopped process has forgotten everything (`DownIsEmpty`). `IInv` is their
conjunction, with a lemma per kind of step: leave, drop and reap are one
`DisconnectPreserves`. The reconnect store is a second layer: its order is distinct, its range is
the stored tokens, it is never longer than `MAX_SESSIONS`, and the tokens in flight are
fresh, one per connection and not stored (`StoreInOrder`). Faith and silent ghosts follow from
both.

**Wire** (SessionsProofs). For any connections of any kinds, `NothingLostOnTheWay`. `Sound` says of
one connection: what may be the case given how it was opened; upwards, that what the world has, what
is in the socket and what is queued are consecutive numbers and, while the line is good, all that
were sent; downwards, that what was heard, what the app holds, what is in the socket and what is
mailed add up to what was mailed, and that a socket that is shut belongs to a server that has said
its last word. A step is a lemma on the connection it moves; the others are untouched.

**World manager** (WorldManagerProofs), in three layers. `Always` is inductive with waits that run
out, idling worlds and shutdown: entries lead to threads of their key (`Shape`), who lives in a
running world may live there (`Lodged`), messages are at the right kind of world with
settlers of the sender's account, and request numbers tell an awaited answer from a late one
(`Lettered`), saves likewise (`Saved`), and every call carries what its place allows and its
senders lead to the world they are for (`Calling`). `GroupWithinCap` is read off: an injection
admits the lowest of the group up to the room left. The second layer, for undisturbed
behaviours, is `Told`: a world has one thread and the entry leads to it until SIGTERM; a
question that is waited for is with the thread that is waited on; a call that gives up has found its
thread over; a thread told to stop keeps its entry and is the only one of its key until it is
over, and is then among the drained. `ToldWorldsSaved` follows, and the proof showed that it
needs waits answered in time: a count that times out removes the central entry.
The third, undisturbed and before SIGTERM, is `Census`, from which `EachInOneWorld` follows. A trip
holds the entry lock (`Alone`); whatever a thread was asked, a call still waits for, and inboxes
are in an order in which no settlers stand behind a count or a fetch, nor behind other settlers
(`Letters`); settlers in a message are not at home and fit in, and while there are any no
call has heard of the central world since it took the lock (`Sent`); what a call has
heard there is still true when it acts on it (`Informed`) - so the count it asked for leaves the
room it then fills, and an arrival is admitted whole; and everybody is in a world, a hand, an answer or a
message, and in no two worlds (`Everyone`). `PutBack` is why the order of the inbox must be part of
it: it sends settlers after the answer that would otherwise rule them out.

**Colony** (ColonyProofs). `NamesResolve` and `CrewsFit` for any trades, crews, parties, deaths and
arrivals. `Whole`: ids are given once and are below `next`, people at home and away are apart,
every job, burial and claim is of something there, and a body knows its undertaker. `Fits`: no
building counts more than its trade or its crew. A tick is proved phase by phase, in the
code's order, and each phase keeps both. Crews are the lowest ids of the idle; that taking *n* of
them takes *n* or all is `LowestCount` (Counting), by well-founded induction on the size.

**Global World** (ColonyProofs). `PostsCountTheirWorkers` - exact equality of a headcount and
the people posted - and `RoomsObeyTheirAccount`. `Sound` is `Roll` (ids given once, every post a
room that stands, the furnace among them) and `Counted`; each command is a lemma on who moves from
which post to which.

**Town** (TownProofs). `NothingOverdue`, `GoalsAhead` and that Town implements Graduation
(`WayOut`), for any calendar, goals, prices, loads and fortunes. The invariant is `Sound`: deadlines
lie ahead while the game runs, the goal of days is done only when its day has come - without which
the next cycle's day need not be later than the last - and a running game has not graduated. A tick
is one action of thirteen phases; after the clock has moved every deadline may be just reached
(`AllDue`), and each phase that looks at one turns a part of that into "lies ahead" (`TwoDue`,
`OneDue`, `AllAhead`), which is why their order matters. What a phase leaves alone is `Aim` and `Waiting`.

**Land** (TownProofs). `FootprintsApart` and `LandHolds` on a map of any size with any kinds of
room: `Shape`, the two properties together, and that a forest tile has timber and open ground none, which is what
lets a building rely on its ground while others fell and mine. A tick works, draws and fells one
after the other (`WorksStand`, `DrawnHolds`, `FelledHolds`): each leaves the rooms standing and only
turns woods to open ground.
`StoresAccountedFor` needs of prices only `PriceAssumption`: a refund is at most what the room and its
levels cost even at the discount and with the recovery bonus. `Books` adds to the ground the types (`Fit`: nobody there who was not at first, a seam once
is a seam for good) and says that `Worth` - the store, what bearers carry and what would come back
for every room - never exceeds what was there and what was gathered. Each command is weighed alone
(`Balances`, `CoalBalances`): `RoomPriceIs` and `RaisePays` for rooms, `PavedIs` for a drag of road,
which pays for as many tiles as it can. A tick puts down no more than its axes cut and its bearers
bring (`TurnMoves`), and the mines take from a seam what they bring up (`TickDigs`).
That what was gathered is what the woods lost, and a log per person and felled wood, is `Errands`:
whoever is on the way to a tree that fell (`LateIn`) has a log still to be credited, so the logs
credited and the people who are late together are within the bound. Nobody becomes late but when a
wood falls, because errands lead to trees that stand (`StepLeads`); a blow at a bare tile is struck
by one who was late and no longer is; and a wood that stands after a tick has lost a unit for every
blow (`StandingWood`), summed over the map by `SumCovers`.

**Needs** (TownProofs). `BunkedNeverTired` and `FedWhileItLasts` for any even number of ticks a day,
any people, town and laws. That fatigue stays below the tired band is not inductive: a step by day
adds to it, so what must be known is how much there may be at each hour (`Load`): as many shares of
the hardest shift as ticks have passed since dawn, and since dusk that of a whole day less what a bunk
takes off (`LoadMoves`). It needs that day and night are of one length (`NightIs`), what factors
laws can multiply to (`LawProduct`), and that a death only moves people up the roster (`AliveAre`).
Most is 47.25, reached by someone posted all day under Long Shifts. A round of the roster is a recursion:
`RoundTurns` says what it does to each by induction on who has had his turn, and since the pot only falls,
who could not be served then cannot be served from what is left. `NeedsAssumption` asks of the
start that ids are distinct and nobody is tired, as `mapgen.rs` makes people. What an expedition
tires (`expedition.rs:176`) is not in Needs.

**Snapshots** (RecordsProofs). `NothingStale` and `StaysInStep` for any clients, lengths of worlds and
numbers of them. The last-sent counters are compared by value, so what must be known is what an
equal value means (`SentIsHeld`): totals of one world only grow, a joiner adds a line, and a
world that is replaced forgets what was sent; then an equal total is the same log. `TellsAll` proves it
of a broadcast with the simulation before it left arbitrary.

**Saves** (RecordsProofs). `NeverTorn`, `ProgressKept` and `MigratedWhole`. `SaveInv`: a whole file is a
world of its version, one of an older version is as it was found, a save about to be renamed is all
of the world in memory, and the file is not ahead of it. For the migrations, one row of fresh
values (`Fresh`) is written down, depending only on a stream and an id; each of the ten hops and
seven conversions is shown to keep what a table has and to fill what it lacks from that row
(`Keeps`, `Fills`), so that they agree pairwise without comparing any two; a field once added is
never dropped but `guest_perm` (`NothingDropped`).

**Market** (RecordsProofs). `GoodsAndGoldKept` for any accounts, worlds, stockpiles, prices and books.
`MarketInv` is that every variable has its type, so that nothing is overdrawn, and `CommandsCovered`:
only a world's own thread takes from its stock, and it is inside of one command. The total is four
sums - stockpiles, escrow, wallets, what a thread carries to a wallet - and a lemma per statement says
what it moves from which to which; an UPDATE that takes *n* off an order splits its
escrow (`EscrowSplits`), which needs the order to be the one that was read: that is `stale`. The laws
of `SumFunction` come from Counting: its recursion has a solution, and by induction on the
size of the set the sum is the same whichever element is taken first. The
order limit is counted one statement before the insert, and a count that fails is none. `ReadsHold` has no
hypothesis: an account's orders, with those it is posting on a true count, stay below the limit, the
number of its trading worlds and its orders posted without a count together (`Counted`), for whoever finds
room has counted all but what the others are posting.

**Lobby** (LobbyProofs). `AdmittedByRight` and `OnePopup` for any accounts, devices and worlds.
`visit_friend` carries little from one look to the next, so `Good` says of each step what must have
been seen on the way to it: the invitation from the first, and before the joining the host at home or
an allowance, which is what the step itself no longer checks. `Shown`: an invitation
in the mail has been shown nowhere, and numbers are given once.

**Client** (ClientProofs). `PlaysWhereItSays` and `DrawsTheSnapshot` through any frames, outages and
trips. `AtHome` adds that a redial is under way only in the game, so that a trip, which
goes through the menu, cannot be overtaken by the socket of the world it left, and that a pending
trip is to a world an account can enter. A redial asks for what the flags say (`ReconnectHello`
and `Where` branch alike), and a frame changes no flag. `Recorded`: what is on the screen is what
its record says, and of the mirrors whose record teardown resets (`Reset`) what the record holds is there;
then drawing the differences leaves nothing else on the screen and draws the whole of those. Of bars, travellers,
bodies and graves only the first half is true (`client_leftovers`).

**Tools** (ClientProofs). `ToolsHold` for any kinds, buildings, people, map and limit, and that a line of
`line_tiles` reaches the tile it is drawn to (`LineReaches`). The ghost needs `OneMoved`: while a building is being
moved no other can be picked. The stroke needs `Latched`: a drag in the armed tool, even one
that began beyond the map, is of that tool. That it is one road is proved of the pen: a step
takes it to a touching tile (`LineDrawn`), and a tile is left out only when it is there or the
stroke is full, after which nothing follows (`PaintedUnbroken`); so a full stroke cannot begin a gap.

Only model-checked, and why:

- liveness and what needs ENABLED: `GhostsReaped`, `EveryoneLetGo`, `CallsReturn`, `VisitReturns`,
  `TroublesPass`, `OutageEnds`;
- `MapCurrent`: it rests on the arrival tick being a multiple of the cadence, 225 and 5;
- `WalksInTime`: how long the greedy step takes is a property of the four grounds it is run on - and
  of deep snow it is false (`walk_drift`).

## 6. The bounds, in general

A bound is a constant of the module or its MC module and its name says what it bounds
(`MaxLives`, `MaxPosts`, `MaxThreads`, `MaxId`, `LastTick`, ...). Each is the smallest at which the
hazard it serves happens: a store that evicts, a group that is cut, an id that is used
again, a tile cadence that passes. The theorems above need none of them to be small.

## 7. What is left out

- Random numbers and map generation: functions of a seed; every outcome is a choice.
- Floating point: rates are integers in Needs, positions hundredths in Walk; production rates,
  trampled snow, the furnace's fuel by level, training and rounding of market totals are left out.
- Rate limits and telemetry: a message they drop is a message not sent.
- The encoding of frames, HTTP's static files, TLS. A socket is ordered and loses nothing but its
  tail when it dies.
- Friends, the showcase, cursors, the contribution ledger: single statements or reads.
- The Tunnel building as a fixture; staffing of furnace levels; more than one fitting per room.
- The client's text, layout, sound, interpolation and remaining panels; the in-browser single player,
  which runs the same commands and ticks on one thread.
- The registration bot, examples, site and deployment.

## 8. What would come next

Of the plan the project was built along nothing is left to prove that these provers reach. What
could still be added: production rates and the furnace's fuel by level to Land, a TLC run of the
central and the personal world beside the proofs of Sessions, and the friends' statements.
