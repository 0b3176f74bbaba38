--------------------------------- MODULE Commune ---------------------------------
(***************************************************************************)
(* The Global World: one map shared by the settlers of many accounts       *)
(* (crates/fc-game/src: types/state.rs, can_issue; sim/players.rs, who     *)
(* joins and who comes and goes through the Tunnel;                        *)
(* and what sim/command.rs and sim/tick.rs do otherwise for a central      *)
(* world).                                                                 *)
(*                                                                         *)
(* Nobody owns this world.  A settler obeys the account he came with, a    *)
(* room the account that placed it; a room from before accounts were kept  *)
(* obeys the connection that placed it, and connections are counted anew   *)
(* when the server restarts.  Everyone works by name.  Where things stand  *)
(* is Land's subject, who travels is WorldManager's; coal and food go the  *)
(* way of wood.  The ledger of what each account gave is only looked at.   *)
(***************************************************************************)
EXTENDS Integers, FiniteSets, FiniteSetsExt

CONSTANTS
  Accounts,      \* accounts whose players come here
  NoOne,         \* Option::None, of an account or a connection
  MaxGroup,      \* CENTRAL_MIGRANTS_PER_ACCOUNT
  SiteCrew,      \* CONSTRUCTION_CREW_MAX
  Trade,         \* max_workers of a finished room
  LogsNeeded,    \* FURNACE_LOGS_NEEDED
  RoomCost, RaiseCost, FitCost, Salvage,  \* wood: to place, raise, fit out; back from a room torn down
  TopLevel,      \* BUILDING_MAX_LEVEL
  WoodAtFirst,   \* bound: wood in store at the start, and
  MaxWood,       \* bound: the most that is followed
  MaxKey,        \* bound: ids ever given, to settlers and rooms alike
  MaxSession     \* bound: connections of one run of the server

ASSUME CommuneAssumption ==
  /\ NoOne \notin Accounts /\ NoOne \notin Nat
  /\ {MaxGroup, SiteCrew, Trade, LogsNeeded} \subseteq Nat \ {0}
  /\ {RoomCost, RaiseCost, FitCost, Salvage, TopLevel, WoodAtFirst, MaxWood, MaxKey, MaxSession} \subseteq Nat

VARIABLES
  hub,          \* GameState: [settlers, rooms, players, wood, lit, logs, next]
  nextSession   \* SimWorld.next_player_id

communeVars == <<hub, nextSession>>

Fire == 0     \* the furnace's id
Relic == 1    \* a room from a save older than account ownership, placed by session 1

\* new_game_central, and what an old save of it may hold.
CommuneInit ==
  /\ hub = [settlers |-> [s \in {} |-> NoOne],     \* id -> [owner, post]
            rooms    |-> [b \in {Fire, Relic} |->  \* id -> [account, session, workers, level, busy, fitted]
                            [account |-> NoOne, session |-> IF b = Relic THEN 1 ELSE NoOne, workers |-> 0,
                             level |-> 1, busy |-> b = Fire, fitted |-> FALSE]],
            players  |-> [p \in {} |-> NoOne],     \* session -> account
            wood |-> WoodAtFirst, lit |-> FALSE, logs |-> LogsNeeded, next |-> 2]
  /\ nextSession = 1

-----------------------------------------------------------------------------
(* Authority: can_issue *)

AccountOf(p) == hub.players[p]

\* Mutant: whoever's session number is on the room may change it, account or not.
MayChange_SessionToo(p, b) ==
  hub.rooms[b].session = p \/ (hub.rooms[b].account # NoOne /\ AccountOf(p) = hub.rooms[b].account)

\* Tearing down, raising, fitting, moving, turning.
MayChange(p, b) ==
  IF hub.rooms[b].account # NoOne THEN AccountOf(p) = hub.rooms[b].account ELSE hub.rooms[b].session = p

\* Posting, walking, felling.
MayCommand(p, s) == AccountOf(p) # NoOne /\ hub.settlers[s].owner = AccountOf(p)

Settlers == DOMAIN hub.settlers
Rooms    == DOMAIN hub.rooms
Staff(b) == {s \in Settlers : hub.settlers[s].post = b}
OwnedBy(h, a) == {s \in DOMAIN h.settlers : h.settlers[s].owner = a}

Less(n) == IF n > 0 THEN n - 1 ELSE 0     \* saturating_sub(1)
WithKey(f, k, v) == [x \in DOMAIN f \cup {k} |-> IF x = k THEN v ELSE f[x]]
Keeping(f, S) == [x \in S |-> f[x]]

\* A settler gives up his post, and the room the slot.
OffPost(h, s) ==
  LET b == h.settlers[s].post
  IN  [h EXCEPT !.settlers[s].post = NoOne,
                !.rooms = [r \in DOMAIN @ |-> IF r = b THEN [h.rooms[r] EXCEPT !.workers = Less(@)] ELSE @[r]]]

HubBecomes(h) == hub' = h /\ UNCHANGED nextSession

-----------------------------------------------------------------------------
(* Coming and going *)

\* player_joined_as: a guest like everyone, under the next number.
JoinCommune(a) ==
  /\ nextSession <= MaxSession
  /\ hub' = [hub EXCEPT !.players = WithKey(@, nextSession, a)]
  /\ nextSession' = nextSession + 1

LeaveCommune(p) == HubBecomes([hub EXCEPT !.players = Keeping(@, DOMAIN @ \ {p})])

\* The server stops and starts: the world comes back from its save, nobody is connected, and
\* connections are counted from 1.
RestartServer ==
  /\ hub' = [hub EXCEPT !.players = Keeping(@, {})]
  /\ nextSession' = 1

\* inject_migrants, one at a time: the cap is looked at again for each.
Settle(a) ==
  /\ Cardinality(OwnedBy(hub, a)) < MaxGroup /\ hub.next <= MaxKey
  /\ HubBecomes([hub EXCEPT !.settlers = WithKey(@, hub.next, [owner |-> a, post |-> NoOne]), !.next = @ + 1])

Withdrawn_PostsKept(h, S) ==
  [h EXCEPT !.settlers = Keeping(@, DOMAIN @ \ S)]

\* extract_settlers: each gives up his post and leaves the roster.
Withdrawn(h, S) ==
  [h EXCEPT !.settlers = Keeping(@, DOMAIN @ \ S),
            !.rooms = [b \in DOMAIN @ |->
              [h.rooms[b] EXCEPT !.workers = IF @ > Cardinality(Staff(b) \cap S) THEN @ - Cardinality(Staff(b) \cap S) ELSE 0]]]

Withdraw(a) ==
  /\ OwnedBy(hub, a) # {}
  /\ HubBecomes(Withdrawn(hub, OwnedBy(hub, a)))

-----------------------------------------------------------------------------
(* Commands of a connected player *)

\* Nobody is called to a new site here: every settler is somebody's.
PlaceRoom(p) ==
  LET site == [account |-> AccountOf(p), session |-> p, workers |-> 0, level |-> 1, busy |-> TRUE, fitted |-> FALSE]
  IN  /\ hub.wood >= RoomCost /\ hub.next <= MaxKey
      /\ HubBecomes([hub EXCEPT !.wood = @ - RoomCost, !.rooms = WithKey(@, hub.next, site), !.next = @ + 1])

\* Whoever worked there is idle.
DemolishRoom(p, b) ==
  /\ b # Fire /\ MayChange(p, b) /\ hub.wood + Salvage <= MaxWood
  /\ HubBecomes([hub EXCEPT !.wood = @ + Salvage, !.rooms = Keeping(@, Rooms \ {b}),
                         !.settlers = [s \in Settlers |-> IF @[s].post = b THEN [@[s] EXCEPT !.post = NoOne] ELSE @[s]]])

\* crew_from_idle: how many idle hands join a site that opens; here everybody works by name.
Called(b) == 0

Reopened(h, b) ==
  [h EXCEPT !.rooms[b].busy = TRUE, !.rooms[b].workers = h.rooms[b].workers + Called(b)]

UpgradeRoom(p, b) ==
  /\ MayChange(p, b)
  /\ ~hub.rooms[b].busy /\ hub.rooms[b].level < TopLevel /\ hub.rooms[b].fitted /\ hub.wood >= RaiseCost
  /\ HubBecomes(Reopened([hub EXCEPT !.wood = @ - RaiseCost, !.rooms[b].level = @ + 1, !.rooms[b].fitted = FALSE], b))

\* The bench the room's level asks for.
FitRoom(p, b) ==
  /\ b # Fire /\ MayChange(p, b) /\ ~hub.rooms[b].busy /\ ~hub.rooms[b].fitted /\ hub.wood >= FitCost
  /\ HubBecomes([hub EXCEPT !.wood = @ - FitCost, !.rooms[b].fitted = TRUE])

\* RelocateBuilding, RelocateFacing, RotateBuilding: free, and a site again.
MoveRoom(p, b) ==
  /\ b # Fire /\ MayChange(p, b) /\ ~hub.rooms[b].busy
  /\ HubBecomes(Reopened(hub, b))

Capacity(b) == IF hub.rooms[b].busy THEN SiteCrew ELSE IF b = Fire THEN 0 ELSE Trade

\* AssignSurvivor to a room: everyone here works by name, so it is a new pair of hands.
PostSettler(p, s, b) ==
  LET h == OffPost(hub, s)
  IN  /\ MayCommand(p, s) /\ hub.settlers[s].post # b /\ hub.rooms[b].workers < Capacity(b)
      /\ HubBecomes([h EXCEPT !.settlers[s].post = b, !.rooms[b].workers = @ + 1])

\* AssignSurvivor to nothing; MoveSurvivor and ChopTile take him off the job too.
RelieveSettler(p, s) ==
  /\ MayCommand(p, s) /\ hub.settlers[s].post # NoOne
  /\ HubBecomes(OffPost(hub, s))

-----------------------------------------------------------------------------
(* The tick of a central world *)

\* A site is finished: the lowest ids keep their places, as many as the trade employs.
FinishRoom(b) ==
  LET kept == {s \in Staff(b) : Cardinality({r \in Staff(b) : r < s}) < Trade}
  IN  /\ b # Fire /\ hub.rooms[b].busy /\ hub.rooms[b].workers > 0
      /\ HubBecomes([hub EXCEPT !.rooms[b].busy = FALSE,
                             !.rooms[b].workers = IF @ < Trade THEN @ ELSE Trade,
                             !.settlers = [s \in Settlers |-> IF s \in Staff(b) \ kept THEN [@[s] EXCEPT !.post = NoOne] ELSE @[s]]])

WorkRoom(b) ==
  /\ b # Fire /\ ~hub.rooms[b].busy /\ hub.rooms[b].fitted /\ hub.rooms[b].workers > 0 /\ hub.wood < MaxWood
  /\ HubBecomes([hub EXCEPT !.wood = @ + 1])

\* A settler on the fire's crew brings a log; the last one lights it and frees the crew.
BringLog(s) ==
  /\ hub.settlers[s].post = Fire /\ ~hub.lit
  /\ HubBecomes(IF hub.logs > 1 THEN [hub EXCEPT !.logs = @ - 1]
                ELSE [hub EXCEPT
                        !.logs = 0, !.lit = TRUE, !.rooms[Fire].busy = FALSE, !.rooms[Fire].workers = 0,
                        !.settlers = [r \in Settlers |-> IF @[r].post = Fire THEN [@[r] EXCEPT !.post = NoOne] ELSE @[r]]])

\* A tree felled by hand.
FellTree(p, s) ==
  /\ MayCommand(p, s) /\ hub.wood < MaxWood
  /\ HubBecomes([OffPost(hub, s) EXCEPT !.wood = @ + 1])

CommuneNext ==
  \/ \E a \in Accounts : JoinCommune(a) \/ Settle(a) \/ Withdraw(a)
  \/ RestartServer
  \/ \E p \in DOMAIN hub.players :
       \/ LeaveCommune(p) \/ PlaceRoom(p)
       \/ \E b \in Rooms : DemolishRoom(p, b) \/ UpgradeRoom(p, b) \/ FitRoom(p, b) \/ MoveRoom(p, b)
       \/ \E s \in Settlers : RelieveSettler(p, s) \/ FellTree(p, s) \/ \E b \in Rooms : PostSettler(p, s, b)
  \/ \E b \in Rooms : FinishRoom(b) \/ WorkRoom(b)
  \/ \E s \in Settlers : BringLog(s)

CommuneSpec == CommuneInit /\ [][CommuneNext]_communeVars

-----------------------------------------------------------------------------
(* Properties *)

\* A building never counts a worker who isn't standing in it, nor forgets one who is: through
\* every posting, completion, demolition and journey home.
PostsCountTheirWorkers == \A b \in Rooms : hub.rooms[b].workers = Cardinality(Staff(b))

\* What a step leaves of the rooms of an account none of whose players is connected.
OnlyItsAccount ==
  \A b \in DOMAIN hub.rooms :
    LET room == hub.rooms[b]
    IN  room.account # NoOne /\ (\A p \in DOMAIN hub.players : AccountOf(p) # room.account)
        => /\ b \in DOMAIN hub'.rooms
           /\ hub'.rooms[b].level = room.level /\ hub'.rooms[b].fitted = room.fitted
           /\ (hub'.rooms[b].busy => room.busy)

\* What an account placed is pulled down, raised, fitted or moved only while that account is
\* here to do it, even after a restart has given its session number to somebody else.
RoomsObeyTheirAccount == [][OnlyItsAccount]_communeVars
==================================================================================
