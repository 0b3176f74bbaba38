---------------------------------- MODULE Lobby ---------------------------------
(***************************************************************************)
(* Between the worlds (crates/fc-net/src: accounts.rs, the invitations and  *)
(* visits of world_manager.rs, server/listener.rs and the social messages   *)
(* of server/simloop.rs).                                                   *)
(*                                                                         *)
(* A device signs in and is placed in its account's own world, in the       *)
(* central one, or, on an invitation, in a friend's.  visit_friend is a     *)
(* row of separate looks at shared things - the book of invitations, the    *)
(* accounts database, the map of worlds, the host's world - between which   *)
(* hosts come and go, change their minds and worlds idle out.  The trips of *)
(* settlers are WorldManager's subject, what a world does with whoever      *)
(* joins it is Sessions'.                                                   *)
(***************************************************************************)
EXTENDS Naturals, FiniteSets

CONSTANTS
  Accounts,    \* accounts that may come to exist
  Registered0, \* those in the database at first
  Devices,
  AccountOf,   \* device -> the account its player signs in as
  Central,     \* the key of the central world
  Hosts,       \* bound: those who invite, are visited and whose worlds idle out
  MaxInvites,  \* bound: invitations sent
  MaxBoots     \* bound: account -> times its world is started

Out == "out"   \* the place of a device that is in no world

ASSUME LobbyAssumption ==
  /\ Registered0 \subseteq Accounts /\ AccountOf \in [Devices -> Accounts]
  /\ Central \notin Accounts /\ Out \notin Accounts \cup {Central} /\ Hosts \subseteq Accounts
  /\ MaxInvites \in Nat /\ MaxBoots \in [Accounts -> Nat]

VARIABLES
  registered, policy,  \* tables accounts and visit_policy (those who allow_offline)
  book,                \* InviteBook: <<host, visitor>> pairs that have not run out
  invitation,          \* history: the invitations sent, in order
  writing,             \* the central loop, having told the guest, is about to write this pair
  mail,                \* DeliverServerMsg in a personal world's inbox: numbers of invitations
  heard,               \* history: <<number, device, world>>, a popup shown
  worlds,              \* WorldManager.worlds: account -> [boot, up]; up: its loop still runs
  wedged,              \* the accounts whose world's thread will never read its inbox again
  boots,               \* account -> times its world was started
  at,                  \* device -> the world it is joined to, or Out
  call,                \* device -> its visit_friend under way
  seen                 \* history: device -> what was true at some moment of its visit
vars == <<registered, policy, book, invitation, writing, mail, heard, worlds, wedged, boots, at, call, seen>>

None == <<>>
Idle == [step |-> "none"]

Present(a, w) == \E d \in Devices : at[d] = w /\ AccountOf[d] = a   \* players.any(account)
Entry(a)      == a \in DOMAIN worlds
Up(a)         == Entry(a) /\ worlds[a].up
Reads(a)      == Up(a) /\ a \notin wedged

(* ---------------------------- signing in ------------------------------- *)

\* get_or_spawn: the entry in the map, whatever became of its thread, or a fresh thread.
Spawned(h) == IF Entry(h) THEN worlds
              ELSE [w \in DOMAIN worlds \cup {h} |-> IF w = h THEN [boot |-> boots[h] + 1, up |-> TRUE] ELSE worlds[w]]
Boots(h)   == IF Entry(h) THEN boots ELSE [boots EXCEPT ![h] = @ + 1]
MayBoot(h) == Entry(h) \/ boots[h] < MaxBoots[h]

\* authenticate, then join_account: a dead entry is dropped and the world started again.  (In a
\* wedged world it would wait as a visit does, see Join, and the device would be in no world.)
Home(d) ==
  LET a == AccountOf[d]
  IN  /\ Reads(a) \/ (~Up(a) /\ boots[a] < MaxBoots[a])
      /\ worlds' = IF Up(a) THEN worlds
                   ELSE [w \in DOMAIN worlds \cup {a} |-> IF w = a THEN [boot |-> boots[a] + 1, up |-> TRUE] ELSE worlds[w]]
      /\ boots' = IF Up(a) THEN boots ELSE [boots EXCEPT ![a] = @ + 1]
      /\ at' = [at EXCEPT ![d] = a]

Free(d) == at[d] = Out /\ call[d] = Idle

Login(d) ==
  /\ Free(d) /\ AccountOf[d] \in registered /\ Home(d)
  /\ UNCHANGED <<registered, policy, book, invitation, writing, mail, heard, wedged, call>>

\* register_account: the UNIQUE constraints decide, and whoever is let in is signed in.
Register(d) ==
  /\ Free(d) /\ AccountOf[d] \notin registered /\ Home(d)
  /\ registered' = registered \cup {AccountOf[d]}
  /\ UNCHANGED <<policy, book, invitation, writing, mail, heard, wedged, call>>

\* EnterCentral of a graduate.
EnterCentral(d) ==
  /\ Free(d) /\ AccountOf[d] \in registered
  /\ at' = [at EXCEPT ![d] = Central]
  /\ UNCHANGED <<registered, policy, book, invitation, writing, mail, heard, worlds, wedged, boots, call>>

Leave(d) ==
  /\ at[d] # Out
  /\ at' = [at EXCEPT ![d] = Out]
  /\ UNCHANGED <<registered, policy, book, invitation, writing, mail, heard, worlds, wedged, boots, call>>

\* A world with nobody in it idles out; its thread takes its entry away a moment later.
Evict(h) ==
  /\ Reads(h) /\ \A d \in Devices : at[d] # h
  /\ worlds' = [worlds EXCEPT ![h].up = FALSE]
  /\ UNCHANGED <<registered, policy, book, invitation, writing, mail, heard, wedged, boots, at, call>>
Drop(h) ==
  /\ Entry(h) /\ ~Up(h)
  /\ worlds' = [w \in DOMAIN worlds \ {h} |-> worlds[w]]
  /\ mail' = {n \in mail : invitation[n][2] # h}
  /\ UNCHANGED <<registered, policy, book, invitation, writing, heard, wedged, boots, at, call>>

\* The world's thread stops reading: it is stuck in a save on a disk that no longer answers, say.
Wedge(h) ==
  /\ Reads(h)
  /\ wedged' = wedged \cup {h}
  /\ UNCHANGED <<registered, policy, book, invitation, writing, mail, heard, worlds, boots, at, call>>

(* ---------------------------- invitations ------------------------------ *)

\* Mutant: the guest is told wherever there is a connection.
Told_Both(host, guest, n) ==
  /\ heard' = heard \cup {<<n, d, Central>> : d \in {e \in Devices : at[e] = Central /\ AccountOf[e] = guest}}
  /\ mail'  = IF Up(guest) THEN mail \cup {n} ELSE mail

\* Who hears of an invitation: the guest's devices in the central world or, if there is none,
\* those in the guest's own, when its loop comes to it.
Told(host, guest, n) ==
  IF Present(guest, Central)
  THEN heard' = heard \cup {<<n, d, Central>> : d \in {e \in Devices : at[e] = Central /\ AccountOf[e] = guest}}
       /\ mail' = mail
  ELSE mail' = (IF Up(guest) THEN mail \cup {n} ELSE mail) /\ heard' = heard

\* ClientMsg::Invite, in the central world, up to the telling.
Invite(d, guest) ==
  LET n == Cardinality(DOMAIN invitation) + 1
  IN  /\ at[d] = Central /\ AccountOf[d] \in Hosts /\ guest # AccountOf[d] /\ writing = None /\ n <= MaxInvites
      /\ invitation' = [k \in 1..n |-> IF k = n THEN <<AccountOf[d], guest>> ELSE invitation[k]]
      /\ Told(AccountOf[d], guest, n)
      /\ writing' = <<AccountOf[d], guest>>
      /\ UNCHANGED <<registered, policy, book, worlds, wedged, boots, at, call>>

\* InviteBook::invite, the same handler's next step; nothing else of that loop runs between.
Write ==
  /\ writing # None
  /\ book' = book \cup {writing} /\ writing' = None
  /\ UNCHANGED <<registered, policy, invitation, mail, heard, worlds, wedged, boots, at, call>>

\* DeliverServerMsg: to every device of the account that is here by then.
Deliver(n) ==
  LET guest == invitation[n][2]
  IN  /\ n \in mail /\ Reads(guest)
      /\ mail' = mail \ {n}
      /\ heard' = heard \cup {<<n, d, guest>> : d \in {e \in Devices : at[e] = guest /\ AccountOf[e] = guest}}
      /\ UNCHANGED <<registered, policy, book, invitation, writing, worlds, wedged, boots, at, call>>

\* INVITE_TTL has passed.
Expire(pair) ==
  /\ pair \in book /\ book' = book \ {pair}
  /\ UNCHANGED <<registered, policy, invitation, writing, mail, heard, worlds, wedged, boots, at, call>>

\* SetVisitPolicy, from whichever world its player is in.
SetVisitPolicy(d, allow) ==
  LET a == AccountOf[d]
  IN  /\ at[d] # Out /\ at[d] \notin wedged /\ a \in Hosts
      /\ policy' = IF allow THEN policy \cup {a} ELSE policy \ {a}
      /\ UNCHANGED <<registered, book, invitation, writing, mail, heard, worlds, wedged, boots, at, call>>

(* ------------------------------- visits -------------------------------- *)

Going(d, c) == /\ call' = [call EXCEPT ![d] = c]
               /\ UNCHANGED <<registered, policy, book, invitation, writing, mail, heard, worlds, wedged, boots, at>>
Refused(d)  == Going(d, Idle)

\* VisitFriend: authenticate, and InviteBook::valid.
Visit(d, h) ==
  /\ Free(d) /\ AccountOf[d] \in registered /\ <<h, AccountOf[d]>> \in book
  /\ Going(d, [step |-> "policy", host |-> h])

\* accounts::visit_policy; a database that cannot be read allows nothing.
ReadPolicy(d) ==
  /\ call[d].step = "policy"
  /\ \E allowed \in {call[d].host \in policy, FALSE} :
       Going(d, [step |-> "find", host |-> call[d].host, offline |-> allowed])

\* The map of worlds, and OwnerOnline sent to what it names.  A world that has none, or a dead
\* one, is started only for a host who admits guests while away.
Find(d) ==
  LET c == call[d]
  IN  /\ c.step = "find"
      /\ IF Up(c.host)
         THEN Going(d, [step |-> "asking", host |-> c.host, offline |-> c.offline, boot |-> worlds[c.host].boot])
         ELSE IF c.offline THEN Going(d, [step |-> "spawning", host |-> c.host]) ELSE Refused(d)

\* Mutant: whatever the world answers, the visitor goes on.
Admits_Any(online, c) == TRUE

\* What is made of the answer: no owner, no entry, unless the host admits guests while away.
Admits(online, c) == online \/ c.offline

\* The thread that was found still runs, and still reads what it is sent.
Listens(c) == Up(c.host) /\ worlds[c.host].boot = c.boot
Serves(c)  == Listens(c) /\ Reads(c.host)

\* The host's world answers; it takes the message only while it runs.
Answer(d) ==
  LET c == call[d]
  IN  /\ c.step = "asking" /\ Serves(c)
      /\ IF Admits(Present(c.host, c.host), c)
         THEN Going(d, [step |-> "joining", host |-> c.host, boot |-> c.boot])
         ELSE Refused(d)

\* Mutant: recv, without a timeout, on a world that may be wedged.
Unanswered_Never(d) == FALSE /\ Refused(d)

\* MIGRATE_REPLY_TIMEOUT passes, or the question died with its world.
Unanswered(d) == call[d].step = "asking" /\ Refused(d)

Spawn(d) ==
  LET h == call[d].host
  IN  /\ call[d].step = "spawning" /\ MayBoot(h)
      /\ worlds' = Spawned(h) /\ boots' = Boots(h)
      /\ call' = [call EXCEPT ![d] = [step |-> "joining", host |-> h, boot |-> Spawned(h)[h].boot]]
      /\ UNCHANGED <<registered, policy, book, invitation, writing, mail, heard, wedged, at>>
NoRoom(d) == call[d].step = "spawning" /\ ~Entry(call[d].host) /\ Refused(d)  \* MAX_ACCOUNT_WORLDS

\* join: the message to the very thread that was found, if it still runs ...
Join(d) ==
  LET c == call[d]
  IN  /\ c.step = "joining"
      /\ IF Listens(c) THEN Going(d, [step |-> "waiting", host |-> c.host, boot |-> c.boot])
                       ELSE Refused(d)

\* ... and `id_rx.recv()`, which has no timeout: the world takes the visitor in, or is over with
\* the message in its inbox.
TakenIn(d) ==
  LET c == call[d]
  IN  /\ c.step = "waiting" /\ Serves(c)
      /\ at' = [at EXCEPT ![d] = c.host] /\ call' = [call EXCEPT ![d] = Idle]
      /\ UNCHANGED <<registered, policy, book, invitation, writing, mail, heard, worlds, wedged, boots>>
Dropped(d) == call[d].step = "waiting" /\ ~Listens(call[d]) /\ Refused(d)

VisitStep(d) == \/ ReadPolicy(d) \/ Find(d) \/ Answer(d) \/ Unanswered(d) \/ Spawn(d) \/ NoRoom(d)
                \/ Join(d) \/ TakenIn(d) \/ Dropped(d)

(* ------------------------------ behaviour ------------------------------ *)

Init ==
  /\ registered = Registered0 /\ policy = {} /\ book = {} /\ invitation = <<>>
  /\ writing = None /\ mail = {} /\ heard = {}
  /\ worlds = [w \in {} |-> 0] /\ wedged = {} /\ boots = [a \in Accounts |-> 0]
  /\ at = [d \in Devices |-> Out] /\ call = [d \in Devices |-> Idle]
  /\ seen = [d \in Devices |-> {}]

\* What is so, in this state, of the visit a device is making.
Facts(d) ==
  IF call[d] = Idle THEN {}
  ELSE LET h == call[d].host
       IN  (IF <<h, AccountOf[d]>> \in book THEN {"invited"} ELSE {})
           \cup (IF Present(h, h) THEN {"host"} ELSE {}) \cup (IF h \in policy THEN {"policy"} ELSE {})

\* History: what was so is kept until the device is out again.
Witness == seen' = [d \in Devices |-> IF call'[d] = Idle /\ at'[d] = Out THEN {} ELSE seen[d] \cup Facts(d)']

Step ==
  \/ \E d \in Devices : Login(d) \/ Register(d) \/ EnterCentral(d) \/ Leave(d) \/ VisitStep(d)
  \/ \E d \in Devices, a \in Accounts : Invite(d, a)
  \/ \E d \in Devices, h \in Hosts : Visit(d, h)
  \/ \E d \in Devices, allow \in BOOLEAN : SetVisitPolicy(d, allow)
  \/ \E h \in Hosts : Evict(h) \/ Drop(h) \/ Wedge(h)
  \/ \E n \in DOMAIN invitation : Deliver(n)
  \/ \E pair \in book : Expire(pair)
  \/ Write
Next == Step /\ Witness

Spec == Init /\ [][Next]_vars
\* A connection's thread is scheduled and its waits with a timeout run out; a world that reads its
\* inbox comes to the join in it.  It owes no answer to the question, and a wedged world nothing.
VisitGoesOn(d) ==
  /\ \/ ReadPolicy(d) \/ Find(d) \/ Unanswered(d) \/ Spawn(d) \/ NoRoom(d)
     \/ Join(d) \/ TakenIn(d) \/ Dropped(d)
  /\ Witness
FairSpec == Spec /\ \A d \in Devices : WF_vars(VisitGoesOn(d))

(* ------------------------------ properties ----------------------------- *)

TypeOK ==
  /\ registered \subseteq Accounts /\ policy \subseteq Accounts /\ book \subseteq Accounts \X Accounts
  /\ DOMAIN worlds \subseteq Accounts /\ \A a \in Accounts : boots[a] \in 0..MaxBoots[a]
  /\ at \in [Devices -> Accounts \cup {Central, Out}]
  /\ wedged \subseteq DOMAIN worlds /\ mail \subseteq DOMAIN invitation /\ DOMAIN call = Devices

\* Nobody is in another's world but by right: at some moment of the visit an invitation stood,
\* and at some moment of it the host was home or had agreed to guests while away - although the
\* four are looked at one after the other while hosts, policies and worlds come and go.
AdmittedByRight ==
  \A d \in Devices : at[d] \in Accounts \ {AccountOf[d]} =>
    "invited" \in seen[d] /\ seen[d] \cap {"host", "policy"} # {}

\* One invitation is never shown both in the central world and at home, whichever of an
\* account's devices moves where before the popup arrives.
OnePopup ==
  \A x, y \in heard : x[1] = y[1] => x[3] = y[3]

\* Every visit is answered, with a place or a refusal, by a world that answers nothing too - unless
\* the world wedges between its answer and the join, which waits without a timeout
\* (world_manager.rs:213, config.rs:282), though world_manager.rs:32-33 says that one wedged world
\* thread cannot hang connections for ever.
Hangs(d)     == call[d].step = "waiting" /\ call[d].host \in wedged
VisitReturns == \A d \in Devices : call[d] # Idle ~> call[d] = Idle \/ Hangs(d)

===============================================================================
