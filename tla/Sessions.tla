------------------------------- MODULE Sessions -------------------------------
(***************************************************************************)
(* One world's sim_loop (crates/fc-net/src/server/simloop.rs) seen as the  *)
(* keeper of identities: which socket is which player, which player a      *)
(* session token brings back, who owns the world, and what of this         *)
(* survives a disconnect, a kick, a world reset, a crash and a restart.    *)
(*                                                                         *)
(* A world is one of three kinds: shared (OwnerAccount = NoAccount),       *)
(* personal (OwnerAccount is its account) or Central.  The simulation      *)
(* itself is abstracted to `phase`; a queued command is abstracted to the  *)
(* player id that issued it.                                               *)
(***************************************************************************)
EXTENDS Naturals, Sequences, FiniteSets, Functions, SequencesExt

CONSTANTS
  Accounts,      \* accounts a connection may have signed in with
  NoAccount,     \* a guest connection; as OwnerAccount: config.owner_account = None
  OwnerAccount,  \* config.owner_account
  Central,       \* config.central
  Persistent,    \* config.persistent
  MaxSessions,   \* MAX_SESSIONS
  MaxConnections,\* bound: connections accepted per process life
  MaxLives       \* bound: boots of this world

ASSUME SessionsAssumption ==
  /\ NoAccount \notin Accounts
  /\ OwnerAccount \in Accounts \cup {NoAccount}
  /\ Central \in BOOLEAN /\ Persistent \in BOOLEAN
  /\ Central => OwnerAccount = NoAccount
  /\ MaxSessions \in Nat \ {0} /\ MaxConnections \in Nat /\ MaxLives \in Nat \ {0}

VARIABLES
  \* the running loop's locals
  up,             \* the sim thread is in its loop
  life,           \* how many times the world has booted
  clients,        \* keys of `clients`
  player_of,      \* connection id -> player id
  token_of,       \* connection id -> session token
  limiters,       \* keys of `limiters`
  sessions,       \* token -> PlayerInfo of a disconnected player
  session_order,  \* insertion order of `sessions`
  next_client_id,
  next_player_id,
  pending,        \* issuers of the commands queued for the next tick
  reaping,        \* connections found dead by the broadcast under way
  \* GameState
  roster,         \* state.players
  owner_id,       \* state.owner_id, 0 for None
  phase,          \* state.phase: "Running" or "Over" (Won and Lost alike)
  \* outside the loop
  disk,           \* the save file
  gone,           \* connections whose writer thread has ended
  next_token,     \* fresh_token(): every token below it has been issued
  \* history, read by properties only
  ghost_command,  \* a command was applied for a player nobody is playing
  kicked          \* player ids removed by the owner in this life

loopVars  == <<clients, player_of, token_of, limiters, sessions, session_order,
               next_client_id, next_player_id, pending, reaping>>
stateVars == <<roster, owner_id, phase>>
history   == <<ghost_command, kicked>>
vars == <<up, life, loopVars, stateVars, disk, gone, next_token, history>>

Owner == "Owner"
Guest == "Guest"

AnyAccount == Accounts \cup {NoAccount}
Info  == [id : Nat, role : {Owner, Guest}, account : AnyAccount]
\* A roster entry is tagged with the connection that pushed it: two entries
\* pushed by different joins stay two entries, as in the Vec, and the tag's
\* order is the Vec's order.
Entry == [slot : Nat, id : Nat, role : {Owner, Guest}, account : AnyAccount]

None == [x \in {} |-> 0]     \* an empty map
Only(f, S) == Restrict(f, S)
Put(f, k, v) == [x \in DOMAIN f \cup {k} |-> IF x = k THEN v ELSE f[x]]

\* state.player(pid): the first entry in the Vec with that id.
EntriesOf(r, pid) == {e \in r : e.id = pid}
First(r, pid) ==
  CHOOSE e \in EntriesOf(r, pid) : \A f \in EntriesOf(r, pid) : e.slot <= f.slot
InfoOf(e) == [id |-> e.id, role |-> e.role, account |-> e.account]

\* state.is_owner(pid).
IsOwner(pid) ==
  EntriesOf(roster, pid) # {} /\ First(roster, pid).role = Owner

\* What a thread's end leaves of its locals and its GameState: nothing.  The
\* next boot starts from these locals.
LoseMemory ==
  /\ up' = FALSE
  /\ clients' = {} /\ player_of' = None /\ token_of' = None /\ limiters' = {}
  /\ sessions' = None /\ session_order' = <<>>
  /\ next_client_id' = 1 /\ next_player_id' = 1
  /\ pending' = {} /\ reaping' = {} /\ gone' = {}
  /\ ghost_command' = FALSE /\ kicked' = {}
  /\ roster' = {} /\ owner_id' = 0 /\ phase' = "Running"

Init ==
  /\ up = TRUE /\ life = 1
  /\ clients = {} /\ player_of = None /\ token_of = None /\ limiters = {}
  /\ sessions = None /\ session_order = <<>>
  /\ next_client_id = 1 /\ next_player_id = 1
  /\ pending = {} /\ reaping = {}
  /\ roster = {} /\ owner_id = 0 /\ phase = "Running"
  /\ disk = [owner_id |-> 0, phase |-> "Running", roster |-> {}]
  /\ gone = {} /\ next_token = 1
  /\ ghost_command = FALSE /\ kicked = {}

\* The loop is between two passes of its drain or inside one; while the
\* broadcast's dead connections are being torn down nothing else runs.
Draining == up /\ reaping = {}

-----------------------------------------------------------------------------
(* Joining *)

\* player_joined_as: a fresh player claims the world when nobody has it, or
\* when owner_id already names the id it was just given.
ClaimsWorld(pid) == ~Central /\ owner_id \in {0, pid}

JoinRole_RosterSize(back, tok, pid, acc) ==
  IF OwnerAccount # NoAccount
    THEN IF acc = OwnerAccount THEN Owner ELSE Guest
    ELSE IF back THEN sessions[tok].role
         ELSE IF roster = {} THEN Owner ELSE Guest

\* The role and owner_id a join ends with, before and after the pin that makes
\* authority follow config.owner_account.
JoinRole(back, tok, pid, acc) ==
  IF OwnerAccount # NoAccount
    THEN IF acc = OwnerAccount THEN Owner ELSE Guest
    ELSE IF back THEN sessions[tok].role
         ELSE IF ClaimsWorld(pid) THEN Owner ELSE Guest

JoinOwnerId(back, pid, acc) ==
  LET claimed == IF ~back /\ ClaimsWorld(pid) THEN pid ELSE owner_id
  IN  IF OwnerAccount = NoAccount THEN claimed
      ELSE IF acc = OwnerAccount THEN pid
      ELSE IF claimed = pid THEN 0 ELSE claimed

\* `sessions.remove(&tok)`: a token brings its player back once.
TakeSession_Peek(tok) == sessions

TakeSession(tok) == Only(sessions, DOMAIN sessions \ {tok})

\* session_order.retain: a token is in the order once (SessionStoreBounded).
DropToken(order, tok) ==
  IF \E i \in 1..Len(order) : order[i] = tok
    THEN RemoveAt(order, CHOOSE i \in 1..Len(order) : order[i] = tok)
    ELSE order

\* ToServer::Join with token `tok` (0: none) on a connection signed in as `acc`.
Join(tok, acc) ==
  LET back   == tok \in DOMAIN sessions
      c      == next_client_id
      pid    == IF back THEN sessions[tok].id ELSE next_player_id
      accnt  == IF back /\ acc = NoAccount THEN sessions[tok].account ELSE acc
      role   == JoinRole(back, tok, pid, acc)
      fresh  == next_token
  IN  /\ Draining
      /\ c <= MaxConnections
      /\ next_client_id' = c + 1
      /\ next_player_id' = IF back THEN next_player_id ELSE next_player_id + 1
      /\ sessions' = TakeSession(tok)
      /\ session_order' = IF back THEN DropToken(session_order, tok)
                                  ELSE session_order
      /\ roster' = roster \cup {[slot |-> c, id |-> pid, role |-> role, account |-> accnt]}
      /\ owner_id' = JoinOwnerId(back, pid, acc)
      /\ player_of' = Put(player_of, c, pid)
      /\ token_of' = Put(token_of, c, fresh)
      /\ limiters' = limiters \cup {c}
      /\ clients' = clients \cup {c}
      /\ next_token' = fresh + 1
      /\ UNCHANGED <<up, life, pending, reaping, phase, disk, gone,
                     ghost_command, kicked>>

-----------------------------------------------------------------------------
(* Leaving *)

\* Whether `order`'s first k tokens out of the store leave it within its cap.
Fits(order, toks, k) ==
  Cardinality(toks \ ToSet(SubSeq(order, 1, k))) <= MaxSessions

\* `while sessions.len() > MAX_SESSIONS { pop_front, remove }`: n go.
Evicts(order, toks, n) ==
  /\ n = Len(order) \/ Fits(order, toks, n)
  /\ \A m \in 0..(n - 1) : ~Fits(order, toks, m)

\* player_left: every roster entry with that id goes.
PlayerLeft_OwnersStay(pid) == {e \in roster : e.id # pid \/ e.role = Owner}

PlayerLeft(pid) == {e \in roster : e.id # pid}

\* There is an info to stash, read before player_left takes it off the roster.
Stashable_AfterLeft(c) ==
  /\ c \in DOMAIN player_of /\ c \in DOMAIN token_of
  /\ \E e \in PlayerLeft(player_of[c]) : e.id = player_of[c]

Stashable(c) ==
  /\ c \in DOMAIN player_of /\ c \in DOMAIN token_of
  /\ EntriesOf(roster, player_of[c]) # {}

\* The stash of a departing player under its connection's token.
Stash(c) ==
  LET tok   == token_of[c]
      kept  == Put(sessions, tok, InfoOf(First(roster, player_of[c])))
      order == IF tok \in DOMAIN sessions THEN session_order
                                          ELSE Append(session_order, tok)
  IN  \E n \in 0..Len(order) :
        /\ Evicts(order, DOMAIN kept, n)
        /\ sessions' = Only(kept, DOMAIN kept \ ToSet(SubSeq(order, 1, n)))
        /\ session_order' = SubSeq(order, n + 1, Len(order))

\* disconnect(): drop the connection, stash its player and take the player off
\* the roster; a connection without a player only loses its own entries.
Disconnect(c) ==
  /\ clients' = clients \ {c}
  /\ limiters' = limiters \ {c}
  /\ player_of' = Only(player_of, DOMAIN player_of \ {c})
  /\ token_of' = IF c \in DOMAIN player_of
                   THEN Only(token_of, DOMAIN token_of \ {c}) ELSE token_of
  /\ IF Stashable(c) THEN Stash(c) ELSE UNCHANGED <<sessions, session_order>>
  /\ roster' = IF c \in DOMAIN player_of THEN PlayerLeft(player_of[c]) ELSE roster

\* ToServer::Leave from a connection's reader thread, which sends it however
\* the connection ended, so also for one the loop has already dropped.
Leave(c) ==
  /\ Draining
  /\ c \in clients
  /\ Disconnect(c)
  /\ UNCHANGED <<up, life, next_client_id, next_player_id, pending, reaping,
                 owner_id, phase, disk, gone, next_token, history>>

\* A connection's writer thread ends (peer gone, write timeout); the loop
\* finds out at its next broadcast, or by the reader's Leave.
Drop(c) ==
  /\ up
  /\ c \in clients \ gone
  /\ gone' = gone \cup {c}
  /\ UNCHANGED <<up, life, loopVars, stateVars, disk, next_token, history>>

\* ToServer::Msg with ClientMsg::Cmd; a message of a connection without a
\* player is dropped, one without a limiter denied.
Cmd(c) ==
  /\ Draining
  /\ c \in DOMAIN player_of
  /\ c \in limiters
  /\ pending' = pending \cup {player_of[c]}
  /\ UNCHANGED <<up, life, clients, player_of, token_of, limiters, sessions,
                 session_order, next_client_id, next_player_id, reaping,
                 stateVars, disk, gone, next_token, history>>

\* The connection serving `target`, found by reverse lookup, if one is live.
ServedBy(target) ==
  LET serving == {k \in DOMAIN player_of : player_of[k] = target}
  IN  IF serving = {} THEN {{}} ELSE {{k} : k \in serving}

\* The store a kick leaves behind: as it was, with no session to come back by.
KickSessions(ks, target) == sessions

\* ClientMsg::Kick from connection c: owner only, never self, never another
\* owner.  The connection goes, then the roster entry (kick_player).
Kick(c, target) ==
  /\ Draining
  /\ c \in DOMAIN player_of
  /\ IsOwner(player_of[c]) /\ target # player_of[c] /\ ~IsOwner(target)
  /\ EntriesOf(roster, target) # {}
  /\ \E ks \in ServedBy(target) :
       /\ clients' = clients \ ks
       /\ player_of' = Only(player_of, DOMAIN player_of \ ks)
       /\ token_of' = Only(token_of, DOMAIN token_of \ ks)
       /\ limiters' = limiters \ ks
       /\ sessions' = KickSessions(ks, target)
  /\ roster' = roster \ {First(roster, target)}
  /\ kicked' = kicked \cup {target}
  /\ UNCHANGED <<up, life, next_client_id, next_player_id, pending, reaping,
                 session_order, owner_id, phase, disk, gone, next_token,
                 ghost_command>>

-----------------------------------------------------------------------------
(* The tick *)

RosterIds == {e.id : e \in roster}

\* pending.retain, then apply_command, which a finished world ignores.
AppliedNow_NoRetain == IF phase = "Running" THEN pending ELSE {}

AppliedNow == IF phase = "Running" THEN pending \cap RosterIds ELSE {}

\* The connections whose State message cannot be sent.
Dead_Unnoticed == {}

Dead == clients \cap gone

\* One tick: the queued commands, the simulation (which may end the run; the
\* central world never does) and the broadcast, whose failed sends name the
\* dead connections.
Tick ==
  /\ Draining
  /\ ghost_command' = (ghost_command \/ ~(AppliedNow \subseteq {player_of[c] : c \in clients}))
  /\ pending' = {}
  /\ \/ phase' = phase
     \/ phase = "Running" /\ ~Central /\ phase' = "Over"
  /\ reaping' = Dead
  /\ UNCHANGED <<up, life, clients, player_of, token_of, limiters, sessions,
                 session_order, next_client_id, next_player_id, roster,
                 owner_id, disk, gone, next_token, kicked>>

\* WORLD_RESET_AFTER: the tick that replaces a finished persistent world and
\* carries roster and ownership over.  A personal world waits for a viewer.
WorldReset ==
  /\ Draining
  /\ Persistent /\ phase = "Over"
  /\ OwnerAccount = NoAccount \/ clients # {}
  /\ phase' = "Running"
  /\ pending' = {}
  /\ reaping' = Dead
  /\ UNCHANGED <<up, life, clients, player_of, token_of, limiters, sessions,
                 session_order, next_client_id, next_player_id, roster,
                 owner_id, disk, gone, next_token, history>>

\* The broadcast's `for id in dead { disconnect(..) }`, in any order.
Reap(c) ==
  /\ up /\ c \in reaping
  /\ reaping' = reaping \ {c}
  /\ Disconnect(c)
  /\ UNCHANGED <<up, life, next_client_id, next_player_id, pending,
                 owner_id, phase, disk, gone, next_token, history>>

-----------------------------------------------------------------------------
(* Saving, stopping, crashing, booting *)

Saved == [owner_id |-> owner_id, phase |-> phase, roster |-> roster]

\* (Bound: a save of the last life is never read, so it is not taken.)
Autosave ==
  /\ Draining /\ Persistent /\ life < MaxLives
  /\ disk' = Saved
  /\ UNCHANGED <<up, life, loopVars, stateVars, gone, next_token, history>>

\* Leaving the loop: the shutdown flag (a stop, or idle eviction, which sees no
\* clients), or a throwaway world losing its last connection.  A persistent
\* world makes its final save.
Stop ==
  /\ Draining
  /\ disk' = IF Persistent THEN Saved ELSE disk
  /\ LoseMemory
  /\ UNCHANGED <<life, next_token>>

\* The process is killed: nothing is saved.
Crash ==
  /\ up
  /\ LoseMemory
  /\ UNCHANGED <<life, disk, next_token>>

\* The roster a world boots with: `state.players.clear()`.
BootRoster == {}

\* A persistent world boots from its save, or fresh without one.
Boot ==
  /\ ~up /\ life < MaxLives /\ Persistent
  /\ up' = TRUE
  /\ life' = life + 1
  /\ roster' = BootRoster
  /\ owner_id' = disk.owner_id
  /\ phase' = disk.phase
  /\ UNCHANGED <<loopVars, disk, gone, next_token, history>>

-----------------------------------------------------------------------------
Next ==
  \/ \E tok \in 0..(next_token - 1), acc \in AnyAccount : Join(tok, acc)
  \/ \E c \in 1..MaxConnections : Leave(c) \/ Drop(c) \/ Cmd(c) \/ Reap(c)
  \/ \E c \in 1..MaxConnections, target \in 1..MaxConnections : Kick(c, target)
  \/ Tick \/ WorldReset \/ Autosave \/ Stop \/ Crash \/ Boot

Spec == Init /\ [][Next]_vars

\* The sim thread keeps ticking and finishes the teardown it has begun; sockets,
\* players and operators owe nothing.
FairSpec == Spec /\ WF_vars(Tick) /\ WF_vars(\E c \in 1..MaxConnections : Reap(c))

-----------------------------------------------------------------------------
(* Properties *)

\* Every variable has its type.
TypeOK ==
  /\ up \in BOOLEAN /\ life \in Nat
  /\ clients \in SUBSET Nat /\ limiters \in SUBSET Nat
  /\ gone \in SUBSET Nat /\ reaping \in SUBSET Nat
  /\ DOMAIN player_of \in SUBSET Nat /\ player_of \in [DOMAIN player_of -> Nat]
  /\ DOMAIN token_of \in SUBSET Nat /\ token_of \in [DOMAIN token_of -> Nat]
  /\ DOMAIN sessions \in SUBSET Nat /\ sessions \in [DOMAIN sessions -> Info]
  /\ session_order \in Seq(Nat)
  /\ next_client_id \in Nat /\ next_player_id \in Nat /\ next_token \in Nat
  /\ pending \in SUBSET Nat /\ ghost_command \in BOOLEAN
  /\ kicked \in SUBSET Nat
  /\ roster \in SUBSET Entry /\ owner_id \in Nat
  /\ phase \in {"Running", "Over"}
  /\ disk \in [owner_id : Nat, phase : {"Running", "Over"}, roster : SUBSET Entry]

\* The maps the loop keeps per connection agree with each other and with the
\* roster, whatever order leaves, kicks, dead sockets and restarts come in:
\* every live connection has a player, a token and a limiter, the entry its
\* join pushed is on the roster under its player's id, and the roster holds
\* nothing else - no ghost of a connection that is gone, in this life or in
\* one before a restart.
RosterMatchesConnections ==
  /\ DOMAIN player_of = clients
  /\ DOMAIN token_of = clients
  /\ limiters = clients
  /\ \A c \in clients : \E e \in roster : e.slot = c /\ e.id = player_of[c]
  /\ \A e \in roster : e.slot \in clients
  /\ \A e, f \in roster : e.slot = f.slot => e = f

\* A player id names one player: no two connections play it, no two stashed
\* sessions hold it, and no stashed session holds the id of a connected
\* player, so a reconnect can never bring a second copy of someone in.
OneIdentityPerPlayer ==
  /\ \A c, d \in clients : player_of[c] = player_of[d] => c = d
  /\ \A s, t \in DOMAIN sessions : sessions[s].id = sessions[t].id => s = t
  /\ \A c \in clients, t \in DOMAIN sessions : sessions[t].id # player_of[c]

\* A kicked player has neither a connection nor a saved session to return by
\* for as long as the process lives.
KickedStaysOut ==
  /\ \A c \in clients : player_of[c] \notin kicked
  /\ \A t \in DOMAIN sessions : sessions[t].id \notin kicked

\* The Owner role, held by a connected player or waiting in a saved session:
\* nobody has it in the central world; in a personal world only connections
\* signed in as the owning account have it, and owner_id never points at a
\* visitor; in the shared world exactly the player owner_id names has it -
\* through reconnects, kicks, resets and restarts.
OwnersAmong(S) == {i \in S : i.role = Owner}
CentralRule  == OwnersAmong(roster) = {} /\ owner_id = 0
PersonalRule ==
  /\ \A e \in OwnersAmong(roster) : e.account = OwnerAccount
  /\ \A e \in roster : e.id = owner_id => e.role = Owner
SharedRule ==
  /\ \A e \in roster : e.role = Owner <=> e.id = owner_id
  /\ \A t \in DOMAIN sessions : sessions[t].role = Owner <=> sessions[t].id = owner_id
AuthorityRule ==
  /\ Central => CentralRule
  /\ OwnerAccount # NoAccount => PersonalRule
  /\ ~Central /\ OwnerAccount = NoAccount => SharedRule

\* A command that is still queued when its player leaves, dies or is kicked is
\* not carried out by the tick that follows: every applied command belongs to
\* a live connection's player.  can_issue alone would let it through, since it
\* trusts ids it does not know.
NoGhostCommand == ~ghost_command

\* The reconnect store never exceeds MAX_SESSIONS, and the eviction order
\* names exactly the stored tokens, each once: eviction cannot run dry while
\* the store grows.
SessionStoreBounded ==
  /\ ToSet(session_order) = DOMAIN sessions
  /\ Len(session_order) = Cardinality(DOMAIN sessions)
  /\ Len(session_order) <= MaxSessions

\* What a step that does not end the process does to those it lets go and those it forgets.
FaithKept ==
  up' =>
    /\ \A c \in clients \ clients' :
         \/ player_of[c] \in kicked'
         \/ /\ token_of[c] \in DOMAIN sessions'
            /\ sessions'[token_of[c]].id = player_of[c]
    /\ \A t \in DOMAIN sessions \ DOMAIN sessions' :
         \/ \E e \in roster' : e.id = sessions[t].id
         \/ t = Head(session_order) /\ Len(session_order) = MaxSessions

\* Whoever leaves other than by a kick can come back: the store then holds
\* the departing player under the departing connection's token.  And a saved
\* session goes only when its player is on the roster again, when it is the
\* oldest of a full store, or with the process.
SessionsKeepFaith == [][FaithKept]_vars

\* A connection whose writer has died is off the roster eventually, even when
\* its reader never reports it.
GhostsReaped == \A c \in 1..MaxConnections : (c \in clients \cap gone) ~> (c \notin clients)

=============================================================================
