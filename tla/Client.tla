---------------------------------- MODULE Client ----------------------------------
(***************************************************************************)
(* The player's side of a session (src/client: mod.rs, net_sync.rs,         *)
(* menu/start.rs, menu/account.rs, the buttons that change worlds, and the  *)
(* systems of render/ that mirror the world's snapshot on the screen).      *)
(*                                                                         *)
(* One screen is up at a time.  A button asks for the other screen (next)   *)
(* and the change is made at the start of a later frame: until then every   *)
(* system of the old screen may still run.  Going to another world is a     *)
(* trip through the menu: leave, tear down, dial, enter.  A connection that *)
(* drops is dialled again on a thread while the old world stays in view.    *)
(* Each system that draws keeps a record of what it has drawn; the entities *)
(* themselves die with the screen, whatever the record says.                *)
(***************************************************************************)
EXTENDS Naturals, Sequences, FiniteSets, FiniteSetsExt

CONSTANTS
  Scenes,      \* what a snapshot may show, see Wanted
  MaxVersion,  \* bound: snapshots a server sends while view.version is below it
  MaxInbox     \* bound: messages waiting on a connection
ASSUME ClientAssumption == MaxVersion \in Nat /\ MaxInbox \in Nat \ {0}

VARIABLES
  build,    \* "native" | "web", fixed
  screen, next,
  session,  \* Session: account, token (the world that minted it), and where it says it is
  pending,  \* PendingSwitch
  invite,   \* SocialState::invite is there
  net,      \* NetConn: the connection and what its server has sent, see Conn
  dial,     \* Reconnecting: the redial on its way
  view,     \* GameView: the snapshot (its world, its scene), version, disconnected
  seen,     \* the version the gated systems drew last (their Local)
  shown,    \* mirror -> the look its record holds
  alive     \* the mirrors whose recorded entity exists
vars == <<build, screen, next, session, pending, invite, net, dial, view, seen, shown, alive>>
play == <<seen, shown, alive>>

Worlds == {"local", "town", "home", "central", "friend"}   \* "town": a world joined as a guest
MAX_RECONNECT_ATTEMPTS == 3

NoSession == [auth |-> FALSE, token |-> "none", reconnectable |-> FALSE, attempts |-> 0,
              central |-> FALSE, visiting |-> FALSE]
NoView    == [world |-> "none", scene |-> CHOOSE s \in Scenes : TRUE, version |-> 0, disconnected |-> FALSE]
\* A connection: the world its first message leads to, the token that message presented;
\* answered: the server's; heard: the client's, it has taken a Welcome.
NoConn    == [world |-> "none", token |-> "none", up |-> FALSE, answered |-> FALSE, heard |-> FALSE, inbox |-> <<>>]
Conn(w, t) == [NoConn EXCEPT !.world = w, !.token = t, !.up = TRUE]

(* ------------------------------ what is drawn -------------------------- *)

Gated == {"building", "bar", "person", "traveller", "body", "grave"}   \* these look at view.version
Mirrors == Gated \cup {"ground", "cursor", "avatar", "ping"}

\* What the snapshot asks each mirror to show; "none" is nothing.
BuildingWanted(s)  == s.building
BarWanted(s)       == IF s.building = "site" THEN "bar" ELSE "none"
PersonWanted(s)    == s.person
TravellerWanted(s) == IF s.traveller THEN "batch" ELSE "none"
BodyWanted(s)      == IF s.body THEN "body" ELSE "none"
GraveWanted(s)     == IF s.grave THEN "cross" ELSE "none"
GroundWanted(w)    == w
CursorWanted(w, s) == IF s.peer /\ w # "central" THEN "cone" ELSE "none"
AvatarWanted(w, s) == IF s.peer /\ w = "central" THEN "walker" ELSE "none"
PingWanted(s)      == IF s.ping THEN "ring" ELSE "none"
Wanted(w, s) ==
  [building |-> BuildingWanted(s), bar |-> BarWanted(s), person |-> PersonWanted(s),
   traveller |-> TravellerWanted(s), body |-> BodyWanted(s), grave |-> GraveWanted(s),
   ground |-> GroundWanted(w), cursor |-> CursorWanted(w, s), avatar |-> AvatarWanted(w, s),
   ping |-> PingWanted(s)]

\* The mirrors whose record teardown_game and teardown_social empty.
Forgotten_KeepsBuildings == {"ground", "person", "cursor", "ping"} \cup {"avatar"}
Forgotten == {"ground", "building", "person", "cursor", "ping"} \cup {"avatar"}

\* The systems of one frame, given the view after pump_net: a record that differs from the
\* snapshot is brought into line, its entity despawned and the new one spawned.
Draw(v) ==
  LET due  == IF v.world = "none" THEN {} ELSE IF seen # v.version THEN Mirrors ELSE Mirrors \ Gated
      want == Wanted(v.world, v.scene)
      new  == {k \in due : shown[k] # want[k]}
  IN  /\ seen' = IF v.world = "none" THEN seen ELSE v.version
      /\ shown' = [k \in Mirrors |-> IF k \in new THEN want[k] ELSE shown[k]]
      /\ alive' = (alive \ new) \cup {k \in new : want[k] # "none"}

(* ------------------------------ the session ---------------------------- *)

\* The world a session says it is in.
Where(s) == IF ~s.auth THEN IF s.reconnectable THEN "town" ELSE "local"
            ELSE IF s.central THEN "central"
            ELSE IF s.visiting THEN "friend" ELSE "home"

Init ==
  /\ build \in {"native", "web"}
  /\ screen = "Menu" /\ next = "none"
  /\ session = NoSession /\ pending = "none" /\ invite = FALSE
  /\ net = NoConn /\ dial = [stage |-> "idle"] /\ view = NoView
  /\ seen = 0 /\ shown = [k \in Mirrors |-> "none"] /\ alive = {}

Enter(s, w) ==
  /\ session' = s /\ view' = NoView /\ net' = Conn(w, "none") /\ next' = "Game"
  /\ UNCHANGED <<build, screen, invite, dial, play>>

\* A failed dial only changes the text of the menu.
StartGame ==
  /\ screen = "Menu"
  /\ \/ Enter(NoSession, "local")
     \/ Enter([NoSession EXCEPT !.reconnectable = TRUE], "town")
  /\ UNCHANGED pending

SubmitLogin ==
  /\ screen = "Menu"
  /\ Enter([NoSession EXCEPT !.auth = TRUE, !.reconnectable = TRUE], "home")
  /\ UNCHANGED pending

\* The world ReturnHome, EnterCentral, VisitFriend and Login lead to, and the session they leave.
Dialled == [session EXCEPT !.token = "none", !.attempts = 0, !.reconnectable = TRUE,
                           !.central = pending = "central", !.visiting = pending = "friend"]

SwitchWorld ==
  /\ screen = "Menu" /\ pending # "none"
  /\ pending' = "none"
  /\ \/ session.auth /\ Enter(Dialled, pending)
     \/ UNCHANGED <<build, screen, next, session, invite, net, dial, view, play>>   \* a guest, or no answer

(* --------------------------- leaving the game -------------------------- *)

Leave(target) ==
  /\ screen = "Game"
  /\ pending' = target /\ next' = "Menu"
  /\ UNCHANGED <<build, screen, session, invite, net, dial, view, play>>

\* Which of the two a graduated city shows depends on its snapshot; a press may come a frame late.
WorldSwitch == /\ session.auth /\ view.world # "none"
               /\ Leave(IF view.world = "central" THEN "home" ELSE "central")
VisitFriend  == session.auth /\ Leave("friend")
AcceptInvite == invite /\ Leave("friend")
GoHome       == session.visiting /\ Leave("home")
Quit         == screen = "Game" /\ next' = "Menu"
                /\ UNCHANGED <<build, screen, session, pending, invite, net, dial, view, play>>

\* teardown_game, teardown_social and DespawnOnExit.
Teardown ==
  /\ net' = NoConn /\ dial' = [stage |-> "idle"]
  /\ view' = [NoView EXCEPT !.version = view.version]
  /\ shown' = [k \in Mirrors |-> IF k \in Forgotten THEN "none" ELSE shown[k]]
  /\ alive' = {}

Transition ==
  /\ next # "none"
  /\ screen' = next /\ next' = "none"
  /\ IF screen = "Game" THEN Teardown ELSE UNCHANGED <<net, dial, view, shown, alive>>
  /\ UNCHANGED <<build, session, pending, invite, seen>>

(* ------------------------------- a frame ------------------------------- *)

Says(kind) == \E i \in DOMAIN net.inbox : net.inbox[i].kind = kind
Brought    == {i \in DOMAIN net.inbox : net.inbox[i].kind \in {"welcome", "state"}}   \* a scene

\* What becomes of all that has come, taken in order: the last scene is the one in view.
Heard ==
  [session |-> IF Says("welcome") THEN [session EXCEPT !.token = net.world, !.attempts = 0] ELSE session,
   net     |-> [net EXCEPT !.inbox = <<>>, !.heard = @ \/ Says("welcome")],
   view    |-> IF Brought = {} THEN view
               ELSE [view EXCEPT !.world = net.world, !.scene = net.inbox[Max(Brought)].scene,
                                 !.version = @ + Cardinality(Brought)],
   next    |-> IF Says("refused") THEN "Menu" ELSE next,
   invite  |-> invite \/ Says("invited")]

Pumped ==
  IF net.world # "none" /\ net.inbox = <<>> /\ ~net.up
  THEN [Heard EXCEPT !.view.disconnected = TRUE]
  ELSE Heard

PumpNet ==
  /\ screen = "Game"
  /\ \E p \in {Pumped} : /\ session' = p.session /\ net' = p.net /\ view' = p.view
                          /\ next' = p.next /\ invite' = p.invite

\* pump_net and the systems chained after it.
Frame == PumpNet /\ Draw(view') /\ UNCHANGED <<build, screen, pending, dial>>

(* ------------------------------ an outage ------------------------------ *)

ReconnectHello_AlwaysLogin == IF session.auth THEN "home" ELSE "town"
\* The world the redial's first message leads to: EnterCentral, VisitFriend, Login or Hello.
ReconnectHello == IF ~session.auth THEN "town"
                  ELSE IF session.central THEN "central"
                  ELSE IF session.visiting THEN "friend" ELSE "home"

\* Nothing more to try: the player is told, in the menu.
GiveUp(tried) == /\ next' = "Menu" /\ session' = [session EXCEPT !.attempts = tried]
                 /\ dial' = [stage |-> "idle"] /\ UNCHANGED <<net, view>>

StartReconnect(tried) ==
  /\ session' = [session EXCEPT !.attempts = tried] /\ UNCHANGED next
  /\ \/ /\ build = "native"
        /\ dial' = [stage |-> "dialing", world |-> ReconnectHello, token |-> session.token]
        /\ UNCHANGED <<net, view>>
     \/ /\ build = "web"
        /\ dial' = [stage |-> "idle"]
        /\ net' = Conn(ReconnectHello, session.token)
        /\ view' = [view EXCEPT !.disconnected = FALSE]

Retry == LET tried == session.attempts + 1
         IN  IF session.reconnectable /\ session.token # "none" /\ session.attempts < MAX_RECONNECT_ATTEMPTS
               THEN StartReconnect(tried) \/ GiveUp(tried)   \* the thread, or the socket, may not start
               ELSE GiveUp(session.attempts)

Install_FreshAttempts ==
  /\ dial.stage = "ok"
  /\ net' = Conn(dial.world, dial.token) /\ view' = [view EXCEPT !.disconnected = FALSE]
  /\ dial' = [stage |-> "idle"] /\ session' = [session EXCEPT !.attempts = 0] /\ UNCHANGED next
Install ==
  /\ dial.stage = "ok"
  /\ net' = Conn(dial.world, dial.token) /\ view' = [view EXCEPT !.disconnected = FALSE]
  /\ dial' = [stage |-> "idle"] /\ UNCHANGED <<session, next>>

WatchDisconnect ==
  /\ screen = "Game"
  /\ \/ Install
     \/ dial.stage = "failed" /\ ~view.disconnected
        /\ dial' = [stage |-> "idle"] /\ UNCHANGED <<session, next, net, view>>
     \/ dial.stage \in {"idle", "failed"} /\ view.disconnected /\ Retry
  /\ UNCHANGED <<build, screen, pending, invite, play>>

\* The thread's dial comes to an end.
DialEnds ==
  /\ dial.stage = "dialing"
  /\ \E how \in {"ok", "failed"} : dial' = [dial EXCEPT !.stage = how]
  /\ UNCHANGED <<build, screen, next, session, pending, invite, net, view, play>>

(* ------------------------------ the servers ---------------------------- *)

Send(m) == net' = [net EXCEPT !.answered = TRUE, !.inbox = Append(@, m), !.up = m.kind # "refused"]
Others  == UNCHANGED <<build, screen, next, session, pending, invite, dial, view, play>>
Room    == view.version + Cardinality(Brought) < MaxVersion

Answer ==
  /\ net.up /\ ~net.answered
  /\ \/ \E s \in Scenes : Room /\ Send([kind |-> "welcome", scene |-> s])
     \/ Send([kind |-> "refused"])
  /\ Others

Report ==
  /\ net.up /\ net.answered /\ Len(net.inbox) < MaxInbox
  /\ \/ \E s \in Scenes : Room /\ Send([kind |-> "state", scene |-> s])
     \/ net.world \in {"home", "central", "friend"} /\ ~invite /\ Send([kind |-> "invited"])
  /\ Others

Cut == net.up /\ net' = [net EXCEPT !.up = FALSE] /\ Others

Next == \/ StartGame \/ SubmitLogin \/ SwitchWorld
        \/ WorldSwitch \/ VisitFriend \/ AcceptInvite \/ GoHome \/ Quit \/ Transition
        \/ Frame \/ WatchDisconnect \/ DialEnds \/ Answer \/ Report \/ Cut

\* Frames come for as long as the program runs; a thread's dial ends; a server answers the
\* first message of a connection that stays open.
Spec == Init /\ [][Next]_vars
             /\ WF_vars(Transition)
             /\ WF_<<session, net, view, next, invite>>(PumpNet)
             /\ WF_vars(WatchDisconnect)
             /\ WF_vars(DialEnds) /\ WF_vars(Answer)

(* ------------------------------ properties ----------------------------- *)

\* The connection, the redial on its way and the snapshot in view belong to the world the
\* session says it is in, through switches, failed switches and outages: what the player sees
\* and orders is never in another city (session.central and session.visiting, net_sync.rs:213).
PlaysWhereItSays == /\ net.world # "none" => net.world = Where(session)
                    /\ dial.stage # "idle" => dial.world = Where(session)
                    /\ view.world # "none" => view.world = Where(session)

\* The mirrors whose record does not outlive the screen (mod.rs:884-936).
Reset == {"building", "person", "ground", "cursor", "avatar", "ping"}

\* Whatever the order of worlds, outages and frames, when the gated systems take note of a version
\* nothing is on the screen but what that snapshot shows, and all that the mirrors of Reset should
\* show is there.  Bars, travellers, bodies and graves may be missing (render/*.rs).
DrawsTheSnapshot ==
  [][seen' # seen =>
       \A k \in Mirrors :
          LET want == Wanted(view'.world, view'.scene)[k]
          IN  /\ k \in alive' => want # "none" /\ shown'[k] = want
              /\ k \in Reset /\ want # "none" => k \in alive']_vars

\* A building site of the version noted has its bar: "a stale entry surviving a world switch ...
\* must never block a same-id building in the NEW world from getting its own bar"
\* (components.rs:163-168).
SitesHaveTheirBar ==
  [][seen' # seen /\ BarWanted(view'.scene) # "none" => "bar" \in alive']_vars

\* An outage ends: the world is heard again, or the player is back in the menu.
InOutage == screen = "Game" /\ (view.disconnected \/ ~net.heard)
OutageEnds == InOutage ~> ~InOutage

=============================================================================
