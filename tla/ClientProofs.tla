----------------------------- MODULE ClientProofs ------------------------------
(***************************************************************************)
(* What the app shows, proved for every frame, redial and trip between      *)
(* worlds.  Where it plays: AtHome ties the world of the connection, of a   *)
(* redial under way and of the picture to what the session's flags say, and *)
(* needs two facts the code never states: a redial is under way only in the *)
(* game, so leaving it drops the redial, and a trip waits only for a world  *)
(* an account can enter.  What it draws: what is on the screen (alive) is   *)
(* what the record says that the renderer compares with (shown), and the    *)
(* mirrors whose record goes with the screen have all of it there, which is *)
(* why drawing only the differences draws the whole snapshot of those.      *)
(*                                                                          *)
(* And what the player holds over the map: the ghost and the stroke are of  *)
(* the tool in hand, and a stroke is in one piece.  That needs the line of  *)
(* line_tiles to be without a gap, which is proved of its pen, and that a   *)
(* tile is left out only when it is there already or nothing follows it.    *)
(***************************************************************************)
EXTENDS Client, Tools, Counting

\* The flags of a session that say where it plays.
Flags == {"auth", "reconnectable", "central", "visiting"}

\* The screens there are, the worlds a trip may lead to, the fields of what is kept; and a redial is
\* only ever under way in the game.
Framed ==
  /\ screen \in {"Menu", "Game"} /\ next \in {"none", "Menu", "Game"}
  /\ pending \in {"none", "home", "central", "friend"}
  /\ "world" \in DOMAIN net /\ "world" \in DOMAIN view
  /\ Flags \subseteq DOMAIN session /\ \A f \in Flags : session[f] \in BOOLEAN
  /\ screen = "Menu" => dial.stage = "idle"

AtHome == Framed /\ PlaysWhereItSays

SameFlags(s, t) == Flags \subseteq DOMAIN t /\ \A f \in Flags : t[f] = s[f]

\* Where a session plays depends on its flags alone.
LEMMA WhereSame ==
  ASSUME NEW s, NEW t, SameFlags(s, t)
  PROVE  Where(s) = Where(t)
BY DEF SameFlags, Flags, Where

\* The app starts in the menu, connected to nothing.
LEMMA InitAtHome == ASSUME Init PROVE AtHome
<1>1. Framed BY DEF Init, Framed, Flags, NoSession, NoConn, NoView
<1>2. PlaysWhereItSays BY DEF Init, PlaysWhereItSays, NoConn, NoView
<1> QED BY <1>1, <1>2 DEF AtHome

\* Entering a world makes everything of that world.
LEMMA EnterAtHome ==
  ASSUME AtHome, screen = "Menu", NEW s, NEW w, Enter(s, w), Where(s) = w,
         Flags \subseteq DOMAIN s, \A f \in Flags : s[f] \in BOOLEAN,
         pending' \in {"none", "home", "central", "friend"}
  PROVE  AtHome'
<1>1. Conn(w, "none").world = w /\ "world" \in DOMAIN Conn(w, "none") BY DEF Conn, NoConn
<1>2. NoView.world = "none" /\ "world" \in DOMAIN NoView BY DEF NoView
<1>3. Framed' BY <1>1, <1>2 DEF Enter, AtHome, Framed
<1>4. PlaysWhereItSays' BY <1>1, <1>2 DEF Enter, AtHome, Framed, PlaysWhereItSays
<1> QED BY <1>3, <1>4 DEF AtHome

\* A game started from the menu, local, remote or signed in, is the one its session names.
LEMMA StartGameAtHome == ASSUME AtHome, StartGame \/ SubmitLogin PROVE AtHome'
<1>1. pending' = pending /\ screen = "Menu" BY DEF StartGame, SubmitLogin
<1>2. PICK s \in {NoSession, [NoSession EXCEPT !.reconnectable = TRUE],
                  [NoSession EXCEPT !.auth = TRUE, !.reconnectable = TRUE]}, w \in Worlds :
        Enter(s, w) /\ Where(s) = w
  <2>1. Where(NoSession) = "local" BY DEF Where, NoSession
  <2>2. Where([NoSession EXCEPT !.reconnectable = TRUE]) = "town" BY DEF Where, NoSession
  <2>3. Where([NoSession EXCEPT !.auth = TRUE, !.reconnectable = TRUE]) = "home" BY DEF Where, NoSession
  <2>4. {"local", "town", "home"} \subseteq Worlds BY DEF Worlds
  <2> QED BY <2>1, <2>2, <2>3, <2>4 DEF StartGame, SubmitLogin
<1>3. Flags \subseteq DOMAIN s /\ \A f \in Flags : s[f] \in BOOLEAN
  <2>1. CASE s = NoSession BY <2>1 DEF Flags, NoSession
  <2>2. CASE s = [NoSession EXCEPT !.reconnectable = TRUE] BY <2>2 DEF Flags, NoSession
  <2>3. CASE s = [NoSession EXCEPT !.auth = TRUE, !.reconnectable = TRUE] BY <2>3 DEF Flags, NoSession
  <2> QED BY <2>1, <2>2, <2>3
<1> QED BY <1>1, <1>2, <1>3, EnterAtHome DEF AtHome, Framed

\* The world a trip was waiting for is entered with the flags of that world, or not at all.
LEMMA SwitchAtHome == ASSUME AtHome, SwitchWorld PROVE AtHome'
<1>1. screen = "Menu" /\ pending \in {"home", "central", "friend"} /\ pending' = "none"
  BY DEF SwitchWorld, AtHome, Framed
<1>2. CASE session.auth /\ Enter(Dialled, pending)
  <2>1. /\ Flags \subseteq DOMAIN session
        /\ \A f \in Flags : session[f] \in BOOLEAN BY DEF AtHome, Framed
  <2>2. Flags \subseteq DOMAIN Dialled BY <2>1 DEF Dialled
  <2>3. /\ Dialled.auth = session.auth /\ (Dialled.central <=> pending = "central")
        /\ (Dialled.visiting <=> pending = "friend")
    BY <2>1 DEF Dialled, Flags
  <2>4. /\ Dialled.central \in BOOLEAN
        /\ Dialled.visiting \in BOOLEAN
        /\ Dialled.reconnectable \in BOOLEAN
    BY <2>1 DEF Dialled, Flags
  <2>5. \A f \in Flags : Dialled[f] \in BOOLEAN BY <2>1, <2>3, <2>4 DEF Flags
  <2>6. Where(Dialled) = pending BY <1>1, <1>2, <2>3 DEF Where
  <2> QED BY <1>1, <1>2, <2>2, <2>5, <2>6, EnterAtHome
<1>3. CASE UNCHANGED <<build, screen, next, session, invite, net, dial, view, play>>
  BY <1>1, <1>3 DEF AtHome, Framed, PlaysWhereItSays
<1> QED BY <1>2, <1>3 DEF SwitchWorld

\* Asking for a trip, or quitting, changes nothing of the session before the menu is reached.
LEMMA LeaveAtHome ==
  ASSUME AtHome, WorldSwitch \/ VisitFriend \/ AcceptInvite \/ GoHome \/ Quit
  PROVE  AtHome'
<1>1. /\ UNCHANGED <<screen, session, net, dial, view>>
      /\ pending' \in {pending, "home", "central", "friend"} /\ next' = "Menu"
  BY DEF WorldSwitch, VisitFriend, AcceptInvite, GoHome, Quit, Leave
<1> QED BY <1>1 DEF AtHome, Framed, PlaysWhereItSays

\* Leaving the game drops the connection, the redial and the picture together.
LEMMA TransitionAtHome == ASSUME AtHome, Transition PROVE AtHome'
<1>1. screen' \in {"Menu", "Game"} /\ next' = "none" /\ UNCHANGED <<session, pending>>
  BY DEF Transition, AtHome, Framed
<1>2. CASE screen = "Game"
  <2>1. /\ net' = NoConn
        /\ dial' = [stage |-> "idle"]
        /\ view' = [NoView EXCEPT !.version = view.version]
    BY <1>2 DEF Transition, Teardown
  <2>2. net'.world = "none" /\ view'.world = "none" /\ dial'.stage = "idle"
        /\ "world" \in DOMAIN net' /\ "world" \in DOMAIN view'
    BY <2>1 DEF NoConn, NoView
  <2> QED BY <1>1, <2>2 DEF AtHome, Framed, PlaysWhereItSays
<1>3. CASE screen # "Game"
  <2>1. UNCHANGED <<net, dial, view>> /\ dial.stage = "idle" BY <1>3 DEF Transition, AtHome, Framed
  <2> QED BY <1>1, <2>1 DEF AtHome, Framed, PlaysWhereItSays
<1> QED BY <1>2, <1>3

\* What a frame hears comes from the world it is connected to, and moves no flag.
LEMMA FrameAtHome == ASSUME AtHome, Frame PROVE AtHome'
<1>1. /\ screen' = screen /\ screen = "Game" /\ pending' = pending /\ dial' = dial
      /\ session' = Pumped.session
      /\ net' = Pumped.net
      /\ view' = Pumped.view
      /\ next' = Pumped.next
  BY DEF Frame, PumpNet
<1>2. /\ Pumped.session = Heard.session /\ Pumped.net = Heard.net /\ Pumped.next = Heard.next
      /\ Pumped.view \in {Heard.view, [Heard.view EXCEPT !.disconnected = TRUE]}
  BY DEF Pumped, Heard
<1>3. /\ Heard.session \in {session, [session EXCEPT !.token = net.world, !.attempts = 0]}
      /\ Heard.net = [net EXCEPT !.inbox = <<>>, !.heard = @ \/ Says("welcome")]
      /\ \/ Heard.view = view
         \/ \E s, n : Heard.view = [view EXCEPT !.world = net.world, !.scene = s, !.version = n]
      /\ Heard.next \in {next, "Menu"}
  BY DEF Heard
<1>4. SameFlags(session, session')
  <2>1. session' \in {session, [session EXCEPT !.token = net.world, !.attempts = 0]} BY <1>1, <1>2, <1>3
  <2>2. Flags \subseteq DOMAIN session BY DEF AtHome, Framed
  <2>3. \A f \in Flags : f # "token" /\ f # "attempts" BY DEF Flags
  <2>4. DOMAIN session' = DOMAIN session /\ \A f \in DOMAIN session : f # "token" /\ f # "attempts" => session'[f] = session[f]
    BY <2>1
  <2> QED BY <2>2, <2>3, <2>4 DEF SameFlags
<1>5. net'.world = net.world /\ "world" \in DOMAIN net' BY <1>1, <1>2, <1>3 DEF AtHome, Framed
<1>6. view'.world \in {view.world, net.world} /\ "world" \in DOMAIN view'
  <2>1. Heard.view.world \in {view.world, net.world} /\ "world" \in DOMAIN Heard.view
    BY <1>3 DEF AtHome, Framed
  <2> HIDE DEF Heard
  <2> QED BY <1>1, <1>2, <2>1
<1>7. Framed' BY <1>1, <1>2, <1>3, <1>4, <1>5, <1>6 DEF Framed, AtHome, SameFlags
<1>8. Where(session') = Where(session) BY <1>4, WhereSame
<1>9. PlaysWhereItSays' BY <1>1, <1>5, <1>6, <1>8 DEF PlaysWhereItSays, AtHome
<1> QED BY <1>7, <1>9 DEF AtHome

\* A redial asks for the world the session names, and its socket is installed only in the game.
LEMMA WatchAtHome == ASSUME AtHome, WatchDisconnect PROVE AtHome'
<1>1. screen' = screen /\ screen = "Game" /\ pending' = pending BY DEF WatchDisconnect
<1>2. CASE Install
  <2>1. /\ net' = Conn(dial.world, dial.token) /\ view' = [view EXCEPT !.disconnected = FALSE]
        /\ dial' = [stage |-> "idle"] /\ UNCHANGED <<session, next>> /\ dial.stage = "ok"
    BY <1>2 DEF Install
  <2>2. net'.world = dial.world /\ "world" \in DOMAIN net' BY <2>1 DEF Conn, NoConn
  <2>3. view'.world = view.world /\ "world" \in DOMAIN view' BY <2>1 DEF AtHome, Framed
  <2> QED BY <1>1, <2>1, <2>2, <2>3 DEF AtHome, Framed, PlaysWhereItSays
<1>3. CASE dial' = [stage |-> "idle"] /\ UNCHANGED <<session, next, net, view>>
  BY <1>1, <1>3 DEF AtHome, Framed, PlaysWhereItSays
<1>4. ASSUME NEW n, session' = [session EXCEPT !.attempts = n]
      PROVE  SameFlags(session, session') /\ Where(session') = Where(session)
  <2>1. SameFlags(session, session') BY <1>4 DEF SameFlags, Flags, AtHome, Framed
  <2> QED BY <2>1, WhereSame
<1>5. ASSUME NEW n, GiveUp(n) PROVE AtHome'
  <2>1. /\ next' = "Menu" /\ session' = [session EXCEPT !.attempts = n]
        /\ dial' = [stage |-> "idle"] /\ UNCHANGED <<net, view>>
    BY <1>5 DEF GiveUp
  <2>2. SameFlags(session, session') /\ Where(session') = Where(session) BY <1>4, <2>1
  <2> QED BY <1>1, <2>1, <2>2 DEF AtHome, Framed, PlaysWhereItSays, SameFlags
<1>6. ASSUME NEW n, StartReconnect(n), session.reconnectable PROVE AtHome'
  <2>1. session' = [session EXCEPT !.attempts = n] /\ next' = next BY <1>6 DEF StartReconnect
  <2>2. SameFlags(session, session') /\ Where(session') = Where(session) BY <1>4, <2>1
  <2>3. ReconnectHello = Where(session) BY <1>6 DEF ReconnectHello, Where
  <2>4. CASE /\ dial' = [stage |-> "dialing", world |-> ReconnectHello, token |-> session.token]
             /\ UNCHANGED <<net, view>>
    BY <1>1, <2>1, <2>2, <2>3, <2>4 DEF AtHome, Framed, PlaysWhereItSays, SameFlags
  <2>5. CASE /\ dial' = [stage |-> "idle"]
             /\ net' = Conn(ReconnectHello, session.token)
             /\ view' = [view EXCEPT !.disconnected = FALSE]
    <3>1. net'.world = ReconnectHello /\ "world" \in DOMAIN net' BY <2>5 DEF Conn, NoConn
    <3>2. view'.world = view.world /\ "world" \in DOMAIN view' BY <2>5 DEF AtHome, Framed
    <3> QED BY <1>1, <2>1, <2>2, <2>3, <2>5, <3>1, <3>2 DEF AtHome, Framed, PlaysWhereItSays, SameFlags
  <2> QED BY <1>6, <2>4, <2>5 DEF StartReconnect
<1> QED BY <1>2, <1>3, <1>5, <1>6 DEF WatchDisconnect, Retry

\* Threads, servers and the network change how a connection fares and never whose it is.
LEMMA RestAtHome == ASSUME AtHome, DialEnds \/ Answer \/ Report \/ Cut PROVE AtHome'
<1>1. CASE DialEnds
  <2>1. PICK how \in {"ok", "failed"} : dial' = [dial EXCEPT !.stage = how] BY <1>1 DEF DialEnds
  <2>2. /\ dial.stage = "dialing"
        /\ UNCHANGED <<screen, next, session, pending, net, view>> BY <1>1 DEF DialEnds
  <2> QED BY <2>1, <2>2 DEF AtHome, Framed, PlaysWhereItSays
<1>2. CASE Answer \/ Report \/ Cut
  <2>1. UNCHANGED <<screen, next, session, pending, dial, view>> BY <1>2 DEF Answer, Report, Cut, Others
  <2>2. net'.world = net.world /\ "world" \in DOMAIN net'
    BY <1>2 DEF Answer, Report, Cut, Send, AtHome, Framed
  <2> QED BY <2>1, <2>2 DEF AtHome, Framed, PlaysWhereItSays
<1> QED BY <1>1, <1>2

\* Through any frames, outages, redials and trips, the connection, a redial under way and the
\* picture are of the world the session's flags name (net_sync.rs, watch_disconnect).
THEOREM AlwaysWhereItSays == Spec => []PlaysWhereItSays
<1>1. AtHome /\ [Next]_vars => AtHome'
  <2>1. ASSUME AtHome, UNCHANGED vars PROVE AtHome'
    BY <2>1 DEF vars, AtHome, Framed, PlaysWhereItSays
  <2> QED BY <2>1, StartGameAtHome, SwitchAtHome, LeaveAtHome, TransitionAtHome, FrameAtHome, WatchAtHome,
          RestAtHome DEF Next
<1>2. AtHome => PlaysWhereItSays BY DEF AtHome
<1> QED BY InitAtHome, <1>1, <1>2, PTL DEF Spec

-----------------------------------------------------------------------------
(* What is drawn *)

\* Nothing is on the screen but what its record says, and of the mirrors of Reset the record is
\* right both ways: what it holds exists.
Recorded ==
  /\ DOMAIN shown = Mirrors /\ alive \subseteq Mirrors
  /\ \A k \in alive : shown[k] # "none"
  /\ \A k \in Reset : shown[k] # "none" => k \in alive

\* The way out of the game forgets the mirrors of Reset.
LEMMA ResetForgets == Reset \subseteq Mirrors /\ Reset \subseteq Forgotten
BY DEF Reset, Mirrors, Gated, Forgotten

\* Of a version that is noted nothing else is drawn, and all that can be.
Drawn(v) ==
  \A k \in Mirrors :
     LET want == Wanted(v.world, v.scene)[k]
     IN  /\ k \in alive' => want # "none" /\ shown'[k] = want
         /\ k \in Reset /\ want # "none" => k \in alive'

\* Drawing a picture leaves the record right, and after a new version it shows that version.
LEMMA DrawRecords ==
  ASSUME Recorded, NEW v, Draw(v)
  PROVE  Recorded' /\ (seen' # seen => Drawn(v))
<1> DEFINE due  == IF v.world = "none" THEN {} ELSE IF seen # v.version THEN Mirrors ELSE Mirrors \ Gated
           want == Wanted(v.world, v.scene)
           new  == {k \in due : shown[k] # want[k]}
<1>1. /\ seen' = IF v.world = "none" THEN seen ELSE v.version
      /\ shown' = [k \in Mirrors |-> IF k \in new THEN want[k] ELSE shown[k]]
      /\ alive' = (alive \ new) \cup {k \in new : want[k] # "none"}
  BY DEF Draw
<1>2. seen' # seen => due = Mirrors BY <1>1
<1>3. due \subseteq Mirrors OBVIOUS
<1> HIDE DEF want, due
<1>4. new \subseteq Mirrors BY <1>3
<1>5. ASSUME NEW k \in Mirrors
      PROVE  /\ k \in alive' => shown'[k] # "none"
             /\ k \in Reset /\ shown'[k] # "none" => k \in alive'
             /\ seen' # seen => shown'[k] = want[k]
  <2>1. (k \in alive => shown[k] # "none") /\ (k \in Reset /\ shown[k] # "none" => k \in alive)
    BY DEF Recorded
  <2>2. shown'[k] = IF k \in new THEN want[k] ELSE shown[k] BY <1>1
  <2>3. k \in alive' <=> (k \in alive /\ k \notin new) \/ (k \in new /\ want[k] # "none") BY <1>1
  <2>4. seen' # seen => k \in new \/ shown[k] = want[k] BY <1>2
  <2> HIDE DEF new
  <2> QED BY <2>1, <2>2, <2>3, <2>4
<1>6. DOMAIN shown' = Mirrors /\ alive' \subseteq Mirrors BY <1>1, <1>4 DEF Recorded
<1>7. Recorded' BY <1>5, <1>6, ResetForgets DEF Recorded
<1>8. seen' # seen => Drawn(v) BY <1>5 DEF Drawn, want
<1> QED BY <1>7, <1>8

\* Every step leaves the record right; only the way out of the game and a frame touch it.
LEMMA NextRecords ==
  ASSUME Recorded, Next
  PROVE  Recorded' /\ (seen' # seen => Drawn(view'))
<1>1. CASE Frame
  <2>1. Draw(view') BY <1>1 DEF Frame
  <2> QED BY <2>1, DrawRecords
<1>2. CASE Transition
  <2>1. seen' = seen BY <1>2 DEF Transition
  <2>2. CASE screen = "Game"
    <3>1. /\ shown' = [k \in Mirrors |-> IF k \in Forgotten THEN "none" ELSE shown[k]]
          /\ alive' = {}
      BY <1>2, <2>2 DEF Transition, Teardown
    <3>2. \A k \in Reset : shown'[k] = "none" BY <3>1, ResetForgets
    <3> QED BY <2>1, <3>1, <3>2 DEF Recorded
  <2>3. CASE screen # "Game"
    BY <1>2, <2>1, <2>3 DEF Transition, Recorded
  <2> QED BY <2>2, <2>3
<1>3. CASE UNCHANGED play
  BY <1>3 DEF play, Recorded
<1>4. StartGame \/ SubmitLogin => UNCHANGED play BY DEF StartGame, SubmitLogin, Enter, play
<1>5. SwitchWorld => UNCHANGED play BY DEF SwitchWorld, Enter, play
<1>6. WorldSwitch \/ VisitFriend \/ AcceptInvite \/ GoHome \/ Quit => UNCHANGED play
  BY DEF WorldSwitch, VisitFriend, AcceptInvite, GoHome, Quit, Leave, play
<1>7. WatchDisconnect \/ DialEnds => UNCHANGED play BY DEF WatchDisconnect, DialEnds, play
<1>8. Answer \/ Report \/ Cut => UNCHANGED play BY DEF Answer, Report, Cut, Others, play
<1> QED BY <1>1, <1>2, <1>3, <1>4, <1>5, <1>6, <1>7, <1>8 DEF Next

\* Once a frame has noted a version, nothing is on the screen that this version lacks, and every
\* building, person and other mirror of Reset stands as the version has it: drawing only what
\* differs leaves no ghost behind (render/*.rs).
THEOREM AlwaysDrawsIt == Spec => DrawsTheSnapshot
<1>1. Init => Recorded
  BY ResetForgets DEF Init, Recorded
<1>2. Recorded /\ [Next]_vars => Recorded'
  <2>1. ASSUME Recorded, UNCHANGED vars PROVE Recorded' BY <2>1 DEF vars, Recorded
  <2> QED BY <2>1, NextRecords
<1>3. Recorded /\ [Next]_vars => [seen' # seen => Drawn(view')]_vars
  BY NextRecords
<1>4. Recorded /\ [Next]_vars =>
        [seen' # seen =>
           \A k \in Mirrors :
              LET want == Wanted(view'.world, view'.scene)[k]
              IN  /\ k \in alive' => want # "none" /\ shown'[k] = want
                  /\ k \in Reset /\ want # "none" => k \in alive']_vars
  BY <1>3 DEF Drawn
<1> QED BY <1>1, <1>2, <1>4, PTL DEF Spec, DrawsTheSnapshot

-----------------------------------------------------------------------------
(* The tools *)

\* A building picked stays picked, or is let go of, while it is being moved: the button that moves
\* it can be pressed again, but for no other.
OneMoved == moving # "none" => chosen \in {"none", moving}

InHand == GhostOfItsTool /\ OneMoved

\* Every input clears what it changes the tool of; only a click with nothing in hand picks.
LEMMA ToolInHand == ASSUME InHand, ToolsNext PROVE InHand'
<1> USE DEF InHand, GhostOfItsTool, OneMoved, NoGhost, modes, picks, paint, outside
<1>1. CASE Hotkey BY <1>1 DEF Hotkey
<1>2. CASE Escape
  <2>1. CASE UNCHANGED <<modes, picks>> BY <2>1
  <2>2. CASE ~UNCHANGED <<modes, picks>> BY <1>2, <2>2 DEF Escape
  <2> QED BY <2>1, <2>2
<1>3. CASE RightClick BY <1>3 DEF RightClick
<1>4. CASE BuildButton \/ RoadTool BY <1>4 DEF BuildButton, RoadTool
<1>5. CASE Dock \/ Chat \/ Research \/ Social BY <1>5 DEF Dock, Chat, Research, Social
<1>6. CASE Confirm \/ Cancel BY <1>6 DEF Confirm, Cancel
<1>7. CASE Turn
  <2>1. ghost' = [ghost EXCEPT !.facing = (ghost.facing + 1) % 4] /\ UNCHANGED <<armed, moving, picks>>
    BY <1>7 DEF Turn
  <2>2. ghost # NoGhost BY <1>7 DEF Turn
  <2>3. ghost'.moves = ghost.moves /\ ghost'.kind = ghost.kind
    BY <2>1
  <2> QED BY <2>1, <2>2, <2>3
<1>8. ASSUME Dropped, moving # "none" \/ armed # "none", UNCHANGED <<armed, moving>>,
             chosen' \in {"none", chosen}
      PROVE  InHand'
  <2>1. ghost'.moves = (IF moving # "none" THEN moving ELSE "none") /\ ghost'.kind = (IF moving # "none" THEN moving ELSE armed)
    BY <1>8 DEF Dropped
  <2> QED BY <1>8, <2>1
<1>9. CASE Click BY <1>8, <1>9 DEF Click
<1>10. CASE Tap BY <1>8, <1>10 DEF Tap
<1>11. CASE Press \/ Drag \/ Release \/ RoadConfirm BY <1>11 DEF Press, Drag, Release, RoadConfirm
<1>12. CASE Demolish BY <1>12 DEF Demolish
<1>13. CASE Relocate BY <1>13 DEF Relocate
<1>14. CASE RosterRow \/ CloseCard \/ AssignHere BY <1>14 DEF RosterRow, CloseCard, AssignHere
<1>15. CASE Snapshot BY <1>15 DEF Snapshot, Kept
<1>16. CASE PutAway BY <1>16 DEF PutAway
<1> QED
  BY <1>1, <1>2, <1>3, <1>4, <1>5, <1>6, <1>7, <1>9, <1>10, <1>11, <1>12, <1>13, <1>14, <1>15, <1>16 DEF ToolsNext

\* A stroke that has begun, even beyond the map, is of the tool that is armed.
Latched ==
  /\ dragging \in BOOLEAN /\ erasing \in BOOLEAN
  /\ dragging /\ Active => (erasing <=> road = "Erase")

Stroke == StrokeOfItsTool /\ Latched

\* A stroke changes its tool only together with it, or is wiped.
LEMMA StrokeStays == ASSUME Stroke, ToolsNext PROVE Stroke'
<1> USE DEF Stroke, StrokeOfItsTool, Latched, Active, modes, picks, paint, outside
<1>1. CASE UNCHANGED <<road, paint>> BY <1>1
<1>2. ASSUME Wiped PROVE Stroke' BY <1>2 DEF Wiped
<1>3. Hotkey \/ Dock \/ Chat \/ Research \/ Social => UNCHANGED <<road, paint>>
  BY DEF Hotkey, Dock, Chat, Research, Social
<1>4. Confirm \/ Cancel \/ Turn \/ Click \/ Tap => UNCHANGED <<road, paint>>
  BY DEF Confirm, Cancel, Turn, Click, Tap
<1>5. Demolish \/ Relocate \/ RosterRow \/ CloseCard \/ AssignHere \/ Snapshot => UNCHANGED <<road, paint>>
  BY DEF Demolish, Relocate, RosterRow, CloseCard, AssignHere, Snapshot
<1>6. Escape => UNCHANGED <<road, paint>> \/ Wiped BY DEF Escape
<1>7. CASE RightClick
  <2>1. UNCHANGED <<road, paint>> \/ Wiped \/ (tiles = <<>> /\ road' = "Off" /\ UNCHANGED paint)
    BY <1>7 DEF RightClick
  <2>2. CASE tiles = <<>> /\ road' = "Off" /\ UNCHANGED paint BY <2>2
  <2> QED BY <1>1, <1>2, <2>1, <2>2
<1>8. BuildButton \/ RoadTool \/ RoadConfirm => Wiped BY DEF BuildButton, RoadTool, RoadConfirm
<1>9. CASE Press
  <2>1. Active /\ UNCHANGED road /\ dragging' = TRUE /\ erasing' = (road = "Erase") BY <1>9 DEF Press
  <2> QED BY <2>1
<1>10. CASE Drag BY <1>10 DEF Drag
<1>11. CASE Release BY <1>11 DEF Release
<1>12. CASE PutAway BY <1>12 DEF PutAway
<1> QED BY <1>1, <1>2, <1>3, <1>4, <1>5, <1>6, <1>7, <1>8, <1>9, <1>10, <1>11, <1>12 DEF ToolsNext

-----------------------------------------------------------------------------
(* A line, and a stroke *)

\* A tile, on the map or beyond it; and two that are the same or side by side.
Spot == Int \X Int
Touch(s, t) == Gap(s[1], t[1]) <= 1 /\ Gap(s[2], t[2]) <= 1

\* Where the pen of line_tiles goes: a step along each side it is due on.
Pen(a, b, h, k) ==
  LET dx == Gap(a[1], b[1])
      dy == - Gap(a[2], b[2])
  IN  IF k = 0 THEN <<a[1], a[2], dx + dy>>
      ELSE LET x == h[k - 1][1]
               y == h[k - 1][2]
               err == h[k - 1][3]
               goX == 2 * err >= dy
               goY == 2 * err <= dx
           IN  <<IF goX THEN x + Sign(a[1], b[1]) ELSE x,
                 IF goY THEN y + Sign(a[2], b[2]) ELSE y,
                 err + (IF goX THEN dy ELSE 0) + (IF goY THEN dx ELSE 0)>>

\* The recursion has a solution, as long as one likes.
LEMMA PenGoes == ASSUME NEW a, NEW b, NEW n \in Nat PROVE \E h : h = [k \in 0 .. n |-> Pen(a, b, h, k)]
<1> DEFINE Has(m) == \E h : h = [k \in 0 .. m |-> Pen(a, b, h, k)]
<1>1. Has(0)
  <2> DEFINE g == [k \in 0 .. 0 |-> Pen(a, b, <<>>, k)]
  <2>1. \A k \in 0 .. 0 : k = 0 OBVIOUS
  <2>2. \A k \in 0 .. 0 : Pen(a, b, <<>>, k) = Pen(a, b, g, k) BY <2>1 DEF Pen
  <2> HIDE DEF g
  <2>3. g = [k \in 0 .. 0 |-> Pen(a, b, g, k)] BY <2>2 DEF g
  <2> QED BY <2>3
<1>2. ASSUME NEW m \in Nat, Has(m) PROVE Has(m + 1)
  <2>1. PICK h : h = [k \in 0 .. m |-> Pen(a, b, h, k)] BY <1>2
  <2> DEFINE g == [k \in 0 .. m + 1 |-> Pen(a, b, h, k)]
  <2>2. \A k \in 0 .. m : g[k] = h[k] BY <2>1
  <2>3. ASSUME NEW k \in 0 .. m + 1 PROVE Pen(a, b, h, k) = Pen(a, b, g, k)
    <3>1. CASE k = 0 BY <3>1 DEF Pen
    <3>2. CASE k # 0
      <4>1. g[k - 1] = h[k - 1] BY <2>2, <3>2
      <4> HIDE DEF g
      <4> QED BY <3>2, <4>1 DEF Pen
    <3> QED BY <3>1, <3>2
  <2> HIDE DEF g
  <2>4. g = [k \in 0 .. m + 1 |-> Pen(a, b, g, k)] BY <2>3 DEF g
  <2> QED BY <2>4
<1> HIDE DEF Has
<1> DEFINE all == {m \in Nat : Has(m)}
<1>3. 0 \in all /\ \A m \in all : m + 1 \in all BY <1>1, <1>2
<1>4. n \in all
  <2> HIDE DEF all
  <2>1. all \in SUBSET Nat BY DEF all
  <2> QED BY <1>3, <2>1, AllNaturals
<1> QED BY <1>4 DEF Has

\* The longer side of a line: the steps it takes.
Steps(a, b) == IF Gap(a[1], b[1]) < Gap(a[2], b[2]) THEN Gap(a[2], b[2]) ELSE Gap(a[1], b[1])

\* The pen, step by step, and the line it draws.
LEMMA PenMoves ==
  ASSUME NEW a \in Spot, NEW b \in Spot
  PROVE  \E pen :
           /\ pen[0] = <<a[1], a[2], Gap(a[1], b[1]) - Gap(a[2], b[2])>>
           /\ \A k \in Nat : k < Steps(a, b) =>
                LET goX == 2 * pen[k][3] >= - Gap(a[2], b[2])
                    goY == 2 * pen[k][3] <= Gap(a[1], b[1])
                IN  pen[k + 1] = <<IF goX THEN pen[k][1] + Sign(a[1], b[1]) ELSE pen[k][1],
                                   IF goY THEN pen[k][2] + Sign(a[2], b[2]) ELSE pen[k][2],
                                   pen[k][3] + (IF goX THEN - Gap(a[2], b[2]) ELSE 0)
                                             + (IF goY THEN Gap(a[1], b[1]) ELSE 0)>>
           /\ LineTiles(a, b) = [k \in 1 .. Steps(a, b) + 1 |-> <<pen[k - 1][1], pen[k - 1][2]>>]
<1> DEFINE n == Steps(a, b)
<1>1. a[1] \in Int /\ a[2] \in Int /\ b[1] \in Int /\ b[2] \in Int BY DEF Spot
<1>2. n \in Nat /\ Gap(a[1], b[1]) \in Nat /\ Gap(a[2], b[2]) \in Nat BY <1>1 DEF Gap, Steps
<1>3. (IF Gap(a[1], b[1]) < - (- Gap(a[2], b[2])) THEN - (- Gap(a[2], b[2])) ELSE Gap(a[1], b[1])) = n
  BY <1>2 DEF Steps
<1> HIDE DEF n
<1>4. PICK h : h = [k \in 0 .. n |-> Pen(a, b, h, k)] BY <1>2, PenGoes
<1>5. PICK pen : /\ pen = [k \in 0 .. n |-> Pen(a, b, pen, k)]
                 /\ LineTiles(a, b) = [k \in 1 .. n + 1 |-> <<pen[k - 1][1], pen[k - 1][2]>>]
  BY <1>3, <1>4 DEF LineTiles, Pen
<1>6. \A k \in 0 .. n : pen[k] = Pen(a, b, pen, k)
  <2>1. \A i \in 0 .. n : [j \in 0 .. n |-> Pen(a, b, pen, j)][i] = Pen(a, b, pen, i) OBVIOUS
  <2> QED BY <1>5, <2>1
<1>7. pen[0] = <<a[1], a[2], Gap(a[1], b[1]) - Gap(a[2], b[2])>>
  <2>1. Gap(a[1], b[1]) + (- Gap(a[2], b[2])) = Gap(a[1], b[1]) - Gap(a[2], b[2]) BY <1>2
  <2>2. pen[0] = Pen(a, b, pen, 0) BY <1>2, <1>6
  <2>3. Pen(a, b, pen, 0) = <<a[1], a[2], Gap(a[1], b[1]) + (- Gap(a[2], b[2]))>> BY DEF Pen
  <2> QED BY <2>1, <2>2, <2>3
<1>8. ASSUME NEW k \in Nat, k < n
      PROVE  pen[k + 1] = Pen(a, b, pen, k + 1) /\ (k + 1) - 1 = k /\ k + 1 # 0
  <2>1. k + 1 \in 0 .. n /\ (k + 1) - 1 = k /\ k + 1 # 0 BY <1>2, <1>8
  <2> QED BY <1>6, <2>1
<1>9. \A k \in Nat : k < n =>
        LET goX == 2 * pen[k][3] >= - Gap(a[2], b[2])
            goY == 2 * pen[k][3] <= Gap(a[1], b[1])
        IN  pen[k + 1] = <<IF goX THEN pen[k][1] + Sign(a[1], b[1]) ELSE pen[k][1],
                           IF goY THEN pen[k][2] + Sign(a[2], b[2]) ELSE pen[k][2],
                           pen[k][3] + (IF goX THEN - Gap(a[2], b[2]) ELSE 0)
                                     + (IF goY THEN Gap(a[1], b[1]) ELSE 0)>>
  BY <1>8 DEF Pen
<1> QED BY <1>5, <1>7, <1>9 DEF n

\* A line begins where it should, and the pen is never lifted.
LEMMA LineDrawn ==
  ASSUME NEW a \in Spot, NEW b \in Spot
  PROVE  /\ LineTiles(a, b) \in Seq(Spot) /\ Len(LineTiles(a, b)) = Steps(a, b) + 1 /\ Steps(a, b) \in Nat
         /\ LineTiles(a, b)[1] = a
         /\ \A k \in 1 .. Steps(a, b) : Touch(LineTiles(a, b)[k + 1], LineTiles(a, b)[k])
<1> DEFINE n == Steps(a, b)
<1>1. a[1] \in Int /\ a[2] \in Int /\ b[1] \in Int /\ b[2] \in Int /\ a = <<a[1], a[2]>> BY DEF Spot
<1>2. n \in Nat /\ Gap(a[1], b[1]) \in Nat /\ Gap(a[2], b[2]) \in Nat BY <1>1 DEF Gap, Steps
<1>3. Sign(a[1], b[1]) \in {1, -1} /\ Sign(a[2], b[2]) \in {1, -1} BY DEF Sign
<1>4. PICK pen :
        /\ pen[0] = <<a[1], a[2], Gap(a[1], b[1]) - Gap(a[2], b[2])>>
        /\ \A k \in Nat : k < n =>
             LET goX == 2 * pen[k][3] >= - Gap(a[2], b[2])
                 goY == 2 * pen[k][3] <= Gap(a[1], b[1])
             IN  pen[k + 1] = <<IF goX THEN pen[k][1] + Sign(a[1], b[1]) ELSE pen[k][1],
                                IF goY THEN pen[k][2] + Sign(a[2], b[2]) ELSE pen[k][2],
                                pen[k][3] + (IF goX THEN - Gap(a[2], b[2]) ELSE 0)
                                          + (IF goY THEN Gap(a[1], b[1]) ELSE 0)>>
        /\ LineTiles(a, b) = [k \in 1 .. n + 1 |-> <<pen[k - 1][1], pen[k - 1][2]>>]
  BY PenMoves
<1> HIDE DEF n
<1>6. LineTiles(a, b) = [k \in 1 .. n + 1 |-> <<pen[k - 1][1], pen[k - 1][2]>>] BY <1>4
<1>7. pen[0] = <<a[1], a[2], Gap(a[1], b[1]) - Gap(a[2], b[2])>> BY <1>4
<1>8. ASSUME NEW k \in Nat, k < n, pen[k] \in Int \X Int \X Int
      PROVE  /\ pen[k + 1] \in Int \X Int \X Int
             /\ Touch(<<pen[k + 1][1], pen[k + 1][2]>>, <<pen[k][1], pen[k][2]>>)
  <2>1. pen[k][1] \in Int /\ pen[k][2] \in Int /\ pen[k][3] \in Int BY <1>8
  <2>2. PICK x \in Int, y \in Int, err \in Int :
          /\ pen[k + 1] = <<x, y, err>>
          /\ x \in {pen[k][1], pen[k][1] + Sign(a[1], b[1])}
          /\ y \in {pen[k][2], pen[k][2] + Sign(a[2], b[2])}
    <3> DEFINE goX == 2 * pen[k][3] >= - Gap(a[2], b[2])
               goY == 2 * pen[k][3] <= Gap(a[1], b[1])
               x   == IF goX THEN pen[k][1] + Sign(a[1], b[1]) ELSE pen[k][1]
               y   == IF goY THEN pen[k][2] + Sign(a[2], b[2]) ELSE pen[k][2]
               err == pen[k][3] + (IF goX THEN - Gap(a[2], b[2]) ELSE 0) + (IF goY THEN Gap(a[1], b[1]) ELSE 0)
    <3>1. pen[k + 1] = <<x, y, err>> BY <1>4, <1>8
    <3>2. x \in Int /\ x \in {pen[k][1], pen[k][1] + Sign(a[1], b[1])} BY <1>3, <2>1
    <3>3. y \in Int /\ y \in {pen[k][2], pen[k][2] + Sign(a[2], b[2])} BY <1>3, <2>1
    <3>4. err \in Int BY <1>2, <2>1
    <3> HIDE DEF x, y, err
    <3> QED BY <3>1, <3>2, <3>3, <3>4
  <2>3. Gap(x, pen[k][1]) <= 1 /\ Gap(y, pen[k][2]) <= 1 BY <1>3, <2>1, <2>2 DEF Gap
  <2> QED BY <2>2, <2>3 DEF Touch
<1>9. \A k \in 0 .. n : pen[k] \in Int \X Int \X Int
  <2> DEFINE all == {k \in Nat : k <= n => pen[k] \in Int \X Int \X Int}
  <2>1. 0 \in all
    <3>1. Gap(a[1], b[1]) - Gap(a[2], b[2]) \in Int BY <1>2
    <3>2. pen[0] \in Int \X Int \X Int BY <1>1, <1>7, <3>1
    <3> QED BY <3>2
  <2>2. ASSUME NEW k \in all PROVE k + 1 \in all
    <3>1. k \in Nat /\ (k + 1 <= n => k < n /\ k <= n) BY <1>2
    <3>2. k + 1 <= n => pen[k + 1] \in Int \X Int \X Int BY <1>8, <3>1
    <3> QED BY <3>1, <3>2
  <2>3. all \in SUBSET Nat OBVIOUS
  <2> HIDE DEF all
  <2>4. \A k \in Nat : k \in all BY <2>1, <2>2, <2>3, AllNaturals
  <2> QED BY <1>2, <2>4 DEF all
<1>10. ASSUME NEW k \in 1 .. n + 1
       PROVE  /\ LineTiles(a, b)[k] = <<pen[k - 1][1], pen[k - 1][2]>>
              /\ LineTiles(a, b)[k] \in Spot
  <2>1. pen[k - 1] \in Int \X Int \X Int
    <3>1. k - 1 \in 0 .. n BY <1>2
    <3> QED BY <1>9, <3>1
  <2>2. LineTiles(a, b)[k] = <<pen[k - 1][1], pen[k - 1][2]>>
    <3>1. \A i \in 1 .. n + 1 :
            [j \in 1 .. n + 1 |-> <<pen[j - 1][1], pen[j - 1][2]>>][i] = <<pen[i - 1][1], pen[i - 1][2]>>
      OBVIOUS
    <3> QED BY <1>6, <3>1
  <2> QED BY <2>1, <2>2 DEF Spot
<1>11. LineTiles(a, b) \in Seq(Spot) /\ Len(LineTiles(a, b)) = n + 1
  <2>1. LineTiles(a, b) \in [1 .. n + 1 -> Spot] BY <1>6, <1>10
  <2> QED BY <1>2, <2>1
<1>12. LineTiles(a, b)[1] = a BY <1>1, <1>2, <1>7, <1>10
<1>13. ASSUME NEW k \in 1 .. n PROVE Touch(LineTiles(a, b)[k + 1], LineTiles(a, b)[k])
  <2>1. k - 1 \in Nat /\ k - 1 < n /\ (k - 1) + 1 = k /\ k \in 1 .. n + 1 /\ k + 1 \in 1 .. n + 1
        /\ (k + 1) - 1 = k /\ k - 1 \in 0 .. n BY <1>2
  <2>2. Touch(<<pen[k][1], pen[k][2]>>, <<pen[k - 1][1], pen[k - 1][2]>>) BY <1>8, <1>9, <2>1
  <2> QED BY <1>10, <2>1, <2>2
<1> QED BY <1>2, <1>11, <1>12, <1>13 DEF n

\* The last step along the longer side is the last along the other: err is what is owed.
LEMMA Owed ==
  ASSUME NEW A \in Nat, NEW B \in Nat, B <= A, A > 0, NEW j \in Nat, NEW err \in Int,
         err = (A - B) - A * B + j * A, - B <= 2 * err, 2 * err <= 3 * A - 2 * B
  PROVE  j = B
<1> DEFINE m == j - B + 1
<1>1. m \in Int OBVIOUS
<1>2. err = m * A - B OBVIOUS
<1> HIDE DEF m
<1>3. CASE m <= -1
  <2>1. m * A <= - A BY <1>1, <1>3
  <2> QED BY <1>2, <2>1
<1>4. CASE m = 0
  <2>1. err = - B BY <1>2, <1>4
  <2>2. B = 0 BY <2>1
  <2> QED BY <1>4, <2>2 DEF m
<1>5. CASE m = 1 BY <1>5 DEF m
<1>6. CASE m >= 2
  <2>1. m * A >= 2 * A BY <1>1, <1>6
  <2> QED BY <1>2, <2>1
<1> QED BY <1>1, <1>3, <1>4, <1>5, <1>6

\* The line of line_tiles ends at the tile the pointer is at, whatever its slope, after as many steps
\* as its longer side has (roads.rs:89).
THEOREM LineReaches ==
  ASSUME NEW a \in Spot, NEW b \in Spot
  PROVE  LineTiles(a, b)[Len(LineTiles(a, b))] = b
<1> DEFINE n == Steps(a, b)
           A == Gap(a[1], b[1])
           B == Gap(a[2], b[2])
           sx == Sign(a[1], b[1])
           sy == Sign(a[2], b[2])
<1>1. a[1] \in Int /\ a[2] \in Int /\ b[1] \in Int /\ b[2] \in Int /\ b = <<b[1], b[2]>> BY DEF Spot
<1>2. A \in Nat /\ B \in Nat /\ n = (IF A < B THEN B ELSE A) BY <1>1 DEF Gap, Steps
<1>3. /\ sx \in {1, -1} /\ a[1] + sx * A = b[1]
      /\ sy \in {1, -1} /\ a[2] + sy * B = b[2]
  BY <1>1 DEF Sign, Gap
<1>4. PICK pen :
        /\ pen[0] = <<a[1], a[2], A - B>>
        /\ \A k \in Nat : k < n =>
             LET goX == 2 * pen[k][3] >= - B
                 goY == 2 * pen[k][3] <= A
             IN  pen[k + 1] = <<IF goX THEN pen[k][1] + sx ELSE pen[k][1],
                                IF goY THEN pen[k][2] + sy ELSE pen[k][2],
                                pen[k][3] + (IF goX THEN - B ELSE 0) + (IF goY THEN A ELSE 0)>>
        /\ LineTiles(a, b) = [k \in 1 .. n + 1 |-> <<pen[k - 1][1], pen[k - 1][2]>>]
  BY PenMoves
<1>5. Len(LineTiles(a, b)) = n + 1 BY LineDrawn
<1> HIDE DEF n, A, B, sx, sy
<1>6. LineTiles(a, b)[n + 1] = <<pen[n][1], pen[n][2]>>
  <2>1. n \in Nat /\ n + 1 \in 1 .. n + 1 /\ (n + 1) - 1 = n BY <1>2
  <2> QED BY <1>4, <2>1
<1> DEFINE At(k, i, j) == pen[k] = <<a[1] + sx * i, a[2] + sy * j, (A - B) - i * B + j * A>>
<1>7. At(0, 0, 0)
  <2>1. sx * 0 = 0 /\ sy * 0 = 0 /\ (A - B) - 0 * B + 0 * A = A - B BY <1>2, <1>3
  <2> QED BY <1>1, <1>4, <2>1
<1>8. ASSUME NEW k \in Nat, k < n, NEW i \in Nat, NEW j \in Nat, At(k, i, j)
      PROVE  LET err == (A - B) - i * B + j * A
                 goX == 2 * err >= - B
                 goY == 2 * err <= A
             IN  At(k + 1, IF goX THEN i + 1 ELSE i, IF goY THEN j + 1 ELSE j)
  <2> DEFINE err == (A - B) - i * B + j * A
  <2>1. /\ sx * (i + 1) = sx * i + sx /\ sy * (j + 1) = sy * j + sy
        /\ (i + 1) * B = i * B + B /\ (j + 1) * A = j * A + A
        /\ sx * i \in Int /\ sy * j \in Int /\ i * B \in Int /\ j * A \in Int
    BY <1>2, <1>3
  <2>2. pen[k][1] = a[1] + sx * i /\ pen[k][2] = a[2] + sy * j /\ pen[k][3] = err BY <1>8
  <2>3. err \in Int /\ err = (A - B) - i * B + j * A BY <1>2, <2>1
  <2> HIDE DEF err
  <2> DEFINE goX == 2 * err >= - B
             goY == 2 * err <= A
             i1 == IF goX THEN i + 1 ELSE i
             j1 == IF goY THEN j + 1 ELSE j
  <2>4. (IF goX THEN pen[k][1] + sx ELSE pen[k][1]) = a[1] + sx * i1 BY <1>1, <1>3, <2>1, <2>2
  <2>5. (IF goY THEN pen[k][2] + sy ELSE pen[k][2]) = a[2] + sy * j1 BY <1>1, <1>3, <2>1, <2>2
  <2>6. err + (IF goX THEN - B ELSE 0) + (IF goY THEN A ELSE 0) = (A - B) - i1 * B + j1 * A
    BY <1>2, <2>1, <2>3
  <2>7. pen[k + 1] = <<IF goX THEN pen[k][1] + sx ELSE pen[k][1],
                       IF goY THEN pen[k][2] + sy ELSE pen[k][2],
                       err + (IF goX THEN - B ELSE 0) + (IF goY THEN A ELSE 0)>>
    BY <1>4, <1>8, <2>2
  <2>8. At(k + 1, i1, j1) BY <2>4, <2>5, <2>6, <2>7
  <2> QED BY <2>3, <2>8
<1> DEFINE Err(i, j) == (A - B) - i * B + j * A
<1>9. \A i, j \in Nat : /\ Err(i, j) \in Int /\ Err(i + 1, j) = Err(i, j) - B /\ Err(i, j + 1) = Err(i, j) + A
                       /\ Err(i + 1, j + 1) = Err(i, j) - B + A
  BY <1>2
<1>10. ASSUME NEW k \in Nat, k < n, NEW i \in Nat, NEW j \in Nat, At(k, i, j)
       PROVE  At(k + 1, IF 2 * Err(i, j) >= - B THEN i + 1 ELSE i, IF 2 * Err(i, j) <= A THEN j + 1 ELSE j)
  BY <1>8, <1>10
<1>11. Err(0, 0) = A - B BY <1>2
<1>12. \A j \in Nat : Err(A, j) = (A - B) - A * B + j * A BY <1>2
<1>13. \A i \in Nat : - Err(i, B) = (B - A) - B * A + i * B BY <1>2
<1> HIDE DEF At, Err
\* Its longer side lies along x: it steps there every time.
<1>14. CASE B <= A
  <2> DEFINE Good(k) == \E j \in Nat : At(k, k, j) /\ - B <= 2 * Err(k, j) /\ 2 * Err(k, j) <= 3 * A - 2 * B
             all == {k \in Nat : k <= n => Good(k)}
  <2>1. Good(0) BY <1>2, <1>7, <1>11, <1>14
  <2>2. ASSUME NEW k \in Nat, k < n, Good(k) PROVE Good(k + 1)
    <3>1. PICK j \in Nat : At(k, k, j) /\ - B <= 2 * Err(k, j) /\ 2 * Err(k, j) <= 3 * A - 2 * B BY <2>2
    <3>2. At(k + 1, k + 1, IF 2 * Err(k, j) <= A THEN j + 1 ELSE j)
      <4>1. 2 * Err(k, j) >= - B BY <1>2, <1>9, <3>1
      <4> QED BY <1>10, <2>2, <3>1, <4>1
    <3>3. CASE 2 * Err(k, j) <= A
      <4>1. j + 1 \in Nat /\ At(k + 1, k + 1, j + 1) BY <3>2, <3>3
      <4>2. PICK err \in Int : err = Err(k, j) /\ Err(k + 1, j + 1) = err - B + A BY <1>9
      <4>3. - B <= 2 * Err(k + 1, j + 1) /\ 2 * Err(k + 1, j + 1) <= 3 * A - 2 * B
        BY <1>2, <1>14, <3>1, <3>3, <4>2
      <4> QED BY <4>1, <4>3
    <3>4. CASE ~(2 * Err(k, j) <= A)
      <4>1. At(k + 1, k + 1, j) BY <3>2, <3>4
      <4>2. PICK err \in Int : err = Err(k, j) /\ Err(k + 1, j) = err - B BY <1>9
      <4>3. - B <= 2 * Err(k + 1, j) /\ 2 * Err(k + 1, j) <= 3 * A - 2 * B
        BY <1>2, <1>14, <3>1, <3>4, <4>2
      <4> QED BY <4>1, <4>3
    <3> QED BY <3>3, <3>4
  <2> HIDE DEF Good
  <2>3. n = A /\ n \in Nat BY <1>2, <1>14
  <2>4. 0 \in all /\ \A k \in all : k + 1 \in all BY <2>1, <2>2, <2>3
  <2>5. n \in all
    <3>1. all \in SUBSET Nat OBVIOUS
    <3> HIDE DEF all
    <3> QED BY <2>3, <2>4, <3>1, AllNaturals
  <2>6. Good(A) BY <2>3, <2>5
  <2>7. PICK j \in Nat : At(A, A, j) /\ - B <= 2 * Err(A, j) /\ 2 * Err(A, j) <= 3 * A - 2 * B
    BY <2>6 DEF Good
  <2>8. j = B
    <3>1. CASE A > 0 BY <1>2, <1>9, <1>12, <1>14, <2>7, <3>1, Owed
    <3>2. CASE A = 0
      <4>1. pen[0] = <<a[1], a[2], A - B>> /\ pen[0] = <<a[1] + sx * 0, a[2] + sy * j, (A - B) - 0 * B + j * A>>
        BY <1>4, <2>7, <3>2 DEF At
      <4>2. a[2] = a[2] + sy * j BY <4>1
      <4>3. B = 0 BY <1>2, <1>14, <3>2
      <4> QED BY <1>1, <1>3, <4>2, <4>3
    <3> QED BY <1>2, <3>1, <3>2
  <2>9. pen[n] = <<a[1] + sx * A, a[2] + sy * B, (A - B) - A * B + B * A>> BY <2>3, <2>7, <2>8 DEF At
  <2>10. pen[n][1] = b[1] /\ pen[n][2] = b[2] BY <1>3, <2>9
  <2> QED BY <1>1, <1>5, <1>6, <2>10
\* Or along y.
<1>15. CASE A < B
  <2> DEFINE Good(k) == \E i \in Nat : At(k, i, k) /\ 2 * Err(i, k) <= A /\ 2 * Err(i, k) >= 2 * A - 3 * B
             all == {k \in Nat : k <= n => Good(k)}
  <2>1. Good(0) BY <1>2, <1>7, <1>11, <1>15
  <2>2. ASSUME NEW k \in Nat, k < n, Good(k) PROVE Good(k + 1)
    <3>1. PICK i \in Nat : At(k, i, k) /\ 2 * Err(i, k) <= A /\ 2 * Err(i, k) >= 2 * A - 3 * B BY <2>2
    <3>2. At(k + 1, IF 2 * Err(i, k) >= - B THEN i + 1 ELSE i, k + 1)
      BY <1>10, <2>2, <3>1
    <3>3. CASE 2 * Err(i, k) >= - B
      <4>1. i + 1 \in Nat /\ At(k + 1, i + 1, k + 1) BY <3>2, <3>3
      <4>2. PICK err \in Int : err = Err(i, k) /\ Err(i + 1, k + 1) = err - B + A BY <1>9
      <4>3. 2 * Err(i + 1, k + 1) <= A /\ 2 * Err(i + 1, k + 1) >= 2 * A - 3 * B
        BY <1>2, <1>15, <3>1, <3>3, <4>2
      <4> QED BY <4>1, <4>3
    <3>4. CASE ~(2 * Err(i, k) >= - B)
      <4>1. At(k + 1, i, k + 1) BY <3>2, <3>4
      <4>2. PICK err \in Int : err = Err(i, k) /\ Err(i, k + 1) = err + A BY <1>9
      <4>3. 2 * Err(i, k + 1) <= A /\ 2 * Err(i, k + 1) >= 2 * A - 3 * B
        BY <1>2, <1>15, <3>1, <3>4, <4>2
      <4> QED BY <4>1, <4>3
    <3> QED BY <3>3, <3>4
  <2> HIDE DEF Good
  <2>3. n = B /\ n \in Nat BY <1>2, <1>15
  <2>4. 0 \in all /\ \A k \in all : k + 1 \in all BY <2>1, <2>2, <2>3
  <2>5. n \in all
    <3>1. all \in SUBSET Nat OBVIOUS
    <3> HIDE DEF all
    <3> QED BY <2>3, <2>4, <3>1, AllNaturals
  <2>6. Good(B) BY <2>3, <2>5
  <2>7. PICK i \in Nat : At(B, i, B) /\ 2 * Err(i, B) <= A /\ 2 * Err(i, B) >= 2 * A - 3 * B
    BY <2>6 DEF Good
  <2>8. i = A
    <3> DEFINE owed == - Err(i, B)
    <3>1. owed \in Int /\ owed = (B - A) - B * A + i * B BY <1>2, <1>9, <1>13
    <3>2. - A <= 2 * owed /\ 2 * owed <= 3 * B - 2 * A
      <4>1. PICK err \in Int : err = Err(i, B) BY <1>2, <1>9
      <4>2. owed = - err BY <4>1
      <4>3. 2 * err <= A /\ 2 * err >= 2 * A - 3 * B BY <2>7, <4>1
      <4> HIDE DEF owed
      <4> QED BY <1>2, <4>2, <4>3
    <3> HIDE DEF owed
    <3> QED BY <1>2, <1>15, <3>1, <3>2, Owed
  <2>9. pen[n] = <<a[1] + sx * A, a[2] + sy * B, (A - B) - A * B + B * A>> BY <2>3, <2>7, <2>8 DEF At
  <2>10. pen[n][1] = b[1] /\ pen[n][2] = b[2] BY <1>3, <2>9
  <2> QED BY <1>1, <1>5, <1>6, <2>10
<1> QED BY <1>2, <1>14, <1>15

\* One tile after another is laid, unless it is there or the stroke is as long as may be.
Lay(stroke, line, h, k) ==
  IF k = 0 THEN stroke
  ELSE IF Len(h[k - 1]) >= MaxRoad \/ line[k] \in Range(h[k - 1]) THEN h[k - 1]
       ELSE Append(h[k - 1], line[k])

\* This recursion too has a solution.
LEMMA LayingGoes ==
  ASSUME NEW stroke, NEW line, NEW n \in Nat PROVE \E h : h = [k \in 0 .. n |-> Lay(stroke, line, h, k)]
<1> DEFINE Has(m) == \E h : h = [k \in 0 .. m |-> Lay(stroke, line, h, k)]
<1>1. Has(0)
  <2> DEFINE g == [k \in 0 .. 0 |-> Lay(stroke, line, <<>>, k)]
  <2>1. \A k \in 0 .. 0 : Lay(stroke, line, <<>>, k) = Lay(stroke, line, g, k) BY DEF Lay
  <2> HIDE DEF g
  <2>2. g = [k \in 0 .. 0 |-> Lay(stroke, line, g, k)] BY <2>1 DEF g
  <2> QED BY <2>2
<1>2. ASSUME NEW m \in Nat, Has(m) PROVE Has(m + 1)
  <2>1. PICK h : h = [k \in 0 .. m |-> Lay(stroke, line, h, k)] BY <1>2
  <2> DEFINE g == [k \in 0 .. m + 1 |-> Lay(stroke, line, h, k)]
  <2>2. \A k \in 0 .. m : g[k] = h[k] BY <2>1
  <2>3. ASSUME NEW k \in 0 .. m + 1 PROVE Lay(stroke, line, h, k) = Lay(stroke, line, g, k)
    <3>1. CASE k = 0 BY <3>1 DEF Lay
    <3>2. CASE k # 0
      <4>1. g[k - 1] = h[k - 1] BY <2>2, <3>2
      <4> HIDE DEF g
      <4> QED BY <3>2, <4>1 DEF Lay
    <3> QED BY <3>1, <3>2
  <2> HIDE DEF g
  <2>4. g = [k \in 0 .. m + 1 |-> Lay(stroke, line, g, k)] BY <2>3 DEF g
  <2> QED BY <2>4
<1> HIDE DEF Has
<1> DEFINE all == {m \in Nat : Has(m)}
<1>3. 0 \in all /\ \A m \in all : m + 1 \in all BY <1>1, <1>2
<1>4. n \in all
  <2> HIDE DEF all
  <2>1. all \in SUBSET Nat BY DEF all
  <2> QED BY <1>3, <2>1, AllNaturals
<1> QED BY <1>4 DEF Has

\* Every tile but the first touches one laid before it.
Unbroken(s) == \A i \in 2 .. Len(s) : \E j \in 1 .. i - 1 : Touch(s[i], s[j])

\* A tile that touches one there already can be laid.
LEMMA OneMore ==
  ASSUME NEW s \in Seq(Spot), Unbroken(s), NEW t \in Spot, s # <<>> => \E j \in 1 .. Len(s) : Touch(t, s[j])
  PROVE  Append(s, t) \in Seq(Spot) /\ Unbroken(Append(s, t))
<1>1. Append(s, t) \in Seq(Spot) /\ Len(Append(s, t)) = Len(s) + 1 /\ Append(s, t)[Len(s) + 1] = t /\ Len(s) \in Nat
  OBVIOUS
<1>2. \A i \in 1 .. Len(s) : Append(s, t)[i] = s[i] OBVIOUS
<1>3. ASSUME NEW i \in 2 .. Len(s) + 1 PROVE \E j \in 1 .. i - 1 : Touch(Append(s, t)[i], Append(s, t)[j])
  <2>1. CASE i = Len(s) + 1
    <3>1. s # <<>> BY <1>1, <2>1
    <3>2. PICK j \in 1 .. Len(s) : Touch(t, s[j]) BY <3>1
    <3> QED BY <1>1, <1>2, <2>1, <3>2
  <2>2. CASE i # Len(s) + 1
    <3>1. i \in 2 .. Len(s) BY <1>1, <2>2
    <3>2. PICK j \in 1 .. i - 1 : Touch(s[i], s[j]) BY <3>1 DEF Unbroken
    <3>3. i \in 1 .. Len(s) /\ j \in 1 .. Len(s) BY <1>1, <3>1
    <3> QED BY <1>2, <3>2, <3>3
  <2> QED BY <2>1, <2>2
<1> QED BY <1>1, <1>3 DEF Unbroken

\* Painting to a tile leaves the stroke in one piece, wherever the limit cuts the line off.
LEMMA PaintedUnbroken ==
  ASSUME NEW s \in Seq(Spot), Unbroken(s), NEW t \in Spot
  PROVE  Painted(s, t) \in Seq(Spot) /\ Unbroken(Painted(s, t))
<1> DEFINE from == IF s = <<>> THEN t ELSE s[Len(s)]
           line == LineTiles(from, t)
           n    == Len(line)
<1>1. from \in Spot /\ (s # <<>> => \E i \in 1 .. Len(s) : s[i] = from) OBVIOUS
<1> HIDE DEF from
<1>2. /\ line \in Seq(Spot) /\ n \in Nat /\ n >= 1 /\ line[1] = from
      /\ \A k \in 1 .. n - 1 : Touch(line[k + 1], line[k])
  <2>1. n = Steps(from, t) + 1 /\ Steps(from, t) \in Nat BY <1>1, LineDrawn
  <2>2. /\ line \in Seq(Spot) /\ line[1] = from
        /\ \A k \in 1 .. Steps(from, t) : Touch(line[k + 1], line[k])
    BY <1>1, LineDrawn
  <2> HIDE DEF line, n
  <2>3. n - 1 = Steps(from, t) /\ n \in Nat /\ n >= 1 BY <2>1
  <2> QED BY <2>2, <2>3
<1>3. \A k \in 1 .. n : line[k] \in Spot BY <1>2
<1> HIDE DEF line, n
<1>4. PICK h : h = [k \in 0 .. n |-> Lay(s, line, h, k)] BY <1>2, LayingGoes
<1>5. PICK done : done = [k \in 0 .. n |-> Lay(s, line, done, k)] /\ Painted(s, t) = done[n]
  BY <1>4 DEF Painted, Lay, from, line, n
<1>6. \A k \in 0 .. n : done[k] = Lay(s, line, done, k)
  <2>1. \A i \in 0 .. n : [j \in 0 .. n |-> Lay(s, line, done, j)][i] = Lay(s, line, done, i) OBVIOUS
  <2> QED BY <1>5, <2>1
<1> DEFINE Good(k) ==
             /\ done[k] \in Seq(Spot) /\ Unbroken(done[k]) /\ (k = 0 => done[k] = s)
             /\ k >= 1 /\ Len(done[k]) < MaxRoad => line[k] \in Range(done[k])
<1>7. Good(0) BY <1>2, <1>6 DEF Lay
<1>8. ASSUME NEW k \in Nat, k < n, Good(k) PROVE Good(k + 1)
  <2>1. k + 1 \in 0 .. n /\ k + 1 # 0 /\ (k + 1) - 1 = k /\ k + 1 \in 1 .. n BY <1>2, <1>8
  <2>2. done[k + 1] = IF Len(done[k]) >= MaxRoad \/ line[k + 1] \in Range(done[k]) THEN done[k]
                      ELSE Append(done[k], line[k + 1])
    BY <1>6, <2>1 DEF Lay
  <2>3. Len(done[k]) \in Nat /\ MaxRoad \in Nat /\ line[k + 1] \in Spot BY <1>3, <1>8, <2>1, ToolsAssumption
  <2>4. CASE Len(done[k]) >= MaxRoad \/ line[k + 1] \in Range(done[k])
    <3>1. done[k + 1] = done[k] BY <2>2, <2>4
    <3>2. Len(done[k]) < MaxRoad => line[k + 1] \in Range(done[k]) BY <2>3, <2>4
    <3> QED BY <1>8, <2>1, <3>1, <3>2
  <2>5. CASE ~(Len(done[k]) >= MaxRoad \/ line[k + 1] \in Range(done[k]))
    <3>1. done[k] # <<>> => \E j \in 1 .. Len(done[k]) : Touch(line[k + 1], done[k][j])
      <4>1. CASE k = 0
        <5>1. s = <<>>
          <6>1. from \notin Range(s) BY <1>2, <1>8, <2>5, <4>1
          <6> QED BY <1>1, <6>1 DEF Range
        <5> QED BY <1>8, <4>1, <5>1
      <4>2. CASE k # 0
        <5>1. k \in 1 .. n - 1 /\ k >= 1 /\ Len(done[k]) < MaxRoad BY <1>2, <1>8, <2>3, <2>5, <4>2
        <5>2. line[k] \in Range(done[k]) BY <1>8, <5>1
        <5>3. PICK j \in 1 .. Len(done[k]) : done[k][j] = line[k] BY <1>8, <5>2 DEF Range
        <5> QED BY <1>2, <5>1, <5>3
      <4> QED BY <4>1, <4>2
    <3>2. done[k + 1] = Append(done[k], line[k + 1]) BY <2>2, <2>5
    <3>3. done[k + 1] \in Seq(Spot) /\ Unbroken(done[k + 1]) BY <1>8, <2>3, <3>1, <3>2, OneMore
    <3>4. line[k + 1] \in Range(done[k + 1])
      <4>1. /\ Len(done[k]) + 1 \in DOMAIN Append(done[k], line[k + 1])
            /\ Append(done[k], line[k + 1])[Len(done[k]) + 1] = line[k + 1]
        BY <1>8, <2>3
      <4> QED BY <3>2, <4>1 DEF Range
    <3> QED BY <2>1, <3>3, <3>4
  <2> QED BY <2>4, <2>5
<1>9. Good(n)
  <2> HIDE DEF Good
  <2> DEFINE all == {k \in Nat : k <= n => Good(k)}
  <2>1. 0 \in all BY <1>7
  <2>2. ASSUME NEW k \in all PROVE k + 1 \in all
    <3>1. k \in Nat /\ (k + 1 <= n => k < n /\ k <= n) BY <1>2
    <3>2. k + 1 <= n => Good(k + 1) BY <1>8, <3>1
    <3> QED BY <3>1, <3>2
  <2>3. all \in SUBSET Nat OBVIOUS
  <2> HIDE DEF all
  <2>4. n \in all BY <1>2, <2>1, <2>2, <2>3, AllNaturals
  <2> QED BY <1>2, <2>4 DEF all
<1> QED BY <1>5, <1>9

\* The stroke is of tiles, without a gap.
OnePiece == tiles \in Seq(Spot) /\ Unbroken(tiles)

\* What is painted is one road at every moment of a stroke, and when it has been wiped.
LEMMA EmptyIsOnePiece == <<>> \in Seq(Spot) /\ Unbroken(<<>>)
<1>1. <<>> \in Seq(Spot) /\ Len(<<>>) = 0 OBVIOUS
<1> QED BY <1>1 DEF Unbroken

\* Only a press and a drag paint.
LEMMA StaysOnePiece == ASSUME OnePiece, ToolsNext PROVE OnePiece'
<1> USE DEF OnePiece, modes, paint, picks, outside
<1>1. CASE UNCHANGED tiles BY <1>1
<1>2. CASE tiles' = <<>> BY <1>2, EmptyIsOnePiece
<1>3. Grid \subseteq Spot BY ToolsAssumption DEF Grid, Spot
<1>4. Hotkey \/ Dock \/ Chat \/ Research \/ Social \/ Confirm \/ Cancel \/ Turn => UNCHANGED tiles
  BY DEF Hotkey, Dock, Chat, Research, Social, Confirm, Cancel, Turn
<1>5. Click \/ Tap \/ Release \/ Demolish \/ Relocate => UNCHANGED tiles
  BY DEF Click, Tap, Release, Demolish, Relocate
<1>6. RosterRow \/ CloseCard \/ AssignHere \/ Snapshot => UNCHANGED tiles
  BY DEF RosterRow, CloseCard, AssignHere, Snapshot
<1>7. Escape \/ RightClick => UNCHANGED tiles \/ tiles' = <<>> BY DEF Escape, RightClick, Wiped
<1>8. BuildButton \/ RoadTool \/ RoadConfirm \/ PutAway => tiles' = <<>>
  BY DEF BuildButton, RoadTool, RoadConfirm, PutAway, Wiped
<1>9. CASE Press
  <2>1. CASE tiles' = <<>> BY <1>2, <2>1
  <2>2. CASE \E t \in Grid : tiles' = Painted(<<>>, t)
    BY <1>3, <2>2, EmptyIsOnePiece, PaintedUnbroken
  <2> QED BY <1>9, <2>1, <2>2 DEF Press
<1>10. CASE Drag
  <2>1. PICK t \in Grid : tiles' = Painted(tiles, t) BY <1>10 DEF Drag
  <2> QED BY <1>3, <2>1, PaintedUnbroken
<1> QED BY <1>1, <1>2, <1>4, <1>5, <1>6, <1>7, <1>8, <1>9, <1>10 DEF ToolsNext

\* What one press of the confirm bar commits is the ghost and the stroke of the tool in hand, and the
\* stroke is one road, however the tools are switched and however far the pointer jumps
\* (buildbar.rs:69, roads.rs:60, roads.rs:89).
THEOREM ToolsAlwaysHold == ToolsSpec => []ToolsHold
<1> DEFINE Inv == InHand /\ Stroke /\ OnePiece
<1>1. ToolsInit => Inv
  BY EmptyIsOnePiece
  DEF ToolsInit, InHand, GhostOfItsTool, OneMoved, Stroke, StrokeOfItsTool, Latched, OnePiece
<1>2. Inv /\ [ToolsNext]_toolsVars => Inv'
  <2>1. CASE UNCHANGED toolsVars
    BY <2>1 DEF toolsVars, InHand, GhostOfItsTool, OneMoved, Stroke, StrokeOfItsTool, Latched, Active, OnePiece
  <2> QED BY <2>1, ToolInHand, StrokeStays, StaysOnePiece
<1>3. Inv => ToolsHold
  BY DEF InHand, Stroke, OnePiece, ToolsHold, StrokeUnbroken, Unbroken, Touch
<1> QED BY <1>1, <1>2, <1>3, PTL DEF ToolsSpec
===============================================================================
