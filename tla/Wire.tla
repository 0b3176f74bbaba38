------------------------------------ MODULE Wire ----------------------------------
(***************************************************************************)
(* Connections (crates/fc-net/src: client.rs, ws.rs, server/listener.rs,    *)
(* server/native.rs, server/web.rs, server/config.rs).                      *)
(*                                                                         *)
(* A frame goes through many hands: the app's queue, the client's writer    *)
(* thread (or the browser), the socket, the server's reader, the world's    *)
(* inbox; and back through the world's sender, the connection's writer (or  *)
(* the one thread a web connection has), the socket, the client's reader,   *)
(* the app's inbox.  Each of them may end first - the app goes, the world   *)
(* lets the client go or ends, the network breaks, the peer stalls - and    *)
(* has to bring the others to an end without losing what is on the way.     *)
(***************************************************************************)
EXTENDS Naturals, Sequences, FiniteSets

CONSTANTS
  Conns,
  ConnectionCap, \* MAX_CONNECTIONS
  MaxUp,          \* bound: frames an app sends on a connection, its first included
  MaxDown         \* bound: messages a world sends to a connection
ASSUME WireAssumption == ConnectionCap \in Nat /\ MaxUp \in Nat /\ MaxDown \in Nat

VARIABLES
  kind,    \* connection -> "native" | "web" | "local", fixed
  app,     \* connection -> the ClientConn and what pumps it, see NoApp
  net,     \* connection -> its socket, see NoNet
  srv,     \* connection -> its handler, its writer and its place in the world, see NoSrv
  active,  \* accept_loop's count
  sim      \* the world's loop still runs
wireVars == <<kind, app, net, srv, active, sim>>

\* queue: frames not yet written (in_rx; ws.rs's pending); writer and reader: the client's
\* threads (of a browser: writer, it has closed; reader, it has opened and not closed); gone: poll() has said Err.
NoApp == [holds |-> FALSE, sent |-> 0, queue |-> <<>>, writer |-> FALSE, reader |-> FALSE,
          inbox |-> <<>>, heard |-> 0, gone |-> FALSE]
NoNet == [sock |-> "none", up |-> <<>>, down |-> <<>>, cut |-> FALSE, stalled |-> FALSE]
\* got: frames handed to route_first_msg and to the world; client: the world holds the sender;
\* leave: a Leave is in the world's inbox; mailed: messages sent by the world or the handler.
NoSrv == [handler |-> "none", writer |-> FALSE, client |-> FALSE, leave |-> FALSE,
          mail |-> <<>>, mailed |-> 0, got |-> <<>>]

Native(c) == kind[c] = "native"
Web(c)    == kind[c] = "web"
Local(c)  == kind[c] = "local"
Working   == {"probe", "first", "serving"}
Lost(c)   == net[c].sock = "shut" \/ net[c].cut           \* reads and writes fail, once what came is read
App(c, f) == app' = [app EXCEPT ![c] = f]
Net(c, f) == net' = [net EXCEPT ![c] = f]
Srv(c, f) == srv' = [srv EXCEPT ![c] = f]

(* --------------------------------- the app ----------------------------- *)

\* connect_tcp_with writes the first frame itself; connect_with queues it; connect_local joins.
Connect(c) ==
  /\ ~app[c].holds /\ app[c].sent = 0
  /\ App(c, [NoApp EXCEPT !.holds = TRUE, !.sent = 1, !.writer = Native(c), !.reader = Native(c),
                          !.queue = IF Web(c) THEN <<1>> ELSE <<>>])
  /\ Net(c, IF Local(c) THEN NoNet ELSE [NoNet EXCEPT !.sock = "waiting", !.up = IF Native(c) THEN <<1>> ELSE <<>>])
  /\ Srv(c, IF ~Local(c) THEN NoSrv
            ELSE IF sim THEN [NoSrv EXCEPT !.handler = "serving", !.client = TRUE, !.mail = <<1>>, !.mailed = 1, !.got = <<1>>]
            ELSE [NoSrv EXCEPT !.handler = "over"])
  /\ UNCHANGED <<kind, active, sim>>

\* ws.rs send: straight to an open socket, behind the first frame while it opens.
WsSend(c, n) ==
  IF app[c].reader THEN App(c, [app[c] EXCEPT !.sent = n]) /\ Net(c, [net[c] EXCEPT !.up = IF Lost(c) THEN @ ELSE Append(@, n)])
  ELSE App(c, [app[c] EXCEPT !.sent = n, !.queue = IF app[c].writer THEN @ ELSE Append(@, n)]) /\ UNCHANGED net

AppSend(c) ==
  LET n == app[c].sent + 1
  IN  /\ app[c].holds /\ n <= MaxUp
      /\ IF Web(c) THEN WsSend(c, n)
         ELSE App(c, [app[c] EXCEPT !.sent = n, !.queue = Append(@, n)]) /\ UNCHANGED net
      /\ UNCHANGED <<kind, srv, active, sim>>

\* The ClientConn is dropped; a browser's socket is closed with it.
AppDrop(c) ==
  /\ app[c].holds
  /\ App(c, [app[c] EXCEPT !.holds = FALSE, !.inbox = <<>>, !.queue = IF Web(c) THEN <<>> ELSE @])
  /\ Net(c, IF Web(c) THEN [net[c] EXCEPT !.sock = "shut"] ELSE net[c])
  /\ UNCHANGED <<kind, srv, active, sim>>

\* The other end of the inbox is gone: the reader thread, the socket, the world's sender.
Disconnected(c) ==
  CASE Native(c) -> ~app[c].reader
    [] Web(c)    -> app[c].writer                          \* `closed`
    [] OTHER     -> ~srv[c].client

\* Mutant: a closed connection is reported before its inbox is drained.
Reports_AtOnce(c) == Disconnected(c)

\* poll() says Err only with nothing left to hand out.
Reports(c) == Disconnected(c) /\ app[c].inbox = <<>> /\ (Local(c) => srv[c].mail = <<>>)

Poll(c) ==
  /\ app[c].holds /\ ~app[c].gone
  /\ IF Reports(c) THEN App(c, [app[c] EXCEPT !.gone = TRUE]) /\ UNCHANGED srv
     ELSE IF Local(c) THEN /\ App(c, [app[c] EXCEPT !.heard = @ + Len(srv[c].mail)])
                           /\ Srv(c, [srv[c] EXCEPT !.mail = <<>>])
     ELSE App(c, [app[c] EXCEPT !.heard = @ + Len(app[c].inbox), !.inbox = <<>>]) /\ UNCHANGED srv
  /\ UNCHANGED <<kind, net, active, sim>>

(* ---------------------------- the client's pumps ------------------------ *)

\* fc-client-writer: writes until the app is gone or the socket is, then shuts the socket down.
ClientWriter(c) ==
  /\ Native(c) /\ app[c].writer
  /\ \/ /\ app[c].queue # <<>> /\ ~Lost(c)
        /\ App(c, [app[c] EXCEPT !.queue = Tail(@)]) /\ Net(c, [net[c] EXCEPT !.up = Append(@, Head(app[c].queue))])
     \/ /\ app[c].queue # <<>> /\ Lost(c)
        /\ App(c, [app[c] EXCEPT !.queue = <<>>, !.writer = FALSE]) /\ UNCHANGED net
     \/ /\ app[c].queue = <<>> /\ ~app[c].holds
        /\ App(c, [app[c] EXCEPT !.writer = FALSE]) /\ Net(c, [net[c] EXCEPT !.sock = "shut"])
  /\ UNCHANGED <<kind, srv, active, sim>>

\* fc-client-reader: what has come is read even from a socket the server has shut.
ClientReader(c) ==
  /\ Native(c) /\ app[c].reader
  /\ \/ /\ net[c].down # <<>> /\ app[c].holds
        /\ App(c, [app[c] EXCEPT !.inbox = Append(@, Head(net[c].down))]) /\ Net(c, [net[c] EXCEPT !.down = Tail(@)])
     \/ /\ (net[c].down # <<>> /\ ~app[c].holds) \/ (net[c].down = <<>> /\ Lost(c))
        /\ App(c, [app[c] EXCEPT !.reader = FALSE]) /\ UNCHANGED net
  /\ UNCHANGED <<kind, srv, active, sim>>

\* The browser's events: onopen flushes what was queued, onmessage, onclose.
Browser(c) ==
  /\ Web(c) /\ app[c].holds /\ ~app[c].writer
  /\ \/ /\ ~app[c].reader /\ srv[c].handler \in {"first", "serving"} /\ ~Lost(c)
        /\ App(c, [app[c] EXCEPT !.reader = TRUE, !.queue = <<>>])
        /\ Net(c, [net[c] EXCEPT !.up = @ \o app[c].queue])
     \/ /\ app[c].reader /\ net[c].down # <<>>
        /\ App(c, [app[c] EXCEPT !.inbox = Append(@, Head(net[c].down))]) /\ Net(c, [net[c] EXCEPT !.down = Tail(@)])
     \/ /\ Lost(c) /\ net[c].down = <<>>
        /\ App(c, [app[c] EXCEPT !.writer = TRUE, !.reader = FALSE]) /\ UNCHANGED net
  /\ UNCHANGED <<kind, srv, active, sim>>

(* ------------------------------- the server ----------------------------- *)

\* A handler's thread ends, ConnGuard with it; hang: what becomes of the socket.
Over(c, s, n) ==
  /\ Srv(c, [s EXCEPT !.handler = "over"]) /\ Net(c, n)
  /\ active' = IF Local(c) THEN active ELSE active - 1
  /\ UNCHANGED <<kind, app, sim>>
Shut(c) == [net[c] EXCEPT !.sock = "shut"]

Accept(c) ==
  /\ net[c].sock = "waiting"
  /\ \/ /\ active < ConnectionCap
        /\ Srv(c, [srv[c] EXCEPT !.handler = "probe"]) /\ Net(c, [net[c] EXCEPT !.sock = "open"]) /\ active' = active + 1
     \/ UNCHANGED <<srv, active>> /\ Net(c, Shut(c))       \* over the cap, or no thread to be had
  /\ UNCHANGED <<kind, app, sim>>

\* peek4; handle_http reads the head and shakes hands.
Probe(c) ==
  /\ srv[c].handler = "probe" /\ ~Lost(c) /\ (Native(c) => net[c].up # <<>>)
  /\ Srv(c, [srv[c] EXCEPT !.handler = "first"])
  /\ UNCHANGED <<kind, app, net, active, sim>>

\* Ten seconds without a first frame, or the socket gone.
GivesUp(c) ==
  /\ ~Local(c) /\ srv[c].handler \in {"probe", "first"}
  /\ Over(c, srv[c], Shut(c))

\* The next frame is read and handed on.
Handed(c) == [srv[c] EXCEPT !.got = Append(@, Head(net[c].up))]
Rest(c)   == [net[c] EXCEPT !.up = Tail(@)]

\* The first frame: into a world, refused with a reason, or neither.
Joins(c) ==
  /\ sim /\ Head(net[c].up) = 1
  /\ Srv(c, [Handed(c) EXCEPT !.handler = "serving", !.writer = Native(c), !.client = TRUE, !.mail = <<1>>, !.mailed = 1])
  /\ Net(c, Rest(c)) /\ UNCHANGED <<kind, app, active, sim>>
Refused(c) ==
  /\ Head(net[c].up) = 1
  /\ Over(c, [Handed(c) EXCEPT !.mailed = 1],
             [Rest(c) EXCEPT !.sock = "shut", !.down = IF net[c].cut THEN @ ELSE Append(@, 1)])
Unanswered(c) ==
  /\ ~sim \/ Head(net[c].up) # 1
  /\ Over(c, Handed(c), [Rest(c) EXCEPT !.sock = "shut"])
Route(c) ==
  /\ srv[c].handler = "first" /\ net[c].up # <<>>
  /\ Joins(c) \/ Refused(c) \/ Unanswered(c)

\* The reader of a connection that has joined: to the world while there is one.  A native
\* reader leaves the socket to its writer.
Read(c) ==
  /\ srv[c].handler = "serving" /\ ~Local(c)
  /\ \/ /\ net[c].up # <<>> /\ sim
        /\ Srv(c, Handed(c)) /\ Net(c, Rest(c)) /\ UNCHANGED <<kind, app, active, sim>>
     \/ /\ (net[c].up # <<>> /\ ~sim) \/ (net[c].up = <<>> /\ Lost(c))
        /\ Over(c, [srv[c] EXCEPT !.leave = TRUE, !.mail = IF Web(c) THEN <<>> ELSE @], IF Web(c) THEN Shut(c) ELSE net[c])

\* fc-local-pump.
LocalPump(c) ==
  /\ Local(c) /\ srv[c].handler = "serving"
  /\ \/ /\ app[c].queue # <<>> /\ sim
        /\ App(c, [app[c] EXCEPT !.queue = Tail(@)]) /\ Srv(c, [srv[c] EXCEPT !.got = Append(@, Head(app[c].queue))])
        /\ UNCHANGED <<kind, net, active, sim>>
     \/ /\ (app[c].queue # <<>> /\ ~sim) \/ (app[c].queue = <<>> /\ ~app[c].holds)
        /\ Over(c, [srv[c] EXCEPT !.leave = TRUE], net[c])

\* fc-conn-writer; a write that takes 30 s fails, and then nothing shuts the socket down.
Writer(c) ==
  LET s == srv[c]
  IN  /\ Native(c) /\ s.writer
      /\ \/ /\ s.mail # <<>> /\ ~Lost(c) /\ ~net[c].stalled
            /\ Srv(c, [s EXCEPT !.mail = Tail(@)]) /\ Net(c, [net[c] EXCEPT !.down = Append(@, Head(s.mail))])
         \/ /\ s.mail # <<>> /\ (Lost(c) \/ net[c].stalled)
            /\ Srv(c, [s EXCEPT !.writer = FALSE, !.mail = <<>>]) /\ UNCHANGED net
         \/ /\ s.mail = <<>> /\ ~s.client
            /\ Srv(c, [s EXCEPT !.writer = FALSE]) /\ Net(c, Shut(c))
      /\ UNCHANGED <<kind, app, active, sim>>

\* The writing half of a web connection's one thread.
WebWriter(c) ==
  LET s == srv[c]
  IN  /\ Web(c) /\ s.handler = "serving"
      /\ \/ /\ s.mail # <<>> /\ ~Lost(c) /\ ~net[c].stalled
            /\ Srv(c, [s EXCEPT !.mail = Tail(@)]) /\ Net(c, [net[c] EXCEPT !.down = Append(@, Head(s.mail))])
            /\ UNCHANGED <<kind, app, active, sim>>
         \/ /\ (s.mail # <<>> /\ (Lost(c) \/ net[c].stalled)) \/ (s.mail = <<>> /\ ~s.client)
            /\ Over(c, [s EXCEPT !.leave = TRUE, !.mail = <<>>], Shut(c))

(* ------------------------------- the world ------------------------------ *)

\* The receiver of the world's sender still exists.
Listens(c) ==
  CASE Native(c) -> srv[c].writer
    [] Web(c)    -> srv[c].handler = "serving"
    [] OTHER     -> app[c].holds

\* Mutant: a send that fails is ignored.
Mailed_Ignored(c) == IF Listens(c) THEN [srv[c] EXCEPT !.mail = Append(@, srv[c].mailed + 1), !.mailed = @ + 1] ELSE srv[c]

\* What a broadcast does to a client: one that no longer listens is disconnected.
Mailed(c) == IF Listens(c) THEN [srv[c] EXCEPT !.mail = Append(@, srv[c].mailed + 1), !.mailed = @ + 1]
             ELSE [srv[c] EXCEPT !.client = FALSE]

Broadcast(c) ==
  /\ sim /\ srv[c].client /\ (srv[c].mailed < MaxDown \/ ~Listens(c))
  /\ Srv(c, Mailed(c))
  /\ UNCHANGED <<kind, app, net, active, sim>>

\* Leave, and Kick: the sender is dropped; what it sent stays to be written.
LetGo(c) ==
  /\ sim /\ srv[c].client
  /\ Srv(c, [srv[c] EXCEPT !.client = FALSE])
  /\ UNCHANGED <<kind, app, net, active, sim>>
WireLeave(c) == srv[c].leave /\ LetGo(c)
WireKick(c)  == ~srv[c].leave /\ LetGo(c)

SimEnds ==
  /\ sim /\ sim' = FALSE
  /\ srv' = [c \in Conns |-> [srv[c] EXCEPT !.client = FALSE]]
  /\ UNCHANGED <<kind, app, net, active>>

(* ------------------------------- the network ---------------------------- *)

\* The connection breaks: a lost link, or a close that met unread input.
Cut(c) ==
  /\ net[c].sock \in {"open", "shut"} /\ ~net[c].cut
  /\ Net(c, [net[c] EXCEPT !.cut = TRUE, !.up = <<>>, !.down = <<>>])
  /\ UNCHANGED <<kind, app, srv, active, sim>>

\* The peer stops reading: a suspended tab.  The world has more to say to it.
Stall(c) ==
  /\ net[c].sock = "open" /\ ~net[c].stalled /\ srv[c].mailed < MaxDown
  /\ Net(c, [net[c] EXCEPT !.stalled = TRUE])
  /\ UNCHANGED <<kind, app, srv, active, sim>>

(* ------------------------------- behaviour ------------------------------ *)

WireInit ==
  /\ kind \in [Conns -> {"native", "web", "local"}]
  /\ app = [c \in Conns |-> NoApp] /\ net = [c \in Conns |-> NoNet] /\ srv = [c \in Conns |-> NoSrv]
  /\ active = 0 /\ sim = TRUE

Pumps(c)    == ClientWriter(c) \/ ClientReader(c) \/ Browser(c)
Serves(c)   == Probe(c) \/ Route(c) \/ Read(c) \/ LocalPump(c)
Writes(c)   == Writer(c) \/ WebWriter(c)
WireNext ==
  \/ \E c \in Conns : \/ Connect(c) \/ AppSend(c) \/ AppDrop(c) \/ Poll(c)
                      \/ Pumps(c) \/ Serves(c) \/ GivesUp(c) \/ Writes(c) \/ Accept(c)
                      \/ Broadcast(c) \/ WireLeave(c) \/ WireKick(c) \/ Cut(c) \/ Stall(c)
  \/ SimEnds

WireSpec == WireInit /\ [][WireNext]_wireVars
\* Threads are scheduled, waits run out and the world ticks; apps and the network do as they like.
WireFair == \A c \in Conns :
  /\ WF_wireVars(Pumps(c)) /\ WF_wireVars(Serves(c)) /\ WF_wireVars(Writes(c)) /\ WF_wireVars(GivesUp(c))
  /\ WF_wireVars(Accept(c)) /\ WF_wireVars(Broadcast(c)) /\ WF_wireVars(WireLeave(c))

(* ------------------------------- properties ----------------------------- *)

\* An app that learns its connection is gone has first been given everything the server sent
\* on it, the reason it was refused included - unless the network or the peer failed, or the
\* world ended (a web thread that meets the dead world leaves its mail unwritten).
HeardInFull ==
  \A c \in Conns : app[c].gone /\ ~net[c].cut /\ ~net[c].stalled /\ (Web(c) => sim)
                     => app[c].heard = srv[c].mailed

\* What the server is handed is what the app sent, in its order and from its first frame on,
\* however early the app starts to talk.
FramesInOrder ==
  \A c \in Conns : srv[c].got = [k \in 1..Len(srv[c].got) |-> k]

\* What either end is given is what the other sent, in order, and all of it: frames from the
\* first one on, however early the app starts to talk, and the last words of a server that
\* refused or let go.
NothingLostOnTheWay == HeardInFull /\ FramesInOrder

\* A connection whose app is gone or whose network broke gives back its thread, its slot and
\* its place in the world, and a peer that stops reading gives back its place in the world.
EveryoneLetGo ==
  \A c \in Conns :
    /\ srv[c].handler \in Working /\ (~app[c].holds \/ net[c].cut) ~> (srv[c].handler = "over" /\ ~srv[c].client)
    /\ net[c].stalled ~> ~srv[c].client

===============================================================================
