------------------------------ MODULE MCSessions ------------------------------
(* Small instances of a world's session keeper and of the connections that    *)
(* bring it its clients: two accounts besides guests and a reconnect store of *)
(* one, so that eviction happens with two departures; and one connection, of  *)
(* each kind in turn.  The two share no variable: a behaviour follows one.    *)
EXTENDS Sessions, Wire, TLC
CONSTANTS ana, bek, none
VARIABLE wired  \* whether it is the connection
mcVars == <<vars, wireVars, wired>>

MCInit == Init /\ WireInit /\ wired \in BOOLEAN /\ (~wired => \A c \in Conns : Local(c))
MCNext == \/ ~wired /\ Next /\ UNCHANGED <<wireVars, wired>>
          \/ wired /\ WireNext /\ UNCHANGED <<vars, wired>>

\* FairSpec of the world that runs, WireFairSpec of the connection: nothing is enabled for a
\* connection nobody opens.
MCSpec ==
  /\ MCInit /\ [][MCNext]_mcVars
  /\ WF_vars(~wired /\ Tick) /\ WF_vars(~wired /\ \E c \in 1..MaxConnections : Reap(c))
  /\ WireFair
=============================================================================
