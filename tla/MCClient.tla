--------------------------------- MODULE MCClient ---------------------------------
(***************************************************************************)
(* The player's side on small instances: a session that changes worlds and  *)
(* loses its connection, and a hand on the tools of one map.  The two meet  *)
(* only when the screen is torn down (PutAway), so each behaviour follows   *)
(* one of them; which one is fixed at the start.                            *)
(***************************************************************************)
EXTENDS Client, Tools

VARIABLE part   \* "session" or "tools"
clientVars == <<vars, toolsVars, part>>

\* An empty town; one with something for every mirror; one whose site has been finished.
Bare == [building |-> "none", person |-> "plain", traveller |-> FALSE, body |-> FALSE, grave |-> FALSE,
         peer |-> FALSE, ping |-> FALSE]
Busy == [building |-> "site", person |-> "leader", traveller |-> TRUE, body |-> TRUE, grave |-> TRUE,
         peer |-> TRUE, ping |-> TRUE]
Done == [Bare EXCEPT !.building = "built", !.body = TRUE, !.grave = TRUE]
MCScenes == {Bare, Busy, Done}

MCInit == Init /\ ToolsInit /\ part \in {"session", "tools"} /\ (part = "tools" => build = "native")
MCNext == \/ part = "session" /\ Next /\ UNCHANGED <<toolsVars, part>>
          \/ part = "tools" /\ ToolsNext /\ UNCHANGED <<vars, part>>

\* Of the fairness of Client; the tools' actions are the player's, who owes none.
MCSpec == /\ MCInit /\ [][MCNext]_clientVars
          /\ WF_vars(Transition) /\ WF_<<session, net, view, next, invite>>(PumpNet) /\ WF_vars(WatchDisconnect)
          /\ WF_vars(DialEnds) /\ WF_vars(Answer)
===================================================================================
