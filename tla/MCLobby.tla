-------------------------------- MODULE MCLobby --------------------------------
(***************************************************************************)
(* Two stories of people on small instances, which share no variable: a     *)
(* behaviour follows one.  Between the worlds: a host with one device and a *)
(* guest with two, of which the second goes where popups are shown and      *)
(* visits nobody.  And in a world: days of three ticks, three people and one *)
(* who comes back under a new id.                                           *)
(***************************************************************************)
EXTENDS Lobby, Life, TLC
CONSTANTS ana, bek, hers, phone, laptop, global
VARIABLE inside   \* whether it is the one in a world
lobbyVars == <<vars, life, inside>>

Boots2 == (ana :> 2) @@ (bek :> 1)
Owners == (hers :> ana) @@ (phone :> bek) @@ (laptop :> bek)

MCInit == Init /\ LifeInit /\ inside \in BOOLEAN
MCNext == \/ ~inside /\ Next /\ call'[laptop] = Idle /\ UNCHANGED <<life, inside>>
          \/ inside /\ LifeNext /\ UNCHANGED <<vars, inside>>
MCSpec == /\ MCInit /\ [][MCNext]_lobbyVars
          /\ \A d \in {hers, phone} : WF_vars(~inside /\ VisitGoesOn(d))
          /\ WF_lifeVars(inside /\ Tick)
===============================================================================
