-------------------------------- MODULE MCColony --------------------------------
(***************************************************************************)
(* Two maps on small instances: a personal colony of two or three with one *)
(* trade, and the Global World with two accounts.  A world is one or the   *)
(* other; which is fixed at the start.                                     *)
(***************************************************************************)
EXTENDS Colony, Commune, TLC

CONSTANTS furnace, sawmill, none
VARIABLE central   \* GameState.central
colonyVars == <<colony, communeVars, central>>

Employs == furnace :> 0 @@ sawmill :> 1

MCInit == Init /\ CommuneInit /\ central \in BOOLEAN
MCNext == \/ ~central /\ Next /\ UNCHANGED <<communeVars, central>>
          \/ central /\ CommuneNext /\ UNCHANGED <<colony, central>>
MCSpec == MCInit /\ [][MCNext]_colonyVars
=================================================================================
