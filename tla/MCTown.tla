---------------------------------- MODULE MCTown ----------------------------------
(***************************************************************************)
(* A personal world on small instances: its goals and what befalls it, in  *)
(* a game of four days of two ticks with two harder rounds of goals; its   *)
(* ground; its people's needs; and one walker.  The modules share no       *)
(* variable, each takes what the others do as choices, and each behaviour  *)
(* follows one.                                                            *)
(***************************************************************************)
EXTENDS Town, MCLand, MCNeeds, MCWalk

VARIABLE part   \* "goals", "ground", "needs" or "walk"
worldVars == <<townVars, vars, needsVars, walkVars, part>>

Goals(n) == [k \in Kinds |-> CASE k = "days" -> IF n = 0 THEN 2 ELSE 1
                               [] k = "people" -> 2 + n [] OTHER -> 1]
Targets == [n \in 0..MaxCycles |-> Goals(n)]
Pay(g) == [x \in {g} |-> 1]
Rewards == [k \in Kinds |-> Pay(IF k \in {"people", "days"} THEN "food" ELSE "wood")]
Dig == [g \in {"wood", "coal"} |-> 1]
One == [g \in Goods |-> 1]
Nil == [g \in Goods |-> 0]
Of(g) == [x \in Goods |-> IF x = g THEN 1 ELSE 0]
Fate(d, n, m, u) == [deaths |-> d, tents |-> n, sawmills |-> n, made |-> m, used |-> u]
Fates == {Fate(0, 1, One, Nil), Fate(0, 0, Nil, Nil), Fate(1, 1, Of("coal"), Of("food"))}

MCInit == /\ part \in {"goals", "ground", "needs", "walk"} /\ TownInit /\ Init /\ NeedsInit /\ WalkInit
          /\ (part # "needs" => place = Camp)
          /\ (part # "walk" => country = Even(0) /\ at = Middle(<<0, 1>>))
MCNext == \/ part = "goals" /\ TownNext /\ UNCHANGED <<vars, needsVars, walkVars, part>>
          \/ part = "ground" /\ Next /\ UNCHANGED <<townVars, needsVars, walkVars, part>>
          \/ part = "needs" /\ NeedsNext /\ UNCHANGED <<townVars, vars, walkVars, part>>
          \/ part = "walk" /\ WalkNext /\ UNCHANGED <<townVars, vars, needsVars, part>>
MCSpec == MCInit /\ [][MCNext]_worldVars
===================================================================================
