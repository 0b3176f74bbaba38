-------------------------------- MODULE MCNeeds --------------------------------
(* Days of four ticks; a grown worker, an idler and a child; two plain towns. *)
EXTENDS Needs
Person(i) == [id |-> i, hunger |-> 0, thirst |-> 0, fatigue |-> 0, hp |-> 10000, sick |-> 0, child |-> FALSE,
              posted |-> TRUE, errand |-> "none", log |-> FALSE, rough |-> FALSE]
MCRosters == {<<Person(1), [Person(2) EXCEPT !.posted = FALSE, !.sick = 80], [Person(3) EXCEPT !.child = TRUE, !.posted = FALSE]>>}
Camp == [kitchen |-> "none", hospital |-> 0, tailor |-> FALSE, relief |-> 0, techs |-> {}, warm |-> 0, shelter |-> 2,
         blizzard |-> FALSE, snap |-> TRUE, lit |-> FALSE, leader |-> TRUE]
Village == [kitchen |-> "staffed", hospital |-> 1, tailor |-> TRUE, relief |-> 7, techs |-> {"Rationing", "Insulation", "Medicine"},
         warm |-> 3, shelter |-> 0, blizzard |-> TRUE, snap |-> FALSE, lit |-> TRUE, leader |-> TRUE]
MCRations == {<<0, 2000>>, <<1700, 0>>}
MCTowns == {Camp, Village}
==================================================================================
