--------------------------------- MODULE MCWalk ---------------------------------
(* A strip of map under even snow, with a road, and half cleared of a drift. *)
EXTENDS Walk, TLC
CONSTANTS Drift   \* how deep the snow lies beyond what has been cleared
Bare(n) == [road |-> FALSE, snow |-> n]
Even(n) == [u \in Tiles |-> Bare(n)]
Road == [u \in Tiles |-> IF u[2] = 1 THEN [road |-> TRUE, snow |-> 0] ELSE Bare(40)]
Cleared == [u \in Tiles |-> IF u[1] <= 3 THEN Bare(0) ELSE Bare(Drift)]
MCGrounds == {Even(0), Even(100), Road, Cleared}
Home == <<>>
MCPlaces == {<<0, 1>>, <<2, 3>>, <<3, 0>>, <<6, 1>>, <<7, 3>>}
=================================================================================
