--------------------------------- MODULE MCLand ---------------------------------
(* A strip of tiles: a furnace, open ground, a seam and a wood.  A mine takes two of them, and may shift by one
   once the wood is felled. *)
EXTENDS Land, TLC

TerrainMC == [t \in (0..(W - 1)) \X (0..(H - 1)) |->
  CASE t = <<2, 0>> -> "Coal" [] t = <<3, 0>> -> "Forest" [] OTHER -> "Snow"]
DriftMC == {<<1, 0>>}
AtMC   == <<0, 0>>
SizeMC == ("Furnace" :> <<1, 1>>) @@ ("CoalMine" :> <<2, 1>>) @@ ("Sawmill" :> <<1, 1>>)
            @@ ("Warehouse" :> <<1, 1>>) @@ ("SnowCrew" :> <<1, 1>>) @@ ("Tent" :> <<1, 1>>)
CostMC == ("Furnace" :> 5) @@ ("CoalMine" :> 3) @@ ("Sawmill" :> 2) @@ ("Warehouse" :> 3) @@ ("SnowCrew" :> 2) @@ ("Tent" :> 1)
=================================================================================
