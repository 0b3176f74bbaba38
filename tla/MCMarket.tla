------------------------------- MODULE MCMarket -------------------------------
(***************************************************************************)
(* Small instances of Market, one per behaviour.  A smooth one of three     *)
(* colonies and the Global World, where every statement succeeds; one of    *)
(* two colonies of which a player posts from both; and a rough one, where   *)
(* any statement may fail and the process may be killed.                    *)
(***************************************************************************)
EXTENDS Market, TLC

CONSTANTS ana, bek, lola, anasWorld, beksWorld, lolasWorld, centralWorld
VARIABLE part   \* "smooth", "abroad" or "rough"

\* Ana has goods to sell, Bek gold to buy with; Lola bids against Bek.
StartOfTwo ==
  (anasWorld :> [gold |-> 1, wood |-> 2]) @@ (beksWorld :> [gold |-> 2, wood |-> 1])
StartOfFour ==
  StartOfTwo @@ (lolasWorld :> [gold |-> 2, wood |-> 0]) @@ (centralWorld :> [gold |-> 1, wood |-> 1])

\* Everybody at home; Ana, who has two devices, may be in the Global World as well, or with Bek.
AtHome      == {<<ana, anasWorld>>, <<bek, beksWorld>>}
InCentral   == AtHome \cup {<<lola, lolasWorld>>, <<ana, centralWorld>>}
WithBek     == AtHome \cup {<<ana, beksWorld>>}
OutAndAbout == InCentral \cup WithBek

Smooth == INSTANCE Market WITH Plays <- InCentral
Abroad == INSTANCE Market WITH Plays <- WithBek, Amounts <- {1}
Rough  == INSTANCE Market WITH Plays <- AtHome, Amounts <- {1}, Failing <- TRUE, Crashing <- TRUE

MCInit == MarketInit /\ part \in {"smooth", "abroad", "rough"}
MCNext == /\ part' = part
          /\ \/ part = "smooth" /\ Smooth!MarketNext
             \/ part = "abroad" /\ Abroad!MarketNext
             \/ part = "rough" /\ Rough!MarketNext
=============================================================================
