------------------------------- MODULE Graduation -------------------------------
(***************************************************************************)
(* What the Tunnel promises a city (docs of missions.rs and progression.rs,*)
(* TunnelState): a way out that opens once, never shuts again, is dug with *)
(* a fixed number of payments, and ends the city's game when it is done.   *)
(***************************************************************************)
EXTENDS Naturals

CONSTANT Payments   \* stages times the payments of one

VARIABLES
  open,     \* the Tunnel may be dug
  paid,     \* payments made
  through,  \* the city has graduated
  over      \* its game has ended

way == <<open, paid, through, over>>

Init == ~open /\ paid = 0 /\ ~through /\ ~over

\* Life goes on: the Tunnel may open, the game may end for other reasons.
Live ==
  /\ ~over /\ open' \in {open, TRUE} /\ over' \in BOOLEAN
  /\ UNCHANGED <<paid, through>>

Pay ==
  /\ ~over /\ open /\ paid < Payments /\ paid' = paid + 1
  /\ through' = (paid' = Payments) /\ over' = through'
  /\ UNCHANGED open

Spec == Init /\ [][Live \/ Pay]_way
=============================================================================
