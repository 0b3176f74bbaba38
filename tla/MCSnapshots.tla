----------------------------- MODULE MCSnapshots -----------------------------
(* What outlives a world, on small instances: its clients' copies of it, one  *)
(* world and its successors under two clients, with the code's arrival tick   *)
(* and tile cadence; and its save file, of every version.  The two share no   *)
(* variable: a behaviour follows one.                                         *)
EXTENDS Snapshots, Saves, TLC
CONSTANTS c1, c2
Symmetry == Permutations({c1, c2})
AllVersions == 1..LiveVersion
VARIABLE stored  \* whether it is the file
mcVars == <<snapVars, vars, stored>>

MCInit == /\ stored \in BOOLEAN /\ SnapInit /\ Init
          /\ IF stored THEN ~personal ELSE disk = Missing
MCNext == \/ ~stored /\ SnapNext /\ UNCHANGED <<vars, stored>>
          \/ stored /\ Next /\ UNCHANGED <<snapVars, stored>>
MCSpec == MCInit /\ [][MCNext]_mcVars
=============================================================================
