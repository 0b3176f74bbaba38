-------------------------------- MODULE Saves --------------------------------
\* The save file of one world and the process that runs it (persist.rs, the
\* saves and the boot of simloop.rs): it is read at boot, whatever version wrote
\* it, and rewritten through a temporary file while the world runs; the process
\* may be killed, and any call to the disk may fail, at any point.
EXTENDS Migrations

CONSTANTS
  Versions,  \* the versions the file found at the first boot may have
  Ids,       \* ids a survivor in it may have
  Central,   \* config.central
  MaxTick    \* bound on the world's clock

ASSUME SavesAssumption ==
    /\ Versions \subseteq 1..LiveVersion
    /\ Ids \subseteq Nat
    /\ Central \in BOOLEAN
    /\ MaxTick \in Nat

VARIABLES
  disk,     \* the world's file
  tmp,      \* its temporary sibling
  world,    \* the state in memory, NoWorld while no process runs
  saving,   \* "no", or how far the save under way got: "writing", "renaming"
  leaving,  \* the main loop is left: the next save is the last
  origin,   \* history: the file the last boot read, as it was
  started,  \* history: the world as the last boot decoded it, before anything else
  reset     \* history: that world has since been lost or won, and started over

vars == <<disk, tmp, world, saving, leaving, origin, started, reset>>

\* What a path holds: nothing, bytes no version decodes, or a whole save.
Missing == [kind |-> "missing"]
Torn == [kind |-> "torn"]
Whole(v, w) == [kind |-> "whole", version |-> v, body |-> w]
IsWhole(f) == f.kind = "whole"

\* A world of a given shape whose every field holds what its player made of it.
Earned(shape, tick, grad, id, kind) ==
    [t \in DOMAIN shape |-> [f \in shape[t] |->
        CASE <<t, f>> = <<"state", "tick">> -> tick
          [] <<t, f>> = <<"state", "graduated">> -> grad
          [] <<t, f>> = <<"survivor", "id">> -> id
          [] <<t, f>> = <<"tunnel", "kind">> -> kind
          [] OTHER -> <<t, f>>]]

\* A fresh world: nothing of it was ever saved.
NewGame == Earned(GameState, 0, FALSE, 0, "Tunnel")

\* Every failure to read or to decode collapses to no world at all.
LoadRaw(f) == IF IsWhole(f) THEN Decoded(f.version, f.body) ELSE NoWorld
Load(f) == IF LoadRaw(f) = NoWorld THEN NoWorld ELSE Repaired(LoadRaw(f))

Init ==
    /\ disk \in {Missing, Torn}
           \cup {Whole(v, Earned(Mirror[v], 1, g, id, k)) :
                     v \in Versions, g \in BOOLEAN, id \in Ids, k \in {"Tunnel", "Misread"}}
    /\ tmp = Missing
    /\ world = NoWorld /\ saving = "no" /\ leaving = FALSE
    /\ origin = Missing /\ started = NoWorld /\ reset = FALSE

\* The process starts: the saved world, or a fresh one; the roster is emptied.
Entered(w) == [w EXCEPT !.player = [f \in DOMAIN @ |-> None],
                        !.state.central = IF Central THEN TRUE ELSE @]
Boot ==
    /\ world = NoWorld
    /\ \E w \in {IF Load(disk) = NoWorld THEN NewGame ELSE Load(disk)} :
           started' = w /\ world' = Entered(w)
    /\ origin' = disk /\ reset' = FALSE
    /\ UNCHANGED <<disk, tmp, saving, leaving>>

\* fs::read itself fails: taken for a missing file.
BootBlind ==
    /\ world = NoWorld
    /\ started' = NewGame /\ world' = Entered(NewGame)
    /\ origin' = Missing /\ reset' = FALSE
    /\ UNCHANGED <<disk, tmp, saving, leaving>>

Play ==
    /\ world # NoWorld /\ saving = "no" /\ ~leaving
    /\ world.state.tick < MaxTick
    /\ world' = [world EXCEPT !.state.tick = @ + 1]
    /\ UNCHANGED <<disk, tmp, saving, leaving, origin, started, reset>>

\* The colony comes through the Tunnel.
Graduate ==
    /\ world # NoWorld /\ saving = "no" /\ ~leaving
    /\ world' = [world EXCEPT !.state.graduated = TRUE]
    /\ UNCHANGED <<disk, tmp, saving, leaving, origin, started, reset>>

\* A world lost or won starts over: who owns it, who is in it and that it has
\* graduated are carried across.
\* Mutant: nothing but the roster is carried.
StartedOver_Bare(w) == [NewGame EXCEPT !.player = w.player]
StartedOver(w) == [NewGame EXCEPT !.player = w.player, !.state.owner_id = w.state.owner_id,
                                  !.state.graduated = w.state.graduated]
StartOver ==
    /\ world # NoWorld /\ saving = "no" /\ ~leaving
    /\ world' = StartedOver(world)
    /\ reset' = TRUE
    /\ UNCHANGED <<disk, tmp, saving, leaving, origin, started>>

\* The loop is left: idle for too long, or asked to shut down.
Leave ==
    /\ world # NoWorld /\ saving = "no" /\ ~leaving
    /\ leaving' = TRUE
    /\ UNCHANGED <<disk, tmp, world, saving, origin, started, reset>>

\* A save is over, done or not: the loop goes on, or the process exits.
Over ==
    /\ saving' = "no"
    /\ leaving' = FALSE
    /\ world' = IF leaving THEN NoWorld ELSE world
    /\ UNCHANGED <<origin, started, reset>>

\* Mutant: the save is written in place.
BeginSave_InPlace ==
    /\ world # NoWorld /\ saving = "no"
    /\ saving' = "writing" /\ disk' = Torn /\ tmp' = Torn
    /\ UNCHANGED <<world, leaving, origin, started, reset>>
\* The autosave, or the last save: fs::write truncates, then writes ...
BeginSave ==
    /\ world # NoWorld /\ saving = "no"
    /\ saving' = "writing" /\ tmp' = Torn
    /\ UNCHANGED <<disk, world, leaving, origin, started, reset>>
\* ... all of it ...
WriteTmp ==
    /\ saving = "writing"
    /\ tmp' = Whole(LiveVersion, world)
    /\ saving' = "renaming"
    /\ UNCHANGED <<disk, world, leaving, origin, started, reset>>
\* ... and the rename puts it in place at once.
RenameTmp ==
    /\ saving = "renaming"
    /\ disk' = tmp /\ tmp' = Missing
    /\ Over
\* A failed write or rename is only logged.
SaveFails == saving # "no" /\ Over /\ UNCHANGED <<disk, tmp>>

\* A kill, at any point.
Kill ==
    /\ world # NoWorld
    /\ world' = NoWorld /\ saving' = "no" /\ leaving' = FALSE
    /\ UNCHANGED <<disk, tmp, origin, started, reset>>

Next == Boot \/ BootBlind \/ Play \/ Graduate \/ StartOver \/ Leave \/ BeginSave \/ WriteTmp \/ RenameTmp
            \/ SaveFails \/ Kill

Spec == Init /\ [][Next]_vars
-------------------------------------------------------------------------------
Read == IsWhole(origin)

\* A file that was whole is never left truncated: the save it held, or a newer
\* one, is there after any kill and any failure, for the next boot and for the
\* showcase that reads it meanwhile.
NeverTorn == [][IsWhole(disk) => IsWhole(disk')]_disk

\* Every field the file had and the live format still has holds its value, and no field is
\* missing.  Only the mislabelled Tunnel is corrected.
Carried ==
    /\ ShapeOf(started) = GameState
    /\ \A t \in DOMAIN started : \A f \in DOMAIN started[t] :
           f \in DOMAIN origin.body[t] =>
               \/ started[t][f] = origin.body[t][f]
               \/ <<t, f>> = <<"tunnel", "kind">>

\* A field a save lacks is given the same value whichever later version lacks it too.
Reference == [v \in 1..LiveVersion |-> [id \in Ids |->
                  Load(Whole(v, Earned(Mirror[v], 0, FALSE, id, "Tunnel")))]]
Agreed ==
    \A u \in origin.version..LiveVersion : \A t \in DOMAIN started :
        \A f \in DOMAIN started[t] \ Mirror[u][t] :
            started[t][f] = Reference[u][started.survivor.id][t][f]

\* Nothing a player earned is forgotten by an upgrade, and the conversions, written out by
\* hand for every version, agree on what they add: every old save becomes the same kind of world.
MigratedWhole == Read => Carried /\ Agreed

\* Saved progress is not undone: whatever is put in place of a save is at least
\* as far on, unless the game itself started over or the boot before it could not
\* read the file; and graduation outlives even a world that started over.
ProgressKept ==
    [][IsWhole(disk) /\ Read =>
           /\ reset \/ disk'.body.state.tick >= disk.body.state.tick
           /\ disk.body.state.graduated => disk'.body.state.graduated]_disk
===============================================================================
