-------------------------------- MODULE World --------------------------------
(***************************************************************************)
(* Five parts of the world the client keeps, as the server tells it: the   *)
(* entities, the way one of them moves on the screen, the map to walk on,  *)
(* the locs, and the things on the ground.  They share no state but the    *)
(* window of the scene, of which each has its own; they are put side by    *)
(* side here, under the names of their parts, so that what is checked of   *)
(* them on an instance (MCWorld) and what is proved of them (Game_proof,   *)
(* Walking_proof) is stated once.                                          *)
(***************************************************************************)
EXTENDS Integers, Sequences

CONSTANTS
    Kinds, Ids, Places, Bases,                       \* Entities
    RouteTiles, EntitySize, TileWidth, TurnStep,     \* PathingEntity
    MaxRoute, SceneFrom, SceneTo, Shifts, MaxSlide, MaxStall, MaxPackets,
    MapSize, Barriers, MaxBarriers, MaxWaypoints,    \* Walking
    MaxDetour,
    Span, ZoneSize, Windows, Doors, MapFiles,        \* SceneLocs
    FilesOnDisc, MaxMerges,
    Ground, Single, Piled, PileCounts, Cost, MaxPile  \* ObjStacks

VARIABLES
    part,                    \* the part that a behaviour of the instance steps
    kind, ids, slot, seen, tile, look, buffer, localTile, base,
    serverIds, where, localAt, sent, placed,
    entityX, path, pathRunning, yaw, dstYaw, seqTrigger, primarySeq, force,
    packets, lost,
    there, flags, off,
    locsBase, locsState, shown, spawned, merged, loaded, built, locs,
    locsFollowed, locsOff,
    objBase, objState, stacks, top, things, objFollowed

E == INSTANCE Entities
P == INSTANCE PathingEntity WITH
         Tiles <- RouteTiles, Size <- EntitySize, x <- entityX, running <- pathRunning
W == INSTANCE Walking WITH
         Size <- MapSize, Things <- Barriers, MaxThings <- MaxBarriers
L == INSTANCE SceneLocs WITH
         Bases <- Windows, OnDisc <- FilesOnDisc, base <- locsBase,
         scene_state <- locsState, followed <- locsFollowed, off <- locsOff
O == INSTANCE ObjStacks WITH
         Bases <- Windows, Counts <- PileCounts, MaxThings <- MaxPile,
         base <- objBase, scene_state <- objState, followed <- objFollowed

ASSUME EntitiesAssumption == E!EntitiesAssumption
ASSUME PathingAssumption == P!PathingAssumption
ASSUME WalkingAssumption == W!WalkingAssumption
ASSUME SceneLocsAssumption == L!SceneLocsAssumption
ASSUME ObjStacksAssumption == O!ObjStacksAssumption

entities == <<kind, ids, slot, seen, tile, look, buffer, localTile, base,
              serverIds, where, localAt, sent, placed>>
pathing == <<entityX, path, pathRunning, yaw, dstYaw, seqTrigger, primarySeq,
             force, packets, lost>>
walking == <<there, flags, off>>
sceneLocs == <<locsBase, locsState, shown, spawned, merged, loaded, built, locs,
               locsFollowed, locsOff>>
objs == <<objBase, objState, stacks, top, things, objFollowed>>

-----------------------------------------------------------------------------
(* The first property of a part takes its types with it.                     *)

\* The entities stand where the server has them (Entities!InStep).
InStep == E!TypeOK /\ E!InStep

\* The entities look as the server said (Entities!LooksRight).
LooksRight == E!LooksRight

\* An entity is drawn between two tiles of its route (PathingEntity!OnRoute).
OnRoute == P!TypeOK /\ P!OnRoute

\* Walls stop and gaps let through (Walking!FlagsMatch).
FlagsMatch == W!TypeOK /\ W!FlagsMatch

\* A click takes the shortest way there is (Walking!RoutesAreShortest); looked
\* at where the map is the part that moves, for it takes long to evaluate.
RoutesAreShortest == part = "walking" => W!RoutesAreShortest

\* The doors stand as they do on the server (SceneLocs!LocsAsTold).
LocsAsTold == L!TypeOK /\ L!LocsAsTold

\* On the ground lie the things of the server (ObjStacks!ThingsAsTold).
ThingsAsTold == O!TypeOK /\ O!ThingsAsTold
=============================================================================
