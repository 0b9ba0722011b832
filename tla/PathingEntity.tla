---------------------------- MODULE PathingEntity ----------------------------
(* How one entity moves on the screen.  pathingentity.c puts the steps the    *)
(* server tells into a route of at most MaxRoute waypoints; updateMovement    *)
(* (client.c) moves the entity along it once a cycle, faster the longer the   *)
(* route and slower while it turns, and not at all while it plays an          *)
(* animation that does not merge with walking.  A forced movement slides it   *)
(* over a given time.  When the window of the scene moves, its place and its  *)
(* route move with it, but not the tiles of its slide.  Packets come at any   *)
(* time.                                                                      *)
(*                                                                            *)
(* The tiles lie on a line, so that the only turn is the one that takes       *)
(* longest, turning back; the other axis of the map is treated alike.         *)
EXTENDS Integers, Sequences

CONSTANTS
    Tiles,      \* the tiles the entity is told to go to
    Size,       \* 1, or the size of an npc
    TileWidth,  \* 128 in the code; a smaller one takes fewer cycles to cross
    TurnStep,   \* 32 in the code, of a turn of 2048
    MaxRoute,   \* 9 in the code
    SceneFrom,  \* the tiles an entity may be drawn on: from 1 to 103 in the
    SceneTo,    \* code, from 12 to 92 if it is the player
    Shifts,     \* by how many tiles the window of the scene moves
    MaxSlide,   \* the longest time to the begin and the end of a slide
    MaxStall,   \* cycles explored that it stands still for an animation
    MaxPackets  \* packets explored that say something of the entity

PathingAssumption ==
    /\ Tiles \subseteq Nat /\ {Size, TileWidth, TurnStep, MaxRoute} \subseteq Nat \ {0}
    /\ {SceneFrom, SceneTo} \subseteq Int /\ Shifts \subseteq Int \ {0}
    /\ {MaxSlide, MaxStall, MaxPackets} \subseteq Nat

VARIABLES
    x,          \* where it is drawn
    path,       \* pathTile[0 .. pathLength]: the newest tile first, the one
                \* it has reached last
    running,    \* pathRunning of the same entries
    yaw,        \* the way it looks
    dstYaw,     \* the way it turns to
    seqTrigger, \* cycles it stood still while it had somewhere to go
    primarySeq, \* the animation it plays: "none", "weak" (priority 0 or 1)
                \* or "firm"
    force,      \* the forced movement: where from and to, cycles to its
                \* begin and to its end; NotForced
    packets,    \* packets so far
    lost        \* a waypoint was lost since one was last reached, or the
                \* slide will not end on the tile that the server has it on

vars == <<x, path, running, yaw, dstYaw, seqTrigger, primarySeq, force,
          packets, lost>>

South == 0
West == 512
East == 1536
Turn == 2048

pathLength == Len(path) - 1
Centre(t) == t * TileWidth + Size * (TileWidth \div 2)
Waypoint == Centre(path[pathLength])    \* when pathLength > 0

NotForced == [from |-> 0, to |-> 0, begin |-> -1, end |-> -1]
Slides == [from : Tiles, to : Tiles, begin : -MaxSlide..MaxSlide,
           end : -MaxSlide..MaxSlide]

\* The cycle to come is one before the slide begins, or until it ends.
Lasts(f) == f.begin > 0 \/ f.end >= 0
Forced == Lasts(force)

TypeOK ==
    /\ x \in Int /\ yaw \in 0..(Turn - 1) /\ dstYaw \in {South, West, East}
    /\ path \in Seq(Int) /\ Len(path) \in 1..(MaxRoute + 1)
    /\ running \in Seq(BOOLEAN) /\ Len(running) = Len(path)
    /\ seqTrigger \in Nat /\ primarySeq \in {"none", "weak", "firm"}
    /\ force \in Slides \cup {NotForced}
    /\ packets \in 0..MaxPackets /\ lost \in BOOLEAN

Init ==
    /\ \E t \in Tiles : path = <<t>> /\ x = Centre(t)
    /\ running = <<FALSE>>
    /\ dstYaw \in {West, East} /\ yaw = dstYaw
    /\ seqTrigger = 0 /\ primarySeq = "none" /\ force = NotForced
    /\ packets = 0 /\ lost = FALSE

-----------------------------------------------------------------------------
\* A new entry at the front; of a full route the last entry is lost.
Push(q, e) == <<e>> \o SubSeq(q, 1, IF Len(q) <= MaxRoute THEN Len(q) ELSE MaxRoute)

\* A step ends an animation of priority 0 or 1.
EndsSequence ==
    primarySeq' = IF primarySeq = "weak" THEN "none" ELSE primarySeq

\* pathingentity_movealongroute, for each of the tiles in turn.
Route(tiles, run) ==
    /\ path' = IF Len(tiles) = 1 THEN Push(path, tiles[1])
               ELSE Push(Push(path, tiles[1]), tiles[2])
    /\ running' = IF Len(tiles) = 1 THEN Push(running, run)
                  ELSE Push(Push(running, run), run)
    /\ lost' = (lost \/ Len(path) + Len(tiles) > MaxRoute + 1)
    /\ UNCHANGED <<x, seqTrigger>>

Beside(t) == {t - 1, t + 1}

Walk ==
    \E t \in Beside(path[1]) : Route(<<t>>, FALSE)

Run ==
    \E s \in Beside(path[1]) : \E t \in Beside(s) : Route(<<s, t>>, TRUE)

\* pathingentity_teleport: within eight tiles, and if it need not jump, the
\* entity walks there; otherwise it is there at once.  A slide is not ended by
\* it and takes the entity back.
Teleport ==
    \E t \in Tiles, jump \in BOOLEAN :
        IF ~jump /\ t - path[1] \in -8..8
        THEN Route(<<t>>, FALSE)
        ELSE /\ path' = <<t>> /\ running' = <<running[1]>>
             /\ x' = Centre(t) /\ seqTrigger' = 0 /\ lost' = Forced

\* The steps of PLAYER_INFO and NPC_INFO.
Step ==
    /\ packets < MaxPackets /\ packets' = packets + 1
    /\ Walk \/ Run \/ Teleport
    /\ EndsSequence
    /\ UNCHANGED <<yaw, dstYaw, force>>

\* An animation (mask 2 of the update): it replaces a weaker one.
Animate ==
    /\ packets < MaxPackets /\ packets' = packets + 1
    /\ primarySeq # "firm" /\ primarySeq' \in {"weak", "firm"}
    /\ UNCHANGED <<x, path, running, yaw, dstYaw, seqTrigger, force, lost>>

\* A forced movement (mask 0x200 of the update).  One that ends before it
\* begins brings the entity to where it begins and leaves it there; one that
\* takes no time divides by zero, and is left out.
ForceMove ==
    /\ packets < MaxPackets /\ packets' = packets + 1
    /\ \E f \in Slides :
          /\ f.begin >= 0 /\ f.end >= 0 /\ f.begin # f.end
          /\ force' = f
          /\ path' = <<f.to>> /\ running' = <<running[1]>>
          /\ lost' = (f.end < f.begin)
    /\ UNCHANGED <<x, yaw, dstYaw, seqTrigger, primarySeq>>

\* REBUILD_NORMAL moves the window of the scene by d tiles: the entity and its
\* route keep their places in the world, a slide keeps its place in the window.
Rebuild ==
    /\ packets < MaxPackets /\ packets' = packets + 1
    /\ \E d \in Shifts : /\ path' = [i \in 1..Len(path) |-> path[i] - d]
                         /\ x' = x - d * TileWidth
    /\ lost' = (lost \/ Forced)
    /\ UNCHANGED <<running, yaw, dstYaw, seqTrigger, primarySeq, force>>

-----------------------------------------------------------------------------
\* C's division, which rounds towards zero.
Div(a, b) == IF a >= 0 THEN a \div b ELSE -((-a) \div b)

\* updateForceMovement: it comes to the beginning of the slide in time.
updateForceMovement ==
    /\ force.begin > 0
    /\ x' = x + Div(Centre(force.from) - x, force.begin)
    /\ UNCHANGED <<path, running, lost>>

\* startForceMovement: its place on the way from one tile to the other.  While
\* an animation holds a frame it stands, but not in the last cycle.
startForceMovement ==
    /\ force.begin <= 0
    /\ LET duration == force.end - force.begin
           gone     == -force.begin
       IN  \/ x' = Div(Centre(force.from) * (duration - gone)
                       + Centre(force.to) * gone, duration)
           \/ /\ force.end # 0 /\ primarySeq # "none"
              /\ x' = x
    /\ UNCHANGED <<path, running, lost>>

\* updateMovement's speed when it has to look towards `to`; who has someone to
\* look at is not slowed down by turning.
moveSpeed(to, targeted) ==
    LET speed == IF (seqTrigger > 0 /\ pathLength > 1) \/ pathLength > 3 THEN 8
                 ELSE IF pathLength > 2 THEN 6
                 ELSE IF yaw # to /\ ~targeted THEN 2 ELSE 4
    IN  IF running[pathLength] THEN 2 * speed ELSE speed

\* Seeded fault: the step may go beyond.
Past(from, to, by) ==
    IF from < to THEN from + by ELSE from - by

\* A step towards the waypoint ends at it.
Towards(from, to, by) ==
    IF from < to THEN IF from + by > to THEN to ELSE from + by
    ELSE IF from - by < to THEN to ELSE from - by

\* Seeded fault: the last waypoint is never taken off.
LastOneStays(reached) ==
    IF reached /\ pathLength > 1 THEN pathLength ELSE Len(path)

\* The waypoint that is reached goes from the route.
Left(reached) == IF reached THEN pathLength ELSE Len(path)

\* updateMovement's branches: nowhere to go; standing while an animation plays
\* that does not merge with walking and has begun; two tiles or more from the
\* waypoint, where it is put, to have reached it in the next cycle; on its way.
Idle ==
    /\ pathLength = 0
    /\ seqTrigger' = 0
    /\ UNCHANGED <<x, path, running, dstYaw, lost>>

Stalled ==
    /\ pathLength > 0 /\ primarySeq # "none"
    /\ seqTrigger < MaxStall /\ seqTrigger' = seqTrigger + 1
    /\ UNCHANGED <<x, path, running, dstYaw, lost>>

Near == Waypoint - x \in -(2 * TileWidth)..(2 * TileWidth)

Snap ==
    /\ pathLength > 0 /\ ~Near
    /\ x' = Waypoint
    /\ UNCHANGED <<path, running, dstYaw, seqTrigger, lost>>

Advance ==
    /\ pathLength > 0 /\ Near
    /\ dstYaw' = IF x < Waypoint THEN East
                 ELSE IF x > Waypoint THEN West ELSE South
    /\ seqTrigger' = IF seqTrigger > 0 /\ pathLength > 1
                     THEN seqTrigger - 1 ELSE seqTrigger
    /\ \E targeted \in BOOLEAN :
          x' = Towards(x, Waypoint, moveSpeed(dstYaw', targeted))
    /\ LET reached == x' = Waypoint
       IN  /\ path' = SubSeq(path, 1, Left(reached))
           /\ running' = SubSeq(running, 1, Left(reached))
           /\ lost' = (lost /\ ~reached)

updateMovement == Idle \/ Stalled \/ Snap \/ Advance

\* updateFacingDirection: so much a cycle, the shorter way round.
Faced(to) ==
    LET remaining == (to - yaw) % Turn
    IN  IF remaining < TurnStep \/ remaining > Turn - TurnStep THEN to
        ELSE IF remaining > Turn \div 2 THEN (yaw - TurnStep) % Turn
        ELSE (yaw + TurnStep) % Turn

\* An entity outside the scene is put on its tile, and everything it was at
\* ends.
Outside == x < SceneFrom * TileWidth \/ x >= SceneTo * TileWidth

PutBack ==
    /\ Outside
    /\ primarySeq' = "none" /\ force' = NotForced
    /\ x' = Centre(path[1]) /\ path' = <<path[1]>> /\ running' = <<running[1]>>
    /\ seqTrigger' = 0 /\ lost' = FALSE
    /\ dstYaw' = dstYaw /\ yaw' = Faced(dstYaw)

Slide ==
    /\ ~Outside /\ Forced
    /\ updateForceMovement \/ startForceMovement
    /\ seqTrigger' = 0 /\ dstYaw' \in {West, East}
    /\ yaw' = IF force.begin <= 0 THEN dstYaw' ELSE Faced(dstYaw')
    /\ LET next == [force EXCEPT !.begin = @ - 1, !.end = @ - 1]
       IN  force' = IF Lasts(next) THEN next ELSE NotForced
    /\ UNCHANGED primarySeq

Move ==
    /\ ~Outside /\ ~Forced
    /\ updateMovement /\ yaw' = Faced(dstYaw')
    /\ UNCHANGED <<force, primarySeq>>

\* updateEntity, called once a cycle, and loop_cycle moves on.
Cycle ==
    /\ PutBack \/ Slide \/ Move
    /\ UNCHANGED packets

\* updateSequences: the animation has been played.
SequenceEnds ==
    /\ primarySeq # "none" /\ primarySeq' = "none"
    /\ UNCHANGED <<x, path, running, yaw, dstYaw, seqTrigger, force, packets,
                   lost>>

Next == Step \/ Animate \/ ForceMove \/ Rebuild \/ Cycle \/ SequenceEnds

Spec == Init /\ [][Next]_vars

Fairness == WF_vars(Cycle) /\ WF_vars(SequenceEnds)
FairSpec == Spec /\ Fairness

-----------------------------------------------------------------------------
\* Nobody walks through walls on the screen: outside a forced movement the
\* entity is drawn between the waypoint it reached and the one it makes for,
\* and on its tile when it has nowhere to go, whatever the server told of it
\* meanwhile.  It is not when the route was full and a waypoint was lost, until
\* it reaches the next one; and not after a slide that ended elsewhere, for it
\* was to end before it began, or the window moved or the entity was sent far
\* away while it lasted: until it reaches a waypoint or is put on a tile.
OnRoute ==
    ~Forced /\ ~lost =>
        IF pathLength = 0 THEN x = Centre(path[1])
        ELSE LET reached == Centre(path[Len(path)])
             IN  x \in reached..Waypoint \/ x \in Waypoint..reached

\* An entity the server tells nothing more of comes to stand on the tile the
\* server has it on; or stays where such a slide left it.
Arrives == <>[](pathLength = 0 /\ (lost \/ x = Centre(path[1])))
=============================================================================
