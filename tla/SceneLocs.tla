------------------------------ MODULE SceneLocs ------------------------------
(* The locs (doors, chests, scenery) the scene shows: what the map files put  *)
(* there when the scene is built, and the changes the server tells on top of  *)
(* it.  client.c: REBUILD_NORMAL, DATA_LAND_DONE and DATA_LOC_DONE, the build *)
(* after PLAYER_INFO, UPDATE_ZONE_FULL_FOLLOWS, LOC_ADD_CHANGE and LOC_DEL,   *)
(* LOC_MERGE, updateMergeLocs and addLoc, and client_login.                   *)
(*                                                                            *)
(* Tiles lie on a line; the scene is a window of Span tiles from `base` on    *)
(* and is addressed relative to it.  There is one level and one layer, and a  *)
(* loc covers one tile.  Of the chunks a map file comes in (DATA_LAND,        *)
(* DATA_LOC) the last is modelled: a file is there or it is not.              *)
EXTENDS Integers, FiniteSets

CONSTANTS
    Span,       \* tiles of the scene, which are whole zones; 104 in the code
    ZoneSize,   \* tiles of a zone; 8 in the code
    Bases,      \* first tiles of the windows, multiples of ZoneSize
    Doors,      \* the tiles at which the locs change; the map has "shut" there
    MapFiles,   \* the map files, each a set of tiles
    OnDisc,     \* the client has all of them on its disc
    MaxMerges   \* merges under way at a time

\* A multiple of ZoneSize.
Whole(n) == n \in Nat /\ n = (n \div ZoneSize) * ZoneSize

SceneLocsAssumption ==
    /\ ZoneSize \in Nat \ {0} /\ Whole(Span) /\ MaxMerges \in Nat
    /\ Doors \subseteq Nat /\ OnDisc \in BOOLEAN
    /\ \A b \in Bases : Whole(b)
    /\ Doors \subseteq UNION MapFiles

Locs == {"none", "shut", "open"}

VARIABLES
    base,        \* sceneBaseTile
    scene_state, \* 0: waiting for map files, 1: to be built, 2: shown
    shown,       \* the loc of each tile of the scene
    spawned,     \* spawned_locations: the changes, with what was there before;
                 \* one for a tile, so their order does not matter
    merged,      \* merged_locations: changes to be made at a later cycle, two
                 \* for a merge, of which the second puts the loc back
    loaded,      \* the map files the client has
    built,       \* those it had when the scene was built
    \* the server
    locs,        \* the loc at each tile
    followed,    \* the zones whose changes the client is told
    off          \* tiles whose change found the scene not as the map has it

vars == <<base, scene_state, shown, spawned, merged, loaded, built, locs,
          followed, off>>

Zone(t) == t \div ZoneSize
Window(b) == b..(b + Span - 1)
Zones(b) == {Zone(t) : t \in Window(b)}
FilesOf(b) == {f \in MapFiles : f \cap Window(b) # {}}
MapLoc(t) == IF t \in Doors THEN "shut" ELSE "none"

Spawned == [x : 0..(Span - 1), loc : Locs, last : Locs]
Merged == [x : 0..(Span - 1), loc : Locs, pair : 1..MaxMerges, back : BOOLEAN]

TypeOK ==
    /\ base \in Bases /\ scene_state \in 0..2
    /\ shown \in [0..(Span - 1) -> Locs]
    /\ spawned \subseteq Spawned /\ merged \subseteq Merged
    /\ \A r, s \in spawned : r.x = s.x => r = s
    /\ loaded \subseteq MapFiles /\ built \subseteq MapFiles
    /\ locs \in [Doors -> Locs]
    /\ followed \subseteq Zones(base)
    /\ off \subseteq Doors

Empty == [x \in 0..(Span - 1) |-> "none"]

Init ==
    /\ base \in Bases /\ scene_state = IF OnDisc THEN 1 ELSE 0
    /\ shown = Empty /\ spawned = {} /\ merged = {}
    /\ loaded = (IF OnDisc THEN FilesOf(base) ELSE {}) /\ built = {}
    /\ locs = [t \in Doors |-> MapLoc(t)]
    /\ followed = {} /\ off = {}

-----------------------------------------------------------------------------
\* addLoc: the loc of the tile is taken away and the new one, if there is one,
\* put in its place; at the edge of the scene nothing is done.
addLoc(scene, x, loc) ==
    IF x < 1 \/ x > Span - 2 THEN scene ELSE [scene EXCEPT ![x] = loc]

\* addLoc for each of some changes, at most one of a tile.
addLocs(scene, changes) ==
    [x \in 0..(Span - 1) |->
        IF x \in 1..(Span - 2) /\ \E c \in changes : c.x = x
        THEN (CHOOSE c \in changes : c.x = x).loc ELSE scene[x]]

Pending(x) == \E m \in merged : m.x = x

\* The changed tiles: the code keeps, for the first change of a tile, what the
\* scene shows there, to put it back when the zone is told anew.
Recorded(x) == \E s \in spawned : s.x = x

\* Seeded fault: a later change of the tile records what the scene shows by then.
WithChangeAndShown(x, loc) ==
    {s \in spawned : s.x # x} \cup {[x |-> x, loc |-> loc, last |-> shown[x]]}

\* The records once the tile shows `loc`.
WithChange(x, loc) ==
    IF Recorded(x)
    THEN {IF s.x = x THEN [s EXCEPT !.loc = loc] ELSE s : s \in spawned}
    ELSE spawned \cup {[x |-> x, loc |-> loc, last |-> shown[x]]}

\* The tiles of the scene in which there are locs.
Inner(t) == t - base \in 1..(Span - 2)

\* The part of the map that has the tile was missing when the scene was built.
Missing(t) == \E f \in FilesOf(base) \ built : t \in f

\* What spoils the record of a tile: its first change comes before the scene is
\* built, where a part of the map is missing, or at the edge, where the scene
\* shows nothing; or a change comes while a merge is under way.
Spoilt(t, first) ==
    \/ first /\ (scene_state # 2 \/ Missing(t) \/ ~Inner(t))
    \/ Pending(t - base)

\* LOC_ADD_CHANGE and LOC_DEL (readZonePacket).
Change(t, loc) ==
    /\ loc # locs[t]
    /\ locs' = [locs EXCEPT ![t] = loc]
    /\ IF Zone(t) \in followed
       THEN /\ spawned' = WithChange(t - base, loc)
            /\ shown' = addLoc(shown, t - base, loc)
            /\ off' = IF Spoilt(t, ~Recorded(t - base)) THEN off \cup {t} ELSE off
       ELSE UNCHANGED <<spawned, shown, off>>
    /\ UNCHANGED <<base, scene_state, merged, loaded, built, followed>>

\* UPDATE_ZONE_FULL_FOLLOWS: every change of the zone is undone and forgotten.
Changed(z) == {s \in spawned : Zone(base + s.x) = z}
Undone(z) == addLocs(shown, {[x |-> s.x, loc |-> s.last] : s \in Changed(z)})

\* The zone comes into view, and the server tells it in full: the reset, and
\* the tiles that are not as in the map.
Follow(z) ==
    LET touched == {t \in Doors : Zone(t) = z}
        differ  == {t \in touched : locs[t] # MapLoc(t)}
        undone  == Undone(z)
    IN  /\ z \in Zones(base) \ followed
        /\ followed' = followed \cup {z}
        /\ spawned' = (spawned \ Changed(z)) \cup
               {[x |-> t - base, loc |-> locs[t], last |-> undone[t - base]] : t \in differ}
        /\ shown' = addLocs(undone, {[x |-> t - base, loc |-> locs[t]] : t \in differ})
        /\ off' = off \cup {t \in touched : Spoilt(t, t \in differ)}
        /\ UNCHANGED <<base, scene_state, merged, loaded, built, locs>>

\* The player has walked away from it.
Unfollow(z) ==
    /\ z \in followed /\ followed' = followed \ {z}
    /\ UNCHANGED <<base, scene_state, shown, spawned, merged, loaded, built, locs, off>>

\* The changes that lie in the window from b on, at their places in it.
Shifted(b) ==
    {[s EXCEPT !.x = @ - (b - base)] :
        s \in {r \in spawned : base + r.x \in Window(b)}}

\* REBUILD_NORMAL: the window moves, or is asked for again before there is a
\* scene.  The map files are freed, and read from the disc or asked for.  The
\* changes move with the window, or are dropped outside it; the scene itself,
\* and the merges, wait for the build.
Rebuild(b) ==
    /\ b # base \/ scene_state = 0
    /\ base' = b
    /\ spawned' = Shifted(b)
    /\ loaded' = IF OnDisc THEN FilesOf(b) ELSE {}
    /\ scene_state' = IF FilesOf(b) \subseteq loaded' THEN 1 ELSE 0
    /\ followed' = followed \cap Zones(b)
    /\ off' = off \cap Window(b)
    /\ UNCHANGED <<shown, merged, built, locs>>

\* DATA_LOC: one of the missing files is there.
FileArrives(f) ==
    /\ f \in FilesOf(base) \ loaded
    /\ loaded' = loaded \cup {f}
    /\ UNCHANGED <<base, scene_state, shown, spawned, merged, built, locs,
                   followed, off>>

\* DATA_LAND_DONE, DATA_LOC_DONE: the scene is to be built, whatever is missing.
FileDone ==
    /\ ~OnDisc /\ FilesOf(base) # {}
    /\ scene_state' = 1
    /\ UNCHANGED <<base, shown, spawned, merged, loaded, built, locs, followed,
                   off>>

\* client_build_scene, after PLAYER_INFO.  The edge of the scene has no locs.  A
\* tile without a record is as in the map again.
BuildScene ==
    LET map == [x \in 0..(Span - 1) |->
                   IF x \in 1..(Span - 2) /\ \E f \in loaded : base + x \in f
                   THEN MapLoc(base + x) ELSE "none"]
    IN  /\ scene_state = 1 /\ scene_state' = 2
        /\ merged' = {} /\ built' = loaded
        /\ shown' = addLocs(map, spawned)
        /\ off' = {t \in off : Recorded(t - base)}
        /\ UNCHANGED <<base, spawned, loaded, locs, followed>>

\* LOC_MERGE: the loc goes for a time and comes back, drawn with the player
\* meanwhile.
Merge(t) ==
    /\ Zone(t) \in followed
    /\ \E p \in 1..MaxMerges :
          /\ \A m \in merged : m.pair # p
          /\ merged' = merged \cup
                 {[x |-> t - base, loc |-> "none", pair |-> p, back |-> FALSE],
                  [x |-> t - base, loc |-> locs[t], pair |-> p, back |-> TRUE]}
    /\ UNCHANGED <<base, scene_state, shown, spawned, loaded, built, locs,
                   followed, off>>

\* updateMergeLocs: the cycle of an entry has come; of two of a merge the
\* removal is the earlier.
MergeFires(m) ==
    /\ scene_state = 2 /\ m \in merged
    /\ m.back => \A r \in merged : r.pair = m.pair => r.back
    /\ shown' = addLoc(shown, m.x, m.loc)
    /\ merged' = merged \ {m}
    /\ UNCHANGED <<base, scene_state, spawned, loaded, built, locs, followed, off>>

\* client_login, reply 2: a session without changes begins; a scene is built
\* after the next REBUILD_NORMAL.
Login ==
    /\ scene_state' = 0 /\ spawned' = {} /\ merged' = {} /\ followed' = {}
    /\ UNCHANGED <<base, shown, loaded, built, locs, off>>

Next ==
    \/ \E t \in Doors \cap Window(base) : \/ \E loc \in Locs : Change(t, loc)
                                          \/ Merge(t)
    \/ \E z \in {Zone(t) : t \in Doors} \cap Zones(base) : Follow(z) \/ Unfollow(z)
    \/ \E b \in Bases : Rebuild(b)
    \/ \E f \in MapFiles : FileArrives(f)
    \/ FileDone \/ BuildScene \/ Login
    \/ \E m \in merged : MergeFires(m)

Spec == Init /\ [][Next]_vars

-----------------------------------------------------------------------------
\* When the scene is shown, the doors of the zones the server tells of stand as
\* they do on the server, however the window has moved over them and however
\* often their zone was told anew: each change remembers what the map had.  It
\* is not so for doors in a merge, at the edge of the scene, or in a part of the
\* map that was missing when it was built; and for those whose change was
\* Spoilt, until the scene is built without a record of them.
LocsAsTold ==
    scene_state = 2 =>
        \A t \in Doors \ off :
            Zone(t) \in followed /\ Inner(t) /\ ~Pending(t - base) /\ ~Missing(t)
            => shown[t - base] = locs[t]
=============================================================================
