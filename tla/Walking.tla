------------------------------- MODULE Walking -------------------------------
(* Where the player can walk, and the way a click takes: the flags of the     *)
(* tiles (collisionmap.c), kept as things are put and taken away (addLoc of   *)
(* client.c), and the search for a way (client_try_move), whose turning       *)
(* points are told to the server.                                             *)
(*                                                                            *)
(* A direction is one of eight, clockwise from north-west; the flag of a      *)
(* direction d is 2^d in the code.  The flags that stop shots only are left   *)
(* out: the search does not look at them.                                     *)
EXTENDS Integers, Sequences, FiniteSets, SequencesExt

CONSTANTS
    Size,         \* tiles a side; 104 in the code
    Things,       \* what may stand on the map
    MaxThings,    \* things at a time
    MaxWaypoints, \* turning points a packet holds; 25 in the code
    MaxDetour     \* a tile beside the target this far is not taken instead of
                  \* it; 100 in the code

Wall == "wall"              \* WALL_STRAIGHT
Corner == "corner"          \* WALL_DIAGONALCORNER, WALL_SQUARECORNER
Angle == "angle"            \* WALL_L
Object == "object"          \* a loc of width by length tiles

Tiles == (0..(Size - 1)) \X (0..(Size - 1))
Inner == (1..(Size - 2)) \X (1..(Size - 2))

WalkingAssumption ==
    /\ Size \in Nat /\ MaxThings \in Nat /\ MaxWaypoints \in Nat \ {0}
    /\ MaxDetour \in Nat
    /\ \A t \in Things :
          /\ t.tile \in Inner /\ t.shape \in {Wall, Corner, Angle, Object}
          /\ t.rotation \in 0..3
          /\ t.width \in Nat \ {0} /\ t.length \in Nat \ {0}

VARIABLES
    there,   \* the things that stand on the map
    flags,   \* CollisionMap.flags
    off      \* history: the flags that may differ from what stands there,
             \* for they were taken away with one of two things that need
             \* them, or left behind by an object near the edge

vars == <<there, flags, off>>

Directions == 0..7
Loc == 8                    \* 0x100
Floor == 9                  \* 0x200000 and the rest of 0xffffff
AllFlags == 0..9
Opposite(d) == (d + 4) % 8
Straight(d) == d % 2 = 1

DX(d) == CASE d \in {0, 6, 7} -> -1 [] d \in {2, 3, 4} -> 1 [] OTHER -> 0
DZ(d) == CASE d \in {4, 5, 6} -> -1 [] d \in {0, 1, 2} -> 1 [] OTHER -> 0
To(t, d) == <<t[1] + DX(d), t[2] + DZ(d)>>

TypeOK ==
    /\ there \subseteq Things
    /\ flags \in [Tiles -> SUBSET AllFlags]
    /\ off \subseteq Tiles \X AllFlags

\* collisionmap_reset.
Reset == [t \in Tiles |-> IF t \in Inner THEN {} ELSE AllFlags]

Init == there = {} /\ flags = Reset /\ off = {}

-----------------------------------------------------------------------------
\* The sides of its tile that a wall stands on.
Sides(t) == CASE t.shape = Wall   -> {(7 + 2 * t.rotation) % 8}
              [] t.shape = Corner -> {2 * t.rotation}
              [] t.shape = Angle  -> {(7 + 2 * t.rotation) % 8,
                                      (1 + 2 * t.rotation) % 8}
              [] OTHER            -> {}

\* The tiles an object covers, turned or not.
Covers(t) ==
    LET turned == t.rotation % 2 = 1
        w      == IF turned THEN t.length ELSE t.width
        l      == IF turned THEN t.width ELSE t.length
    IN  ((t.tile[1]..(t.tile[1] + w - 1)) \X (t.tile[2]..(t.tile[2] + l - 1)))
        \cap Tiles

\* The flags of a thing: of a wall on both its sides, of an object on its tiles.
FlagsOf(t) ==
    IF t.shape = Object THEN Covers(t) \X {Loc}
    ELSE {<<t.tile, d>> : d \in Sides(t)}
         \cup {<<To(t.tile, d), Opposite(d)>> : d \in Sides(t)}

With(f, marks) == [t \in Tiles |-> f[t] \cup {b \in AllFlags : <<t, b>> \in marks}]
Without(f, marks) == [t \in Tiles |-> {b \in f[t] : <<t, b>> \notin marks}]

\* addLoc gives up before it takes the flags of an object near the edge, and
\* before it puts another one in its place.
AtEdge(t) ==
    /\ t.shape = Object
    /\ \E i \in 1..2 : \E n \in {t.width, t.length} : t.tile[i] + n > Size - 1

Needed(things) == UNION {FlagsOf(t) : t \in things}

\* Seeded fault: the flags on the tiles beside are left.
OwnSideRemoved(f, t) ==
    IF AtEdge(t) THEN f ELSE Without(f, {m \in FlagsOf(t) : m[1] = t.tile})

\* collisionmap_del_wall, collisionmap_del_loc.
Removed(f, t) == IF AtEdge(t) THEN f ELSE Without(f, FlagsOf(t))

\* What is off when a thing has been taken from among the rest.
OffWithout(t, rest) ==
    IF AtEdge(t) THEN off \cup (FlagsOf(t) \ Needed(rest))
    ELSE (off \ FlagsOf(t)) \cup (FlagsOf(t) \cap Needed(rest))

\* addLoc where nothing stood on the layer of its tile.
SameLayer(t, u) == t.tile = u.tile /\ (t.shape = Object <=> u.shape = Object)

Put(t) ==
    /\ \A u \in there : ~SameLayer(t, u)
    /\ Cardinality(there) < MaxThings
    /\ there' = there \cup {t}
    /\ flags' = With(flags, FlagsOf(t))
    /\ off' = off \ FlagsOf(t)

\* addLoc of no thing: the one that is there goes.
TakeAway(t) ==
    /\ t \in there /\ there' = there \ {t}
    /\ flags' = Removed(flags, t)
    /\ off' = OffWithout(t, there')

\* addLoc of t where `old` stands.
Replace(old, t) ==
    LET rest == there \ {old}
    IN  /\ old \in there /\ t # old /\ SameLayer(t, old)
        /\ IF AtEdge(old)
           THEN /\ there' = rest /\ UNCHANGED flags
                /\ off' = OffWithout(old, rest)
           ELSE /\ there' = rest \cup {t}
                /\ flags' = With(Removed(flags, old), FlagsOf(t))
                /\ off' = OffWithout(old, rest) \ FlagsOf(t)

Next ==
    \E t \in Things :
        Put(t) \/ TakeAway(t) \/ \E old \in there : Replace(old, t)

Spec == Init /\ [][Next]_vars

-----------------------------------------------------------------------------
(* client_try_move. *)

Free(t, d) == flags[t] \cap {d, Loc, Floor} = {}

\* Seeded fault: a slanting step looks at its end only.
ThroughCorners(t, d) ==
    LET to == To(t, d) IN Free(to, Opposite(d))

\* A step in direction d: the tile may be entered, and of a slanting one both
\* tiles beside the way too.
CanStep(t, d) ==
    LET to   == To(t, d)
        back == Opposite(d)
    IN  IF Straight(d) THEN Free(to, back)
        ELSE /\ Free(to, back)
             /\ Free(to, (back - 1) % 8) /\ Free(to, (back + 1) % 8)
             /\ \A e \in {(d - 1) % 8, (d + 1) % 8} : Free(To(t, e), Opposite(e))

\* The order in which the tiles beside one are looked at.
Order == <<7, 3, 5, 1, 6, 4, 0, 2>>

\* The tiles in the order they are found, each with the direction it was
\* entered in and the steps to it (bfsStep, bfsDirection, bfsCost).  The code
\* stops when the target is one of them, and keeps the ones not yet looked at
\* from in a ring of 4000, which is taken to be long enough.
Source == 8
Found(queue) == {queue[i].tile : i \in DOMAIN queue}

Look(queue, e, d) ==
    IF CanStep(e.tile, d) /\ To(e.tile, d) \notin Found(queue)
    THEN Append(queue, [tile |-> To(e.tile, d), direction |-> d, cost |-> e.cost + 1])
    ELSE queue

Expand(queue, e) ==
    LET grown[k \in 0..8] == IF k = 0 THEN queue ELSE Look(grown[k - 1], e, Order[k])
    IN  grown[8]

Advance(queue, n) == IF n > Len(queue) THEN queue ELSE Expand(queue, queue[n])

Start(src) == <<[tile |-> src, direction |-> Source, cost |-> 0]>>

Search(src) ==
    LET looked[n \in 0..Cardinality(Inner)] ==
            IF n = 0 THEN Start(src) ELSE Advance(looked[n - 1], n)
    IN  looked[Cardinality(Inner)]

EntryOf(queue, t) == CHOOSE e \in ToSet(queue) : e.tile = t
Before(queue, e) == EntryOf(queue, To(e.tile, Opposite(e.direction)))

\* The entries of the way to one that was found, without the source.
WayTo(queue, end) ==
    LET last == EntryOf(queue, end)
        back[n \in 0..last.cost] ==
            IF n = 0 THEN last ELSE Before(queue, back[n - 1])
    IN  [i \in 1..last.cost |-> back[last.cost - i]]

\* Where the way ends: at the first tile found of those aimed at; or, if none
\* was found and the click was on the ground, at the nearest of the tiles
\* around that is not too far; NoWay.
NoWay == <<-1, -1>>
Around(t) == ({t[1] - 1, t[1], t[1] + 1} \X {t[2] - 1, t[2], t[2] + 1}) \cap Tiles

Nearest(entries) ==
    CHOOSE e \in entries :
        \A f \in entries :
            \/ e.cost < f.cost
            \/ /\ e.cost = f.cost
               /\ \/ e.tile[1] < f.tile[1]
                  \/ e.tile[1] = f.tile[1] /\ e.tile[2] <= f.tile[2]

End(queue, aims, near) ==
    LET first  == SelectInSeq(queue, LAMBDA e : e.tile \in aims)
        beside == {e \in ToSet(queue) : e.tile \in near /\ e.cost < MaxDetour}
    IN  IF first # 0 THEN queue[first].tile
        ELSE IF beside # {} THEN Nearest(beside).tile ELSE NoWay

\* The turning points of the way and its end, as many as a packet holds.
Turns(way, i) == i = Len(way) \/ way[i].direction # way[i + 1].direction

Waypoints(queue, end) ==
    LET way == WayTo(queue, end)
        told[i \in 0..Len(way)] ==
            IF i = 0 THEN <<>>
            ELSE IF Turns(way, i) /\ Len(told[i - 1]) < MaxWaypoints
                 THEN Append(told[i - 1], way[i].tile) ELSE told[i - 1]
    IN  IF way = <<>> THEN <<end>> ELSE told[Len(way)]

\* collisionmap_test_wall, collisionmap_test_loc: from where a thing is
\* reached.
Reaches(t, at) ==
    CASE t.shape = Object ->
             \/ at \in Covers(t)
             \/ \E d \in {1, 3, 5, 7} :
                   To(at, d) \in Covers(t) /\ d \notin flags[at]
      [] t.shape \in {Wall, Angle} ->
             \/ at = t.tile
             \/ \E d \in {1, 3, 5, 7} :
                   /\ To(t.tile, d) = at
                   /\ \/ d \in Sides(t)
                      \/ /\ t.shape = Angle \/ Opposite(d) \notin Sides(t)
                         /\ Free(at, Opposite(d))
      [] OTHER -> at = t.tile

\* interactWithLoc; of what is clicked the tiles to stand on.
Beside(t) == {at \in Inner : Reaches(t, at)}

-----------------------------------------------------------------------------
\* What stops a walker is what stands on the map: no wall that was taken away
\* goes on stopping him, and none that stands lets him through, but for the
\* flags that addLoc is known to lose or to leave.
FlagsMatch ==
    \A t \in Inner, b \in AllFlags :
        <<t, b>> \notin off => (b \in flags[t] <=> <<t, b>> \in Needed(there))

(* The reference: a walker on the things themselves. *)

WallBetween(t, u) ==
    \E w \in there : \E d \in Sides(w) : Straight(d) /\ {t, u} = {w.tile, To(w.tile, d)}
PostBetween(t, u) ==
    \E w \in there : \E d \in Sides(w) : ~Straight(d) /\ {t, u} = {w.tile, To(w.tile, d)}
Standable(t) == t \in Inner /\ \A w \in there : w.shape = Object => t \notin Covers(w)

Passes(t, d) == Standable(To(t, d)) /\ ~WallBetween(t, To(t, d))
Walks(t, d) ==
    IF Straight(d) THEN Passes(t, d)
    ELSE LET a == (d + 1) % 8
             b == (d - 1) % 8
         IN  /\ Passes(t, a) /\ Passes(To(t, a), b)
             /\ Passes(t, b) /\ Passes(To(t, b), a)
             /\ ~PostBetween(t, To(t, d))

\* All the steps there are, and the tiles at most 0, 1, .. of them from src.
Steps == {<<e[1], To(e[1], e[2])>> :
              e \in {e \in Inner \X Directions : Walks(e[1], e[2])}}

Beyond(tiles, steps) == tiles \cup {e[2] : e \in {e \in steps : e[1] \in tiles}}

Within(src, steps) ==
    LET reached[n \in 0..Cardinality(Inner)] ==
            IF n = 0 THEN {src} ELSE Beyond(reached[n - 1], steps)
    IN  reached

\* One step of the server's walker towards a waypoint.
Sign(a) == IF a > 0 THEN 1 ELSE IF a < 0 THEN -1 ELSE 0
Toward(t, p) == <<t[1] + Sign(p[1] - t[1]), t[2] + Sign(p[2] - t[2])>>

\* Where he is after n steps over the waypoints: he makes for the first that
\* he has not yet been at, through nothing that stands there.
Walk(w, points, steps) ==
    LET next == IF w.next <= Len(points) /\ points[w.next] = w.at
                THEN w.next + 1 ELSE w.next
        to   == Toward(w.at, points[next])
    IN  IF next > Len(points) THEN [w EXCEPT !.next = next]
        ELSE [at |-> to, next |-> next, ok |-> w.ok /\ <<w.at, to>> \in steps]

WalkOver(src, points, n, steps) ==
    LET walked[i \in 0..n] ==
            IF i = 0 THEN [at |-> src, next |-> 1, ok |-> TRUE]
            ELSE Walk(walked[i - 1], points, steps)
    IN  walked[n]

\* The way the client tells the server is one a walker can take, and no way
\* is shorter: it leads to the nearest tile from which the target is reached,
\* if there is one, or else to the nearest beside it that is not too far; and a
\* way too long for a packet is told up to one of its turning points.
Distance(layers, goals) ==
    CHOOSE n \in DOMAIN layers :
        /\ layers[n] \cap goals # {}
        /\ \A m \in DOMAIN layers : m < n => layers[m] \cap goals = {}

RouteIsRight(src, queue, layers, steps, aims, near) ==
    LET reached == layers[Cardinality(Inner)]
        close  == UNION {layers[n] : n \in {n \in DOMAIN layers : n < MaxDetour}}
        goals  == IF aims \cap reached # {} THEN aims \cap reached
                  ELSE near \cap close
        end    == End(queue, aims, near)
        points == Waypoints(queue, end)
        walker == WalkOver(src, points, Distance(layers, goals), steps)
    IN  IF goals = {} THEN end = NoWay
        ELSE /\ end \in goals
             /\ walker.ok
             /\ \/ walker.at = end
                \/ Len(points) = MaxWaypoints /\ walker.at = Last(points)

RoutesAreShortest ==
    off = {} =>
        LET steps == Steps
        IN  \A src \in {t \in Inner : Standable(t)} :
                LET queue  == Search(src)
                    layers == Within(src, steps)
                    Right(aims, near) ==
                        RouteIsRight(src, queue, layers, steps, aims, near)
                IN  /\ \A dst \in Tiles : Right({dst}, Around(dst))
                    /\ \A t \in there : Right(Beside(t), {})
=============================================================================
