------------------------------- MODULE ObjStacks -------------------------------
(* The things that lie on the ground (client.c, level_obj_stacks): what the   *)
(* zone packets put, take and count, the move of all stacks when the window   *)
(* of the scene moves, and the one of each stack the scene shows on top.      *)
(*                                                                            *)
(* Tiles lie on a line and are addressed relative to `base`; there is one     *)
(* level.  Of a thing that stacks the server keeps one pile on a tile, of     *)
(* another thing any number of single ones: of these two kinds of pile alike  *)
(* a packet names one by its id.                                              *)
EXTENDS Integers, Sequences, FiniteSets, SequencesExt

CONSTANTS
    Span,      \* tiles of the scene, which are whole zones; 104 in the code
    ZoneSize,  \* tiles of a zone; 8 in the code
    Bases,     \* first tiles of the windows, multiples of ZoneSize
    Ground,    \* the tiles things lie on
    Single,    \* a thing that does not stack
    Piled,     \* one that does
    Counts,    \* how many a pile may hold
    Cost,      \* what a thing costs
    MaxThings  \* things on a tile

\* A multiple of ZoneSize.
Whole(n) == n \in Nat /\ n = (n \div ZoneSize) * ZoneSize

ObjStacksAssumption ==
    /\ ZoneSize \in Nat \ {0} /\ Whole(Span) /\ MaxThings \in Nat
    /\ Single # Piled /\ Counts \subseteq Nat \ {0} /\ 1 \in Counts
    /\ Ground \subseteq Nat /\ \A b \in Bases : Whole(b)
    /\ Cost \in [{Single, Piled} -> Nat]

Things == {[id |-> Single, count |-> 1]} \cup [id : {Piled}, count : Counts]
NoThing == [id |-> "nothing", count |-> 0]

VARIABLES
    base, scene_state,
    stacks,    \* level_obj_stacks, a list for each tile of the scene
    top,       \* the thing the scene shows on each tile
    things,    \* the server: the things on each tile, in the order they came
    followed   \* the server: the zones whose changes the client is told

vars == <<base, scene_state, stacks, top, things, followed>>

Zone(t) == t \div ZoneSize
Window(b) == b..(b + Span - 1)
Zones(b) == {Zone(t) : t \in Window(b)}
Scene == 0..(Span - 1)

TypeOK ==
    /\ base \in Bases /\ scene_state \in 0..2
    /\ stacks \in [Scene -> Seq(Things)]
    /\ top \in [Scene -> Things \cup {NoThing}]
    /\ things \in [Ground -> Seq(Things)]
    /\ followed \subseteq Zones(base)

Init ==
    /\ base \in Bases /\ scene_state = 1
    /\ stacks = [x \in Scene |-> <<>>] /\ top = [x \in Scene |-> NoThing]
    /\ things = [t \in Ground |-> <<>>] /\ followed = {}

-----------------------------------------------------------------------------
\* sortObjStacks: the first of those that cost most goes to the head of the
\* list and is the one on top.
Worth(e) == IF e.id = Piled THEN Cost[e.id] * (e.count + 1) ELSE Cost[e.id]

Best(list) ==
    CHOOSE i \in DOMAIN list :
        /\ \A j \in DOMAIN list : Worth(list[j]) <= Worth(list[i])
        /\ \A j \in 1..(i - 1) : Worth(list[j]) < Worth(list[i])

Sorted(list) ==
    IF list = <<>> THEN list
    ELSE <<list[Best(list)]>> \o RemoveAt(list, Best(list))

TopOf(list) == IF list = <<>> THEN NoThing ELSE list[1]

\* A zone packet that makes of the stack of tile t the list `list`, sorted.
Puts(t, list) ==
    /\ stacks' = [stacks EXCEPT ![t - base] = Sorted(list)]
    /\ top' = [top EXCEPT ![t - base] = TopOf(Sorted(list))]

Told(t, list) ==
    IF Zone(t) \in followed THEN Puts(t, list) ELSE UNCHANGED <<stacks, top>>

Stack(t) == stacks[t - base]
First(list, P(_)) == SelectInSeq(list, P)

\* OBJ_ADD, OBJ_REVEAL.
Add(t, e) ==
    /\ Len(things[t]) < MaxThings
    /\ e.id = Piled => \A i \in DOMAIN things[t] : things[t][i].id # Piled
    /\ things' = [things EXCEPT ![t] = Append(@, e)]
    /\ Told(t, Append(Stack(t), e))
    /\ UNCHANGED <<base, scene_state, followed>>

\* OBJ_DEL: the first thing of that id on the client's list.
Del(t, i) ==
    LET same(e) == e.id = things[t][i].id
        k       == First(Stack(t), same)
    IN  /\ i \in DOMAIN things[t]
        /\ things' = [things EXCEPT ![t] = RemoveAt(@, i)]
        /\ Told(t, IF k = 0 THEN Stack(t) ELSE RemoveAt(Stack(t), k))
        /\ UNCHANGED <<base, scene_state, followed>>

\* OBJ_COUNT: the first of that id and that count.
Count(t, i, n) ==
    LET old     == things[t][i]
        same(e) == e = old
        k       == First(Stack(t), same)
    IN  /\ i \in DOMAIN things[t] /\ old.id = Piled /\ n # old.count
        /\ things' = [things EXCEPT ![t][i].count = n]
        /\ Told(t, IF k = 0 THEN Stack(t)
                   ELSE [Stack(t) EXCEPT ![k].count = n])
        /\ UNCHANGED <<base, scene_state, followed>>

\* What the client makes of a list of things it is told one by one.
Heaped(list) ==
    LET heap[n \in 0..Len(list)] ==
            IF n = 0 THEN <<>> ELSE Sorted(Append(heap[n - 1], list[n]))
    IN  heap[Len(list)]

\* UPDATE_ZONE_FULL_FOLLOWS empties the zone, and the server tells what lies
\* there, thing by thing.
Follow(z) ==
    LET inZone(x) == Zone(base + x) = z
        listOf(x) == IF base + x \in Ground THEN Heaped(things[base + x]) ELSE <<>>
    IN  /\ z \in Zones(base) \ followed
        /\ followed' = followed \cup {z}
        /\ stacks' = [x \in Scene |-> IF inZone(x) THEN listOf(x) ELSE stacks[x]]
        /\ top' = [x \in Scene |-> IF inZone(x) THEN TopOf(listOf(x)) ELSE top[x]]
        /\ UNCHANGED <<base, scene_state, things>>

Unfollow(z) ==
    /\ z \in followed /\ followed' = followed \ {z}
    /\ UNCHANGED <<base, scene_state, stacks, top, things>>

\* Seeded fault: from the other end.
OrderReversed(dx) == [i \in 1..Span |-> IF dx < 0 THEN i - 1 ELSE Span - i]

\* REBUILD_NORMAL: each stack is taken from the tile that was `dx` away, in
\* the same array, from the end that does not overwrite what is still needed.
Order(dx) == [i \in 1..Span |-> IF dx < 0 THEN Span - i ELSE i - 1]

Moved(dx) ==
    LET moved[n \in 0..Span] ==
            IF n = 0 THEN stacks
            ELSE LET array == moved[n - 1]
                     x     == Order(dx)[n]
                 IN  [array EXCEPT ![x] = IF x + dx \in Scene THEN array[x + dx]
                                          ELSE <<>>]
    IN  moved[Span]

Rebuild(b) ==
    /\ b # base \/ scene_state = 0
    /\ base' = b /\ scene_state' = 1
    /\ stacks' = Moved(b - base)
    /\ followed' = followed \cap Zones(b)
    /\ UNCHANGED <<top, things>>

\* client_build_scene sorts, and so shows, every stack.
BuildScene ==
    /\ scene_state = 1 /\ scene_state' = 2
    /\ stacks' = [x \in Scene |-> Sorted(stacks[x])]
    /\ top' = [x \in Scene |-> TopOf(Sorted(stacks[x]))]
    /\ UNCHANGED <<base, things, followed>>

OnTile(t) ==
    \/ \E e \in Things : Add(t, e)
    \/ \E i \in 1..MaxThings : Del(t, i) \/ \E n \in Counts : Count(t, i, n)

\* client_login, reply 2: nothing lies anywhere; a scene is built after the next
\* REBUILD_NORMAL.
Login ==
    /\ scene_state' = 0 /\ followed' = {}
    /\ stacks' = [x \in Scene |-> <<>>]
    /\ UNCHANGED <<base, top, things>>

Next ==
    \/ \E t \in Ground \cap Window(base) : OnTile(t)
    \/ \E z \in {Zone(t) : t \in Ground} \cap Zones(base) : Follow(z) \/ Unfollow(z)
    \/ \E b \in Bases : Rebuild(b)
    \/ BuildScene \/ Login

Spec == Init /\ [][Next]_vars

-----------------------------------------------------------------------------
Many(list, e) == Cardinality({i \in DOMAIN list : list[i] = e})

\* In the zones the server tells of, the same things lie on the client's tiles
\* as on the server's, though the two order them differently and the window
\* moves over them; and what the scene shows is the top of its stack.
ThingsAsTold ==
    /\ \A t \in Ground \cap Window(base) :
          Zone(t) \in followed =>
              \A e \in Things : Many(Stack(t), e) = Many(things[t], e)
    /\ scene_state = 2 => \A x \in Scene : top[x] = TopOf(stacks[x])
=============================================================================
