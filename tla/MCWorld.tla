------------------------------- MODULE MCWorld -------------------------------
(***************************************************************************)
(* The five parts of the world the client keeps, each in a small instance. *)
(* They share no state, so a behaviour steps one part, chosen in its first *)
(* state; the others stand in an initial state.                            *)
(***************************************************************************)
EXTENDS World

\* Two walls share a face; an angle and a post; objects of two tiles, one of
\* them turned, and one that stands too near the edge for addLoc.
Thing(shape, at, rotation, length) ==
    [shape |-> shape, tile |-> at, rotation |-> rotation, width |-> 1,
     length |-> length]

SevenThings ==
    {Thing("wall", <<2, 2>>, 0, 1), Thing("wall", <<1, 2>>, 2, 1),
     Thing("corner", <<2, 2>>, 1, 1), Thing("angle", <<3, 3>>, 2, 1),
     Thing("object", <<2, 1>>, 0, 2), Thing("object", <<1, 2>>, 1, 2),
     Thing("object", <<3, 2>>, 0, 2)}

\* The window of the scene moves a tile towards either side.
OneEitherWay == {-1, 1}

\* What the two kinds of thing cost.
Costs == [id \in {"sword", "coins"} |-> IF id = "coins" THEN 1 ELSE 3]

Parts == {"entities", "pathing", "locs", "objs", "walking"}

Init ==
    /\ part \in Parts
    /\ E!Init /\ (part = "entities" \/ (kind = "player" /\ base = 0 /\ localAt = 0))
    /\ P!Init /\ (part = "pathing" \/ (path = <<1>> /\ yaw = P!West))
    /\ L!Init /\ (part = "locs" \/ locsBase = 0)
    /\ O!Init /\ (part = "objs" \/ objBase = 0)
    /\ W!Init

vars == <<part, entities, pathing, sceneLocs, objs, walking>>

Others(p) ==
    /\ UNCHANGED part
    /\ p # "entities" => UNCHANGED entities
    /\ p # "pathing" => UNCHANGED pathing
    /\ p # "locs" => UNCHANGED sceneLocs
    /\ p # "objs" => UNCHANGED objs
    /\ p # "walking" => UNCHANGED walking

Next ==
    \/ part = "entities" /\ E!Next /\ Others(part)
    \/ part = "pathing" /\ P!Next /\ Others(part)
    \/ part = "locs" /\ L!Next /\ Others(part)
    \/ part = "objs" /\ O!Next /\ Others(part)
    \/ part = "walking" /\ W!Next /\ Others(part)

\* The cycles of the client go on, and animations end.
Fairness ==
    /\ WF_pathing(part = "pathing" /\ P!Cycle)
    /\ WF_pathing(part = "pathing" /\ P!SequenceEnds)

Spec == Init /\ [][Next]_vars /\ Fairness

-----------------------------------------------------------------------------
(* Of these only the part that moves is looked at.                           *)

\* It comes to stand on its tile (PathingEntity!Arrives).
Arrives == part = "pathing" => P!Arrives
=============================================================================
