----------------------------- MODULE Walking_proof -----------------------------
(***************************************************************************)
(* The map to walk on, and the shortest way over it, for every value of    *)
(* the constants.                                                          *)
(*                                                                         *)
(* The flags of a tile are what the things on the map make of it: adding   *)
(* and taking off touch the same flags.                                    *)
(*                                                                         *)
(* The way the search finds over them is a walk, it ends as near to the    *)
(* tile aimed at as a walker can come, and no walk there is shorter.  The  *)
(* loops of the code are recursive functions here, and what is said of     *)
(* them is proved by induction over their steps (Induction).               *)
(***************************************************************************)
EXTENDS World, Induction

-------------------------------------------------------------------------------
(***************************************************************************)
(* The map to walk on.                                                     *)
(***************************************************************************)

\* The tiles beside a tile inside the map, and a way through one of its sides.
LEMMA Beside ==
  ASSUME NEW t \in W!Inner, NEW d \in W!Directions
  PROVE  W!To(t, d) \in W!Tiles /\ W!Opposite(d) \in W!Directions
  <1>1. W!DX(d) \in {-1, 0, 1} /\ W!DZ(d) \in {-1, 0, 1}
    BY DEF W!DX, W!DZ, W!Directions
  <1>2. t[1] \in 1..(MapSize - 2) /\ t[2] \in 1..(MapSize - 2) /\ MapSize \in Nat
    BY WalkingAssumption DEF W!Inner, W!WalkingAssumption
  <1>3. t[1] + W!DX(d) \in 0..(MapSize - 1) /\ t[2] + W!DZ(d) \in 0..(MapSize - 1)
    BY <1>1, <1>2
  <1> QED
    BY <1>3 DEF W!To, W!Tiles, W!Opposite, W!Directions

LEMMA FlagsOfThing ==
  ASSUME NEW t \in Barriers
  PROVE  W!FlagsOf(t) \subseteq W!Tiles \X W!AllFlags
  <1>1. t.tile \in W!Inner /\ t.rotation \in 0..3
    BY WalkingAssumption DEF W!WalkingAssumption
  <1>2. W!Sides(t) \subseteq W!Directions
    BY <1>1 DEF W!Sides, W!Directions
  <1>3. t.tile \in W!Tiles
    BY <1>1, WalkingAssumption DEF W!Inner, W!Tiles, W!WalkingAssumption
  <1>4. W!Directions \subseteq W!AllFlags /\ W!Loc \in W!AllFlags
    BY DEF W!Directions, W!AllFlags, W!Loc
  <1>5. CASE t.shape = W!Object
    BY <1>4, <1>5 DEF W!FlagsOf, W!Covers
  <1>6. CASE t.shape # W!Object
    BY <1>1, <1>2, <1>3, <1>4, <1>6, Beside DEF W!FlagsOf
  <1> QED
    BY <1>5, <1>6

\* The flags of a map are those that what stands there needs, but for those
\* that are known to be off.
LEMMA MapInit == W!Init => FlagsMatch
  <1> SUFFICES ASSUME W!Init PROVE FlagsMatch
    OBVIOUS
  <1>1. W!TypeOK
    BY DEF W!Init, W!TypeOK, W!Reset
  <1>2. W!Needed({}) = {}
    BY DEF W!Needed
  <1>3. W!Inner \subseteq W!Tiles
    BY WalkingAssumption DEF W!Inner, W!Tiles, W!WalkingAssumption
  <1> QED
    BY <1>1, <1>2, <1>3 DEF FlagsMatch, W!FlagsMatch, W!Init, W!Reset

\* What a map with other marks has, and what more or fewer things need.
LEMMA Marks ==
  ASSUME NEW f \in [W!Tiles -> SUBSET W!AllFlags], NEW marks,
         NEW t \in W!Inner, NEW b \in W!AllFlags
  PROVE  /\ b \in W!With(f, marks)[t] <=> b \in f[t] \/ <<t, b>> \in marks
         /\ b \in W!Without(f, marks)[t] <=> b \in f[t] /\ <<t, b>> \notin marks
  <1>1. t \in W!Tiles
    BY WalkingAssumption DEF W!Inner, W!Tiles, W!WalkingAssumption
  <1> QED
    BY <1>1 DEF W!With, W!Without

LEMMA MarkedMaps ==
  ASSUME NEW f \in [W!Tiles -> SUBSET W!AllFlags], NEW marks
  PROVE  /\ W!With(f, marks) \in [W!Tiles -> SUBSET W!AllFlags]
         /\ W!Without(f, marks) \in [W!Tiles -> SUBSET W!AllFlags]
  BY DEF W!With, W!Without

LEMMA NeededBy ==
  ASSUME NEW rest, NEW t
  PROVE  W!Needed(rest \cup {t}) = W!Needed(rest) \cup W!FlagsOf(t)
  BY DEF W!Needed

LEMMA PutKeeps ==
  ASSUME FlagsMatch, NEW t \in Barriers, W!Put(t)
  PROVE  FlagsMatch'
  <1>1. /\ there' = there \cup {t} /\ flags' = W!With(flags, W!FlagsOf(t))
        /\ off' = off \ W!FlagsOf(t)
    BY DEF W!Put
  <1>2. W!TypeOK'
    BY <1>1, MarkedMaps DEF FlagsMatch, W!TypeOK
  <1>3. W!Needed(there') = W!Needed(there) \cup W!FlagsOf(t)
    BY <1>1, NeededBy
  <1>4. W!FlagsMatch'
    BY <1>1, <1>3, Marks DEF FlagsMatch, W!TypeOK, W!FlagsMatch
  <1> QED
    BY <1>2, <1>4 DEF FlagsMatch

\* The thing is taken from among the rest; of an object near the edge the flags
\* are left.
LEMMA WithoutIt ==
  ASSUME FlagsMatch, NEW former \in there, NEW t \in W!Inner, NEW b \in W!AllFlags,
         <<t, b>> \notin W!OffWithout(former, there \ {former})
  PROVE  b \in W!Removed(flags, former)[t] <=> <<t, b>> \in W!Needed(there \ {former})
  <1>1. W!Needed(there) = W!Needed(there \ {former}) \cup W!FlagsOf(former)
    <2>1. there = (there \ {former}) \cup {former}
      OBVIOUS
    <2> QED
      BY <2>1, NeededBy
  <1>2. <<t, b>> \notin off => (b \in flags[t] <=> <<t, b>> \in W!Needed(there))
    BY DEF FlagsMatch, W!FlagsMatch
  <1>3. CASE W!AtEdge(former)
    BY <1>1, <1>2, <1>3 DEF W!OffWithout, W!Removed
  <1>4. CASE ~W!AtEdge(former)
    BY <1>1, <1>2, <1>4, Marks DEF W!OffWithout, W!Removed, FlagsMatch, W!TypeOK
  <1> QED
    BY <1>3, <1>4

LEMMA OffType ==
  ASSUME FlagsMatch, NEW former \in there
  PROVE  /\ W!OffWithout(former, there \ {former}) \subseteq W!Tiles \X W!AllFlags
         /\ W!Removed(flags, former) \in [W!Tiles -> SUBSET W!AllFlags]
  <1>1. former \in Barriers /\ W!FlagsOf(former) \subseteq W!Tiles \X W!AllFlags
    BY FlagsOfThing DEF FlagsMatch, W!TypeOK
  <1>2. W!OffWithout(former, there \ {former}) \subseteq W!Tiles \X W!AllFlags
    BY <1>1 DEF W!OffWithout, FlagsMatch, W!TypeOK
  <1>3. W!Removed(flags, former) \in [W!Tiles -> SUBSET W!AllFlags]
    BY MarkedMaps DEF W!Removed, FlagsMatch, W!TypeOK
  <1> QED
    BY <1>2, <1>3

LEMMA TakeAwayKeeps ==
  ASSUME FlagsMatch, NEW t \in Barriers, W!TakeAway(t)
  PROVE  FlagsMatch'
  <1>1. /\ t \in there /\ there' = there \ {t} /\ flags' = W!Removed(flags, t)
        /\ off' = W!OffWithout(t, there \ {t})
    BY DEF W!TakeAway
  <1>2. W!TypeOK'
    BY <1>1, OffType DEF FlagsMatch, W!TypeOK
  <1>3. W!FlagsMatch'
    BY <1>1, WithoutIt DEF W!FlagsMatch
  <1> QED
    BY <1>2, <1>3 DEF FlagsMatch

LEMMA ReplaceKeeps ==
  ASSUME FlagsMatch, NEW t \in Barriers, NEW former \in there, W!Replace(former, t)
  PROVE  FlagsMatch'
  <1> DEFINE rest == there \ {former}
  <1>1. CASE W!AtEdge(former)
    <2>1. there' = rest /\ flags' = W!Removed(flags, former) /\ off' = W!OffWithout(former, rest)
      BY <1>1 DEF W!Replace, W!Removed
    <2>2. W!TypeOK'
      BY <2>1, OffType DEF FlagsMatch, W!TypeOK
    <2>3. W!FlagsMatch'
      BY <2>1, WithoutIt DEF W!FlagsMatch
    <2> QED
      BY <2>2, <2>3 DEF FlagsMatch
  <1>2. CASE ~W!AtEdge(former)
    <2> DEFINE before == W!Removed(flags, former)
    <2>1. /\ there' = rest \cup {t} /\ flags' = W!With(before, W!FlagsOf(t))
          /\ off' = W!OffWithout(former, rest) \ W!FlagsOf(t)
      BY <1>2 DEF W!Replace
    <2>2. /\ before \in [W!Tiles -> SUBSET W!AllFlags]
          /\ W!OffWithout(former, rest) \subseteq W!Tiles \X W!AllFlags
      BY OffType
    <2>3. W!TypeOK'
      BY <2>1, <2>2, MarkedMaps DEF FlagsMatch, W!TypeOK
    <2>4. W!Needed(there') = W!Needed(rest) \cup W!FlagsOf(t)
      BY <2>1, NeededBy
    <2>5. ASSUME NEW u \in W!Inner, NEW b \in W!AllFlags, <<u, b>> \notin off'
          PROVE  b \in flags'[u] <=> <<u, b>> \in W!Needed(there')
      <3>1. b \in flags'[u] <=> b \in before[u] \/ <<u, b>> \in W!FlagsOf(t)
        BY <2>1, <2>2, Marks
      <3>2. <<u, b>> \notin W!FlagsOf(t) => <<u, b>> \notin W!OffWithout(former, rest)
        BY <2>1, <2>5
      <3> QED
        BY <2>4, <3>1, <3>2, WithoutIt
    <2>6. W!FlagsMatch'
      BY <2>5 DEF W!FlagsMatch
    <2> QED
      BY <2>3, <2>6 DEF FlagsMatch
  <1> QED
    BY <1>1, <1>2

\* What stops a walker is what stands on the map (collisionmap.c and addLoc of
\* client.c), for a map of any size and any set of things, as they come, go and
\* replace each other.
THEOREM FlagsAlwaysMatch == W!Spec => []FlagsMatch
  <1>1. FlagsMatch /\ [W!Next]_(W!vars) => FlagsMatch'
    <2> SUFFICES ASSUME FlagsMatch, [W!Next]_(W!vars) PROVE FlagsMatch'
      OBVIOUS
    <2>1. CASE UNCHANGED W!vars
      BY <2>1 DEF W!vars, FlagsMatch, W!TypeOK, W!FlagsMatch
    <2> QED
      BY <2>1, PutKeeps, TakeAwayKeeps, ReplaceKeeps DEF W!Next
  <1> QED
    BY MapInit, <1>1, PTL DEF W!Spec

-------------------------------------------------------------------------------
(***************************************************************************)
(* The search for a way.  Where no flag is off, the search may step just   *)
(* where a walker can (StepsAreWalks).  Its queue holds each tile once,    *)
(* behind the one it was found from, nearer ones first (Sound); when all   *)
(* of it was looked at from, the tiles found within k steps are those a    *)
(* walker is at within k (LayersAreFound), so that the first of the tiles  *)
(* aimed at is the nearest (EndIsClosest).  The way back from it steps     *)
(* where the search did (WayIsThere), and who makes for the next turning   *)
(* point takes the steps of the way (StraightOn, WalkGoesOn).              *)
(***************************************************************************)

\* The edge of the map is closed, and stays so: nothing has the flag of a floor.
EdgeInv == \A t \in W!Tiles \ W!Inner : W!Floor \in flags[t]

LEMMA NoFloor ==
  ASSUME NEW t \in Barriers, NEW u
  PROVE  << u, W!Floor >> \notin W!FlagsOf(t)
  <1>1. t.tile \in W!Inner /\ t.rotation \in 0..3
    BY WalkingAssumption DEF W!WalkingAssumption
  <1>2. W!Sides(t) \subseteq W!Directions
    BY <1>1 DEF W!Sides, W!Directions
  <1>3. \A d \in W!Directions : W!Opposite(d) \in W!Directions
    BY DEF W!Directions, W!Opposite
  <1>4. W!Floor \notin W!Directions /\ W!Floor # W!Loc
    BY DEF W!Directions, W!Floor, W!Loc
  <1> QED
    BY <1>2, <1>3, <1>4 DEF W!FlagsOf

LEMMA EdgeKeeps ==
  ASSUME FlagsMatch, EdgeInv, NEW t \in Barriers,
         W!Put(t) \/ W!TakeAway(t) \/ \E former \in there : W!Replace(former, t)
  PROVE  EdgeInv'
  <1> SUFFICES ASSUME NEW u \in W!Tiles \ W!Inner
               PROVE  W!Floor \in flags'[u]
    BY DEF EdgeInv
  <1> DEFINE fl == W!Floor
  <1>1. fl \in flags[u] /\ flags \in [W!Tiles -> SUBSET W!AllFlags] /\ there \subseteq Barriers
        /\ fl \in W!AllFlags
    BY DEF EdgeInv, FlagsMatch, W!TypeOK, W!Floor, W!AllFlags
  <1>2. \A f \in [W!Tiles -> SUBSET W!AllFlags] : \A s \in Barriers :
          fl \in f[u] => fl \in W!With(f, W!FlagsOf(s))[u] /\ fl \in W!Removed(f, s)[u]
    BY NoFloor DEF W!With, W!Removed, W!Without
  <1>3. CASE W!Put(t)
    BY <1>1, <1>2, <1>3 DEF W!Put
  <1>4. CASE W!TakeAway(t)
    BY <1>1, <1>2, <1>4 DEF W!TakeAway
  <1>5. ASSUME NEW former \in there, W!Replace(former, t)
        PROVE  fl \in flags'[u]
    <2>1. flags' = flags \/ flags' = W!With(W!Removed(flags, former), W!FlagsOf(t))
      BY <1>5 DEF W!Replace
    <2>2. W!Removed(flags, former) \in [W!Tiles -> SUBSET W!AllFlags]
      BY <1>1, MarkedMaps DEF W!Removed
    <2> QED
      BY <1>1, <1>2, <2>1, <2>2
  <1> QED
    BY <1>3, <1>4, <1>5

\* Two directions lead to different tiles, and the way back is the opposite one.
LEMMA ToAndBack ==
  ASSUME NEW x \in Int, NEW z \in Int, NEW d \in W!Directions, NEW e \in W!Directions
  PROVE  /\ W!To(<< x, z >>, d) \in Int \X Int /\ W!To(<< x, z >>, d) # << x, z >>
         /\ W!To(<< x, z >>, d) = W!To(<< x, z >>, e) => d = e
         /\ W!To(W!To(<< x, z >>, d), W!Opposite(d)) = << x, z >>
         /\ W!Opposite(d) \in W!Directions /\ W!Opposite(W!Opposite(d)) = d
         /\ W!Straight(W!Opposite(d)) = W!Straight(d)
  <1>1. W!Directions = {0, 1, 2, 3, 4, 5, 6, 7}
    BY DEF W!Directions
  <1>2. /\ W!DX(d) \in {-1, 0, 1} /\ W!DZ(d) \in {-1, 0, 1}
        /\ W!DX(e) \in {-1, 0, 1} /\ W!DZ(e) \in {-1, 0, 1}
        /\ W!DX(d) = 0 => W!DZ(d) # 0
        /\ W!DX(d) = W!DX(e) /\ W!DZ(d) = W!DZ(e) => d = e
    BY <1>1 DEF W!DX, W!DZ
  <1>3. /\ W!Opposite(d) \in W!Directions /\ W!Opposite(W!Opposite(d)) = d
        /\ W!Straight(W!Opposite(d)) <=> W!Straight(d)
        /\ W!DX(W!Opposite(d)) = 0 - W!DX(d) /\ W!DZ(W!Opposite(d)) = 0 - W!DZ(d)
    BY <1>1 DEF W!Opposite, W!Straight, W!DX, W!DZ
  <1>4. W!Straight(W!Opposite(d)) = W!Straight(d)
    BY <1>3 DEF W!Straight
  <1> QED
    BY <1>2, <1>3, <1>4 DEF W!To

\* What stands on the side between two tiles.
StandsBetween(t, u) == \E w \in there : \E e \in W!Sides(w) : {t, u} = {w.tile, W!To(w.tile, e)}

\* The map as it is when no flag is off.
MapIsTrue == FlagsMatch /\ EdgeInv /\ off = {}

LEMMA ThingFacts ==
  ASSUME FlagsMatch, NEW w \in there
  PROVE  /\ w.tile \in W!Inner /\ W!Sides(w) \subseteq W!Directions
         /\ w.shape = W!Object => W!Sides(w) = {}
  <1>1. w \in Barriers
    BY DEF FlagsMatch, W!TypeOK
  <1>2. w.tile \in W!Inner /\ w.rotation \in 0..3
    BY <1>1, WalkingAssumption DEF W!WalkingAssumption
  <1>3. W!Sides(w) \subseteq W!Directions
    BY <1>2 DEF W!Sides, W!Directions
  <1>4. w.shape = W!Object => W!Sides(w) = {}
    BY DEF W!Sides, W!Object, W!Wall, W!Corner, W!Angle
  <1> QED
    BY <1>2, <1>3, <1>4

LEMMA InnerTile ==
  ASSUME NEW t \in W!Inner
  PROVE  /\ t \in W!Tiles /\ t[1] \in Int /\ t[2] \in Int /\ t = << t[1], t[2] >>
         /\ \A d \in W!Directions : W!To(t, d) \in W!Tiles
  <1>1. t \in W!Tiles
    BY WalkingAssumption DEF W!Inner, W!Tiles, W!WalkingAssumption
  <1>2. \A d \in W!Directions : W!To(t, d) \in W!Tiles
    BY Beside
  <1>3. t[1] \in Int /\ t[2] \in Int /\ t = << t[1], t[2] >>
    BY DEF W!Inner
  <1> QED
    BY <1>1, <1>2, <1>3

LEMMA Neighbours ==
  ASSUME NEW t \in W!Inner, NEW d \in W!Directions, NEW e \in W!Directions
  PROVE  /\ W!To(t, d) \in W!Tiles /\ W!To(t, d) # t
         /\ W!To(t, d) = W!To(t, e) => d = e
         /\ W!To(W!To(t, d), W!Opposite(d)) = t
         /\ W!Opposite(d) \in W!Directions /\ W!Opposite(W!Opposite(d)) = d
         /\ W!Straight(W!Opposite(d)) = W!Straight(d)
  <1> DEFINE x == t[1]
             z == t[2]
  <1>1. x \in Int /\ z \in Int /\ t = << x, z >> /\ W!To(t, d) \in W!Tiles
    BY InnerTile
  <1> HIDE DEF x, z
  <1> QED
    BY <1>1, ToAndBack

\* The flag of a side is there for what stands on it.
LEMMA FlagIsBarrier ==
  ASSUME MapIsTrue, NEW u \in W!Inner, NEW b \in W!Directions
  PROVE  b \in flags[u] <=> StandsBetween(u, W!To(u, b))
  <1>1. b \in flags[u] <=> << u, b >> \in W!Needed(there)
    <2>1. b \in W!AllFlags
      BY DEF W!AllFlags, W!Directions
    <2>2. << u, b >> \notin off
      BY DEF MapIsTrue
    <2> QED
      BY <2>1, <2>2, Zenon DEF MapIsTrue, FlagsMatch, W!FlagsMatch
  <1>2. b # W!Loc
    BY DEF W!Directions, W!Loc
  <1>3. << u, b >> \in W!Needed(there) <=>
          \E w \in there : w.shape # W!Object /\ \E e \in W!Sides(w) :
             \/ u = w.tile /\ b = e
             \/ u = W!To(w.tile, e) /\ b = W!Opposite(e)
    <2>1. \A w \in there : << u, b >> \in W!FlagsOf(w) <=>
             w.shape # W!Object /\ \E e \in W!Sides(w) :
                \/ u = w.tile /\ b = e
                \/ u = W!To(w.tile, e) /\ b = W!Opposite(e)
      BY <1>2 DEF W!FlagsOf
    <2> QED
      BY <2>1 DEF W!Needed
  <1>4. ASSUME NEW w \in there, NEW e \in W!Sides(w)
        PROVE  (u = w.tile /\ b = e) \/ (u = W!To(w.tile, e) /\ b = W!Opposite(e))
                 <=> {u, W!To(u, b)} = {w.tile, W!To(w.tile, e)}
    <2>1. w.tile \in W!Inner /\ e \in W!Directions
      BY <1>4, ThingFacts DEF MapIsTrue
    <2>2. u # W!To(u, b) /\ w.tile # W!To(w.tile, e)
      BY <2>1, Neighbours
    <2>3. {u, W!To(u, b)} = {w.tile, W!To(w.tile, e)} <=>
            \/ u = w.tile /\ W!To(u, b) = W!To(w.tile, e)
            \/ u = W!To(w.tile, e) /\ W!To(u, b) = w.tile
      BY <2>2
    <2>4. u = w.tile => (W!To(u, b) = W!To(w.tile, e) <=> b = e)
      BY <2>1, Neighbours
    <2>5. u = W!To(w.tile, e) => (W!To(u, b) = w.tile <=> b = W!Opposite(e))
      <3> SUFFICES ASSUME u = W!To(w.tile, e) PROVE W!To(u, b) = w.tile <=> b = W!Opposite(e)
        OBVIOUS
      <3>1. W!To(u, W!Opposite(e)) = w.tile /\ W!Opposite(e) \in W!Directions
        BY <2>1, Neighbours
      <3> QED
        BY <3>1, Neighbours
    <2> QED
      BY <2>3, <2>4, <2>5
  <1>5. \A w \in there : W!Sides(w) # {} => w.shape # W!Object
    BY ThingFacts DEF MapIsTrue
  <1> QED
    BY <1>1, <1>3, <1>4, <1>5 DEF StandsBetween

\* StandsBetween two tiles side by side only walls stand, and posts on the slant.
LEMMA BetweenIs ==
  ASSUME MapIsTrue, NEW u \in W!Inner, NEW b \in W!Directions
  PROVE  /\ W!Straight(b) => (W!WallBetween(W!To(u, b), u) <=> StandsBetween(u, W!To(u, b)))
         /\ ~W!Straight(b) => (W!PostBetween(W!To(u, b), u) <=> StandsBetween(u, W!To(u, b)))
  <1>1. ASSUME NEW w \in there, NEW e \in W!Sides(w),
               {u, W!To(u, b)} = {w.tile, W!To(w.tile, e)}
        PROVE  W!Straight(e) = W!Straight(b)
    <2>1. w.tile \in W!Inner /\ e \in W!Directions
      BY <1>1, ThingFacts DEF MapIsTrue
    <2>2. u # W!To(u, b) /\ w.tile # W!To(w.tile, e)
      BY <2>1, Neighbours
    <2>3. CASE u = w.tile
      <3>1. W!To(w.tile, b) = W!To(w.tile, e)
        BY <1>1, <2>2, <2>3
      <3> QED
        BY <2>1, <3>1, Neighbours
    <2>4. CASE u = W!To(w.tile, e)
      <3>1. W!To(u, b) = w.tile
        BY <1>1, <2>2, <2>4
      <3>2. W!To(u, W!Opposite(e)) = w.tile /\ W!Opposite(e) \in W!Directions
        BY <2>1, <2>4, Neighbours
      <3>3. b = W!Opposite(e)
        BY <3>1, <3>2, Neighbours
      <3> QED
        BY <2>1, <3>3, Neighbours
    <2> QED
      BY <1>1, <2>3, <2>4
  <1>2. {W!To(u, b), u} = {u, W!To(u, b)}
    OBVIOUS
  <1>3. W!Straight(b) => (W!WallBetween(W!To(u, b), u) <=> StandsBetween(u, W!To(u, b)))
    BY <1>1, <1>2, Zenon DEF W!WallBetween, StandsBetween
  <1>4. ~W!Straight(b) => (W!PostBetween(W!To(u, b), u) <=> StandsBetween(u, W!To(u, b)))
    BY <1>1, <1>2, Zenon DEF W!PostBetween, StandsBetween
  <1> QED
    BY <1>3, <1>4

\* A tile may be entered from a side when nothing is on it and on the side.
LEMMA FreeIs ==
  ASSUME MapIsTrue, NEW u \in W!Tiles, NEW b \in W!Directions
  PROVE  W!Free(u, b) <=> W!Standable(u) /\ ~StandsBetween(u, W!To(u, b))
  <1>1. CASE u \notin W!Inner
    <2>1. W!Floor \in flags[u]
      BY <1>1 DEF MapIsTrue, EdgeInv
    <2> QED
      BY <1>1, <2>1 DEF W!Free, W!Standable
  <1>2. CASE u \in W!Inner
    <2>1. W!Floor \in W!AllFlags /\ W!Loc \in W!AllFlags
      BY DEF W!AllFlags, W!Floor, W!Loc
    <2>2. \A f \in W!AllFlags : f \in flags[u] <=> << u, f >> \in W!Needed(there)
      <3>1. \A f : << u, f >> \notin off
        BY DEF MapIsTrue
      <3> QED
        BY <1>2, <3>1, Zenon DEF MapIsTrue, FlagsMatch, W!FlagsMatch
    <2>3. there \subseteq Barriers
      BY DEF MapIsTrue, FlagsMatch, W!TypeOK
    <2>4. W!Floor \notin flags[u]
      BY <2>1, <2>2, <2>3, NoFloor DEF W!Needed
    <2>5. W!Loc \in flags[u] <=> \E w \in there : w.shape = W!Object /\ u \in W!Covers(w)
      <3>1. ASSUME NEW w \in there
            PROVE  << u, W!Loc >> \in W!FlagsOf(w) <=> w.shape = W!Object /\ u \in W!Covers(w)
        <4>1. W!Sides(w) \subseteq W!Directions /\ W!Loc \notin W!Directions
          BY <3>1, ThingFacts DEF MapIsTrue, W!Loc, W!Directions
        <4>2. \A d \in W!Directions : W!Opposite(d) \in W!Directions
          BY DEF W!Opposite, W!Directions
        <4> QED
          BY <4>1, <4>2 DEF W!FlagsOf
      <3> QED
        BY <2>1, <2>2, <3>1 DEF W!Needed
    <2>6. b \in flags[u] <=> StandsBetween(u, W!To(u, b))
      BY <1>2, FlagIsBarrier
    <2> QED
      BY <1>2, <2>4, <2>5, <2>6 DEF W!Free, W!Standable
  <1> QED
    BY <1>1, <1>2

\* The two straight steps beside a slanting one.
LEMMA Corners ==
  ASSUME NEW t \in W!Inner, NEW d \in W!Directions, ~W!Straight(d),
         NEW a, a \in {((d + 1) % 8), ((d - 1) % 8)},
         NEW b, b \in {((d + 1) % 8), ((d - 1) % 8)}, a # b
  PROVE  /\ a \in W!Directions /\ W!Straight(a)
         /\ W!To(W!To(t, a), b) = W!To(t, d)
         /\ W!To(W!To(t, d), W!Opposite(b)) = W!To(t, a)
  <1> DEFINE x == t[1]
             z == t[2]
  <1>1. x \in Int /\ z \in Int /\ t = << x, z >>
    BY InnerTile
  <1>2. d \in {0, 2, 4, 6}
    BY DEF W!Directions, W!Straight
  <1>3. /\ a \in W!Directions /\ W!Straight(a)
        /\ W!DX(a) \in Int /\ W!DX(b) \in Int /\ W!DZ(a) \in Int /\ W!DZ(b) \in Int
        /\ W!DX(d) = W!DX(a) + W!DX(b) /\ W!DZ(d) = W!DZ(a) + W!DZ(b)
        /\ W!DX(W!Opposite(b)) = 0 - W!DX(b) /\ W!DZ(W!Opposite(b)) = 0 - W!DZ(b)
    BY <1>2 DEF W!Directions, W!Straight, W!DX, W!DZ, W!Opposite
  <1> HIDE DEF x, z
  <1> QED
    BY <1>1, <1>3 DEF W!To

LEMMA StraightStep ==
  ASSUME MapIsTrue, NEW t \in W!Inner, NEW d \in W!Directions, W!Straight(d)
  PROVE  W!Free(W!To(t, d), W!Opposite(d)) <=> W!Passes(t, d)
  <1> DEFINE u == W!To(t, d)
             b == W!Opposite(d)
  <1>1. u \in W!Tiles /\ b \in W!Directions /\ W!Straight(b) /\ W!To(u, b) = t
    BY Neighbours
  <1>2. W!Free(u, b) <=> W!Standable(u) /\ ~StandsBetween(u, t)
    BY <1>1, FreeIs
  <1>3. W!Standable(u) => u \in W!Inner
    BY DEF W!Standable
  <1>4. u \in W!Inner => (W!WallBetween(t, u) <=> StandsBetween(u, t))
    BY <1>1, BetweenIs
  <1> QED
    BY <1>2, <1>3, <1>4 DEF W!Passes

LEMMA AroundCorner ==
  ASSUME MapIsTrue, NEW t \in W!Inner, NEW d \in W!Directions, ~W!Straight(d),
         NEW a, a \in {((d + 1) % 8), ((d - 1) % 8)},
         NEW b, b \in {((d + 1) % 8), ((d - 1) % 8)}, a # b
  PROVE  W!Free(W!To(t, d), W!Opposite(b)) <=> W!Passes(W!To(t, a), b)
  <1> DEFINE u == W!To(t, d)
             v == W!To(t, a)
             f == W!Opposite(b)
  <1>1. W!To(v, b) = u /\ W!To(u, f) = v /\ b \in W!Directions /\ W!Straight(b)
    BY Corners
  <1>2. u \in W!Tiles /\ f \in W!Directions /\ W!Straight(f)
    BY <1>1, Neighbours
  <1>3. W!Free(u, f) <=> W!Standable(u) /\ ~StandsBetween(u, v)
    BY <1>1, <1>2, FreeIs
  <1>4. W!Standable(u) => u \in W!Inner
    BY DEF W!Standable
  <1>5. u \in W!Inner => (W!WallBetween(v, u) <=> StandsBetween(u, v))
    BY <1>1, <1>2, BetweenIs
  <1> QED
    BY <1>1, <1>3, <1>4, <1>5 DEF W!Passes

\* The search may step where a walker can, and nowhere else.
LEMMA StepsAreWalks ==
  ASSUME MapIsTrue, NEW t \in W!Inner, NEW d \in W!Directions
  PROVE  W!CanStep(t, d) <=> W!Walks(t, d)
  <1>1. CASE W!Straight(d)
    BY <1>1, StraightStep DEF W!CanStep, W!Walks
  <1>2. CASE ~W!Straight(d)
    <2> DEFINE a == (d + 1) % 8
               b == (d - 1) % 8
               u == W!To(t, d)
               k == W!Opposite(d)
    <2>1. /\ d \in {0, 2, 4, 6}
          /\ a # b /\ ((k - 1) % 8) = W!Opposite(b) /\ ((k + 1) % 8) = W!Opposite(a)
      BY <1>2 DEF W!Directions, W!Straight, W!Opposite
    <2>2. a \in W!Directions /\ W!Straight(a) /\ b \in W!Directions /\ W!Straight(b)
      BY <1>2, <2>1, Corners
    <2>3. /\ W!Free(u, W!Opposite(b)) <=> W!Passes(W!To(t, a), b)
          /\ W!Free(u, W!Opposite(a)) <=> W!Passes(W!To(t, b), a)
      BY <1>2, <2>1, AroundCorner
    <2>4. /\ W!Free(W!To(t, a), W!Opposite(a)) <=> W!Passes(t, a)
          /\ W!Free(W!To(t, b), W!Opposite(b)) <=> W!Passes(t, b)
      BY <2>2, StraightStep
    <2>5. W!Free(u, k) <=> W!Standable(u) /\ ~StandsBetween(u, t)
      <3>1. u \in W!Tiles /\ k \in W!Directions /\ W!To(u, k) = t
        BY Neighbours
      <3> QED
        BY <3>1, FreeIs
    <2>6. u \in W!Inner => (W!PostBetween(t, u) <=> StandsBetween(u, t))
      <3>1. k \in W!Directions /\ W!To(u, k) = t /\ ~W!Straight(k)
        BY <1>2, Neighbours
      <3> QED
        BY <3>1, BetweenIs
    <2>7. W!Standable(u) => u \in W!Inner
      BY DEF W!Standable
    <2>8. W!Passes(W!To(t, a), b) => W!Standable(u)
      <3>1. W!To(W!To(t, a), b) = u
        BY <1>2, <2>1, Corners
      <3> QED
        BY <3>1 DEF W!Passes
    <2>9. W!CanStep(t, d) <=> /\ W!Free(u, k)
                              /\ W!Free(u, W!Opposite(b)) /\ W!Free(u, W!Opposite(a))
                              /\ W!Free(W!To(t, a), W!Opposite(a))
                              /\ W!Free(W!To(t, b), W!Opposite(b))
      BY <1>2, <2>1, Zenon DEF W!CanStep
    <2>10. W!Walks(t, d) <=> /\ W!Passes(t, a) /\ W!Passes(W!To(t, a), b)
                             /\ W!Passes(t, b) /\ W!Passes(W!To(t, b), a)
                             /\ ~W!PostBetween(t, u)
      BY <1>2, Zenon DEF W!Walks
    <2> HIDE DEF a, b, u, k
    <2> QED
      BY <2>3, <2>4, <2>5, <2>6, <2>7, <2>8, <2>9, <2>10
  <1> QED
    BY <1>1, <1>2

\* The queue of the search.
Entry == [tile : W!Inner, direction : W!Directions \cup {W!Source}, cost : Nat]

\* The entry f was found from e.
FoundFrom(e, f) ==
  /\ f.direction \in W!Directions /\ W!CanStep(e.tile, f.direction)
  /\ f.tile = W!To(e.tile, f.direction) /\ f.cost = e.cost + 1

\* Each tile is found once, from one that was found before; nearer ones first.
Sound(q, src) ==
  /\ q \in Seq(Entry) /\ Len(q) >= 1
  /\ q[1] = [tile |-> src, direction |-> W!Source, cost |-> 0]
  /\ \A i, j \in 1..Len(q) : q[i].tile = q[j].tile => i = j
  /\ \A i \in 2..Len(q) : \E p \in 1..(i - 1) : FoundFrom(q[p], q[i])
  /\ \A i, j \in 1..Len(q) : i < j => q[i].cost <= q[j].cost
  /\ \A i \in 1..Len(q) : q[i].cost < i

\* Nothing is further than one step beyond the n-th.
NoFurther(q, n) == \A i \in 1..Len(q) : q[i].cost <= q[n].cost + 1

\* Where a step leads from an entry is found, and as near as that.
Seen(q, e, d) ==
  W!CanStep(e.tile, d) =>
    \E j \in 1..Len(q) : q[j].tile = W!To(e.tile, d) /\ q[j].cost <= e.cost + 1

Grows(q, r) == Len(q) <= Len(r) /\ \A i \in 1..Len(q) : r[i] = q[i]

LEMMA StepsStayInside ==
  ASSUME EdgeInv, NEW t \in W!Inner, NEW d \in W!Directions, W!CanStep(t, d)
  PROVE  W!To(t, d) \in W!Inner
  <1>1. W!Free(W!To(t, d), W!Opposite(d))
    BY DEF W!CanStep
  <1>2. W!To(t, d) \in W!Tiles
    BY InnerTile
  <1>3. W!Floor \notin flags[W!To(t, d)]
    BY <1>1 DEF W!Free
  <1> QED
    BY <1>2, <1>3 DEF EdgeInv

LEMMA LookType ==
  ASSUME EdgeInv, NEW q \in Seq(Entry), NEW e \in Entry, NEW d \in W!Directions
  PROVE  W!Look(q, e, d) \in Seq(Entry)
  <1> DEFINE f == [tile |-> W!To(e.tile, d), direction |-> d, cost |-> e.cost + 1]
  <1>1. CASE W!CanStep(e.tile, d) /\ W!To(e.tile, d) \notin W!Found(q)
    <2>1. e.tile \in W!Inner /\ e.cost \in Nat
      BY DEF Entry
    <2>2. W!To(e.tile, d) \in W!Inner
      BY <1>1, <2>1, StepsStayInside
    <2>3. f \in Entry
      BY <2>1, <2>2 DEF Entry
    <2>4. W!Look(q, e, d) = Append(q, f)
      BY <1>1 DEF W!Look
    <2> QED
      BY <2>3, <2>4
  <1>2. CASE ~(W!CanStep(e.tile, d) /\ W!To(e.tile, d) \notin W!Found(q))
    BY <1>2 DEF W!Look
  <1> QED
    BY <1>1, <1>2

LEMMA SeenGrows ==
  ASSUME NEW q \in Seq(Entry), NEW r \in Seq(Entry), NEW e, NEW d, Grows(q, r), Seen(q, e, d)
  PROVE  Seen(r, e, d)
  BY DEF Seen, Grows

LEMMA GrowsOn ==
  ASSUME NEW S, NEW q \in Seq(S), NEW r \in Seq(S), NEW s \in Seq(S), Grows(q, r), Grows(r, s)
  PROVE  Grows(q, s)
  <1>1. Len(q) \in Nat /\ Len(r) \in Nat /\ Len(s) \in Nat
    OBVIOUS
  <1>2. \A i \in 1..Len(q) : i \in 1..Len(r)
    BY <1>1 DEF Grows
  <1> QED
    BY <1>1, <1>2 DEF Grows

\* A look in one direction.
LEMMA LookKeeps ==
  ASSUME EdgeInv, NEW src \in W!Inner, NEW q, Sound(q, src), NEW n \in 1..Len(q), NoFurther(q, n),
         NEW d \in W!Directions
  PROVE  /\ Sound(W!Look(q, q[n], d), src) /\ NoFurther(W!Look(q, q[n], d), n)
         /\ Grows(q, W!Look(q, q[n], d)) /\ Seen(W!Look(q, q[n], d), q[n], d)
  <1> DEFINE e == q[n]
             t == W!To(e.tile, d)
             f == [tile |-> t, direction |-> d, cost |-> e.cost + 1]
             r == W!Look(q, e, d)
  <1>1. q \in Seq(Entry) /\ e \in Entry /\ Len(q) \in Nat /\ n \in Nat /\ n <= Len(q)
    <2>1. q \in Seq(Entry)
      BY DEF Sound
    <2> QED
      BY <2>1, EntryType
  <1>2. \A i \in 1..Len(q) : q[i] \in Entry /\ q[i].cost \in Nat
    <2>1. \A i \in 1..Len(q) : q[i] \in Entry
      BY <1>1, EntryType
    <2>2. \A a \in Entry : a.cost \in Nat
      BY DEF Entry
    <2> QED
      BY <2>1, <2>2
  <1>3. CASE W!CanStep(e.tile, d) /\ t \notin W!Found(q)
    <2>1. e.tile \in W!Inner /\ e.cost \in Nat /\ t \in W!Inner
      BY <1>1, <1>3, StepsStayInside DEF Entry
    <2>2. f \in Entry /\ f.tile = t /\ f.direction = d /\ f.cost = e.cost + 1
      BY <2>1 DEF Entry
    <2>3. r = Append(q, f)
      BY <1>3 DEF W!Look
    <2> DEFINE k == Len(q)
    <2>4. /\ r \in Seq(Entry) /\ Len(r) = k + 1 /\ r[k + 1] = f
          /\ \A i \in 1..k : r[i] = q[i]
      <3> HIDE DEF f, e
      <3> QED
        BY <1>1, <2>2, <2>3, AppendedEntries
    <2>5. FoundFrom(e, f)
      BY <1>3, <2>2 DEF FoundFrom
    <2>6. \A i \in 1..k : q[i].tile # t
      BY <1>1, <1>3 DEF W!Found
    <2> HIDE DEF f, r, t
    <2>7. /\ \A i \in 1..Len(r) : i = k + 1 \/ i \in 1..k
          /\ k + 1 \in 1..Len(r) /\ 1..k \subseteq 1..Len(r) /\ k \in Nat
      BY <1>1, <2>4
    <2>8. Len(r) >= 1 /\ r[1] = [tile |-> src, direction |-> W!Source, cost |-> 0]
      BY <1>1, <2>4, <2>7 DEF Sound
    <2>9. \A i, j \in 1..Len(r) : r[i].tile = r[j].tile => i = j
      BY <2>2, <2>4, <2>6, <2>7 DEF Sound
    <2>10. \A i \in 2..Len(r) : \E p \in 1..(i - 1) : FoundFrom(r[p], r[i])
      <3>1. ASSUME NEW i \in 2..Len(r), i # k + 1
            PROVE  \E p \in 1..(i - 1) : FoundFrom(r[p], r[i])
        <4>1. i \in 2..k /\ i \in 1..k
          BY <2>4, <2>7, <3>1
        <4>2. \E p \in 1..(i - 1) : FoundFrom(q[p], q[i])
          BY <4>1 DEF Sound
        <4>3. \A p \in 1..(i - 1) : r[p] = q[p]
          BY <2>4, <2>7, <4>1
        <4> QED
          BY <2>4, <4>1, <4>2, <4>3
      <3>2. n \in 1..((k + 1) - 1) /\ FoundFrom(r[n], r[k + 1])
        BY <1>1, <2>4, <2>5, <2>7
      <3> QED
        BY <3>1, <3>2
    <2>11. \A i \in 1..k : q[i].cost <= f.cost
      BY <2>2 DEF NoFurther
    <2>12. \A i, j \in 1..Len(r) : i < j => r[i].cost <= r[j].cost
      <3> SUFFICES ASSUME NEW i \in 1..Len(r), NEW j \in 1..Len(r), i < j
                   PROVE  r[i].cost <= r[j].cost
        OBVIOUS
      <3>1. i \in 1..k
        BY <2>4, <2>7
      <3>2. CASE j = k + 1
        BY <2>4, <2>11, <3>1, <3>2
      <3>3. CASE j \in 1..k
        BY <2>4, <3>1, <3>3 DEF Sound
      <3> QED
        BY <2>7, <3>2, <3>3
    <2>13. \A i \in 1..Len(r) : r[i].cost < i
      <3>1. e.cost < n
        BY DEF Sound
      <3>2. f.cost < k + 1
        BY <1>1, <2>1, <2>2, <3>1
      <3>3. \A i \in 1..k : q[i].cost < i
        BY DEF Sound
      <3> QED
        BY <2>4, <2>7, <3>2, <3>3
    <2>14. Sound(r, src)
      BY <2>4, <2>8, <2>9, <2>10, <2>12, <2>13 DEF Sound
    <2>15. r[n] = e
      BY <2>4
    <2>16. NoFurther(r, n)
      <3>1. \A i \in 1..k : q[i].cost <= e.cost + 1
        BY DEF NoFurther
      <3>2. f.cost <= e.cost + 1
        BY <2>1, <2>2
      <3> HIDE DEF e, k
      <3> QED
        BY <2>4, <2>7, <2>15, <3>1, <3>2 DEF NoFurther
    <2>17. Grows(q, r)
      BY <2>4, <2>7 DEF Grows
    <2>18. Seen(r, e, d)
      <3>1. r[k + 1].tile = W!To(e.tile, d) /\ r[k + 1].cost <= e.cost + 1
        BY <2>1, <2>2, <2>4 DEF t
      <3> QED
        BY <2>7, <3>1 DEF Seen
    <2> QED
      BY <2>14, <2>16, <2>17, <2>18 DEF r
  <1>4. CASE ~(W!CanStep(e.tile, d) /\ t \notin W!Found(q))
    <2>1. r = q
      BY <1>4 DEF W!Look
    <2>2. Grows(q, q)
      BY <1>1 DEF Grows
    <2>3. Seen(q, e, d)
      <3> SUFFICES ASSUME W!CanStep(e.tile, d)
                   PROVE  \E j \in 1..Len(q) : q[j].tile = t /\ q[j].cost <= e.cost + 1
        BY DEF Seen
      <3>1. PICK j \in DOMAIN q : t = q[j].tile
        BY <1>4 DEF W!Found
      <3>2. j \in 1..Len(q)
        BY <1>1, <3>1
      <3> QED
        BY <3>1, <3>2 DEF NoFurther
    <2> QED
      BY <2>1, <2>2, <2>3
  <1> QED
    BY <1>3, <1>4

\* All directions are looked at from an entry.
LEMMA ExpandKeeps ==
  ASSUME EdgeInv, NEW src \in W!Inner, NEW q, Sound(q, src), NEW n \in 1..Len(q), NoFurther(q, n)
  PROVE  /\ Sound(W!Expand(q, q[n]), src) /\ NoFurther(W!Expand(q, q[n]), n)
         /\ Grows(q, W!Expand(q, q[n]))
         /\ \A d \in W!Directions : Seen(W!Expand(q, q[n]), q[n], d)
  <1> DEFINE e == q[n]
             X == Seq(Entry)
             Grow(g) == [k \in 0..8 |-> IF k = 0 THEN q ELSE W!Look(g[k - 1], e, W!Order[k])]
             grown == CHOOSE g : g = Grow(g)
             step == [p \in X \X (1..8) |-> W!Look(p[1], e, W!Order[p[2]])]
  <1>1. q \in X /\ Len(q) \in Nat /\ n \in Nat /\ n <= Len(q) /\ e \in Entry
    <2>1. q \in Seq(Entry)
      BY DEF Sound
    <2> QED
      BY <2>1, EntryType
  <1>2. /\ \A k \in 1..8 : W!Order[k] \in W!Directions
        /\ \A d \in W!Directions : \E k \in 1..8 : d = W!Order[k]
    <2>1. W!Directions = {0, 1, 2, 3, 4, 5, 6, 7}
      BY DEF W!Directions
    <2>2. /\ W!Order[1] = 7 /\ W!Order[2] = 3 /\ W!Order[3] = 5 /\ W!Order[4] = 1
          /\ W!Order[5] = 6 /\ W!Order[6] = 4 /\ W!Order[7] = 0 /\ W!Order[8] = 2
      BY DEF W!Order
    <2>3. 1..8 = {1, 2, 3, 4, 5, 6, 7, 8}
      OBVIOUS
    <2> QED
      BY <2>1, <2>2, <2>3
  <1>3. step \in [X \X (1..8) -> X]
    <2> SUFFICES ASSUME NEW r \in X, NEW k \in 1..8
                 PROVE  W!Look(r, e, W!Order[k]) \in X
      OBVIOUS
    <2> HIDE DEF e
    <2> QED
      BY <1>1, <1>2, LookType
  <1>4. PICK g \in [0..8 -> X] : Runs(g, 8, q, step)
    <2> HIDE DEF X, step
    <2> QED
      BY <1>1, <1>3, Recursion
  <1>13. g[0] = q /\ \A k \in 1..8 : g[k - 1] \in X /\ g[k] = step[<< g[k - 1], k >>]
    <2> HIDE DEF X, step
    <2>1. \A k \in 1..8 : k - 1 \in 0..8
      OBVIOUS
    <2>2. \A k \in 1..8 : g[k - 1] \in X
      BY <1>4, <2>1
    <2> QED
      BY <1>4, <2>2 DEF Runs
  <1>5. g = Grow(g)
    <2>1. ASSUME NEW k \in 1..8 PROVE g[k] = W!Look(g[k - 1], e, W!Order[k])
      <3>1. g[k - 1] \in X /\ g[k] = step[<< g[k - 1], k >>]
        BY <1>13
      <3>2. << g[k - 1], k >> \in X \X (1..8)
        BY <3>1
      <3> QED
        BY <3>1, <3>2
    <2>2. g[0] = q
      BY <1>13
    <2> HIDE DEF step, e
    <2>4. \A k \in 0..8 : k = 0 \/ (k \in 1..8 /\ k # 0)
      OBVIOUS
    <2>3. \A k \in 0..8 : g[k] = IF k = 0 THEN q ELSE W!Look(g[k - 1], e, W!Order[k])
      BY <2>1, <2>2, <2>4, Zenon
    <2> QED
      BY <2>3
  <1>6. grown = Grow(grown)
    <2> HIDE DEF Grow
    <2> QED
      BY <1>5
  <1>7. W!Expand(q, e) = grown[8]
    BY DEF W!Expand
  <1> HIDE DEF grown, step, e
  <1>8. /\ grown[0] = q
        /\ \A k \in 1..8 : grown[k] = W!Look(grown[k - 1], e, W!Order[k])
    <2>1. 0 \in 0..8 /\ \A k \in 1..8 : k \in 0..8 /\ k # 0
      OBVIOUS
    <2> QED
      BY <1>6, <2>1
  <1> DEFINE S == {k \in Nat : k <= 8 =>
                    /\ Sound(grown[k], src) /\ NoFurther(grown[k], n) /\ Grows(q, grown[k])
                    /\ \A i \in 1..k : Seen(grown[k], e, W!Order[i])}
  <1>9. 0 \in S
    <2>1. Grows(q, q)
      BY <1>1 DEF Grows
    <2> QED
      BY <1>8, <2>1
  <1>10. ASSUME NEW k \in Nat, k \in S
         PROVE  k + 1 \in S
    <2> SUFFICES ASSUME k + 1 <= 8
                 PROVE  /\ Sound(grown[k + 1], src) /\ NoFurther(grown[k + 1], n)
                        /\ Grows(q, grown[k + 1])
                        /\ \A i \in 1..(k + 1) : Seen(grown[k + 1], e, W!Order[i])
      OBVIOUS
    <2> DEFINE r == grown[k]
               s == grown[k + 1]
    <2>1. /\ Sound(r, src) /\ NoFurther(r, n) /\ Grows(q, r)
          /\ \A i \in 1..k : Seen(r, e, W!Order[i])
      BY <1>10
    <2>2. k + 1 \in 1..8 /\ (k + 1) - 1 = k
      OBVIOUS
    <2>3. s = W!Look(r, e, W!Order[k + 1])
      BY <1>8, <2>2
    <2> HIDE DEF S, r, s
    <2>4. r \in Seq(Entry) /\ Len(r) \in Nat /\ n \in 1..Len(r) /\ r[n] = e
      <3>1. r \in Seq(Entry)
        BY <2>1 DEF Sound
      <3>2. Len(r) \in Nat /\ Len(q) <= Len(r) /\ r[n] = q[n]
        BY <2>1, <3>1 DEF Grows
      <3> QED
        BY <1>1, <3>1, <3>2 DEF e
    <2>5. /\ Sound(s, src) /\ NoFurther(s, n) /\ Grows(r, s) /\ Seen(s, e, W!Order[k + 1])
      <3>1. W!Order[k + 1] \in W!Directions
        BY <1>2, <2>2
      <3> QED
        BY <2>1, <2>3, <2>4, <3>1, LookKeeps
    <2>6. s \in Seq(Entry) /\ Len(s) \in Nat
      BY <2>5 DEF Sound
    <2>7. Grows(q, s)
      BY <1>1, <2>1, <2>4, <2>5, <2>6, GrowsOn
    <2>8. \A i \in 1..k : Seen(s, e, W!Order[i])
      BY <2>1, <2>4, <2>5, <2>6, SeenGrows
    <2>9. \A i \in 1..(k + 1) : i \in 1..k \/ i = k + 1
      OBVIOUS
    <2> QED
      BY <2>5, <2>7, <2>8, <2>9 DEF s
  <1>11. 8 \in S
    <2> HIDE DEF S
    <2> QED
      BY <1>9, <1>10, AllNumbers
  <1>12. /\ Sound(grown[8], src) /\ NoFurther(grown[8], n) /\ Grows(q, grown[8])
         /\ \A i \in 1..8 : Seen(grown[8], e, W!Order[i])
    BY <1>11
  <1> HIDE DEF S
  <1> QED
    BY <1>2, <1>7, <1>12 DEF e

Tileful == Cardinality(W!Inner)

LEMMA InnerFinite == IsFiniteSet(W!Inner) /\ Tileful \in Nat
  <1>1. IsFiniteSet(1..(MapSize - 2))
    BY WalkingAssumption, FS_Interval DEF W!WalkingAssumption
  <1>2. IsFiniteSet(W!Inner)
    BY <1>1, FS_Product DEF W!Inner
  <1> QED
    BY <1>2, FS_CardinalityType DEF Tileful

\* No queue is longer than there are tiles.
LEMMA QueueFits ==
  ASSUME NEW src, NEW q, Sound(q, src)
  PROVE  Len(q) \in Nat /\ Len(q) <= Tileful
  <1>1. q \in Seq(Entry)
    BY DEF Sound
  <1>2. Len(q) \in Nat /\ \A i \in 1..Len(q) : q[i] \in Entry
    BY <1>1, EntryType
  <1> DEFINE S == 1..Len(q)
             f == [i \in S |-> q[i].tile]
  <1>3. f \in [S -> W!Inner]
    <2>1. \A e \in Entry : e.tile \in W!Inner
      BY DEF Entry
    <2> QED
      BY <1>2, <2>1
  <1>4. \A i, j \in S : f[i] = f[j] => i = j
    BY DEF Sound
  <1>5. f \in Injection(S, W!Inner)
    <2> HIDE DEF f, S
    <2> QED
      BY <1>3, <1>4 DEF Injection, IsInjective
  <1>6. Cardinality(S) <= Tileful
    <2> HIDE DEF f, S
    <2> QED
      BY <1>5, InnerFinite, FS_Injection DEF Tileful
  <1>7. Cardinality(S) = Len(q)
    <2>1. Cardinality(1..Len(q)) = IF 1 > Len(q) THEN 0 ELSE Len(q) - 1 + 1
      BY <1>2, FS_Interval
    <2> QED
      BY <1>2, <2>1
  <1> QED
    BY <1>2, <1>6, <1>7

\* After n of its entries were looked at from.
Looked(q, n, src) ==
  /\ Sound(q, src)
  /\ \A i \in 1..Len(q) : i <= n => \A d \in W!Directions : Seen(q, q[i], d)
  /\ n < Len(q) => NoFurther(q, n + 1)

LEMMA AdvanceKeeps ==
  ASSUME EdgeInv, NEW src \in W!Inner, NEW n \in Nat, NEW q, Looked(q, n, src)
  PROVE  Looked(W!Advance(q, n + 1), n + 1, src)
  <1>1. Sound(q, src) /\ q \in Seq(Entry) /\ Len(q) \in Nat
    <2>1. Sound(q, src)
      BY DEF Looked
    <2>2. q \in Seq(Entry)
      BY <2>1 DEF Sound
    <2> QED
      BY <2>1, <2>2
  <1>2. CASE n + 1 > Len(q)
    <2>1. W!Advance(q, n + 1) = q
      BY <1>2 DEF W!Advance
    <2>2. ~(n + 1 < Len(q)) /\ \A i \in 1..Len(q) : i <= n
      BY <1>1, <1>2
    <2> QED
      BY <1>1, <2>1, <2>2 DEF Looked
  <1>3. CASE ~(n + 1 > Len(q))
    <2> DEFINE m == n + 1
               r == W!Expand(q, q[m])
    <2>1. W!Advance(q, n + 1) = r
      BY <1>3 DEF W!Advance
    <2>2. m \in 1..Len(q) /\ n < Len(q) /\ m \in Nat
      BY <1>1, <1>3
    <2>3. NoFurther(q, m)
      BY <2>2 DEF Looked
    <2>4. /\ Sound(r, src) /\ NoFurther(r, m) /\ Grows(q, r)
          /\ \A d \in W!Directions : Seen(r, q[m], d)
      BY <1>1, <2>2, <2>3, ExpandKeeps
    <2> HIDE DEF r
    <2>5. r \in Seq(Entry) /\ Len(r) \in Nat
      BY <2>4 DEF Sound
    <2>6. ASSUME NEW i \in 1..Len(r), i <= m, NEW d \in W!Directions
          PROVE  Seen(r, r[i], d)
      <3>1. i \in 1..Len(q) /\ r[i] = q[i]
        BY <1>1, <2>2, <2>4, <2>6 DEF Grows
      <3>2. CASE i = m
        BY <2>4, <3>1, <3>2
      <3>3. CASE i # m
        <4>1. i <= n
          BY <2>6, <3>3
        <4>2. Seen(q, q[i], d)
          BY <3>1, <4>1 DEF Looked
        <4> QED
          BY <1>1, <2>4, <2>5, <3>1, <4>2, SeenGrows
      <3> QED
        BY <3>2, <3>3
    <2>7. ASSUME m < Len(r)
          PROVE  NoFurther(r, m + 1)
      <3>1. m \in 1..Len(r) /\ m + 1 \in 1..Len(r)
        BY <2>2, <2>5, <2>7
      <3>2. r[m].cost <= r[m + 1].cost
        BY <3>1, <2>2, <2>4 DEF Sound
      <3>3. \A i \in 1..Len(r) : r[i].cost <= r[m].cost + 1 /\ r[i] \in Entry
        BY <2>4, <2>5, EntryType DEF NoFurther
      <3>4. \A e \in Entry : e.cost \in Nat
        BY DEF Entry
      <3>5. \A i \in 1..Len(r) : r[i].cost \in Nat
        BY <3>3, <3>4
      <3> QED
        BY <3>1, <3>2, <3>3, <3>5 DEF NoFurther
    <2> QED
      BY <2>1, <2>4, <2>6, <2>7 DEF Looked
  <1> QED
    BY <1>2, <1>3

LEMMA SameNumber == W!Cardinality(W!Inner) = Tileful
  BY DEF W!Cardinality, Cardinality, Tileful

\* The queue before anything was looked at.
LEMMA StartIsSound ==
  ASSUME NEW src \in W!Inner
  PROVE  Looked(W!Start(src), 0, src)
  <1> DEFINE f == [tile |-> src, direction |-> W!Source, cost |-> 0]
             q == W!Start(src)
  <1>1. f \in Entry /\ f.cost = 0
    BY DEF Entry
  <1>2. q = <<f>>
    BY DEF W!Start
  <1> HIDE DEF f, q
  <1>3. q \in Seq(Entry) /\ Len(q) = 1 /\ q[1] = f
    BY <1>1, <1>2
  <1>4. \A i \in 1..1 : i = 1
    OBVIOUS
  <1>5. \A i \in 1..1 : q[i].cost = 0
    BY <1>1, <1>3, <1>4
  <1>6. Sound(q, src)
    <2>1. 2..1 = {} /\ 1 >= 1 /\ 0 < 1
      OBVIOUS
    <2>2. \A i, j \in 1..Len(q) : q[i].tile = q[j].tile => i = j
      BY <1>3, <1>4
    <2>3. \A i, j \in 1..Len(q) : i < j => q[i].cost <= q[j].cost
      BY <1>3, <1>5
    <2>4. \A i \in 1..Len(q) : q[i].cost < i
      BY <1>3, <1>4, <1>5
    <2>5. \A i \in 2..Len(q) : \E p \in 1..(i - 1) : FoundFrom(q[p], q[i])
      BY <1>3
    <2> QED
      BY <1>3, <2>1, <2>2, <2>3, <2>4, <2>5 DEF Sound, f
  <1>7. NoFurther(q, 0 + 1)
    BY <1>3, <1>5 DEF NoFurther
  <1>8. \A i \in 1..Len(q) : ~(i <= 0)
    BY <1>3
  <1> QED
    BY <1>6, <1>7, <1>8 DEF Looked, q

\* The search finds every tile that its steps lead to.
LEMMA SearchIsLooked ==
  ASSUME EdgeInv, NEW src \in W!Inner
  PROVE  Looked(W!Search(src), Tileful, src)
  <1> DEFINE m == Tileful
             X == Seq(Entry)
             x0 == W!Start(src)
             Grow(g) == [n \in 0..m |-> IF n = 0 THEN x0 ELSE W!Advance(g[n - 1], n)]
             looked == CHOOSE g : g = Grow(g)
             step == [p \in X \X (1..m) |->
                        IF W!Advance(p[1], p[2]) \in X THEN W!Advance(p[1], p[2]) ELSE p[1]]
  <1>1. m \in Nat
    BY InnerFinite
  <1>2. Looked(x0, 0, src) /\ x0 \in X
    <2>1. Looked(x0, 0, src)
      BY StartIsSound
    <2> QED
      BY <2>1 DEF Looked, Sound
  <1>3. step \in [X \X (1..m) -> X]
    OBVIOUS
  <1>4. PICK g \in [0..m -> X] : Runs(g, m, x0, step)
    <2> HIDE DEF X, step, m, x0
    <2> QED
      BY <1>1, <1>2, <1>3, Recursion
  <1>5. g[0] = x0 /\ \A n \in 1..m : g[n - 1] \in X /\ g[n] = step[<< g[n - 1], n >>]
    <2> HIDE DEF X, step, m, x0
    <2>1. \A n \in 1..m : n - 1 \in 0..m
      BY <1>1
    <2>2. \A n \in 1..m : g[n - 1] \in X
      BY <1>4, <2>1
    <2> QED
      BY <1>4, <2>2 DEF Runs
  <1>6. \A n \in 1..m : W!Advance(g[n - 1], n) \in X => g[n] = W!Advance(g[n - 1], n)
    <2> SUFFICES ASSUME NEW n \in 1..m, W!Advance(g[n - 1], n) \in X
                 PROVE  g[n] = W!Advance(g[n - 1], n)
      OBVIOUS
    <2>1. << g[n - 1], n >> \in X \X (1..m)
      BY <1>5
    <2> QED
      BY <1>5, <2>1
  <1>14. W!Search(src) = looked[m]
    <2> HIDE DEF m
    <2>1. W!Cardinality(W!Inner) = m
      BY SameNumber DEF m
    <2> QED
      BY <2>1 DEF W!Search
  <1> HIDE DEF step, m, x0
  <1> DEFINE S == {k \in Nat : k <= m => Looked(g[k], k, src)}
  <1>7. 0 \in S
    BY <1>2, <1>5
  <1>8. ASSUME NEW k \in Nat, k \in S
        PROVE  k + 1 \in S
    <2> SUFFICES ASSUME k + 1 <= m PROVE Looked(g[k + 1], k + 1, src)
      OBVIOUS
    <2>1. Looked(g[k], k, src)
      BY <1>1, <1>8
    <2>2. Looked(W!Advance(g[k], k + 1), k + 1, src)
      BY <2>1, AdvanceKeeps
    <2>3. W!Advance(g[k], k + 1) \in X
      BY <2>2 DEF Looked, Sound
    <2>4. k + 1 \in 1..m /\ (k + 1) - 1 = k
      BY <1>1
    <2>5. g[k + 1] = W!Advance(g[k], k + 1)
      BY <1>6, <2>3, <2>4
    <2> QED
      BY <2>2, <2>5
  <1>9. Nat \subseteq S
    <2> HIDE DEF S
    <2> QED
      BY <1>7, <1>8, AllNumbers
  <1>10. \A k \in 0..m : Looked(g[k], k, src)
    <2>1. \A k \in 0..m : k \in Nat /\ k <= m
      BY <1>1
    <2> QED
      BY <1>9, <2>1
  <1>11. \A n \in 1..m : g[n] = W!Advance(g[n - 1], n)
    <2> SUFFICES ASSUME NEW n \in 1..m PROVE W!Advance(g[n - 1], n) \in X
      BY <1>6
    <2>1. n - 1 \in 0..m /\ n - 1 \in Nat /\ (n - 1) + 1 = n
      BY <1>1
    <2>2. Looked(W!Advance(g[n - 1], n), n, src)
      BY <1>10, <2>1, AdvanceKeeps
    <2> QED
      BY <2>2 DEF Looked, Sound
  <1>12. g = Grow(g)
    <2>1. \A n \in 0..m : n = 0 \/ (n \in 1..m /\ n # 0)
      BY <1>1
    <2>2. \A n \in 0..m : g[n] = IF n = 0 THEN x0 ELSE W!Advance(g[n - 1], n)
      BY <1>5, <1>11, <2>1, Zenon
    <2> HIDE DEF X
    <2> QED
      BY <1>4, <2>2
  <1>13. looked = Grow(looked)
    <2> HIDE DEF Grow
    <2> QED
      BY <1>12
  <1> HIDE DEF looked, S
  <1>15. /\ looked[0] = x0
         /\ \A n \in 1..m : looked[n] = W!Advance(looked[n - 1], n)
    <2>1. 0 \in 0..m /\ \A n \in 1..m : n \in 0..m /\ n # 0
      BY <1>1
    <2> QED
      BY <1>13, <2>1
  <1> DEFINE U == {k \in Nat : k <= m => looked[k] = g[k]}
  <1>16. 0 \in U
    BY <1>5, <1>15
  <1>17. ASSUME NEW k \in Nat, k \in U
         PROVE  k + 1 \in U
    <2>1. k + 1 <= m => k + 1 \in 1..m /\ (k + 1) - 1 = k
      BY <1>1
    <2> QED
      BY <1>1, <1>11, <1>15, <1>17, <2>1
  <1>18. m \in U
    <2> HIDE DEF U
    <2> QED
      BY <1>1, <1>16, <1>17, AllNumbers
  <1> HIDE DEF U
  <1>19. looked[m] = g[m]
    BY <1>1, <1>18 DEF U
  <1>20. m \in 0..m
    BY <1>1
  <1> QED
    BY <1>10, <1>14, <1>19, <1>20 DEF m

\* A queue to which no look adds any more.
Complete(q, src) ==
  Sound(q, src) /\ \A i \in 1..Len(q), d \in W!Directions : Seen(q, q[i], d)

LEMMA SearchIsComplete ==
  ASSUME EdgeInv, NEW src \in W!Inner
  PROVE  Complete(W!Search(src), src) /\ Len(W!Search(src)) <= Tileful
  <1> DEFINE q == W!Search(src)
  <1>1. Looked(q, Tileful, src)
    BY SearchIsLooked
  <1> HIDE DEF q
  <1>2. Sound(q, src)
    BY <1>1 DEF Looked
  <1>3. Len(q) \in Nat /\ Len(q) <= Tileful /\ Tileful \in Nat
    BY <1>2, QueueFits, InnerFinite
  <1>4. \A i \in 1..Len(q) : i <= Tileful
    BY <1>3
  <1> QED
    BY <1>1, <1>2, <1>3, <1>4 DEF Complete, Looked, q

\* The steps of a queue: what its entries are.
LEMMA QueueEntries ==
  ASSUME NEW src, NEW q, Sound(q, src)
  PROVE  /\ q \in Seq(Entry) /\ Len(q) \in Nat /\ 1 \in 1..Len(q) /\ DOMAIN q = 1..Len(q)
         /\ \A i \in 1..Len(q) : /\ q[i] \in Entry /\ q[i].tile \in W!Inner
                                 /\ q[i].cost \in Nat
         /\ q[1].tile = src /\ q[1].cost = 0
  <1>1. q \in Seq(Entry) /\ Len(q) >= 1
    BY DEF Sound
  <1>2. Len(q) \in Nat /\ DOMAIN q = 1..Len(q) /\ \A i \in 1..Len(q) : q[i] \in Entry
    BY <1>1, EntryType
  <1>3. \A e \in Entry : e.tile \in W!Inner /\ e.cost \in Nat
    BY DEF Entry
  <1>4. q[1].tile = src /\ q[1].cost = 0
    BY DEF Sound
  <1>5. \A i \in 1..Len(q) : q[i].tile \in W!Inner /\ q[i].cost \in Nat
    BY <1>2, <1>3
  <1> QED
    BY <1>1, <1>2, <1>4, <1>5

LEMMA StepTo ==
  ASSUME NEW s \in W!Inner, NEW d \in W!Directions, W!Walks(s, d)
  PROVE  << s, W!To(s, d) >> \in W!Steps
  <1> DEFINE e == << s, d >>
  <1>1. e \in W!Inner \X W!Directions /\ e[1] = s /\ e[2] = d
    OBVIOUS
  <1>2. e \in {a \in W!Inner \X W!Directions : W!Walks(a[1], a[2])}
    BY <1>1
  <1> HIDE DEF e
  <1> QED
    BY <1>1, <1>2 DEF W!Steps

LEMMA StepFrom ==
  ASSUME NEW e \in W!Steps
  PROVE  \E s \in W!Inner, d \in W!Directions :
            W!Walks(s, d) /\ e[1] = s /\ e[2] = W!To(s, d)
  <1>1. PICK a \in {a \in W!Inner \X W!Directions : W!Walks(a[1], a[2])} :
            e = << a[1], W!To(a[1], a[2]) >>
    BY DEF W!Steps
  <1>2. /\ a[1] \in W!Inner /\ a[2] \in W!Directions /\ W!Walks(a[1], a[2])
        /\ e[1] = a[1] /\ e[2] = W!To(a[1], a[2])
    BY <1>1
  <1> QED
    BY <1>2

\* The tiles found within k steps.
Near(q, k) == {q[i].tile : i \in {j \in 1..Len(q) : q[j].cost <= k}}

LEMMA LayerStep ==
  ASSUME MapIsTrue, NEW src, NEW q, Complete(q, src), NEW k \in Nat
  PROVE  W!Beyond(Near(q, k), W!Steps) = Near(q, k + 1)
  <1>1. Sound(q, src)
    BY DEF Complete
  <1>2. /\ Len(q) \in Nat
        /\ \A i \in 1..Len(q) : q[i].tile \in W!Inner /\ q[i].cost \in Nat
        /\ 1 \in 1..Len(q) /\ q[1].cost = 0
    BY <1>1, QueueEntries
  <1>3. ASSUME NEW t \in Near(q, k) PROVE t \in Near(q, k + 1)
    <2>1. PICK i \in 1..Len(q) : q[i].cost <= k /\ t = q[i].tile
      BY <1>3 DEF Near
    <2>2. q[i].cost <= k + 1
      BY <1>2, <2>1
    <2> QED
      BY <2>1, <2>2 DEF Near
  <1>4. ASSUME NEW e \in W!Steps, e[1] \in Near(q, k) PROVE e[2] \in Near(q, k + 1)
    <2>1. PICK s \in W!Inner, d \in W!Directions :
              W!Walks(s, d) /\ e[1] = s /\ e[2] = W!To(s, d)
      BY StepFrom
    <2>2. PICK i \in 1..Len(q) : q[i].cost <= k /\ s = q[i].tile
      BY <1>4, <2>1 DEF Near
    <2>3. W!CanStep(s, d)
      BY <2>1, StepsAreWalks
    <2>4. Seen(q, q[i], d)
      BY DEF Complete
    <2>5. PICK j \in 1..Len(q) : q[j].tile = W!To(s, d) /\ q[j].cost <= q[i].cost + 1
      BY <2>2, <2>3, <2>4 DEF Seen
    <2>6. q[j].cost <= k + 1
      BY <1>2, <2>2, <2>5
    <2> QED
      BY <2>1, <2>5, <2>6 DEF Near
  <1>5. ASSUME NEW t \in Near(q, k + 1), t \notin Near(q, k)
        PROVE  \E e \in W!Steps : e[1] \in Near(q, k) /\ e[2] = t
    <2>1. PICK i \in 1..Len(q) : q[i].cost <= k + 1 /\ t = q[i].tile
      BY <1>5 DEF Near
    <2>2. i # 1
      BY <1>2, <1>5, <2>1 DEF Near
    <2>3. i \in 2..Len(q)
      BY <1>2, <2>2
    <2>4. PICK p \in 1..(i - 1) : FoundFrom(q[p], q[i])
      BY <1>1, <2>3 DEF Sound
    <2>5. p \in 1..Len(q)
      BY <1>2, <2>3, <2>4
    <2> DEFINE d == q[i].direction
               s == q[p].tile
    <2>6. d \in W!Directions /\ W!CanStep(s, d) /\ t = W!To(s, d) /\ q[i].cost = q[p].cost + 1
      BY <2>1, <2>4 DEF FoundFrom
    <2>7. s \in W!Inner /\ s \in Near(q, k)
      <3>1. q[p].cost \in Nat /\ q[p].cost + 1 <= k + 1
        BY <1>2, <2>1, <2>5, <2>6
      <3>2. q[p].cost <= k
        BY <3>1
      <3> QED
        BY <1>2, <2>5, <3>2 DEF Near
    <2> HIDE DEF d, s
    <2>8. W!Walks(s, d)
      BY <2>6, <2>7, StepsAreWalks
    <2>9. << s, t >> \in W!Steps
      BY <2>6, <2>7, <2>8, StepTo
    <2> QED
      BY <2>7, <2>9
  <1> QED
    BY <1>3, <1>4, <1>5 DEF W!Beyond

\* The tiles within 0, 1, .. steps of a walker are the ones that were found.
LEMMA LayersAreFound ==
  ASSUME MapIsTrue, NEW src \in W!Inner, NEW q, Complete(q, src)
  PROVE  /\ DOMAIN W!Within(src, W!Steps) = 0..Tileful
         /\ \A k \in 0..Tileful : W!Within(src, W!Steps)[k] = Near(q, k)
  <1> DEFINE m == Tileful
             Grow(g) == [n \in 0..m |-> IF n = 0 THEN {src} ELSE W!Beyond(g[n - 1], W!Steps)]
             reached == CHOOSE g : g = Grow(g)
             f == [n \in 0..m |-> Near(q, n)]
  <1>1. m \in Nat
    BY InnerFinite
  <1>2. Near(q, 0) = {src}
    <2>1. Sound(q, src)
      BY DEF Complete
    <2>2. /\ Len(q) \in Nat /\ \A i \in 1..Len(q) : q[i].cost \in Nat
          /\ 1 \in 1..Len(q) /\ q[1].cost = 0 /\ q[1].tile = src
      BY <2>1, QueueEntries
    <2>3. ASSUME NEW i \in 2..Len(q) PROVE ~(q[i].cost <= 0)
      <3>1. PICK p \in 1..(i - 1) : FoundFrom(q[p], q[i])
        BY <2>1 DEF Sound
      <3>2. p \in 1..Len(q)
        BY <2>2, <3>1
      <3>3. q[i].cost = q[p].cost + 1
        BY <3>1 DEF FoundFrom
      <3> QED
        BY <2>2, <3>2, <3>3
    <2>4. \A i \in 1..Len(q) : i = 1 \/ i \in 2..Len(q)
      BY <2>2
    <2> QED
      BY <2>2, <2>3, <2>4 DEF Near
  <1> HIDE DEF m
  <1>3. f = Grow(f)
    <2>1. \A n \in 0..m : n = 0 \/ (n # 0 /\ n - 1 \in 0..m /\ n - 1 \in Nat /\ (n - 1) + 1 = n)
      BY <1>1
    <2>2. ASSUME NEW n \in 0..m, n # 0 PROVE Near(q, n) = W!Beyond(f[n - 1], W!Steps)
      <3>1. n - 1 \in 0..m /\ n - 1 \in Nat /\ (n - 1) + 1 = n
        BY <1>1, <2>2
      <3>2. W!Beyond(Near(q, n - 1), W!Steps) = Near(q, (n - 1) + 1)
        BY <3>1, LayerStep
      <3> QED
        BY <3>1, <3>2
    <2>3. \A n \in 0..m : f[n] = IF n = 0 THEN {src} ELSE W!Beyond(f[n - 1], W!Steps)
      BY <1>2, <2>2
    <2> QED
      BY <2>3
  <1> HIDE DEF f
  <1>4. reached = Grow(reached)
    <2> HIDE DEF Grow
    <2> QED
      BY <1>3
  <1>5. W!Within(src, W!Steps) = reached
    <2>1. W!Cardinality(W!Inner) = m
      BY SameNumber DEF m
    <2> QED
      BY <2>1 DEF W!Within
  <1> HIDE DEF reached
  <1>6. /\ reached[0] = {src} /\ DOMAIN reached = 0..m
        /\ \A n \in 1..m : reached[n] = W!Beyond(reached[n - 1], W!Steps)
    <2>1. 0 \in 0..m /\ \A n \in 1..m : n \in 0..m /\ n # 0
      BY <1>1
    <2> QED
      BY <1>4, <2>1
  <1> DEFINE U == {k \in Nat : k <= m => reached[k] = Near(q, k)}
  <1>7. 0 \in U
    BY <1>2, <1>6
  <1>8. ASSUME NEW k \in Nat, k \in U
        PROVE  k + 1 \in U
    <2> SUFFICES ASSUME k + 1 <= m PROVE reached[k + 1] = Near(q, k + 1)
      OBVIOUS
    <2>1. reached[k] = Near(q, k)
      BY <1>1, <1>8
    <2>2. k + 1 \in 1..m /\ (k + 1) - 1 = k
      BY <1>1
    <2> QED
      BY <1>6, <2>1, <2>2, LayerStep
  <1>9. Nat \subseteq U
    <2> HIDE DEF U
    <2> QED
      BY <1>7, <1>8, AllNumbers
  <1>10. \A k \in 0..m : k \in Nat /\ k <= m
    BY <1>1
  <1> QED
    BY <1>5, <1>6, <1>9, <1>10 DEF m

Tried(q) == {q[i].tile : i \in 1..Len(q)}
Close(q) == {q[i].tile : i \in {j \in 1..Len(q) : q[j].cost < MaxDetour}}

\* What a way may end at.
Goals(q, aims, near) ==
  IF aims \cap Tried(q) # {} THEN aims \cap Tried(q) ELSE near \cap Close(q)

\* No tile of these was found in fewer steps.
Closest(q, i, goals) ==
  /\ i \in 1..Len(q) /\ q[i].tile \in goals
  /\ \A j \in 1..Len(q) : q[j].tile \in goals => q[i].cost <= q[j].cost

LEMMA FirstOfAims ==
  ASSUME NEW src, NEW q, Sound(q, src), NEW aims, NEW near, aims \cap Tried(q) # {}
  PROVE  \E i \in 1..Len(q) :
            Closest(q, i, aims \cap Tried(q)) /\ W!End(q, aims, near) = q[i].tile
  <1> DEFINE I == {i \in 1..Len(q) : q[i].tile \in aims}
             first == W!Min(I)
  <1>1. Len(q) \in Nat /\ \A i \in 1..Len(q) : q[i].cost \in Nat
    BY QueueEntries
  <1>2. I \subseteq Nat /\ I # {}
    BY <1>1 DEF Tried
  <1>3. \E i \in I : \A j \in I : i <= j
    <2> HIDE DEF I
    <2> QED
      BY <1>2, LeastNumber
  <1>4. first \in I /\ \A j \in I : first <= j
    <2> HIDE DEF I
    <2> QED
      BY <1>3 DEF W!Min
  <1> HIDE DEF first
  <1>5. first \in 1..Len(q) /\ first # 0 /\ q[first].tile \in aims
    BY <1>1, <1>4
  <1>6. W!End(q, aims, near) = q[first].tile
    BY <1>2, <1>5 DEF W!End, W!SelectInSeq, first
  <1>7. \A j \in 1..Len(q) : q[j].tile \in aims => q[first].cost <= q[j].cost
    <2> SUFFICES ASSUME NEW j \in 1..Len(q), q[j].tile \in aims
                 PROVE  q[first].cost <= q[j].cost
      OBVIOUS
    <2>1. first <= j
      BY <1>4
    <2>2. CASE first = j
      BY <1>1, <2>2
    <2>3. CASE first # j
      <3>1. first < j
        BY <1>1, <1>5, <2>1, <2>3
      <3> QED
        BY <1>5, <3>1 DEF Sound
    <2> QED
      BY <2>2, <2>3
  <1>8. Closest(q, first, aims \cap Tried(q))
    BY <1>5, <1>7 DEF Closest, Tried
  <1> QED
    BY <1>5, <1>6, <1>8

\* Of several entries one is the nearest, and of as near ones the first by row.
LEMMA NearestOf ==
  ASSUME NEW entries \in SUBSET Entry, entries # {}
  PROVE  /\ W!Nearest(entries) \in entries
         /\ \A f \in entries : W!Nearest(entries).cost <= f.cost
  <1>1. \A e \in Entry : e.cost \in Nat /\ e.tile[1] \in Nat /\ e.tile[2] \in Nat
    <2>1. \A e \in Entry : e.cost \in Nat /\ e.tile \in W!Inner
      BY DEF Entry
    <2>2. \A t \in W!Inner : t[1] \in Nat /\ t[2] \in Nat
      BY DEF W!Inner
    <2> QED
      BY <2>1, <2>2
  <1> DEFINE A == {e.cost : e \in entries}
  <1>2. PICK c \in A : \A n \in A : c <= n
    <2>1. A \subseteq Nat /\ A # {}
      BY <1>1
    <2> HIDE DEF A
    <2> QED
      BY <2>1, LeastNumber
  <1> DEFINE B == {e.tile[1] : e \in {f \in entries : f.cost = c}}
  <1>3. PICK x \in B : \A n \in B : x <= n
    <2>1. B \subseteq Nat /\ B # {}
      BY <1>1, <1>2
    <2> HIDE DEF A, B
    <2> QED
      BY <2>1, LeastNumber
  <1> DEFINE C == {e.tile[2] : e \in {f \in entries : f.cost = c /\ f.tile[1] = x}}
  <1>4. PICK z \in C : \A n \in C : z <= n
    <2>1. C \subseteq Nat /\ C # {}
      BY <1>1, <1>3
    <2> HIDE DEF A, B, C
    <2> QED
      BY <2>1, LeastNumber
  <1>5. PICK e \in entries : e.cost = c /\ e.tile[1] = x /\ e.tile[2] = z
    BY <1>4
  <1> DEFINE Before(a, f) == \/ a.cost < f.cost
                            \/ /\ a.cost = f.cost
                               /\ \/ a.tile[1] < f.tile[1]
                                  \/ a.tile[1] = f.tile[1] /\ a.tile[2] <= f.tile[2]
  <1>6. \A f \in entries : Before(e, f)
    <2> SUFFICES ASSUME NEW f \in entries PROVE Before(e, f)
      OBVIOUS
    <2>1. c <= f.cost
      BY <1>2
    <2>2. f.cost = c => x <= f.tile[1]
      BY <1>3
    <2>3. f.cost = c /\ f.tile[1] = x => z <= f.tile[2]
      BY <1>4
    <2>4. /\ f.cost \in Nat /\ f.tile[1] \in Nat /\ f.tile[2] \in Nat
          /\ c \in Nat /\ x \in Nat /\ z \in Nat
      BY <1>1, <1>5
    <2> HIDE DEF A, B, C
    <2> QED
      BY <1>5, <2>1, <2>2, <2>3, <2>4
  <1> DEFINE n == W!Nearest(entries)
  <1>7. n \in entries /\ \A f \in entries : Before(n, f)
    BY <1>6 DEF W!Nearest
  <1> HIDE DEF n
  <1>8. \A f \in entries : n.cost <= f.cost
    <2>1. \A f \in entries : f.cost \in Nat /\ n.cost \in Nat
      BY <1>1, <1>7
    <2> QED
      BY <1>7, <2>1
  <1> QED
    BY <1>7, <1>8 DEF n

LEMMA NearestBeside ==
  ASSUME NEW src, NEW q, Sound(q, src), NEW aims, NEW near, aims \cap Tried(q) = {}
  PROVE  /\ near \cap Close(q) = {} => W!End(q, aims, near) = W!NoWay
         /\ near \cap Close(q) # {} =>
              \E i \in 1..Len(q) :
                 Closest(q, i, near \cap Close(q)) /\ W!End(q, aims, near) = q[i].tile
  <1>1. /\ Len(q) \in Nat /\ \A i \in 1..Len(q) : q[i] \in Entry
        /\ DOMAIN q = 1..Len(q)
    BY QueueEntries
  <1> DEFINE I == {i \in 1..Len(q) : q[i].tile \in aims}
             beside == {e \in W!ToSet(q) : e.tile \in near /\ e.cost < MaxDetour}
             w == W!Nearest(beside)
  <1>2. I = {}
    BY DEF Tried
  <1>3. W!End(q, aims, near) = IF beside # {} THEN w.tile ELSE W!NoWay
    BY <1>2 DEF W!End, W!SelectInSeq
  <1>4. /\ \A e \in beside : \E i \in 1..Len(q) : e = q[i] /\ q[i].tile \in near \cap Close(q)
        /\ \A i \in 1..Len(q) : q[i].tile \in near \cap Close(q) => q[i] \in beside
    <2>1. \A e \in beside : \E i \in 1..Len(q) : e = q[i] /\ q[i].tile \in near \cap Close(q)
      BY <1>1 DEF W!ToSet, Close
    <2>2. ASSUME NEW i \in 1..Len(q), q[i].tile \in near \cap Close(q)
          PROVE  q[i] \in beside
      <3>1. PICK j \in 1..Len(q) : q[j].cost < MaxDetour /\ q[i].tile = q[j].tile
        BY <2>2 DEF Close
      <3>2. i = j
        BY <3>1 DEF Sound
      <3> QED
        BY <1>1, <2>2, <3>1, <3>2 DEF W!ToSet
    <2> QED
      BY <2>1, <2>2
  <1>5. CASE beside = {}
    <2>1. near \cap Close(q) = {}
      BY <1>4, <1>5 DEF Close
    <2> QED
      BY <1>3, <1>5, <2>1
  <1>6. CASE beside # {}
    <2>1. beside \in SUBSET Entry
      BY <1>1, <1>4
    <2> HIDE DEF beside, w
    <2>2. w \in beside /\ \A f \in beside : w.cost <= f.cost
      BY <1>6, <2>1, NearestOf DEF w
    <2>3. PICK i \in 1..Len(q) : w = q[i] /\ q[i].tile \in near \cap Close(q)
      BY <1>4, <2>2
    <2>4. Closest(q, i, near \cap Close(q))
      BY <1>4, <2>2, <2>3 DEF Closest
    <2>5. W!End(q, aims, near) = q[i].tile
      BY <1>3, <1>6, <2>3
    <2> QED
      BY <2>3, <2>4, <2>5
  <1> QED
    BY <1>5, <1>6

\* Where a way ends no nearer one could.
LEMMA EndIsClosest ==
  ASSUME NEW src, NEW q, Sound(q, src), NEW aims, NEW near
  PROVE  /\ Goals(q, aims, near) = {} => W!End(q, aims, near) = W!NoWay
         /\ Goals(q, aims, near) # {} =>
              \E i \in 1..Len(q) :
                 Closest(q, i, Goals(q, aims, near)) /\ W!End(q, aims, near) = q[i].tile
  <1>1. CASE aims \cap Tried(q) # {}
    <2>1. Goals(q, aims, near) = aims \cap Tried(q)
      BY <1>1 DEF Goals
    <2> QED
      BY <1>1, <2>1, FirstOfAims
  <1>2. CASE aims \cap Tried(q) = {}
    <2>1. Goals(q, aims, near) = near \cap Close(q)
      BY <1>2 DEF Goals
    <2> QED
      BY <1>2, <2>1, NearestBeside
  <1> QED
    BY <1>1, <1>2

\* The steps of the shortest way are those of the search.
LEMMA DistanceIsCost ==
  ASSUME NEW src, NEW q, Sound(q, src), NEW goals, NEW i, Closest(q, i, goals),
         NEW layers, DOMAIN layers = 0..Tileful,
         \A k \in 0..Tileful : layers[k] = Near(q, k)
  PROVE  W!Distance(layers, goals) = q[i].cost
  <1> DEFINE c == q[i].cost
             Is(n) == /\ layers[n] \cap goals # {}
                      /\ \A m \in DOMAIN layers : m < n => layers[m] \cap goals = {}
  <1>1. /\ Len(q) \in Nat /\ Len(q) <= Tileful /\ Tileful \in Nat
        /\ \A j \in 1..Len(q) : q[j].cost \in Nat
    BY QueueEntries, QueueFits, InnerFinite
  <1>2. i \in 1..Len(q) /\ q[i].tile \in goals
    BY DEF Closest
  <1>3. c \in 0..Tileful
    <2>1. q[i].cost < i
      BY <1>2 DEF Sound
    <2> QED
      BY <1>1, <1>2, <2>1
  <1>4. \A n \in 0..Tileful : layers[n] \cap goals # {} <=> c <= n
    <2> TAKE n \in 0..Tileful
    <2>1. ASSUME c <= n PROVE layers[n] \cap goals # {}
      <3>1. q[i].tile \in Near(q, n)
        BY <1>2, <2>1 DEF Near
      <3> QED
        BY <1>2, <3>1
    <2>2. ASSUME layers[n] \cap goals # {} PROVE c <= n
      <3>1. PICK j \in 1..Len(q) : q[j].cost <= n /\ q[j].tile \in goals
        BY <2>2 DEF Near
      <3>2. c <= q[j].cost
        BY <3>1 DEF Closest
      <3> QED
        BY <1>1, <1>3, <3>1, <3>2
    <2> QED
      BY <2>1, <2>2
  <1> HIDE DEF c
  <1>5. Is(c)
    <2>1. \A m \in 0..Tileful : m < c => ~(c <= m)
      BY <1>3
    <2>2. c <= c
      BY <1>3
    <2> QED
      BY <1>3, <1>4, <2>1, <2>2
  <1>6. \A n \in 0..Tileful : Is(n) => n = c
    <2> SUFFICES ASSUME NEW n \in 0..Tileful, Is(n) PROVE n = c
      OBVIOUS
    <2>1. c <= n
      BY <1>4
    <2>2. ~(c < n)
      BY <1>3, <1>5
    <2> QED
      BY <1>3, <2>1, <2>2
  <1>7. W!Distance(layers, goals) = CHOOSE n \in 0..Tileful : Is(n)
    BY DEF W!Distance
  <1> QED
    BY <1>3, <1>5, <1>6, <1>7 DEF c

\* Two runs that begin alike and step alike are alike.
Alike(f, g, m) ==
  f[0] = g[0] /\ \A n \in 1..m : f[n - 1] = g[n - 1] => f[n] = g[n]

LEMMA SameSteps ==
  ASSUME NEW m \in Nat, NEW f, NEW g, Alike(f, g, m)
  PROVE  \A k \in 0..m : f[k] = g[k]
  <1> USE DEF Alike
  <1> DEFINE U == {k \in Nat : k <= m => f[k] = g[k]}
  <1>1. 0 \in U
    OBVIOUS
  <1>2. ASSUME NEW k \in Nat, k \in U
        PROVE  k + 1 \in U
    <2>1. k + 1 <= m => k + 1 \in 1..m /\ (k + 1) - 1 = k
      OBVIOUS
    <2> QED
      BY <1>2, <2>1
  <1>3. Nat \subseteq U
    <2> HIDE DEF U
    <2> QED
      BY <1>1, <1>2, AllNumbers
  <1>4. \A k \in 0..m : k \in Nat /\ k <= m
    OBVIOUS
  <1> QED
    BY <1>3, <1>4

LEMMA EntryOfIs ==
  ASSUME NEW src, NEW q, Sound(q, src), NEW i \in 1..Len(q)
  PROVE  W!EntryOf(q, q[i].tile) = q[i]
  <1>1. DOMAIN q = 1..Len(q)
    BY QueueEntries
  <1>2. \A e \in W!ToSet(q) : e.tile = q[i].tile => e = q[i]
    <2> SUFFICES ASSUME NEW e \in W!ToSet(q), e.tile = q[i].tile PROVE e = q[i]
      OBVIOUS
    <2>1. PICK j \in 1..Len(q) : e = q[j]
      BY <1>1 DEF W!ToSet
    <2>2. j = i
      BY <2>1 DEF Sound
    <2> QED
      BY <2>1, <2>2
  <1>3. q[i] \in W!ToSet(q)
    BY <1>1 DEF W!ToSet
  <1> QED
    BY <1>2, <1>3 DEF W!EntryOf

\* Only the source was there before the first step.
LEMMA SourceIsFirst ==
  ASSUME NEW src, NEW q, Sound(q, src), NEW i \in 1..Len(q)
  PROVE  q[i].cost = 0 <=> i = 1
  <1>1. /\ Len(q) \in Nat /\ q[1].cost = 0
        /\ \A j \in 1..Len(q) : q[j].cost \in Nat
    BY QueueEntries
  <1>2. ASSUME i # 1 PROVE q[i].cost # 0
    <2>1. i \in 2..Len(q)
      BY <1>1, <1>2
    <2>2. PICK p \in 1..(i - 1) : FoundFrom(q[p], q[i])
      BY <2>1 DEF Sound
    <2>3. p \in 1..Len(q) /\ q[i].cost = q[p].cost + 1
      BY <1>1, <2>1, <2>2 DEF FoundFrom
    <2> QED
      BY <1>1, <2>3
  <1> QED
    BY <1>1, <1>2

\* The entry before one is the one it was found from.
LEMMA BeforeIs ==
  ASSUME NEW src, NEW q, Sound(q, src), NEW i \in 1..Len(q), q[i].cost # 0
  PROVE  \E p \in 1..Len(q) : W!Before(q, q[i]) = q[p] /\ FoundFrom(q[p], q[i])
  <1>1. Len(q) \in Nat /\ \A j \in 1..Len(q) : q[j].tile \in W!Inner
    BY QueueEntries
  <1>2. i # 1
    BY SourceIsFirst
  <1>3. i \in 2..Len(q)
    BY <1>1, <1>2
  <1>4. PICK p \in 1..(i - 1) : FoundFrom(q[p], q[i])
    BY <1>3 DEF Sound
  <1>5. p \in 1..Len(q)
    BY <1>1, <1>3, <1>4
  <1>6. q[i].direction \in W!Directions /\ q[i].tile = W!To(q[p].tile, q[i].direction)
    BY <1>4 DEF FoundFrom
  <1>7. W!To(q[i].tile, W!Opposite(q[i].direction)) = q[p].tile
    <2>1. q[p].tile \in W!Inner
      BY <1>1, <1>5
    <2> QED
      BY <1>6, <2>1, Neighbours
  <1>8. W!Before(q, q[i]) = q[p]
    BY <1>5, <1>7, EntryOfIs DEF W!Before
  <1> QED
    BY <1>4, <1>5, <1>8

\* The tiles of a way, the source the 0-th.
Along(way, src, k) == IF k = 0 THEN src ELSE way[k].tile

IsWay(way, src, end, c) ==
  /\ c \in Nat /\ way \in Seq(Entry) /\ Len(way) = c
  /\ \A k \in 1..c :
        /\ way[k].direction \in W!Directions
        /\ Along(way, src, k - 1) \in W!Inner
        /\ W!CanStep(Along(way, src, k - 1), way[k].direction)
        /\ Along(way, src, k) = W!To(Along(way, src, k - 1), way[k].direction)
  /\ Along(way, src, c) = end
  /\ \A j, k \in 0..c : Along(way, src, j) = Along(way, src, k) => j = k

LEMMA WayIsThere ==
  ASSUME NEW src, NEW q, Sound(q, src), NEW i \in 1..Len(q)
  PROVE  IsWay(W!WayTo(q, q[i].tile), src, q[i].tile, q[i].cost)
  <1> DEFINE c == q[i].cost
             X == Entry
             x0 == q[i]
             Grow(g) == [n \in 0..c |-> IF n = 0 THEN x0 ELSE W!Before(q, g[n - 1])]
             back == CHOOSE g : g = Grow(g)
             step == [p \in X \X (1..c) |->
                        IF W!Before(q, p[1]) \in X THEN W!Before(q, p[1]) ELSE p[1]]
             way == [k \in 1..c |-> back[c - k]]
  <1>1. /\ Len(q) \in Nat /\ 1 \in 1..Len(q) /\ q[1].tile = src
        /\ \A j \in 1..Len(q) : q[j] \in X /\ q[j].tile \in W!Inner /\ q[j].cost \in Nat
    BY QueueEntries
  <1>2. c \in Nat /\ x0 \in X
    BY <1>1
  <1>3. step \in [X \X (1..c) -> X]
    OBVIOUS
  <1>4. PICK g \in [0..c -> X] : Runs(g, c, x0, step)
    <2> HIDE DEF X, step, c, x0
    <2> QED
      BY <1>2, <1>3, Recursion
  <1>5. g[0] = x0 /\ \A n \in 1..c : g[n - 1] \in X /\ g[n] = step[<< g[n - 1], n >>]
    <2> HIDE DEF X, step, c, x0
    <2>1. \A n \in 1..c : n - 1 \in 0..c
      BY <1>2
    <2>2. \A n \in 1..c : g[n - 1] \in X
      BY <1>4, <2>1
    <2> QED
      BY <1>4, <2>2 DEF Runs
  <1>6. \A n \in 1..c : W!Before(q, g[n - 1]) \in X => g[n] = W!Before(q, g[n - 1])
    <2> SUFFICES ASSUME NEW n \in 1..c, W!Before(q, g[n - 1]) \in X
                 PROVE  g[n] = W!Before(q, g[n - 1])
      OBVIOUS
    <2>1. << g[n - 1], n >> \in X \X (1..c)
      BY <1>5
    <2> QED
      BY <1>5, <2>1
  <1>7. W!WayTo(q, q[i].tile) = way
    <2>1. W!EntryOf(q, q[i].tile) = q[i]
      BY EntryOfIs
    <2> QED
      BY <2>1 DEF W!WayTo
  <1> HIDE DEF step, way
  <1> DEFINE At(n, j) == g[n] = q[j] /\ q[j].cost = c - n
             S == {n \in Nat : n <= c => \E j \in 1..Len(q) : At(n, j)}
  <1>8. 0 \in S
    BY <1>2, <1>5
  <1>9. ASSUME NEW n \in 1..c, NEW j \in 1..Len(q), At(n - 1, j)
        PROVE  \E p \in 1..Len(q) : At(n, p) /\ FoundFrom(q[p], q[j])
    <2>1. q[j].cost = c - (n - 1) /\ q[j].cost # 0
      BY <1>2, <1>9
    <2>2. PICK p \in 1..Len(q) : W!Before(q, q[j]) = q[p] /\ FoundFrom(q[p], q[j])
      BY <2>1, BeforeIs
    <2>3. q[j].cost = q[p].cost + 1
      BY <2>2 DEF FoundFrom
    <2>4. q[p].cost = c - n
      <3>1. q[p].cost \in Nat
        BY <1>1
      <3>2. n \in Int /\ c \in Int
        BY <1>2
      <3> DEFINE x == q[p].cost
                 y == q[j].cost
      <3>3. x \in Int /\ y = c - (n - 1) /\ y = x + 1
        BY <2>1, <2>3, <3>1
      <3> HIDE DEF c, x, y
      <3>4. x = c - n
        BY <3>2, <3>3
      <3> QED
        BY <3>4 DEF x
    <2>5. g[n] = q[p]
      BY <1>1, <1>6, <1>9, <2>2
    <2> QED
      BY <2>2, <2>4, <2>5
  <1>10. ASSUME NEW n \in Nat, n \in S
         PROVE  n + 1 \in S
    <2> SUFFICES ASSUME n + 1 <= c PROVE \E j \in 1..Len(q) : At(n + 1, j)
      OBVIOUS
    <2>1. n + 1 \in 1..c /\ (n + 1) - 1 = n
      BY <1>2
    <2>2. \E j \in 1..Len(q) : At(n, j)
      BY <1>2, <1>10
    <2> QED
      BY <1>9, <2>1, <2>2
  <1>11. Nat \subseteq S
    <2> HIDE DEF S
    <2> QED
      BY <1>8, <1>10, AllNumbers
  <1>12. \A n \in 0..c : \E j \in 1..Len(q) : At(n, j)
    <2>1. \A n \in 0..c : n \in Nat /\ n <= c
      BY <1>2
    <2> QED
      BY <1>11, <2>1
  <1> HIDE DEF S
  <1>13. \A n \in 1..c : n - 1 \in 0..c /\ n \in 0..c /\ n # 0
    BY <1>2
  <1>14. \A n \in 1..c : g[n] = W!Before(q, g[n - 1])
    <2> SUFFICES ASSUME NEW n \in 1..c PROVE W!Before(q, g[n - 1]) \in X
      BY <1>6
    <2>1. PICK j \in 1..Len(q) : At(n - 1, j)
      BY <1>12, <1>13
    <2>2. q[j].cost # 0
      BY <1>2, <2>1
    <2>3. PICK p \in 1..Len(q) : W!Before(q, q[j]) = q[p]
      BY <2>2, BeforeIs
    <2> QED
      BY <1>1, <2>1, <2>3
  <1>15. g = Grow(g)
    <2>1. \A n \in 0..c : n = 0 \/ (n \in 1..c /\ n # 0)
      BY <1>2
    <2> HIDE DEF c, x0
    <2>2. \A n \in 0..c : g[n] = IF n = 0 THEN x0 ELSE W!Before(q, g[n - 1])
      BY <1>5, <1>14, <2>1, Zenon
    <2> HIDE DEF X
    <2> QED
      BY <1>4, <2>2
  <1>16. back = Grow(back)
    <2> HIDE DEF Grow
    <2> QED
      BY <1>15
  <1> HIDE DEF back
  <1>17. back[0] = x0 /\ \A n \in 1..c : back[n] = W!Before(q, back[n - 1])
    <2>1. 0 \in 0..c
      BY <1>2
    <2> QED
      BY <1>13, <1>16, <2>1
  <1>18. \A n \in 0..c : back[n] = g[n]
    <2>1. Alike(back, g, c)
      BY <1>5, <1>14, <1>17 DEF Alike
    <2> HIDE DEF c
    <2> QED
      BY <1>2, <2>1, SameSteps
  <1> HIDE DEF c, Grow
  <1>19. \A k \in 0..c : c - k \in 0..c /\ c - (c - k) = k
    BY <1>2
  <1>20. DOMAIN way = 1..c /\ \A k \in 1..c : way[k] = g[c - k]
    <2>1. \A k \in 1..c : c - k \in 0..c
      BY <1>2
    <2> QED
      BY <1>18, <2>1 DEF way
  \* Its k-th tile was found in k steps.
  <1>21. ASSUME NEW k \in 0..c
         PROVE  \E j \in 1..Len(q) : /\ At(c - k, j) /\ q[j].cost = k
                                     /\ Along(way, src, k) = q[j].tile
    <2>1. PICK j \in 1..Len(q) : At(c - k, j)
      BY <1>12, <1>19
    <2>2. q[j].cost = k
      BY <1>19, <2>1
    <2>3. CASE k = 0
      <3>1. j = 1
        BY <2>2, <2>3, SourceIsFirst
      <3> QED
        BY <1>1, <2>1, <2>2, <2>3, <3>1 DEF Along
    <2>4. CASE k # 0
      <3>1. k \in 1..c
        BY <1>2, <2>4
      <3>2. way[k] = q[j]
        BY <1>20, <2>1, <3>1
      <3> QED
        BY <2>1, <2>2, <2>4, <3>2 DEF Along
    <2> QED
      BY <2>3, <2>4
  <1>22. way \in Seq(Entry) /\ Len(way) = c
    <2>1. \A k \in 1..c : way[k] \in Entry
      <3> SUFFICES ASSUME NEW k \in 1..c PROVE way[k] \in Entry
        OBVIOUS
      <3>1. c - k \in 0..c
        BY <1>2
      <3>2. \E j \in 1..Len(q) : At(c - k, j)
        BY <1>12, <3>1
      <3> QED
        BY <1>1, <1>20, <3>2
    <2>2. way \in [1..c -> Entry]
      <3>1. way = [k \in 1..c |-> way[k]]
        BY <1>20 DEF way
      <3> QED
        BY <2>1, <3>1
    <2> QED
      BY <1>2, <2>2
  <1>23. ASSUME NEW k \in 1..c
         PROVE  /\ way[k].direction \in W!Directions
                /\ Along(way, src, k - 1) \in W!Inner
                /\ W!CanStep(Along(way, src, k - 1), way[k].direction)
                /\ Along(way, src, k) = W!To(Along(way, src, k - 1), way[k].direction)
    <2>1. /\ k \in 0..c /\ k - 1 \in 0..c /\ (c - (k - 1)) - 1 = c - k
          /\ c - (k - 1) \in 1..c /\ k # 0
      BY <1>2
    <2>2. PICK j \in 1..Len(q) : /\ At(c - k, j) /\ q[j].cost = k
                                 /\ Along(way, src, k) = q[j].tile
      BY <1>21, <2>1
    <2>3. PICK p \in 1..Len(q) : At(c - (k - 1), p) /\ FoundFrom(q[p], q[j])
      <3> DEFINE n == c - (k - 1)
      <3>1. n \in 1..c /\ n - 1 = c - k
        BY <2>1
      <3>2. At(n - 1, j)
        BY <2>2, <3>1
      <3> HIDE DEF n
      <3>3. \E p \in 1..Len(q) : At(n, p) /\ FoundFrom(q[p], q[j])
        BY <1>9, <3>1, <3>2
      <3> QED
        BY <3>3 DEF n
    <2>4. PICK r \in 1..Len(q) : /\ At(c - (k - 1), r)
                                 /\ Along(way, src, k - 1) = q[r].tile
      BY <1>21, <2>1
    <2>5. q[p] = q[r]
      BY <2>3, <2>4
    <2>6. way[k] = q[j]
      BY <1>20, <2>2
    <2> QED
      BY <1>1, <2>2, <2>3, <2>4, <2>5, <2>6 DEF FoundFrom
  <1>24. Along(way, src, c) = q[i].tile
    <2>1. c \in 0..c /\ c - c = 0
      BY <1>2
    <2>2. PICK j \in 1..Len(q) : At(0, j) /\ Along(way, src, c) = q[j].tile
      BY <1>21, <2>1
    <2>3. q[j] = q[i]
      BY <1>5, <2>2
    <2> QED
      BY <2>2, <2>3
  <1>25. ASSUME NEW j \in 0..c, NEW k \in 0..c, Along(way, src, j) = Along(way, src, k)
         PROVE  j = k
    <2>1. PICK r \in 1..Len(q) : q[r].cost = j /\ Along(way, src, j) = q[r].tile
      BY <1>21
    <2>2. PICK p \in 1..Len(q) : q[p].cost = k /\ Along(way, src, k) = q[p].tile
      BY <1>21
    <2>3. r = p
      BY <1>25, <2>1, <2>2 DEF Sound
    <2> QED
      BY <2>1, <2>2, <2>3
  <1> QED
    BY <1>2, <1>7, <1>22, <1>23, <1>24, <1>25 DEF IsWay, c

\* What is told of a way, after each of its tiles.
IsTold(told, way) ==
  /\ told[0] = <<>>
  /\ \A i \in 1..Len(way) :
        told[i] = IF W!Turns(way, i) /\ Len(told[i - 1]) < MaxWaypoints
                  THEN Append(told[i - 1], way[i].tile) ELSE told[i - 1]

LEMMA WaypointsAreTold ==
  ASSUME NEW q, NEW end, NEW way, way = W!WayTo(q, end), way \in Seq(Entry), way # <<>>
  PROVE  \E told : IsTold(told, way) /\ W!Waypoints(q, end) = told[Len(way)]
  <1> DEFINE m == Len(way)
             X == Seq(W!Inner)
             More(s, i) == IF W!Turns(way, i) /\ Len(s) < MaxWaypoints
                           THEN Append(s, way[i].tile) ELSE s
             Grow(g) == [i \in 0..m |->
                           IF i = 0 THEN <<>>
                           ELSE IF W!Turns(way, i) /\ Len(g[i - 1]) < MaxWaypoints
                                THEN Append(g[i - 1], way[i].tile) ELSE g[i - 1]]
             told == CHOOSE g : g = Grow(g)
             step == [p \in X \X (1..m) |-> More(p[1], p[2])]
  <1>1. m \in Nat /\ \A i \in 1..m : way[i].tile \in W!Inner
    <2>1. \A e \in Entry : e.tile \in W!Inner
      BY DEF Entry
    <2> QED
      BY <2>1, EntryType
  <1>2. <<>> \in X
    OBVIOUS
  <1>3. step \in [X \X (1..m) -> X]
    <2> SUFFICES ASSUME NEW s \in X, NEW i \in 1..m
                 PROVE  More(s, i) \in X
      OBVIOUS
    <2>1. Append(s, way[i].tile) \in X
      BY <1>1
    <2> QED
      BY <2>1
  <1>4. PICK g \in [0..m -> X] : Runs(g, m, <<>>, step)
    <2> HIDE DEF X, step, m
    <2> QED
      BY <1>1, <1>2, <1>3, Recursion
  <1>5. g[0] = <<>> /\ \A i \in 1..m : g[i - 1] \in X /\ g[i] = step[<< g[i - 1], i >>]
    <2> HIDE DEF X, step, m
    <2>1. \A i \in 1..m : i - 1 \in 0..m
      BY <1>1
    <2>2. \A i \in 1..m : g[i - 1] \in X
      BY <1>4, <2>1
    <2> QED
      BY <1>4, <2>2 DEF Runs
  <1>6. \A i \in 1..m : g[i] = More(g[i - 1], i)
    <2> SUFFICES ASSUME NEW i \in 1..m
                 PROVE  g[i] = More(g[i - 1], i)
      OBVIOUS
    <2>1. << g[i - 1], i >> \in X \X (1..m)
      BY <1>5
    <2> QED
      BY <1>5, <2>1
  <1>7. W!Waypoints(q, end) = told[m]
    BY DEF W!Waypoints
  <1> HIDE DEF step
  <1>8. g = Grow(g)
    <2>1. \A i \in 0..m : i = 0 \/ (i \in 1..m /\ i # 0)
      BY <1>1
    <2> HIDE DEF m
    <2>2. \A i \in 0..m : g[i] = IF i = 0 THEN <<>> ELSE More(g[i - 1], i)
      BY <1>5, <1>6, <2>1, Zenon
    <2> HIDE DEF X
    <2> QED
      BY <1>4, <2>2
  <1>9. told = Grow(told)
    <2> HIDE DEF Grow
    <2> QED
      BY <1>8
  <1> HIDE DEF told
  <1>10. told[0] = <<>> /\ \A i \in 1..m : told[i] = More(told[i - 1], i)
    <2>1. 0 \in 0..m /\ \A i \in 1..m : i \in 0..m /\ i # 0
      BY <1>1
    <2> HIDE DEF m
    <2> QED
      BY <1>9, <2>1
  <1>11. IsTold(told, way)
    BY <1>10 DEF IsTold
  <1> QED
    BY <1>7, <1>11

LEMMA ToldTypes ==
  ASSUME NEW way \in Seq(Entry), NEW told, IsTold(told, way)
  PROVE  \A i \in 0..Len(way) :
            /\ told[i] \in Seq(W!Inner) /\ Len(told[i]) \in Nat
            /\ Len(told[i]) <= MaxWaypoints
  <1> DEFINE m == Len(way)
             S == {i \in Nat : i <= m => /\ told[i] \in Seq(W!Inner)
                                         /\ Len(told[i]) <= MaxWaypoints}
  <1>1. MaxWaypoints \in Nat \ {0}
    BY WalkingAssumption DEF W!WalkingAssumption
  <1>2. m \in Nat /\ \A i \in 1..m : way[i].tile \in W!Inner
    <2>1. \A e \in Entry : e.tile \in W!Inner
      BY DEF Entry
    <2> QED
      BY <2>1, EntryType
  <1>3. 0 \in S
    <2>1. told[0] = <<>>
      BY DEF IsTold
    <2>2. <<>> \in Seq(W!Inner) /\ Len(<<>>) = 0
      OBVIOUS
    <2>3. 0 <= MaxWaypoints
      BY <1>1
    <2> QED
      BY <2>1, <2>2, <2>3
  <1>4. ASSUME NEW i \in Nat, i \in S
        PROVE  i + 1 \in S
    <2> SUFFICES ASSUME i + 1 <= m
                 PROVE  /\ told[i + 1] \in Seq(W!Inner) /\ Len(told[i + 1]) <= MaxWaypoints
      OBVIOUS
    <2>1. i + 1 \in 1..m /\ (i + 1) - 1 = i
      BY <1>2
    <2> DEFINE s == told[i]
               x == way[i + 1].tile
    <2>2. s \in Seq(W!Inner) /\ Len(s) \in Nat /\ Len(s) <= MaxWaypoints /\ x \in W!Inner
      <3>1. s \in Seq(W!Inner) /\ Len(s) <= MaxWaypoints
        BY <1>2, <1>4
      <3> QED
        BY <1>2, <2>1, <3>1
    <2>3. told[i + 1] = IF W!Turns(way, i + 1) /\ Len(s) < MaxWaypoints
                        THEN Append(s, x) ELSE s
      BY <2>1 DEF IsTold
    <2> HIDE DEF s, x
    <2>4. Append(s, x) \in Seq(W!Inner) /\ Len(Append(s, x)) = Len(s) + 1
      BY <2>2
    <2>5. CASE W!Turns(way, i + 1) /\ Len(s) < MaxWaypoints
      <3>1. told[i + 1] = Append(s, x)
        BY <2>3, <2>5
      <3>2. Len(s) + 1 <= MaxWaypoints
        BY <1>1, <2>2, <2>5
      <3> QED
        BY <2>4, <3>1, <3>2
    <2>6. CASE ~(W!Turns(way, i + 1) /\ Len(s) < MaxWaypoints)
      BY <2>2, <2>3, <2>6
    <2> QED
      BY <2>5, <2>6
  <1>5. Nat \subseteq S
    <2> HIDE DEF S
    <2> QED
      BY <1>3, <1>4, AllNumbers
  <1>6. \A i \in 0..m : told[i] \in Seq(W!Inner) /\ Len(told[i]) <= MaxWaypoints
    <2>1. \A i \in 0..m : i \in Nat /\ i <= m
      BY <1>2
    <2> QED
      BY <1>5, <2>1
  <1>7. \A s \in Seq(W!Inner) : Len(s) \in Nat
    OBVIOUS
  <1> QED
    BY <1>6, <1>7

\* A tile adds one point or none, and takes none away.
LEMMA ToldGrows ==
  ASSUME NEW way \in Seq(Entry), NEW told, IsTold(told, way), NEW i \in 0..Len(way)
  PROVE  \A j \in i..Len(way) : Grows(told[i], told[j])
  <1> DEFINE m == Len(way)
             S == {k \in Nat : i + k <= m => Grows(told[i], told[i + k])}
  <1>1. m \in Nat /\ i \in Nat /\ \A k \in 1..m : way[k].tile \in W!Inner
    <2>1. \A e \in Entry : e.tile \in W!Inner
      BY DEF Entry
    <2> QED
      BY <2>1, EntryType
  <1>2. \A k \in 0..m : told[k] \in Seq(W!Inner) /\ Len(told[k]) \in Nat
    BY ToldTypes
  <1>3. 0 \in S
    <2>1. i + 0 = i
      BY <1>1
    <2>2. Grows(told[i], told[i])
      BY <1>2 DEF Grows
    <2> QED
      BY <2>1, <2>2
  <1>4. ASSUME NEW k \in Nat, k \in S
        PROVE  k + 1 \in S
    <2> SUFFICES ASSUME i + (k + 1) <= m PROVE Grows(told[i], told[i + (k + 1)])
      OBVIOUS
    <2> DEFINE n == i + (k + 1)
               s == told[i + k]
               x == way[n].tile
    <2>1. n \in 1..m /\ n - 1 = i + k /\ i + k \in 0..m /\ i + k <= m /\ n \in 0..m
      BY <1>1
    <2>2. s \in Seq(W!Inner) /\ told[i] \in Seq(W!Inner) /\ x \in W!Inner
      BY <1>1, <1>2, <2>1
    <2>3. told[n] = IF W!Turns(way, n) /\ Len(s) < MaxWaypoints THEN Append(s, x) ELSE s
      BY <2>1 DEF IsTold
    <2>4. Grows(told[i], s)
      BY <1>4, <2>1
    <2>5. Grows(s, s) /\ Grows(s, Append(s, x))
      <3> HIDE DEF s, x
      <3>1. /\ Len(s) \in Nat /\ Len(Append(s, x)) = Len(s) + 1
            /\ \A l \in 1..Len(s) : Append(s, x)[l] = s[l]
        BY <2>2, AppendedEntries
      <3> QED
        BY <3>1 DEF Grows
    <2>6. Grows(s, told[n]) /\ told[n] \in Seq(W!Inner)
      BY <1>2, <2>1, <2>3, <2>5
    <2> HIDE DEF n, s
    <2>7. Grows(told[i], told[n])
      BY <2>2, <2>4, <2>6, GrowsOn
    <2> QED
      BY <2>7 DEF n
  <1>5. Nat \subseteq S
    <2> HIDE DEF S
    <2> QED
      BY <1>3, <1>4, AllNumbers
  <1>6. ASSUME NEW j \in i..m PROVE Grows(told[i], told[j])
    <2>1. j - i \in Nat /\ i + (j - i) = j /\ j <= m
      BY <1>1
    <2>2. j - i \in S
      BY <1>5, <2>1
    <2> QED
      BY <2>1, <2>2
  <1> QED
    BY <1>6

\* While there is room, the next turn after a tile is the next point.
TurnsNext(way, told, j, t) ==
  /\ t \in (j + 1)..Len(way)
  /\ \A k \in (j + 1)..(t - 1) : ~W!Turns(way, k)
  /\ \A k \in j..(t - 1) : told[k] = told[j]
  /\ told[t] = Append(told[j], way[t].tile)

LEMMA NextTurn ==
  ASSUME NEW way \in Seq(Entry), NEW told, IsTold(told, way),
         NEW j \in 0..(Len(way) - 1), Len(told[j]) < MaxWaypoints
  PROVE  \E t : TurnsNext(way, told, j, t)
  <1> DEFINE m == Len(way)
             I == {t \in (j + 1)..m : W!Turns(way, t)}
  <1>1. m \in Nat /\ j \in Nat /\ j < m
    <2>1. m \in Nat
      BY EntryType
    <2> QED
      BY <2>1
  <1>2. PICK t \in I : \A k \in I : t <= k
    <2>1. m \in I
      BY <1>1 DEF W!Turns
    <2>2. I \subseteq Nat
      BY <1>1
    <2> HIDE DEF I
    <2> QED
      BY <2>1, <2>2, LeastNumber
  <1>3. t \in (j + 1)..m /\ W!Turns(way, t) /\ t \in Nat
    BY <1>1, <1>2
  <1>4. \A k \in (j + 1)..(t - 1) : ~W!Turns(way, k)
    <2> SUFFICES ASSUME NEW k \in (j + 1)..(t - 1), W!Turns(way, k) PROVE FALSE
      OBVIOUS
    <2>1. k \in I /\ ~(t <= k)
      BY <1>1, <1>3
    <2> QED
      BY <1>2, <2>1
  <1> HIDE DEF I
  <1> DEFINE S == {k \in Nat : j + k <= t - 1 => told[j + k] = told[j]}
  <1>5. 0 \in S
    BY <1>1
  <1>6. ASSUME NEW k \in Nat, k \in S
        PROVE  k + 1 \in S
    <2> SUFFICES ASSUME j + (k + 1) <= t - 1 PROVE told[j + (k + 1)] = told[j]
      OBVIOUS
    <2> DEFINE n == j + (k + 1)
    <2>1. /\ n \in (j + 1)..(t - 1) /\ n - 1 = j + k /\ n \in 1..m
          /\ j + k <= t - 1
      BY <1>1, <1>3
    <2>2. told[n] = told[n - 1]
      BY <1>4, <2>1 DEF IsTold
    <2> QED
      BY <1>6, <2>1, <2>2
  <1>7. Nat \subseteq S
    <2> HIDE DEF S
    <2> QED
      BY <1>5, <1>6, AllNumbers
  <1>8. \A k \in j..(t - 1) : told[k] = told[j]
    <2> SUFFICES ASSUME NEW k \in j..(t - 1) PROVE told[k] = told[j]
      OBVIOUS
    <2>1. k - j \in Nat /\ j + (k - j) = k /\ k <= t - 1
      BY <1>1, <1>3
    <2>2. k - j \in S
      BY <1>7, <2>1
    <2> QED
      BY <2>1, <2>2
  <1>9. told[t] = Append(told[j], way[t].tile)
    <2>1. t \in 1..m /\ t - 1 \in j..(t - 1)
      BY <1>1, <1>3
    <2>2. told[t - 1] = told[j]
      BY <1>8, <2>1
    <2> QED
      BY <1>3, <2>1, <2>2 DEF IsTold
  <1> QED
    BY <1>3, <1>4, <1>8, <1>9 DEF TurnsNext

\* On which side of a number another one is.
Side(a, b, x) ==
  x \in {-1, 0, 1} /\ (x = 0 => a = b) /\ (x = 1 => a < b) /\ (x = -1 => b < a)

LEMMA AlongIsInner ==
  ASSUME NEW src \in W!Inner, NEW way, NEW end, NEW c, IsWay(way, src, end, c)
  PROVE  \A k \in 0..c : /\ Along(way, src, k) \in W!Inner
                         /\ Along(way, src, k)[1] \in Int /\ Along(way, src, k)[2] \in Int
  <1>1. c \in Nat /\ way \in Seq(Entry) /\ Len(way) = c
    BY DEF IsWay
  <1>2. \A e \in Entry : e.tile \in W!Inner
    BY DEF Entry
  <1>3. \A k \in 1..c : way[k].tile \in W!Inner
    BY <1>1, <1>2, EntryType
  <1>4. \A k \in 0..c : k = 0 \/ k \in 1..c
    BY <1>1
  <1>5. \A k \in 0..c : Along(way, src, k) \in W!Inner
    BY <1>3, <1>4 DEF Along
  <1> QED
    BY <1>5, InnerTile

\* Who makes for the end of a straight stretch takes its first step.
LEMMA StraightOn ==
  ASSUME NEW src \in W!Inner, NEW way, NEW end, NEW c, IsWay(way, src, end, c),
         NEW j \in 0..(c - 1), NEW t \in (j + 1)..c,
         \A k \in (j + 1)..(t - 1) : ~W!Turns(way, k)
  PROVE  W!Toward(Along(way, src, j), Along(way, src, t)) = Along(way, src, j + 1)
  <1> DEFINE A(k) == Along(way, src, k)
             d == way[j + 1].direction
  <1>1. c \in Nat /\ j \in Nat /\ t \in Nat /\ j + 1 <= t /\ t <= c /\ Len(way) = c
    BY DEF IsWay
  <1>2. \A k \in 1..c : /\ way[k].direction \in W!Directions
                        /\ A(k) = W!To(A(k - 1), way[k].direction)
    BY DEF IsWay
  <1>3. d \in W!Directions
    <2>1. j + 1 \in 1..c
      BY <1>1
    <2> QED
      BY <1>2, <2>1
  <1>4. W!DX(d) \in {-1, 0, 1} /\ W!DZ(d) \in {-1, 0, 1}
    BY <1>3 DEF W!DX, W!DZ, W!Directions
  <1>5. \A k \in 0..c : A(k)[1] \in Int /\ A(k)[2] \in Int
    BY AlongIsInner
  <1> HIDE DEF d, A
  <1> DEFINE On(n) == /\ way[n].direction = d
                      /\ Side(A(j)[1], A(n)[1], W!DX(d))
                      /\ Side(A(j)[2], A(n)[2], W!DZ(d))
             S == {k \in Nat : j + 1 + k <= t => On(j + 1 + k)}
  <1>6. ASSUME NEW n \in 1..c, way[n].direction = d
        PROVE  A(n)[1] = A(n - 1)[1] + W!DX(d) /\ A(n)[2] = A(n - 1)[2] + W!DZ(d)
    BY <1>2, <1>6 DEF W!To
  <1>7. 0 \in S
    <2>1. j + 1 + 0 = j + 1 /\ j + 1 \in 1..c /\ (j + 1) - 1 = j /\ j \in 0..c
      BY <1>1
    <2>2. way[j + 1].direction = d
      BY DEF d
    <2>3. A(j + 1)[1] = A(j)[1] + W!DX(d) /\ A(j + 1)[2] = A(j)[2] + W!DZ(d)
      BY <1>6, <2>1, <2>2
    <2>4. A(j)[1] \in Int /\ A(j)[2] \in Int
      BY <1>5, <2>1
    <2>5. \A a, b, x \in Int : x \in {-1, 0, 1} /\ b = a + x => Side(a, b, x)
      BY DEF Side
    <2>6. /\ A(j + 1)[1] \in Int /\ A(j + 1)[2] \in Int /\ W!DX(d) \in Int /\ W!DZ(d) \in Int
      BY <1>4, <2>3, <2>4
    <2>7. Side(A(j)[1], A(j + 1)[1], W!DX(d)) /\ Side(A(j)[2], A(j + 1)[2], W!DZ(d))
      BY <1>4, <2>3, <2>4, <2>5, <2>6
    <2> QED
      BY <2>1, <2>2, <2>7
  <1>8. ASSUME NEW k \in Nat, k \in S
        PROVE  k + 1 \in S
    <2> SUFFICES ASSUME j + 1 + (k + 1) <= t PROVE On(j + 1 + (k + 1))
      OBVIOUS
    <2> DEFINE n == j + 1 + k
    <2>1. /\ n \in (j + 1)..(t - 1) /\ n \in 1..c /\ n + 1 \in 1..c /\ (n + 1) - 1 = n
          /\ n <= t /\ j + 1 + (k + 1) = n + 1 /\ n # c /\ j \in 0..c /\ n \in 0..c
          /\ n + 1 \in 0..c
      BY <1>1
    <2>2. On(n)
      BY <1>8, <2>1
    <2> HIDE DEF n
    <2>3. way[n + 1].direction = d
      <3>1. ~W!Turns(way, n)
        BY <2>1
      <3> QED
        BY <1>1, <2>1, <2>2, <3>1 DEF W!Turns
    <2>4. A(n + 1)[1] = A(n)[1] + W!DX(d) /\ A(n + 1)[2] = A(n)[2] + W!DZ(d)
      BY <1>6, <2>1, <2>3
    <2>5. \A a, b, e, x \in Int : Side(a, b, x) /\ e = b + x => Side(a, e, x)
      BY DEF Side
    <2>6. /\ A(j)[1] \in Int /\ A(j)[2] \in Int /\ A(n)[1] \in Int /\ A(n)[2] \in Int
          /\ A(n + 1)[1] \in Int /\ A(n + 1)[2] \in Int /\ W!DX(d) \in Int /\ W!DZ(d) \in Int
      BY <1>4, <1>5, <2>1
    <2>7. Side(A(j)[1], A(n + 1)[1], W!DX(d)) /\ Side(A(j)[2], A(n + 1)[2], W!DZ(d))
      BY <2>2, <2>4, <2>5, <2>6
    <2> QED
      BY <2>1, <2>3, <2>7
  <1>9. Nat \subseteq S
    <2> HIDE DEF S
    <2> QED
      BY <1>7, <1>8, AllNumbers
  <1>10. Side(A(j)[1], A(t)[1], W!DX(d)) /\ Side(A(j)[2], A(t)[2], W!DZ(d))
    <2>1. t - (j + 1) \in Nat /\ j + 1 + (t - (j + 1)) = t /\ t <= t
      BY <1>1
    <2>2. t - (j + 1) \in S
      BY <1>9, <2>1
    <2> QED
      BY <2>1, <2>2
  <1>11. \A a, b, x \in Int : Side(a, b, x) => W!Sign(b - a) = x
    BY DEF Side, W!Sign
  <1>12. /\ A(j)[1] \in Int /\ A(j)[2] \in Int /\ A(t)[1] \in Int /\ A(t)[2] \in Int
         /\ W!DX(d) \in Int /\ W!DZ(d) \in Int
    <2>1. j \in 0..c /\ t \in 0..c
      BY <1>1
    <2> QED
      BY <1>4, <1>5, <2>1
  <1>13. W!Sign(A(t)[1] - A(j)[1]) = W!DX(d) /\ W!Sign(A(t)[2] - A(j)[2]) = W!DZ(d)
    BY <1>10, <1>11, <1>12
  <1>14. W!Toward(A(j), A(t)) = W!To(A(j), d)
    BY <1>13 DEF W!Toward, W!To
  <1>15. A(j + 1) = W!To(A(j), d)
    <2>1. j + 1 \in 1..c /\ (j + 1) - 1 = j
      BY <1>1
    <2> QED
      BY <1>2, <2>1 DEF d
  <1> QED
    BY <1>14, <1>15 DEF A

\* One who walks over the points.
Walker == [at : Int \X Int, next : Nat \ {0}, ok : BOOLEAN]

LEMMA WalkType ==
  ASSUME NEW points \in Seq(W!Inner), NEW steps, NEW w \in Walker
  PROVE  W!Walk(w, points, steps) \in Walker
  <1> DEFINE next == IF w.next <= Len(points) /\ points[w.next] = w.at
                     THEN w.next + 1 ELSE w.next
             to == W!Toward(w.at, points[next])
  <1>1. Len(points) \in Nat /\ \A k \in 1..Len(points) : points[k] \in W!Inner
    BY EntryType
  <1>2. w.at \in Int \X Int /\ w.next \in Nat \ {0} /\ w.ok \in BOOLEAN
    BY DEF Walker
  <1>3. next \in Nat \ {0}
    BY <1>2
  <1>4. W!Walk(w, points, steps) =
          IF next > Len(points) THEN [w EXCEPT !.next = next]
          ELSE [at |-> to, next |-> next, ok |-> w.ok /\ << w.at, to >> \in steps]
    BY DEF W!Walk
  <1> HIDE DEF next
  <1>5. CASE next > Len(points)
    <2>1. [w EXCEPT !.next = next] \in Walker
      BY <1>3 DEF Walker
    <2> QED
      BY <1>4, <1>5, <2>1
  <1>6. CASE ~(next > Len(points))
    <2>1. points[next][1] \in Int /\ points[next][2] \in Int
      <3>1. next \in 1..Len(points)
        BY <1>1, <1>3, <1>6
      <3> QED
        BY <1>1, <3>1, InnerTile
    <2>2. \A a \in Int : W!Sign(a) \in Int
      BY DEF W!Sign
    <2>3. to \in Int \X Int
      <3>1. w.at[1] \in Int /\ w.at[2] \in Int
        BY <1>2
      <3>2. /\ W!Sign(points[next][1] - w.at[1]) \in Int
            /\ W!Sign(points[next][2] - w.at[2]) \in Int
        <4>1. points[next][1] - w.at[1] \in Int /\ points[next][2] - w.at[2] \in Int
          BY <2>1, <3>1
        <4> QED
          BY <2>2, <4>1
      <3> QED
        BY <3>1, <3>2 DEF W!Toward
    <2> DEFINE b == w.ok /\ << w.at, to >> \in steps
    <2>4. b \in BOOLEAN
      OBVIOUS
    <2> HIDE DEF to, b
    <2>5. [at |-> to, next |-> next, ok |-> b] \in Walker
      BY <1>3, <2>3, <2>4 DEF Walker
    <2>6. W!Walk(w, points, steps) = [at |-> to, next |-> next, ok |-> b]
      BY <1>4, <1>6 DEF b
    <2> QED
      BY <2>5, <2>6
  <1> QED
    BY <1>5, <1>6

IsWalked(walked, src, points, n, steps) ==
  /\ walked[0] = [at |-> src, next |-> 1, ok |-> TRUE]
  /\ \A k \in 0..n : walked[k] \in Walker
  /\ \A k \in 1..n : walked[k] = W!Walk(walked[k - 1], points, steps)

LEMMA WalkIsWalked ==
  ASSUME NEW src \in W!Inner, NEW points \in Seq(W!Inner), NEW n \in Nat, NEW steps
  PROVE  \E walked : /\ IsWalked(walked, src, points, n, steps)
                     /\ W!WalkOver(src, points, n, steps) = walked[n]
  <1> DEFINE X == Walker
             x0 == [at |-> src, next |-> 1, ok |-> TRUE]
             Grow(g) == [i \in 0..n |-> IF i = 0 THEN x0 ELSE W!Walk(g[i - 1], points, steps)]
             walked == CHOOSE g : g = Grow(g)
             step == [p \in X \X (1..n) |-> W!Walk(p[1], points, steps)]
  <1>1. x0 \in X
    <2>1. src \in Int \X Int
      BY InnerTile DEF W!Inner
    <2> QED
      BY <2>1 DEF Walker
  <1>2. step \in [X \X (1..n) -> X]
    <2> SUFFICES ASSUME NEW w \in X PROVE W!Walk(w, points, steps) \in X
      OBVIOUS
    <2> QED
      BY WalkType
  <1>3. PICK g \in [0..n -> X] : Runs(g, n, x0, step)
    <2> HIDE DEF X, step, x0
    <2> QED
      BY <1>1, <1>2, Recursion
  <1>4. g[0] = x0 /\ \A i \in 1..n : g[i - 1] \in X /\ g[i] = step[<< g[i - 1], i >>]
    <2> HIDE DEF X, step, x0
    <2>1. \A i \in 1..n : i - 1 \in 0..n
      OBVIOUS
    <2>2. \A i \in 1..n : g[i - 1] \in X
      BY <1>3, <2>1
    <2> QED
      BY <1>3, <2>2 DEF Runs
  <1>5. \A i \in 1..n : g[i] = W!Walk(g[i - 1], points, steps)
    <2> SUFFICES ASSUME NEW i \in 1..n PROVE g[i] = W!Walk(g[i - 1], points, steps)
      OBVIOUS
    <2>1. << g[i - 1], i >> \in X \X (1..n)
      BY <1>4
    <2> QED
      BY <1>4, <2>1
  <1>6. W!WalkOver(src, points, n, steps) = walked[n]
    BY DEF W!WalkOver
  <1> HIDE DEF step, x0
  <1>7. g = Grow(g)
    <2>1. \A i \in 0..n : i = 0 \/ (i \in 1..n /\ i # 0)
      OBVIOUS
    <2>2. \A i \in 0..n : g[i] = IF i = 0 THEN x0 ELSE W!Walk(g[i - 1], points, steps)
      BY <1>4, <1>5, <2>1, Zenon
    <2> HIDE DEF X
    <2> QED
      BY <1>3, <2>2
  <1>8. walked = Grow(walked)
    <2> HIDE DEF Grow
    <2> QED
      BY <1>7
  <1> HIDE DEF walked
  <1>9. walked[0] = x0 /\ \A i \in 1..n : walked[i] = W!Walk(walked[i - 1], points, steps)
    <2>1. 0 \in 0..n /\ \A i \in 1..n : i \in 0..n /\ i # 0
      OBVIOUS
    <2> QED
      BY <1>8, <2>1
  <1>10. \A i \in 0..n : walked[i] = g[i]
    <2>1. Alike(walked, g, n)
      BY <1>4, <1>5, <1>9 DEF Alike
    <2> QED
      BY <2>1, SameSteps
  <1>11. IsWalked(walked, src, points, n, steps)
    BY <1>3, <1>9, <1>10 DEF IsWalked, x0
  <1> QED
    BY <1>6, <1>11

\* The point that is next, seen from a tile of the way.
LEMMA PointAhead ==
  ASSUME NEW src \in W!Inner, NEW way, NEW end, NEW c, IsWay(way, src, end, c),
         NEW told, IsTold(told, way),
         NEW j \in 0..(c - 1), Len(told[j]) < MaxWaypoints,
         NEW p, p = told[c][Len(told[j]) + 1]
  PROVE  /\ Len(told[j]) + 1 <= Len(told[c])
         /\ p # Along(way, src, j)
         /\ W!Toward(Along(way, src, j), p) = Along(way, src, j + 1)
         /\ \/ Len(told[j + 1]) = Len(told[j])
            \/ Len(told[j + 1]) = Len(told[j]) + 1 /\ p = Along(way, src, j + 1)
  <1>1. c \in Nat /\ way \in Seq(Entry) /\ Len(way) = c /\ j \in Nat /\ j < c
    BY DEF IsWay
  <1>2. PICK t \in (j + 1)..c :
            /\ \A k \in (j + 1)..(t - 1) : ~W!Turns(way, k)
            /\ \A k \in j..(t - 1) : told[k] = told[j]
            /\ told[t] = Append(told[j], way[t].tile)
    <2>1. j \in 0..(Len(way) - 1)
      BY <1>1
    <2>2. PICK t : TurnsNext(way, told, j, t)
      BY <1>1, <2>1, NextTurn
    <2> QED
      BY <1>1, <2>2 DEF TurnsNext
  <1>3. t \in 1..c /\ t \in 0..c /\ j \in 0..c /\ t # 0 /\ t # j /\ j + 1 <= t /\ c \in t..c
        /\ c \in 0..c
    BY <1>1
  <1>4. \A k \in 0..c : told[k] \in Seq(W!Inner) /\ Len(told[k]) \in Nat
    BY <1>1, ToldTypes
  <1> DEFINE n == Len(told[j])
             x == way[t].tile
  <1>5. Along(way, src, t) = x
    BY <1>3 DEF Along
  <1>6. x \in W!Inner
    BY <1>3, <1>5, AlongIsInner
  <1>7. told[t] = Append(told[j], x) /\ told[j] \in Seq(W!Inner) /\ n \in Nat
    BY <1>2, <1>3, <1>4
  <1> HIDE DEF x, n
  <1>8. Len(told[t]) = n + 1 /\ told[t][n + 1] = x
    <2>1. /\ Len(Append(told[j], x)) = Len(told[j]) + 1
          /\ Append(told[j], x)[Len(told[j]) + 1] = x
      BY <1>6, <1>7, AppendedEntries
    <2> QED
      BY <1>7, <2>1 DEF n
  <1>9. Grows(told[t], told[c])
    BY <1>1, <1>3, ToldGrows
  <1>10. n + 1 <= Len(told[c]) /\ told[c][n + 1] = x
    <2>1. n + 1 \in 1..Len(told[t])
      BY <1>7, <1>8
    <2> QED
      BY <1>8, <1>9, <2>1 DEF Grows
  <1>11. p = x
    BY <1>10 DEF n
  <1>12. p # Along(way, src, j)
    BY <1>3, <1>5, <1>11 DEF IsWay
  <1>13. W!Toward(Along(way, src, j), Along(way, src, t)) = Along(way, src, j + 1)
    BY <1>2, StraightOn
  <1>14. CASE t = j + 1
    BY <1>5, <1>8, <1>10, <1>11, <1>12, <1>13, <1>14 DEF n
  <1>15. CASE t # j + 1
    <2>1. j + 1 \in j..(t - 1)
      BY <1>1, <1>3, <1>15
    <2>2. told[j + 1] = told[j]
      BY <1>2, <2>1
    <2> QED
      BY <1>5, <1>10, <1>11, <1>12, <1>13, <2>2 DEF n
  <1> QED
    BY <1>14, <1>15

\* A walker on his way: at its j-th tile, or at the last point there was room for.
OnTheWay(w, way, src, told, c, j) ==
  /\ w \in Walker /\ w.ok = TRUE
  /\ \/ /\ w.at = Along(way, src, j)
        /\ \/ /\ w.next = Len(told[j]) /\ w.next >= 1
              /\ told[c][w.next] = Along(way, src, j)
           \/ w.next = Len(told[j]) + 1 /\ Len(told[j]) < MaxWaypoints
     \/ /\ Len(told[c]) = MaxWaypoints /\ w.at = told[c][MaxWaypoints]
        /\ w.next = MaxWaypoints + 1

LEMMA WalkGoesOn ==
  ASSUME MapIsTrue, NEW src \in W!Inner, NEW way, NEW end, NEW c, IsWay(way, src, end, c),
         NEW told, IsTold(told, way), NEW j \in 0..(c - 1),
         NEW w, OnTheWay(w, way, src, told, c, j)
  PROVE  OnTheWay(W!Walk(w, told[c], W!Steps), way, src, told, c, j + 1)
  <1> DEFINE points == told[c]
             steps == W!Steps
             v == W!Walk(w, points, steps)
             n == Len(told[j])
             A(k) == Along(way, src, k)
             next == IF w.next <= Len(points) /\ points[w.next] = w.at
                     THEN w.next + 1 ELSE w.next
             to == W!Toward(w.at, points[next])
  <1>1. c \in Nat /\ way \in Seq(Entry) /\ Len(way) = c /\ j \in Nat /\ j < c
    BY DEF IsWay
  <1>2. j \in 0..c /\ c \in 0..c /\ c \in j..c /\ j + 1 \in 0..c /\ j + 1 \in 1..c
        /\ (j + 1) - 1 = j
    BY <1>1
  <1>3. /\ points \in Seq(W!Inner) /\ Len(points) \in Nat /\ Len(points) <= MaxWaypoints
        /\ n \in Nat /\ n <= MaxWaypoints /\ n <= Len(points)
    <2>1. Grows(told[j], points)
      BY <1>1, <1>2, ToldGrows
    <2> QED
      BY <1>1, <1>2, <2>1, ToldTypes DEF Grows
  <1>4. MaxWaypoints \in Nat \ {0}
    BY WalkingAssumption DEF W!WalkingAssumption
  <1>5. w \in Walker /\ v \in Walker
    <2>1. w \in Walker
      BY DEF OnTheWay
    <2> QED
      BY <1>3, <2>1, WalkType
  <1>6. v = IF next > Len(points) THEN [w EXCEPT !.next = next]
            ELSE [at |-> to, next |-> next, ok |-> w.ok /\ << w.at, to >> \in steps]
    BY DEF W!Walk
  <1>7. w.ok = TRUE /\ w.next \in Nat \ {0}
    BY <1>5 DEF OnTheWay, Walker
  \* He stands still.
  <1>8. ASSUME next > Len(points)
        PROVE  v.at = w.at /\ v.next = next /\ v.ok = TRUE
    <2>1. v = [w EXCEPT !.next = next]
      BY <1>6, <1>8
    <2> HIDE DEF next, v
    <2> QED
      BY <1>5, <1>7, <2>1 DEF Walker
  \* He takes a step of the way.
  <1>9. ASSUME w.at = A(j), next = n + 1, n < MaxWaypoints,
               W!Toward(A(j), points[n + 1]) = A(j + 1), n + 1 <= Len(points)
        PROVE  v.at = A(j + 1) /\ v.next = n + 1 /\ v.ok = TRUE
    <2> DEFINE d == way[j + 1].direction
    <2>1. /\ d \in W!Directions /\ A(j) \in W!Inner /\ W!CanStep(A(j), d)
          /\ A(j + 1) = W!To(A(j), d)
      BY <1>2 DEF IsWay
    <2>2. << A(j), A(j + 1) >> \in steps
      <3> HIDE DEF d, A
      <3>1. W!Walks(A(j), d)
        BY <2>1, StepsAreWalks
      <3> QED
        BY <2>1, <3>1, StepTo
    <2>3. to = A(j + 1)
      BY <1>9
    <2>4. ~(next > Len(points))
      BY <1>3, <1>9
    <2>5. v = [at |-> to, next |-> next, ok |-> w.ok /\ << w.at, to >> \in steps]
      BY <1>6, <2>4
    <2> HIDE DEF v, to, next, A, steps
    <2>6. v.at = to /\ v.next = next /\ v.ok = (w.ok /\ << w.at, to >> \in steps)
      BY <2>5
    <2>7. (w.ok /\ << w.at, to >> \in steps) = TRUE
      BY <1>7, <1>9, <2>2, <2>3
    <2> QED
      BY <1>9, <2>3, <2>6, <2>7
  <1>10. ASSUME w.at = A(j), n < MaxWaypoints, next = n + 1 \/ (w.next = n + 1)
         PROVE  OnTheWay(v, way, src, told, c, j + 1)
    <2> DEFINE p == points[n + 1]
    <2>1. /\ n + 1 <= Len(points) /\ p # A(j) /\ W!Toward(A(j), p) = A(j + 1)
          /\ \/ Len(told[j + 1]) = n
             \/ Len(told[j + 1]) = n + 1 /\ p = A(j + 1)
      BY <1>10, PointAhead
    <2>2. next = n + 1
      BY <1>10, <2>1
    <2>3. v.at = A(j + 1) /\ v.next = n + 1 /\ v.ok = TRUE
      BY <1>9, <1>10, <2>1, <2>2
    <2>4. n + 1 >= 1
      BY <1>3
    <2> HIDE DEF v, A, n, next
    <2> QED
      BY <1>5, <1>10, <2>1, <2>3, <2>4 DEF OnTheWay, A
  <1>11. CASE /\ w.at = A(j) /\ w.next = n /\ w.next >= 1 /\ points[w.next] = A(j)
    <2>1. next = n + 1
      BY <1>3, <1>11
    <2>2. CASE n < MaxWaypoints
      BY <1>10, <1>11, <2>1, <2>2
    <2>3. CASE ~(n < MaxWaypoints)
      <3>1. n = MaxWaypoints /\ Len(points) = MaxWaypoints
        BY <1>3, <1>4, <2>3
      <3>2. next > Len(points)
        BY <1>3, <2>1, <3>1
      <3>3. v.at = points[MaxWaypoints] /\ v.next = MaxWaypoints + 1 /\ v.ok = TRUE
        BY <1>8, <1>11, <2>1, <3>1, <3>2
      <3> HIDE DEF v, points, n, next, A
      <3>4. OnTheWay(v, way, src, told, c, j + 1)
        BY <1>5, <3>1, <3>3 DEF OnTheWay, points
      <3> QED
        BY <3>4 DEF v, points
    <2> QED
      BY <2>2, <2>3
  <1>12. CASE w.at = A(j) /\ w.next = n + 1 /\ n < MaxWaypoints
    BY <1>10, <1>12
  <1>13. CASE /\ Len(points) = MaxWaypoints /\ w.at = points[MaxWaypoints]
              /\ w.next = MaxWaypoints + 1
    <2>1. next = MaxWaypoints + 1 /\ next > Len(points)
      BY <1>3, <1>4, <1>13
    <2>2. v.at = points[MaxWaypoints] /\ v.next = MaxWaypoints + 1 /\ v.ok = TRUE
      BY <1>8, <1>13, <2>1
    <2> HIDE DEF v, points, n, next, A
    <2>4. OnTheWay(v, way, src, told, c, j + 1)
      BY <1>5, <1>13, <2>2 DEF OnTheWay, points
    <2> QED
      BY <2>4 DEF v, points
  <1> QED
    BY <1>11, <1>12, <1>13 DEF OnTheWay

\* A walker at the end, or at the last point where no more had room.
Arrived(w, points, end) ==
  w.ok /\ (w.at = end \/ (Len(points) = MaxWaypoints /\ w.at = W!Last(points)))

LEMMA WalkerArrives ==
  ASSUME MapIsTrue, NEW src \in W!Inner, NEW way, NEW end, NEW c, IsWay(way, src, end, c),
         c # 0, NEW told, IsTold(told, way)
  PROVE  Arrived(W!WalkOver(src, told[c], c, W!Steps), told[c], end)
  <1> DEFINE w == W!WalkOver(src, told[c], c, W!Steps)
  <1>1. c \in Nat /\ way \in Seq(Entry) /\ Len(way) = c /\ c \in 0..c
    BY DEF IsWay
  <1>2. told[c] \in Seq(W!Inner)
    BY <1>1, ToldTypes
  <1>3. PICK walked : /\ IsWalked(walked, src, told[c], c, W!Steps)
                      /\ W!WalkOver(src, told[c], c, W!Steps) = walked[c]
    BY <1>1, <1>2, WalkIsWalked
  <1> DEFINE S == {j \in Nat : j <= c => OnTheWay(walked[j], way, src, told, c, j)}
  <1>4. 0 \in S
    <2>1. walked[0] = [at |-> src, next |-> 1, ok |-> TRUE]
      BY <1>3 DEF IsWalked
    <2>2. walked[0] \in Walker
      <3>1. 0 \in 0..c
        BY <1>1
      <3> QED
        BY <1>3, <3>1 DEF IsWalked
    <2>3. walked[0].at = src /\ walked[0].next = 1 /\ walked[0].ok = TRUE
      BY <2>1
    <2>4. told[0] = <<>> /\ Along(way, src, 0) = src
      BY DEF IsTold, Along
    <2>5. Len(<<>>) = 0 /\ 1 = 0 + 1 /\ 0 < MaxWaypoints
      BY WalkingAssumption DEF W!WalkingAssumption
    <2>6. Len(told[0]) = 0
      BY <2>4, <2>5
    <2>7. OnTheWay(walked[0], way, src, told, c, 0)
      BY <2>2, <2>3, <2>4, <2>5, <2>6 DEF OnTheWay
    <2> QED
      BY <2>7
  <1>5. ASSUME NEW j \in Nat, j \in S
        PROVE  j + 1 \in S
    <2> SUFFICES ASSUME j + 1 <= c PROVE OnTheWay(walked[j + 1], way, src, told, c, j + 1)
      OBVIOUS
    <2>1. j + 1 \in 1..c /\ (j + 1) - 1 = j /\ j \in 0..(c - 1) /\ j <= c
      BY <1>1
    <2>2. OnTheWay(walked[j], way, src, told, c, j)
      BY <1>5, <2>1
    <2>3. walked[j + 1] = W!Walk(walked[j], told[c], W!Steps)
      BY <1>3, <2>1 DEF IsWalked
    <2>4. OnTheWay(W!Walk(walked[j], told[c], W!Steps), way, src, told, c, j + 1)
      BY <2>1, <2>2, WalkGoesOn
    <2> QED
      BY <2>3, <2>4
  <1>6. Nat \subseteq S
    <2> HIDE DEF S
    <2> QED
      BY <1>4, <1>5, AllNumbers
  <1>7. OnTheWay(w, way, src, told, c, c)
    <2>1. c \in S /\ c <= c
      BY <1>1, <1>6
    <2> QED
      BY <1>3, <2>1
  <1>8. Along(way, src, c) = end
    BY DEF IsWay
  <1> HIDE DEF w
  <1>9. w.ok /\ (w.at = end \/ (Len(told[c]) = MaxWaypoints /\ w.at = W!Last(told[c])))
    BY <1>7, <1>8 DEF OnTheWay, W!Last
  <1> QED
    BY <1>9 DEF Arrived, w

\* What is told of a way leads to its end, or as far as a packet goes.
LEMMA WaypointsLead ==
  ASSUME MapIsTrue, NEW src \in W!Inner, NEW q, Sound(q, src), NEW i \in 1..Len(q),
         NEW points, points = W!Waypoints(q, q[i].tile)
  PROVE  Arrived(W!WalkOver(src, points, q[i].cost, W!Steps), points, q[i].tile)
  <1> DEFINE w == W!WalkOver(src, points, q[i].cost, W!Steps)
             end == q[i].tile
             c == q[i].cost
             way == W!WayTo(q, end)
  <1>1. IsWay(way, src, end, c)
    BY WayIsThere
  <1> HIDE DEF end, c, way, w
  <1>2. way \in Seq(Entry) /\ Len(way) = c /\ c \in Nat
    BY <1>1 DEF IsWay
  <1>3. CASE c = 0
    <2>1. way = <<>>
      BY <1>2, <1>3
    <2>2. points = << end >>
      BY <2>1 DEF W!Waypoints, way, end
    <2>3. end = src
      BY <1>1, <1>3 DEF IsWay, Along
    <2>4. points \in Seq(W!Inner)
      BY <2>2, <2>3
    <2>5. PICK walked : /\ IsWalked(walked, src, points, 0, W!Steps)
                        /\ W!WalkOver(src, points, 0, W!Steps) = walked[0]
      BY <2>4, WalkIsWalked
    <2>6. w = [at |-> src, next |-> 1, ok |-> TRUE]
      BY <1>3, <2>5 DEF IsWalked, c, w
    <2>7. w.at = src /\ w.ok
      BY <2>6
    <2> QED
      BY <2>3, <2>7 DEF end, w, Arrived
  <1>4. CASE c # 0
    <2>1. way # <<>>
      BY <1>2, <1>4
    <2>2. PICK told : IsTold(told, way) /\ W!Waypoints(q, end) = told[Len(way)]
      BY <1>2, <2>1, WaypointsAreTold DEF way
    <2>3. points = told[c]
      BY <1>2, <2>2 DEF end
    <2>4. Arrived(W!WalkOver(src, told[c], c, W!Steps), told[c], end)
      BY <1>1, <1>4, <2>2, WalkerArrives
    <2> QED
      BY <2>3, <2>4 DEF c, end
  <1> QED
    BY <1>3, <1>4

LEMMA RightRoute ==
  ASSUME MapIsTrue, NEW src \in W!Inner, NEW aims, NEW near
  PROVE  W!RouteIsRight(src, W!Search(src), W!Within(src, W!Steps), W!Steps, aims, near)
  <1> DEFINE q == W!Search(src)
             layers == W!Within(src, W!Steps)
             steps == W!Steps
             reached == layers[W!Cardinality(W!Inner)]
             close == UNION {layers[n] : n \in {n \in DOMAIN layers : n < MaxDetour}}
             goals == IF aims \cap reached # {} THEN aims \cap reached ELSE near \cap close
             end == W!End(q, aims, near)
             points == W!Waypoints(q, end)
             w == W!WalkOver(src, points, W!Distance(layers, goals), steps)
  <1>1. Complete(q, src) /\ Sound(q, src) /\ Len(q) <= Tileful
    BY SearchIsComplete DEF MapIsTrue, Complete
  <1> HIDE DEF q
  <1>2. DOMAIN layers = 0..Tileful /\ \A k \in 0..Tileful : layers[k] = Near(q, k)
    BY <1>1, LayersAreFound
  <1> HIDE DEF layers
  <1>3. reached = Tried(q) /\ close = Close(q)
    <2>1. Tileful \in Nat /\ Tileful \in 0..Tileful
      BY InnerFinite
    <2>2. reached = Near(q, Tileful)
      BY <1>2, <2>1, SameNumber
    <2>3. \A j \in 1..Len(q) : q[j].cost <= Tileful /\ q[j].cost \in Nat
      <3> SUFFICES ASSUME NEW j \in 1..Len(q)
                   PROVE  q[j].cost <= Tileful /\ q[j].cost \in Nat
        OBVIOUS
      <3>1. q[j].cost < j
        BY <1>1 DEF Sound
      <3>2. Len(q) \in Nat /\ q[j].cost \in Nat
        BY <1>1, QueueEntries
      <3> QED
        BY <1>1, <2>1, <3>1, <3>2
    <2>4. reached = Tried(q)
      BY <2>2, <2>3 DEF Near, Tried
    <2>5. ASSUME NEW t \in close PROVE t \in Close(q)
      <3>1. PICK n \in 0..Tileful : n < MaxDetour /\ t \in Near(q, n)
        BY <1>2
      <3>2. PICK j \in 1..Len(q) : q[j].cost <= n /\ t = q[j].tile
        BY <3>1 DEF Near
      <3>3. q[j].cost < MaxDetour
        BY <2>1, <2>3, <3>1, <3>2, WalkingAssumption DEF W!WalkingAssumption
      <3> QED
        BY <3>2, <3>3 DEF Close
    <2>6. ASSUME NEW t \in Close(q) PROVE t \in close
      <3>1. PICK j \in 1..Len(q) : q[j].cost < MaxDetour /\ t = q[j].tile
        BY DEF Close
      <3> DEFINE n == q[j].cost
      <3>2. n \in 0..Tileful /\ n < MaxDetour /\ n <= n
        BY <2>1, <2>3, <3>1
      <3>3. t \in Near(q, n)
        BY <3>1, <3>2 DEF Near
      <3> HIDE DEF n
      <3>4. t \in layers[n]
        BY <1>2, <3>2, <3>3
      <3> QED
        BY <1>2, <3>2, <3>4
    <2> QED
      BY <2>4, <2>5, <2>6
  <1> HIDE DEF reached, close
  <1>4. goals = Goals(q, aims, near)
    BY <1>3 DEF Goals
  <1> HIDE DEF goals, end, points, w, steps
  <1>5. goals = {} => end = W!NoWay
    BY <1>1, <1>4, EndIsClosest DEF end
  <1>6. ASSUME goals # {}
        PROVE  /\ end \in goals /\ w.ok
               /\ w.at = end \/ (Len(points) = MaxWaypoints /\ w.at = W!Last(points))
    <2>1. PICK i \in 1..Len(q) : Closest(q, i, goals) /\ end = q[i].tile
      BY <1>1, <1>4, <1>6, EndIsClosest DEF end
    <2>2. W!Distance(layers, goals) = q[i].cost
      BY <1>1, <1>2, <2>1, DistanceIsCost
    <2>3. end \in goals
      BY <2>1 DEF Closest
    <2>4. points = W!Waypoints(q, q[i].tile) /\ w = W!WalkOver(src, points, q[i].cost, W!Steps)
      BY <2>1, <2>2 DEF points, w, steps
    <2>5. Arrived(w, points, q[i].tile)
      BY <1>1, <2>4, WaypointsLead
    <2> QED
      BY <2>1, <2>3, <2>5 DEF Arrived
  <1>7. W!RouteIsRight(src, q, layers, steps, aims, near) =
          IF goals = {} THEN end = W!NoWay
          ELSE /\ end \in goals /\ w.ok
               /\ w.at = end \/ (Len(points) = MaxWaypoints /\ w.at = W!Last(points))
    BY DEF W!RouteIsRight, goals, reached, close, end, points, w
  <1> QED
    BY <1>5, <1>6, <1>7 DEF q, layers, steps

LEMMA RoutesAreRight ==
  ASSUME FlagsMatch, EdgeInv
  PROVE  W!RoutesAreShortest
  <1> SUFFICES ASSUME off = {}, NEW src \in W!Inner, NEW aims, NEW near
               PROVE  W!RouteIsRight(src, W!Search(src), W!Within(src, W!Steps), W!Steps,
                                     aims, near)
    BY DEF W!RoutesAreShortest
  <1> QED
    BY RightRoute DEF MapIsTrue

\* Whatever walls, objects and posts come and go on the map, and in whatever
\* order: unless a flag is off, a click is answered with a way that a walker
\* can take over the things themselves, to the nearest tile from which the
\* target is reached, and none is shorter; one with too many turning points
\* for a packet is told as far as the last of them (client_try_move).
THEOREM RoutesStayShortest == W!Spec => [](W!RoutesAreShortest /\ RoutesAreShortest)
  <1>1. W!Init => EdgeInv
    BY DEF W!Init, W!Reset, EdgeInv, W!Floor, W!AllFlags
  <1>2. FlagsMatch /\ EdgeInv /\ [W!Next]_(W!vars) => EdgeInv'
    <2> SUFFICES ASSUME FlagsMatch, EdgeInv, [W!Next]_(W!vars) PROVE EdgeInv'
      OBVIOUS
    <2>1. CASE UNCHANGED W!vars
      BY <2>1 DEF W!vars, EdgeInv
    <2>2. CASE W!Next
      BY <2>2, EdgeKeeps DEF W!Next
    <2> QED
      BY <2>1, <2>2
  <1>3. FlagsMatch /\ EdgeInv => W!RoutesAreShortest /\ RoutesAreShortest
    BY RoutesAreRight DEF RoutesAreShortest
  <1> QED
    BY FlagsAlwaysMatch, <1>1, <1>2, <1>3, PTL DEF W!Spec

===============================================================================
