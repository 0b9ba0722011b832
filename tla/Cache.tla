-------------------------------- MODULE Cache --------------------------------
(* The cache of icons: lrucache.c over a table of rings (hashtable.c,         *)
(* linkable.c) and one ring in the order of use (doublylinklist.c), both of   *)
(* them threaded through the icons themselves; and objtype_get_icon, which    *)
(* takes an icon of another count out of the table only.                      *)
(*                                                                            *)
(* An icon that fell out of the cache is not freed; here its node may be the  *)
(* next icon's, as nothing points to it.  Every model is there: where icons   *)
(* have outlines, a thing whose model is missing gets no icon, though one of  *)
(* another count has left the table (objtype.c:129-139).                      *)
EXTENDS Integers, Sequences, FiniteSets, FiniteSetsExt

CONSTANTS
    Keys,      \* ids of things; their icons are in bucket key % Buckets
    Counts,    \* counts that are asked for
    Counted,   \* things that look different in numbers (countobj)
    Linked,    \* of a certificate the thing it is drawn with (certlink); empty
               \* when icons have outlines (item_outlines): it is not kept then
    Buckets,   \* 1024 in the code
    Capacity,  \* 200 icons in the code
    Nodes,     \* icons in memory
    Null

Bucket(k) == <<"bucket", k % Buckets>>
Heads == {Bucket(k) : k \in Keys}
Begin == <<"history", 0>>

CacheAssumption ==
    /\ Keys \subseteq Nat /\ Counts \subseteq Nat /\ Keys # {}
    /\ Buckets \in Nat \ {0} /\ Capacity \in Nat \ {0}
    /\ DOMAIN Linked \subseteq Keys
    /\ \A k \in DOMAIN Linked : Linked[k] \in Keys \ DOMAIN Linked
    /\ IsFiniteSet(Nodes) /\ Cardinality(Nodes) > Capacity
    /\ Nodes \cap (Heads \cup {Begin}) = {} /\ Null \notin Nodes \cup Heads \cup {Begin}

VARIABLE
    cache  \* table and history: the next and prev (next2 and prev2) of the
           \* nodes and of the rings' heads; key and count of the nodes, and
           \* available

Ring(points) == [next : [points -> points \cup {Null}],
                 prev : [points -> points \cup {Null}]]

Ten == 10          \* the count of an icon that is drawn on a certificate
AnyCount == -1     \* crop_h of an icon that is the same for all counts

TypeOK ==
    cache \in [table : Ring(Heads \cup Nodes), history : Ring({Begin} \cup Nodes),
              key : [Nodes -> Keys], count : [Nodes -> Counts \cup {Ten, AnyCount}],
              available : 0..Capacity]

\* Rings with nothing on them.
Empty(heads) ==
    LET self == [p \in heads \cup Nodes |-> IF p \in heads THEN p ELSE Null]
    IN  [next |-> self, prev |-> self]

\* lrucache_new, lrucache_clear.
New == [table |-> Empty(Heads), history |-> Empty({Begin}),
        key |-> [n \in Nodes |-> Min(Keys)], count |-> [n \in Nodes |-> Ten],
        available |-> Capacity]

Init == cache = New

-----------------------------------------------------------------------------
\* linkable_unlink, doublylinkable_uncache.
Unlink(ring, n) ==
    IF ring.prev[n] = Null THEN ring
    ELSE [next |-> [ring.next EXCEPT ![ring.prev[n]] = ring.next[n], ![n] = Null],
          prev |-> [ring.prev EXCEPT ![ring.next[n]] = ring.prev[n], ![n] = Null]]

\* doublylinklist_push, hashtable_put: to the end of the ring.
Push(ring, head, n) ==
    LET r    == Unlink(ring, n)
        last == r.prev[head]
    IN  [next |-> [r.next EXCEPT ![last] = n, ![n] = head],
         prev |-> [r.prev EXCEPT ![n] = last, ![head] = n]]

\* The nodes of a ring, from its head on until it comes round.
Walk(ring, head) ==
    LET at[n \in 0..Cardinality(Nodes)] ==
            IF n = 0 THEN head ELSE ring.next[at[n - 1]]
        length == CHOOSE n \in 0..Cardinality(Nodes) :
                      /\ ring.next[at[n]] = head
                      /\ \A m \in 0..(n - 1) : ring.next[at[m]] # head
    IN  [i \in 1..length |-> at[i]]

\* hashtable_get.
Lookup(s, k) ==
    LET ring  == Walk(s.table, Bucket(k))
        match == {i \in DOMAIN ring : s.key[ring[i]] = k}
    IN  IF match = {} THEN Null ELSE ring[Min(match)]

\* lrucache_put: when there is no room, the icon used longest ago goes from
\* the table and from the history.
WithRoom(s) ==
    LET oldest == s.history.next[Begin]
    IN  IF s.available > 0 THEN [s EXCEPT !.available = @ - 1]
        ELSE [s EXCEPT !.table = Unlink(s.table, oldest),
                       !.history = Unlink(s.history, oldest)]

lrucache_put(s, k, c) ==
    LET r == WithRoom(s)
        n == CHOOSE n \in Nodes : s.table.prev[n] = Null /\ s.history.prev[n] = Null
    IN  [r EXCEPT !.table = Push(r.table, Bucket(k), n),
                  !.history = Push(r.history, Begin, n),
                  !.key[n] = k, !.count[n] = c]

\* Seeded fault: an icon that is got stays where it is in the history.
NotMoved(s, k) == s

\* lrucache_get: the icon goes to the end of the history.
lrucache_get(s, k) == [s EXCEPT !.history = Push(s.history, Begin, Lookup(s, k))]

Shown(k, c) == IF k \in Counted THEN c ELSE AnyCount

Hit(s, k, c) ==
    LET icon == Lookup(s, k)
    IN  icon # Null /\ s.count[icon] \in {c, AnyCount}

\* objtype_get_icon: an icon of another count leaves the table.
Looked(s, k, c) ==
    LET icon == Lookup(s, k)
        got  == lrucache_get(s, k)
    IN  IF icon = Null THEN s
        ELSE IF Hit(s, k, c) THEN got
        ELSE [got EXCEPT !.table = Unlink(got.table, icon)]

\* The icon of a thing that is not a certificate.
Plain(s, k, c) ==
    IF Hit(s, k, c) THEN Looked(s, k, c)
    ELSE lrucache_put(Looked(s, k, c), k, Shown(k, c))

\* A certificate is made once what is drawn on it has been asked for.
objtype_get_icon(k, c) ==
    cache' = IF Hit(cache, k, c) \/ k \notin DOMAIN Linked THEN Plain(cache, k, c)
             ELSE lrucache_put(Plain(Looked(cache, k, c), Linked[k], Ten),
                               k, Shown(k, c))

\* lrucache_clear, of a rebuilt scene.
lrucache_clear ==
    cache' = [New EXCEPT !.key = cache.key, !.count = cache.count]

Next == lrucache_clear \/ \E k \in Keys, c \in Counts : objtype_get_icon(k, c)

Spec == Init /\ [][Next]_cache

-----------------------------------------------------------------------------
\* Every step of the rings is one of the cache as it should be (IconCache):
\* the icon that is given out is of the count asked for, and the one that goes
\* is the one used longest ago, in whatever order icons are asked for, go out
\* of date and are forgotten.
Used ==
    LET ring == Walk(cache.history, Begin)
    IN  [i \in DOMAIN ring |->
            [key |-> cache.key[ring[i]], count |-> cache.count[ring[i]],
             current |-> cache.table.prev[ring[i]] # Null]]

Icons == INSTANCE IconCache WITH used <- Used

ImplementsIconCache == Icons!Spec
=============================================================================
