------------------------------ MODULE IconCache ------------------------------
(* What the icons' cache promises, whatever its lists look like: an icon that *)
(* shows another count than the one asked for is never given out, and of the  *)
(* icons made the ones used last are kept, as many as there is room for.  An  *)
(* icon that is out of date takes up its room until its turn comes to go.     *)
EXTENDS Integers, Sequences, SequencesExt

CONSTANTS
    Keys,      \* ids of things
    Counts,    \* counts an icon may show
    Counted,   \* the things whose icons show a count
    Linked,    \* the thing that a thing's icon is drawn with, of those that
               \* have one; it is shown of a count of 10
    Capacity

VARIABLE used  \* the icons kept, the one used longest ago first

Ten == 10
AnyCount == -1
Current(list, k) == SelectInSeq(list, LAMBDA e : e.key = k /\ e.current)

ToEnd(list, n, e) == Append(RemoveAt(list, n), e)

Made(list, k, c) ==
    LET room == IF Len(list) = Capacity THEN Tail(list) ELSE list
    IN  Append(room, [key |-> k, count |-> IF k \in Counted THEN c ELSE AnyCount,
                      current |-> TRUE])

Good(list, k, c) ==
    LET n == Current(list, k) IN n # 0 /\ list[n].count \in {c, AnyCount}

\* An icon out of date has been used once more, to find that it is.
Looked(list, k, c) ==
    LET n == Current(list, k)
    IN  IF n = 0 THEN list
        ELSE ToEnd(list, n, [list[n] EXCEPT !.current = Good(list, k, c)])

Alone(list, k, c) ==
    IF Good(list, k, c) THEN Looked(list, k, c) ELSE Made(Looked(list, k, c), k, c)

Asked(k, c) ==
    IF Good(used, k, c) \/ k \notin DOMAIN Linked THEN Alone(used, k, c)
    ELSE Made(Alone(Looked(used, k, c), Linked[k], Ten), k, c)

Init == used = <<>>

Next ==
    \/ used' = <<>>
    \/ \E k \in Keys, c \in Counts : used' = Asked(k, c)

Spec == Init /\ [][Next]_used
=============================================================================
