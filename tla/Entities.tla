------------------------------- MODULE Entities -------------------------------
(* The players, or the npcs, the client knows: PLAYER_INFO and NPC_INFO       *)
(* (client.c, getPlayer and getNpcPos), which name entities only by their     *)
(* place in a list that server and client keep in step, and REBUILD_NORMAL,   *)
(* which moves the origin all tiles are relative to.                          *)
(*                                                                            *)
(* Tiles lie on a line.  A look is "new" (what the entity wears now), "old"   *)
(* or "none".  A slot holds a live entity, nothing, or a pointer to memory    *)
(* that is freed; what a program does with the last is undefined, and the     *)
(* model goes no further.                                                     *)
EXTENDS Integers, Sequences, FiniteSets, SequencesExt

CONSTANTS
    Kinds,    \* the kinds of list explored: "player", "npc"
    Ids,      \* the indices of c->players (c->npcs) that the server uses
    Places,   \* absolute tiles
    Bases     \* values of sceneBaseTile

EntitiesAssumption ==
    Ids \subseteq Nat /\ Places \subseteq Int /\ Bases \subseteq Int

VARIABLES
    kind,       \* which of the two lists this is
    ids,        \* player_ids[0 .. player_count - 1]
    slot,       \* what c->players[id] points to
    seen,       \* the ids whose entity has cycle = loop_cycle
    tile,       \* pathTile[0] of each entity, relative to base
    look,       \* the appearance (the type, of an npc) shown
    buffer,     \* player_appearance_buffer
    localTile,  \* pathTile[0] of the local player
    base,       \* sceneBaseTile = mapLastBase
    \* what the server knows
    serverIds,  \* the list as the server has it
    where,      \* the absolute tile of each entity, as it last told it
    localAt,    \* the absolute tile of the local player
    sent,       \* the look it last sent of each
    placed      \* it has put the local player somewhere since the login

client == <<ids, slot, seen, tile, look, buffer, localTile, base>>
server == <<serverIds, where, localAt, sent, placed>>
vars == <<kind, client, server>>

Looks == {"none", "old", "new"}
Slots == {"none", "live", "freed"}

TypeOK ==
    /\ kind \in Kinds
    /\ ids \in Seq(Ids) /\ serverIds \in Seq(Ids)
    /\ slot \in [Ids -> Slots]
    /\ seen \subseteq Ids
    /\ tile \in [Ids -> Int] /\ where \in [Ids -> Places]
    /\ look \in [Ids -> Looks] /\ buffer \in [Ids -> Looks]
    /\ sent \in [Ids -> Looks]
    /\ localTile \in Int /\ localAt \in Places /\ base \in Bases
    /\ placed \in BOOLEAN

Nothing == [i \in Ids |-> "none"]

Init ==
    /\ kind \in Kinds
    /\ ids = <<>> /\ serverIds = <<>> /\ seen = {}
    /\ slot = Nothing /\ look = Nothing /\ buffer = Nothing /\ sent = Nothing
    /\ tile = [i \in Ids |-> 0]
    /\ base \in Bases /\ localAt \in Places /\ localTile = 0 /\ placed = FALSE
    /\ where = [i \in Ids |-> localAt]

-----------------------------------------------------------------------------
(* One packet.  `ops` says of each entry of the server's list whether it      *)
(* stays, walks (getPlayerOldVis) or is gone; `adds` are the new entries      *)
(* (getPlayerNewVis); `told` are the entities with an appearance block        *)
(* (getPlayerExtended2).                                                      *)

\* Positions of a list in their order; there is one.
InOrder(positions) ==
    {order \in [1..Cardinality(positions) -> positions] :
        \A a, b \in DOMAIN order : a < b => order[a] < order[b]}

Positions(ops, op) == {k \in 1..Len(ops) : ops[k] = op}
Staying(ops) == (1..Len(ops)) \ Positions(ops, "gone")

\* The entries of a list the packet keeps, each put at the next free place.
Kept(list, order) == [k \in DOMAIN order |-> list[order[k]]]

\* Those it takes off the list: the ones past its count first, then the ones
\* it says are gone.
Removed(ops) ==
    SubSeq(ids, Len(ops) + 1, Len(ids))
    \o SelectSeq(SubSeq(ids, 1, Len(ops)),
                 LAMBDA i : ops[CHOOSE k \in 1..Len(ops) : ids[k] = i] = "gone")

\* getPlayer ends by dropping the removed whose cycle is not this one.  It
\* means to free the player it drops, and frees players[i] where i is its
\* position among the removed; getNpcPos frees the npc itself.
FreedInstead(i, dropped) == kind = "player" /\ i + 1 \in dropped

AfterRemoval(slots, removed, stamped) ==
    LET dropped == {k \in DOMAIN removed : removed[k] \notin stamped}
    IN  [i \in Ids |->
            IF \E k \in dropped : removed[k] = i THEN "none"
            ELSE IF FreedInstead(i, dropped) /\ slots[i] # "none" THEN "freed"
            ELSE slots[i]]

\* Seeded fault: the look kept in the buffer is not used.
LooksForgotten(adds) ==
    [i \in Ids |-> IF i \in ToSet(adds) /\ slot[i] = "none"
                   THEN IF kind = "player" THEN "none" ELSE "new"
                   ELSE IF i \in ToSet(adds) /\ kind = "npc" THEN "new" ELSE look[i]]

\* getPlayerNewVis: a slot that is empty gets a new entity, with the look kept
\* in the buffer if there is one; a slot still in use is taken as it is.
LooksAfterAdds(adds) ==
    [i \in Ids |->
        IF i \in ToSet(adds) /\ slot[i] = "none"
        THEN IF kind = "player" THEN buffer[i] ELSE "new"
        ELSE IF i \in ToSet(adds) /\ kind = "npc" THEN "new" ELSE look[i]]

\* Seeded fault: from where the local player was before the packet.
OffsetFromBefore(i) == localTile + (where'[i] - localAt')

\* pathTile[0] of an entity that is added: an offset from the local player,
\* who has already moved.
Offset(i) == localTile' + (where'[i] - localAt')

\* Nothing on the list is freed memory.
Defined == \A i \in ToSet(ids) : slot[i] # "freed"

Info(ops, order, adds, told) ==
    LET removed == Removed(ops)
        stamped == seen \cup ToSet(Kept(ids, order)) \cup ToSet(adds)
        walked  == {ids[k] : k \in Positions(ops, "walk")}
    IN  /\ ids' = Kept(ids, order) \o adds
        /\ seen' = stamped
        /\ slot' = AfterRemoval(
                       [i \in Ids |-> IF i \in ToSet(adds) /\ slot[i] = "none"
                                      THEN "live" ELSE slot[i]],
                       removed, stamped)
        /\ tile' = [i \in Ids |->
                       IF i \in ToSet(adds) THEN Offset(i)
                       ELSE IF i \in walked THEN tile[i] + (where'[i] - where[i])
                       ELSE tile[i]]
        /\ look' = [i \in Ids |-> IF i \in told THEN "new"
                                  ELSE LooksAfterAdds(adds)[i]]
        /\ buffer' = [i \in Ids |-> IF i \in told /\ kind = "player"
                                    THEN "new" ELSE buffer[i]]
        /\ UNCHANGED <<kind, base>>

\* The server's side of it: it keeps its own list, moves what it says walks by
\* one tile, and tells the look of whoever is on the list and has a look it
\* has not sent.  One entity moves in a packet.
Tells(ops, order, adds, told) ==
    LET stays == {serverIds[k] : k \in Staying(ops)}
        walks == {serverIds[k] : k \in Positions(ops, "walk")}
    IN  /\ \A a \in 1..Len(adds) : adds[a] \notin stays
        /\ where' \in {w \in [Ids -> Places] :
               /\ \A i \in walks : w[i] - where[i] \in {-1, 1}
               /\ \A i \in Ids \ (walks \cup ToSet(adds)) : w[i] = where[i]}
        /\ serverIds' = Kept(serverIds, order) \o adds
        /\ told \subseteq ToSet(serverIds')
        /\ \A i \in ToSet(serverIds') \ told : sent[i] = "new"
        /\ sent' = [i \in Ids |-> IF i \in told THEN "new" ELSE sent[i]]

\* getPlayerLocal: the local player stands or walks by an offset, or is put
\* at a tile relative to the base, as it must be first after a login.
LocalMoves ==
    /\ localAt' \in Places /\ placed' = TRUE
    /\ \/ /\ placed /\ localAt' - localAt \in {-1, 0, 1}
          /\ localTile' = localTile + (localAt' - localAt)
       \/ localTile' = localAt' - base

Ops == [1..Len(serverIds) -> {"stay", "walk", "gone"}]
Adds == {s \in SeqOf(Ids, Cardinality(Ids)) : IsInjective(s)}

\* PLAYER_INFO as getPlayer handles it: the local player, the list, the new
\* entries, the blocks of the update, the removals.
PlayerInfo ==
    /\ kind = "player" /\ Defined
    /\ LocalMoves
    /\ \E ops \in Ops, adds \in Adds, told \in SUBSET Ids :
          \E order \in InOrder(Staying(ops)) :
             Tells(ops, order, adds, told) /\ Info(ops, order, adds, told)

\* NPC_INFO as getNpcPos handles it.  The local player is where the last
\* PLAYER_INFO left it; one has come before.  An npc's type comes with its entry.
NpcInfo ==
    /\ kind = "npc" /\ placed /\ Defined
    /\ UNCHANGED <<localTile, localAt, placed>>
    /\ \E ops \in Ops, adds \in Adds, told \in SUBSET Ids :
          \E order \in InOrder(Staying(ops)) :
             /\ ToSet(adds) \subseteq told
             /\ Tells(ops, order, adds, told)
             /\ Info(ops, order, adds, told \ ToSet(adds))

\* A PLAYER_INFO when it is the npcs that are followed.
LocalWalks ==
    /\ kind = "npc" /\ LocalMoves
    /\ UNCHANGED <<kind, ids, slot, seen, tile, look, buffer, base,
                   serverIds, where, sent>>

\* REBUILD_NORMAL: every entity in a slot, listed or not, is moved by the
\* difference of the bases.
Rebuild ==
    /\ Defined
    /\ base' \in Bases \ {base}
    /\ tile' = [i \in Ids |-> IF slot[i] = "none" THEN tile[i]
                              ELSE tile[i] - (base' - base)]
    /\ localTile' = localTile - (base' - base)
    /\ UNCHANGED <<kind, ids, slot, seen, look, buffer, server>>

\* Somebody changes clothes (an npc its type).
Changes(i) ==
    LET aged(f) == [f EXCEPT ![i] = IF @ = "new" THEN "old" ELSE @]
    IN  /\ sent[i] = "new"
        /\ look' = aged(look) /\ buffer' = aged(buffer) /\ sent' = aged(sent)
        /\ UNCHANGED <<kind, ids, slot, seen, tile, localTile, base,
                       serverIds, where, localAt, placed>>

\* client_update_game: loop_cycle moves on.
NextCycle ==
    /\ seen # {} /\ seen' = {}
    /\ UNCHANGED <<kind, ids, slot, tile, look, buffer, localTile, base, server>>

\* client_login, reply 15: the client takes its session up again with all it
\* has; the server begins with an empty list and has sent nothing.
Reconnect ==
    /\ Defined
    /\ serverIds' = <<>> /\ sent' = Nothing
    /\ UNCHANGED <<kind, client, where, localAt, placed>>

\* client_login, reply 2: the lists, the slots and the buffers are emptied, and
\* there is a new local player, at tile 0.
Login ==
    /\ Defined
    /\ ids' = <<>> /\ serverIds' = <<>>
    /\ slot' = Nothing /\ look' = Nothing /\ buffer' = Nothing /\ sent' = Nothing
    /\ localTile' = 0 /\ placed' = FALSE
    /\ UNCHANGED <<kind, seen, tile, base, where, localAt>>

Next ==
    \/ PlayerInfo \/ NpcInfo \/ LocalWalks \/ Rebuild
    \/ (\E i \in Ids : Changes(i)) \/ NextCycle \/ Reconnect \/ Login

Spec == Init /\ [][Next]_vars

-----------------------------------------------------------------------------
\* The list the server counts in is the beginning of the client's, every entry
\* of it has its entity, and each stands, as does the local player, on the
\* tile the server put it: walks are told as steps and arrivals as offsets
\* from a local player who moves in the same packet, around a base that moves.
InStep ==
    Defined =>
        /\ serverIds = SubSeq(ids, 1, Len(serverIds))
        /\ placed => localAt = base + localTile
        /\ \A i \in ToSet(serverIds) :
              slot[i] = "live" /\ where[i] = base + tile[i]

\* Whoever is on the list looks as the server last said, a player who comes
\* back into view included: the server does not say it again.
LooksRight ==
    Defined => \A i \in ToSet(serverIds) : look[i] = sent[i]

\* getPlayer's own check, "null entry in pl list": each entry of the list has
\* its player.
EntriesAreAlive == \A i \in ToSet(ids) : slot[i] = "live"
=============================================================================
