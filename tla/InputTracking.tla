--------------------------- MODULE InputTracking ---------------------------
(* What the player does with keys and mouse, told to a server that has asked  *)
(* for it: inputtracking.c, with the calls client.c makes of it.  The events  *)
(* of an update are packed into a buffer of less than Limit bytes; a full     *)
(* buffer is put aside and sent by the same update, once the packets of the   *)
(* server are read, which may start or finish the tracking, or end the        *)
(* session.  An event is its number since the tracking began, and is the      *)
(* server's once it is in c->out; a session resumed in the same update (reply *)
(* 15, client.c:7712), which empties c->out and loses them, is left out.      *)
EXTENDS Integers, Sequences

CONSTANTS
    Limit,       \* 500 in the code
    Sizes,       \* bytes of an event: 2 to 5
    PerUpdate,   \* bytes one update tracks, as the controller makes them
    MaxTracked   \* events explored

ASSUME InputTrackingAssumption ==
    /\ Limit \in Nat /\ PerUpdate \in Nat /\ MaxTracked \in Nat
    /\ Sizes \subseteq 1..(Limit - 1)
    /\ PerUpdate < Limit

VARIABLES
    enabled,
    out,      \* the events in outBuffer
    pos,      \* outBuffer's pos
    old,      \* the events in oldBuffer; <<>>: there is none
    bytes,    \* bytes tracked since the last update
    reading,  \* client_update_game reads packets: the events are in, the
              \* flush is to come
    tracked,  \* events since the tracking began
    server,   \* the events sent since then
    done      \* the tracking was finished, and no buffer put aside just then

vars == <<enabled, out, pos, old, bytes, reading, tracked, server, done>>

TypeOK ==
    /\ enabled \in BOOLEAN /\ reading \in BOOLEAN /\ done \in BOOLEAN
    /\ out \in Seq(Nat) /\ old \in Seq(Nat) /\ server \in Seq(Nat)
    /\ pos \in 0..(Limit - 1) /\ bytes \in 0..PerUpdate /\ tracked \in 0..MaxTracked

Init ==
    /\ enabled = FALSE /\ out = <<>> /\ pos = 0 /\ old = <<>> /\ bytes = 0
    /\ reading = FALSE /\ tracked = 0 /\ server = <<>> /\ done = FALSE

-----------------------------------------------------------------------------
\* Seeded fault: a full buffer is begun anew, what it held is gone.
NothingPutAside == old

\* inputtracking_ensure_capacity makes of a full buffer the one put aside.
PutAside == out

Full(n) == pos + n >= Limit

\* Any of the inputtracking_* events, of a poll.
Track(n) ==
    /\ enabled /\ ~reading
    /\ tracked < MaxTracked /\ bytes + n <= PerUpdate
    /\ tracked' = tracked + 1 /\ bytes' = bytes + n
    /\ \/ /\ Full(n)
          /\ old' = PutAside /\ out' = <<tracked + 1>> /\ pos' = n
       \/ /\ ~Full(n)
          /\ out' = Append(out, tracked + 1) /\ pos' = pos + n
          /\ UNCHANGED old
    /\ UNCHANGED <<enabled, reading, server, done>>

\* client_update_game begins.
Read ==
    /\ ~reading /\ reading' = TRUE
    /\ UNCHANGED <<enabled, out, pos, old, bytes, tracked, server, done>>

\* ENABLE_TRACKING: the buffers are new, tracking or not.
Enable ==
    /\ reading
    /\ enabled' = TRUE /\ out' = <<>> /\ pos' = 0 /\ old' = <<>>
    /\ tracked' = 0 /\ server' = <<>> /\ done' = FALSE
    /\ UNCHANGED <<bytes, reading>>

\* FINISH_TRACKING, inputtracking_stop: what the buffer holds is sent, and the
\* one put aside is not.
Finish ==
    /\ reading /\ enabled
    /\ enabled' = FALSE /\ out' = <<>> /\ pos' = 0
    /\ server' = server \o out /\ done' = (old = <<>>)
    /\ UNCHANGED <<old, bytes, reading, tracked>>

\* client_logout, and the login that follows.
Disable ==
    /\ enabled
    /\ enabled' = FALSE /\ out' = <<>> /\ pos' = 0 /\ done' = FALSE
    /\ UNCHANGED <<old, bytes, reading, tracked, server>>

\* inputtracking_flush, later in the update, and EVENT_TRACKING.  (After a
\* logout it is not reached, and what was put aside waits to be dropped by the
\* next ENABLE_TRACKING.)
Flush ==
    /\ reading /\ reading' = FALSE
    /\ server' = IF enabled THEN server \o old ELSE server
    /\ old' = <<>> /\ bytes' = 0
    /\ UNCHANGED <<enabled, out, pos, tracked, done>>

Next == (\E n \in Sizes : Track(n)) \/ Read \/ Enable \/ Finish \/ Disable \/ Flush

Spec == Init /\ [][Next]_vars

-----------------------------------------------------------------------------
Upto(n) == [i \in 1..n |-> i]

\* The server gets every event, once and in order: while the client tracks,
\* what it sent and the two buffers it still has to send are what it tracked;
\* and a tracking the server finished has left none out, if no buffer was put
\* aside in that very update.  (Of updates that resume no session.)
NoneIsLost ==
    /\ enabled => server \o old \o out = Upto(tracked)
    /\ done => server = Upto(tracked)
=============================================================================
