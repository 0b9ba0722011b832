---------------------------- MODULE ClientSession ---------------------------
(***************************************************************************)
(* The life of the client's session with the game server: login, the       *)
(* update of a game cycle, loss of the connection, reconnect and logout    *)
(* (client_update_game, client_login, client_try_reconnect and             *)
(* client_logout in src/src/entry/client.c; the discovery in front of a    *)
(* login on the Xbox is src/src/xboxconnect.c).                            *)
(*                                                                         *)
(* Everything runs on one thread, and a login blocks it.  What makes it    *)
(* hard is that a logout or a whole login can happen in the middle of an   *)
(* update, which then goes on: with a stream that is gone, or another one, *)
(* and with an output buffer that may hold what was meant for the old one. *)
(***************************************************************************)
EXTENDS Integers, Sequences

CONSTANTS
  MaxSockets,    \* bound: connections that carry a game; beyond it connecting fails
  NetLimit,      \* idle_net_cycles that mean a lost connection (750)
  LogoutGrace,   \* idle_timeout after an idle warning or a logout click (250)
  MaxReads,      \* packets handled per update (5)
  MaxUnread,     \* bound: packets and answers received and not read when a server goes
  MaxWords       \* bound: keystream words used on one connection

ASSUME BoundsAssumption ==
  /\ MaxSockets \in Nat \ {0} /\ NetLimit \in Nat /\ LogoutGrace \in Nat
  /\ MaxReads \in Nat /\ MaxUnread \in Nat /\ MaxWords \in Nat

Sockets == 1..MaxSockets
NULL == 0

VARIABLES
  pc,               \* where the client's thread is
  ingame,           \* c->ingame
  stream,           \* c->stream: NULL or the number of its socket
  fd,               \* of each socket: "none", "open", "eof" (closed flag, open fd), "closed"
  idle_net_cycles,  \* c->idle_net_cycles
  idle_timeout,     \* c->idle_timeout
  reads,            \* packets handled in this update
  reconnecting,     \* the login in progress was started by client_try_reconnect
  oldStream,        \* its local variable: the stream it will close
  resume,           \* where client_login returns to
  out,              \* what c->out holds: keystream words used, or the login block
  random,           \* c->out->random: connection it was seeded for, words used
  peer,             \* of each socket, the server: "none", "up", "gone"
  unread,           \* what a server that is gone has left to be read from the stream
  wire,             \* of each socket, the opcodes written to it
  played            \* sockets that have carried a game

conn == <<stream, fd>>
login == <<reconnecting, oldStream, resume>>
output == <<out, random, wire>>
idle == <<idle_net_cycles, idle_timeout>>
server == <<peer, unread>>
vars == <<pc, ingame, conn, idle, reads, login, output, server, played>>

LoginBlock == [on |-> NULL, word |-> 0]

Init ==
  /\ pc = "loop" /\ ingame = FALSE /\ stream = NULL
  /\ fd = [s \in Sockets |-> "none"] /\ peer = [s \in Sockets |-> "none"]
  /\ unread = 0 /\ idle_net_cycles = 0 /\ idle_timeout = 0 /\ reads = 0
  /\ reconnecting = FALSE /\ oldStream = NULL /\ resume = "loop"
  /\ out = <<>> /\ random = [on |-> NULL, word |-> 0]
  /\ wire = [s \in Sockets |-> <<>>]
  /\ played = {}

(***************************************************************************)
(* Helpers.                                                                *)
(***************************************************************************)

\* clientstream_close of one stream.
Closed(s, f) == [f EXCEPT ![s] = "closed"]

\* client_logout.  The output buffer is left as it is.
Logout ==
  /\ fd' = IF stream # NULL THEN Closed(stream, fd) ELSE fd
  /\ stream' = NULL
  /\ ingame' = FALSE

\* p1isaac n times: each opcode takes the next word of the outgoing keystream.
Encode(n) ==
  /\ out' = out \o [i \in 1..n |-> [on |-> random.on, word |-> random.word + i - 1]]
  /\ random' = [random EXCEPT !.word = @ + n]

\* Bound: an update encodes at most one opcode in each of its halves.
Encodings == IF random.word < MaxWords THEN 0..1 ELSE {0}

\* There is something to read: a server that is there sends, and what has been
\* received of one that is gone is still handed out.
Readable == stream # NULL /\ (peer[stream] = "up" \/ unread > 0)

\* One packet or answer is read.
Take ==
  /\ Readable
  /\ unread' = IF peer[stream] = "up" THEN unread ELSE unread - 1
  /\ UNCHANGED peer

\* client_try_reconnect: after an idle warning the player is logged out,
\* otherwise a login starts, and the update will go on at `back`.
TryReconnect(back) ==
  \/ /\ idle_timeout > 0
     /\ Logout
     /\ pc' = back
     /\ UNCHANGED login
  \/ /\ idle_timeout = 0
     /\ oldStream' = stream
     /\ ingame' = FALSE
     /\ reconnecting' = TRUE /\ resume' = back
     /\ pc' = "discover"
     /\ UNCHANGED conn

(***************************************************************************)
(* One update of the game: client_update_game.                             *)
(***************************************************************************)

UpdateGame ==
  /\ pc = "loop" /\ ingame
  /\ idle_timeout' = IF idle_timeout > 0 THEN idle_timeout - 1 ELSE 0
  /\ reads' = 0
  /\ pc' = "reads"
  /\ UNCHANGED <<ingame, conn, idle_net_cycles, login, output, server, played>>

\* A packet has arrived and is handled.
ReadPacket ==
  /\ pc = "reads" /\ reads < MaxReads /\ Take
  /\ reads' = reads + 1
  /\ idle_net_cycles' = 0
  /\ UNCHANGED <<pc, ingame, conn, idle_timeout, login, output, played>>

\* The server's LOGOUT packet, or one of a type the client does not know.
ReadLogout ==
  /\ pc = "reads" /\ reads < MaxReads /\ Take
  /\ Logout
  /\ idle_net_cycles' = 0 /\ reads' = MaxReads
  /\ UNCHANGED <<pc, idle_timeout, login, output, played>>

\* A session that ended in the reads skips the rest of the update.
ReadsDone ==
  /\ pc = "reads"
  /\ pc' = IF ingame THEN "cycle" ELSE "loop"
  /\ UNCHANGED <<ingame, conn, idle, reads, login, output, server, played>>

\* Seeded fault: the silence is counted only in updates that read a packet.
CountSilenceAfterReads ==
  /\ pc = "cycle"
  /\ \E n \in Encodings : Encode(n)
  /\ idle_net_cycles' = IF reads > 0 THEN idle_net_cycles + 1 ELSE idle_net_cycles
  /\ IF idle_net_cycles' > NetLimit
     THEN TryReconnect("input")
     ELSE pc' = "input" /\ UNCHANGED <<ingame, conn, login>>
  /\ UNCHANGED <<idle_timeout, reads, wire, server, played>>

\* Music and tracking reports are encoded, then the silence of the server is
\* counted.  Polling never reports a closed connection, so a server that is
\* gone is noticed here only.
CountSilence ==
  /\ pc = "cycle"
  /\ \E n \in Encodings : Encode(n)
  /\ idle_net_cycles' = idle_net_cycles + 1
  /\ IF idle_net_cycles' > NetLimit
     THEN TryReconnect("input")
     ELSE pc' = "input" /\ UNCHANGED <<ingame, conn, login>>
  /\ UNCHANGED <<idle_timeout, reads, wire, server, played>>

\* "::clientdrop" typed in the chat; more keys may follow.
ClientDrop ==
  /\ pc = "input"
  /\ TryReconnect("input")
  /\ UNCHANGED <<idle, reads, output, server, played>>

\* The rest of the input, the idle warning or a click on the logout button
\* (which start the grace period), and the heartbeat.
EndInput ==
  /\ pc = "input"
  /\ \E n \in Encodings : Encode(n)
  /\ idle_timeout' \in {idle_timeout, LogoutGrace}
  /\ pc' = "flush"
  /\ UNCHANGED <<ingame, conn, idle_net_cycles, reads, login, wire, server, played>>

\* What was encoded is written, if there is still a stream.
Flush ==
  /\ pc = "flush"
  /\ IF stream # NULL /\ out # <<>>
     THEN /\ wire' = IF fd[stream] = "open"
                     THEN [wire EXCEPT ![stream] = @ \o out] ELSE wire
          /\ out' = <<>>
     ELSE UNCHANGED <<wire, out>>
  /\ pc' = "loop"
  /\ UNCHANGED <<ingame, conn, idle, reads, login, random, server, played>>

(***************************************************************************)
(* Between updates: the title screen and the pad.                          *)
(***************************************************************************)

\* The login button, or START on the pad.
StartLogin ==
  /\ pc = "loop" /\ ~ingame
  /\ reconnecting' = FALSE /\ resume' = "loop" /\ oldStream' = NULL
  /\ pc' = "discover"
  /\ UNCHANGED <<ingame, conn, idle, reads, output, server, played>>

\* BACK and START held together.
LogoutChord ==
  /\ pc = "loop" /\ ingame
  /\ Logout
  /\ UNCHANGED <<pc, idle, reads, login, output, server, played>>

TitleScreen == pc = "loop" /\ ~ingame /\ UNCHANGED vars

(***************************************************************************)
(* client_login.                                                           *)
(***************************************************************************)

\* xbox_connect_login finds the PC on the LAN, or gives up: then client_login
\* returns at once, and c->stream is still the stream there was before.
Discover ==
  /\ pc = "discover"
  /\ pc' \in {"open", "return"}
  /\ UNCHANGED <<ingame, conn, idle, reads, login, output, server, played>>

\* clientstream_opensocket: a new stream, or NULL.  The socket of an attempt
\* that brought no game has nothing to do with anything any more: its number is
\* used again, so that no bound ends a chain of logins.
OpenSocket ==
  /\ pc = "open"
  /\ \/ \E s \in Sockets \ played :
          /\ \A r \in Sockets \ played : s <= r
          /\ fd' = [fd EXCEPT ![s] = "open"]
          /\ peer' = [peer EXCEPT ![s] = "up"]
          /\ stream' = s /\ pc' = "seed"
     \/ /\ stream' = NULL /\ pc' = "return"
        /\ UNCHANGED <<fd, peer>>
  /\ unread' = 0
  /\ UNCHANGED <<ingame, idle, reads, login, output, played>>

\* The server's seed is read (or not: nobody looks), the login block is built
\* in c->out, both keystreams are seeded, and the block is written.
SendLogin ==
  /\ pc = "seed" /\ Take
  /\ out' = <<LoginBlock>>
  /\ random' = [on |-> stream, word |-> 0]
  /\ pc' = "reply"
  /\ UNCHANGED <<ingame, conn, idle, reads, login, wire, played>>

\* No seed: the server closed (the fd stays open) or was silent for 5 seconds.
SeedFails ==
  /\ pc = "seed"
  /\ \/ ~Readable /\ fd' = [fd EXCEPT ![stream] = "eof"]
     \/ fd' = Closed(stream, fd)
  /\ out' = <<LoginBlock>>
  /\ random' = [on |-> stream, word |-> 0]
  /\ pc' = "reply"
  /\ UNCHANGED <<ingame, stream, idle, reads, login, wire, server, played>>

\* Seeded fault: the read of the reply has no limit.
NoReplyButWait ==
  /\ pc = "reply" /\ fd[stream] # "open"
  /\ pc' = "return"
  /\ UNCHANGED <<ingame, conn, idle, reads, login, output, server, played>>

\* No reply, for the same reasons: as good as a reply the client does not know.
NoReply ==
  /\ pc = "reply"
  /\ \/ fd[stream] # "open" /\ UNCHANGED fd
     \/ fd[stream] = "open" /\ ~Readable /\ fd' = [fd EXCEPT ![stream] = "eof"]
     \/ fd[stream] = "open" /\ fd' = Closed(stream, fd)
  /\ pc' = "return"
  /\ UNCHANGED <<ingame, stream, idle, reads, login, output, server, played>>

Replied == pc = "reply" /\ fd[stream] = "open" /\ Take

\* Reply 1: after two seconds client_login calls itself, as often as it is told to.
ReplyAgain ==
  /\ Replied
  /\ pc' = "discover"
  /\ UNCHANGED <<ingame, conn, idle, reads, login, output, played>>

\* Seeded fault: the buffer the login block was built in is not emptied.
ReplyNewKeepingBuffer ==
  /\ Replied
  /\ ingame' = TRUE
  /\ idle_net_cycles' = 0 /\ idle_timeout' = 0
  /\ played' = played \union {stream}
  /\ pc' = "return"
  /\ UNCHANGED <<conn, reads, login, output>>

\* Replies 2 and 18: a new session.
ReplyNew ==
  /\ Replied
  /\ ingame' = TRUE /\ out' = <<>>
  /\ idle_net_cycles' = 0 /\ idle_timeout' = 0
  /\ played' = played \union {stream}
  /\ pc' = "return"
  /\ UNCHANGED <<conn, reads, login, random, wire>>

\* Reply 15: the session goes on over the new connection.  The client takes it
\* on any login.
ReplyResume ==
  /\ Replied
  /\ ingame' = TRUE /\ out' = <<>>
  /\ idle_net_cycles' = 0
  /\ played' = played \union {stream}
  /\ pc' = "return"
  /\ UNCHANGED <<conn, idle_timeout, reads, login, random, wire>>

\* Replies 3 to 14, 16 and 17: a message; the stream stays where it is.
ReplyRefused ==
  /\ Replied
  /\ pc' = "return"
  /\ UNCHANGED <<ingame, conn, idle, reads, login, output, played>>

\* Seeded fault: the saved stream is not closed.
ReturnLeaking ==
  /\ pc = "return"
  /\ pc' = resume
  /\ IF reconnecting /\ ~ingame
     THEN stream' = NULL /\ fd' = IF stream = NULL THEN fd ELSE Closed(stream, fd)
     ELSE UNCHANGED conn
  /\ reconnecting' = FALSE /\ oldStream' = NULL /\ resume' = "loop"
  /\ UNCHANGED <<ingame, idle, reads, output, server, played>>

\* client_login returns.  client_try_reconnect logs out if that did not bring
\* the game back, and closes the stream it started from; without one (a
\* "::clientdrop" right after a logout in the same update) it dereferences NULL.
Return ==
  /\ pc = "return"
  /\ IF ~reconnecting
     THEN pc' = resume /\ UNCHANGED <<ingame, conn>>
     ELSE IF oldStream = NULL
     THEN pc' = "undefined" /\ UNCHANGED <<ingame, conn>>
     ELSE /\ pc' = resume
          /\ stream' = IF ingame THEN stream ELSE NULL
          /\ fd' = Closed(oldStream,
                     IF ingame \/ stream = NULL THEN fd ELSE Closed(stream, fd))
          /\ UNCHANGED ingame
  /\ reconnecting' = FALSE /\ oldStream' = NULL /\ resume' = "loop"
  /\ UNCHANGED <<idle, reads, output, server, played>>

Undefined == pc = "undefined" /\ UNCHANGED vars

\* The server, or the network to it, goes away; what the client has received
\* until then can be read.
ServerGone(s) ==
  /\ peer[s] = "up"
  /\ peer' = [peer EXCEPT ![s] = "gone"]
  /\ IF s = stream THEN unread' \in 0..MaxUnread ELSE UNCHANGED unread
  /\ UNCHANGED <<pc, ingame, conn, idle, reads, login, output, played>>

ClientLogin ==
  \/ Discover \/ OpenSocket \/ SendLogin \/ SeedFails \/ NoReply
  \/ ReplyAgain \/ ReplyNew \/ ReplyResume \/ ReplyRefused \/ Return

Update ==
  \/ UpdateGame \/ ReadPacket \/ ReadLogout \/ ReadsDone
  \/ CountSilence \/ EndInput \/ Flush

Next ==
  \/ Update \/ ClientLogin
  \/ ClientDrop \/ StartLogin \/ LogoutChord \/ TitleScreen \/ Undefined
  \/ \E s \in Sockets : ServerGone(s)

Spec == Init /\ [][Next]_vars

\* The game loop keeps running, and a login's reads end after 5 seconds at most.
\* Nothing is assumed of the server.
FairSpec == Spec /\ WF_vars(Update) /\ WF_vars(ClientLogin)
-----------------------------------------------------------------------------
(***************************************************************************)
(* Properties.                                                             *)
(***************************************************************************)

Points == {"loop", "reads", "cycle", "input", "flush",
           "discover", "open", "seed", "reply", "return", "undefined"}
Word == [on : Sockets \union {NULL}, word : 0..MaxWords]

TypeOK ==
  /\ pc \in Points /\ resume \in {"loop", "input"}
  /\ ingame \in BOOLEAN /\ reconnecting \in BOOLEAN
  /\ stream \in Sockets \union {NULL} /\ oldStream \in Sockets \union {NULL}
  /\ fd \in [Sockets -> {"none", "open", "eof", "closed"}]
  /\ peer \in [Sockets -> {"none", "up", "gone"}]
  /\ unread \in 0..MaxUnread /\ idle_net_cycles \in 0..(NetLimit + 1) /\ idle_timeout \in 0..LogoutGrace
  /\ reads \in 0..MaxReads
  /\ out \in Seq(Word) /\ random \in Word
  /\ wire \in [Sockets -> Seq(Word)]
  /\ played \subseteq Sockets

\* Whenever the client is in game its stream is there and open, also in the
\* rest of an update in the middle of which a reconnect replaced it.
InGameHasStream ==
  ingame /\ pc # "undefined" => stream # NULL /\ fd[stream] = "open"

\* A connection that has carried a game is closed once it is no longer the
\* client's: whatever a reconnect runs into (no PC found, no socket, no answer,
\* a refusal, "log in again"), the old socket does not stay behind.
NoGameSocketLeaks ==
  pc \in {"loop", "reads", "cycle", "input", "flush"} =>
    \A s \in played : s # stream => fd[s] = "closed"

\* The server can decode what it receives: on each connection the opcodes were
\* encoded for that connection, with consecutive words from the first one on.
\* Nothing of an old connection, of an update that outlived its session or of a
\* login block gets on the wire.
OutgoingInStep ==
  \A s \in Sockets : \A i \in DOMAIN wire[s] :
    wire[s][i] = [on |-> s, word |-> i - 1]

\* An update that outlives its session - logged out by a packet, by a failed
\* reconnect, or by a loss in the grace period - has no stream to write to: what
\* the rest of it encodes has nowhere to go, not even to the socket of a login
\* that was refused.
UpdateWithoutSessionIsMute ==
  pc \in {"cycle", "input", "flush"} /\ ~ingame => stream = NULL

\* A server that has gone is noticed: the client does not stay in game on its
\* connection for ever although no read ever reports the loss.
LossIsNoticed ==
  \A s \in Sockets :
    (ingame /\ stream = s /\ peer[s] = "gone") ~> (~ingame \/ stream # s \/ pc = "undefined")

\* A login, with all its waits, comes to an end, unless the server tells the
\* client to log in again for ever: client_login calls itself without a limit.
LoginReturns ==
  \/ pc = "discover" ~> pc \in {"loop", "input", "undefined"}
  \/ []<><<ReplyAgain>>_vars
=============================================================================
