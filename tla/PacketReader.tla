---------------------------- MODULE PacketReader ----------------------------
(***************************************************************************)
(* How the client cuts the server's byte stream into packets               *)
(* (client_read in src/src/entry/client.c), from the login exchange that   *)
(* starts a connection to its replacement by the next one.                 *)
(*                                                                         *)
(* A packet is a type byte, then a length of one or two bytes if its type  *)
(* has no fixed size, then the payload.  client_read is called from the    *)
(* game loop and never waits: when the bytes of a stage are not there it   *)
(* returns, and the next call goes on from packet_type and packet_size.    *)
(* The type byte is masked with the next word of an ISAAC keystream that   *)
(* server and client must take in step.                                    *)
(***************************************************************************)
EXTENDS ClientStream

CONSTANTS
  Base,             \* bytes are 0 .. Base - 1 (256 in the program)
  SERVERPROT_SIZES, \* size of each packet type; -1, -2: length in 1, 2 bytes
  LOGOUT,           \* the type whose handler ends the session (142)
  Unknown,          \* the types without a handler
  Keystream,        \* one period of the masking words
  SeedLength,       \* bytes of the server's greeting (8 in the program)
  MaxPayload,       \* bound: payload of a packet
  MaxPackets,       \* bound: packets sent on one connection
  MaxConnections    \* bound: connections opened

ASSUME BaseAssumption == Base \in Nat /\ Base > 3
ASSUME SizesAssumption ==
  /\ DOMAIN SERVERPROT_SIZES = 0..(Base - 1)
  /\ \A t \in DOMAIN SERVERPROT_SIZES : SERVERPROT_SIZES[t] \in (-2)..MaxPayload
ASSUME TypesAssumption == LOGOUT \in 0..(Base - 1) /\ Unknown \subseteq 0..(Base - 1) \ {LOGOUT}
ASSUME KeystreamAssumption == Keystream \in Seq(0..(Base - 1)) /\ Keystream # <<>>
ASSUME BoundsAssumption ==
  /\ SeedLength \in Nat \ {0}
  /\ MaxPayload \in Nat /\ MaxPackets \in Nat /\ MaxConnections \in Nat
\* Two bytes can say the length of every payload.
ASSUME PayloadAssumption == MaxPayload < Base * Base

VARIABLES
  pc,           \* where the client's thread is
  conn,         \* connections opened so far; the current one's number
  login,        \* the server's side of the login: "none", "sent", "in", "refused"
  packet_type,  \* c->packet_type
  packet_size,  \* c->packet_size
  random_in,    \* words taken from c->random_in
  sent,         \* packets the server has sent on this connection
  dispatched    \* packets handed to the handlers on this connection

framing == <<packet_type, packet_size, random_in>>
history == <<sent, dispatched>>
vars == <<streamVars, pc, conn, login, framing, history>>

Byte == 0..(Base - 1)
Key(k) == Keystream[1 + (k % Len(Keystream))]
InClientRead == {"decodeType", "size", "decodeSize", "payload", "dispatch"}

Init ==
  /\ inFlight = <<>> /\ kernel = <<>> /\ peerClosed = FALSE
  /\ socketOpen = FALSE /\ closed = TRUE /\ buf = <<>> /\ bufPos = 0
  /\ rd = NoRead
  /\ pc = "title" /\ conn = 0 /\ login = "none"
  /\ packet_type = 0 /\ packet_size = 0 /\ random_in = 0
  /\ sent = <<>> /\ dispatched = <<>>

(***************************************************************************)
(* client_login, as far as the stream and the framing see it.              *)
(***************************************************************************)

\* The socket is opened and the read of the server's seed begins.  A reconnect
\* starts from the game loop, with whatever was half read; a login starts from
\* the title screen; a login answered 1 starts itself over.
Connect ==
  /\ conn < MaxConnections
  /\ conn' = conn + 1
  /\ OpenAndRead([i \in 1..SeedLength |-> i % Base], SeedLength)
  /\ pc' = "seed" /\ login' = "none"
  /\ sent' = <<>> /\ dispatched' = <<>>
  /\ UNCHANGED framing

Login == pc = "title" /\ Connect
Reconnect == pc = "idle" /\ Connect

\* Seeded fault: the incoming keystream goes on from the old connection's.
SendLoginKeepingKeystream ==
  /\ pc = "seed" /\ rd.need = 0
  /\ login' = IF closed \/ peerClosed THEN login ELSE "sent"
  /\ Read(1)
  /\ pc' = "reply"
  /\ UNCHANGED <<conn, framing, history>>

\* The seed was read, or was not: the result is not looked at.  Both keystreams
\* start over, the login block goes out if the stream still works, and the read
\* of the reply begins.
SendLogin ==
  /\ pc = "seed" /\ rd.need = 0
  /\ random_in' = 0
  /\ login' = IF closed \/ peerClosed THEN login ELSE "sent"
  /\ Read(1)
  /\ pc' = "reply"
  /\ UNCHANGED <<conn, packet_type, packet_size, history>>

\* Seeded fault: a half-read packet of the old connection is carried over.
LoginAcceptedMidPacket ==
  /\ pc = "reply" /\ rd.need = 0 /\ ~rd.failed /\ rd.dst = <<2>>
  /\ packet_type' = IF conn = 1 THEN -1 ELSE packet_type
  /\ packet_size' = IF conn = 1 THEN 0 ELSE packet_size
  /\ pc' = "idle"
  /\ UNCHANGED <<streamVars, conn, login, random_in, history>>

\* Replies 2 and 18 start a session, 15 resumes one.
LoginAccepted ==
  /\ pc = "reply" /\ rd.need = 0 /\ ~rd.failed /\ rd.dst = <<2>>
  /\ packet_type' = -1 /\ packet_size' = 0
  /\ pc' = "idle"
  /\ UNCHANGED <<streamVars, conn, login, random_in, history>>

\* Any other reply, or none: a message on the title screen.
LoginRefused ==
  /\ pc = "reply" /\ rd.need = 0 /\ (rd.failed \/ rd.dst = <<3>>)
  /\ pc' = "title"
  /\ UNCHANGED <<streamVars, conn, login, framing, history>>

\* Reply 1: wait two seconds and log in again, from inside client_login.
LoginAgain ==
  /\ pc = "reply" /\ rd.need = 0 /\ ~rd.failed /\ rd.dst = <<1>>
  /\ Connect

(***************************************************************************)
(* client_read.                                                            *)
(***************************************************************************)

\* The poll every call starts with, whatever it is waiting for.
NothingToRead ==
  /\ pc = "idle" /\ ~Available(1)
  /\ Poll(1)
  /\ UNCHANGED <<pc, conn, login, framing, history>>

ReadType ==
  /\ pc = "idle" /\ packet_type = -1 /\ Available(1)
  /\ PollAndRead(1)
  /\ pc' = "decodeType"
  /\ UNCHANGED <<conn, login, framing, history>>

GoOn ==
  /\ pc = "idle" /\ packet_type # -1 /\ Available(1)
  /\ Poll(1)
  /\ pc' = "size"
  /\ UNCHANGED <<conn, login, framing, history>>

DecodeType ==
  /\ pc = "decodeType" /\ rd.need = 0
  /\ packet_type' = (rd.dst[1] - Key(random_in)) % Base
  /\ random_in' = random_in + 1
  /\ packet_size' = SERVERPROT_SIZES[packet_type']
  /\ pc' = "size"
  /\ UNCHANGED <<streamVars, conn, login, history>>

SizeKnown ==
  /\ pc = "size" /\ packet_size >= 0
  /\ pc' = "payload"
  /\ UNCHANGED <<streamVars, conn, login, framing, history>>

\* Seeded fault: one byte is enough to start on a length of two.
ReadSizeTooEarly ==
  /\ pc = "size" /\ packet_size < 0
  /\ IF Available(1)
     THEN /\ Polled(1) /\ BeginRead(Filled(1), -packet_size) /\ pc' = "decodeSize"
          /\ UNCHANGED <<inFlight, peerClosed, socketOpen, closed>>
     ELSE Poll(1) /\ pc' = "idle"
  /\ UNCHANGED <<conn, login, framing, history>>

ReadSize ==
  /\ pc = "size" /\ packet_size < 0
  /\ IF Available(-packet_size)
     THEN PollAndRead(-packet_size) /\ pc' = "decodeSize"
     ELSE Poll(-packet_size) /\ pc' = "idle"
  /\ UNCHANGED <<conn, login, framing, history>>

\* Seeded fault: the two length bytes are taken in the wrong order.
DecodeSizeSwapped ==
  /\ pc = "decodeSize" /\ rd.need = 0
  /\ packet_size' = IF Len(rd.dst) = 1 THEN rd.dst[1] ELSE Base * rd.dst[2] + rd.dst[1]
  /\ pc' = "payload"
  /\ UNCHANGED <<streamVars, conn, login, packet_type, random_in, history>>

DecodeSize ==
  /\ pc = "decodeSize" /\ rd.need = 0
  /\ packet_size' = IF Len(rd.dst) = 1 THEN rd.dst[1] ELSE Base * rd.dst[1] + rd.dst[2]
  /\ pc' = "payload"
  /\ UNCHANGED <<streamVars, conn, login, packet_type, random_in, history>>

ReadPayload ==
  /\ pc = "payload"
  /\ IF Available(packet_size)
     THEN PollAndRead(packet_size) /\ pc' = "dispatch"
     ELSE Poll(packet_size) /\ pc' = "idle"
  /\ UNCHANGED <<conn, login, framing, history>>

Handle ==
  /\ pc = "dispatch" /\ rd.need = 0
  /\ dispatched' = Append(dispatched, [type |-> packet_type, payload |-> rd.dst])
  /\ packet_type' = -1
  /\ UNCHANGED <<conn, login, packet_size, random_in, sent>>

\* The handler of the type runs; each one ends with packet_type = -1.
Dispatch ==
  /\ packet_type \notin Unknown \union {LOGOUT}
  /\ Handle
  /\ pc' = "idle"
  /\ UNCHANGED streamVars

\* The handler of LOGOUT closes the stream.
DispatchLogout ==
  /\ packet_type = LOGOUT
  /\ Handle /\ Close
  /\ pc' = "title"

\* So does a packet no handler knows, whose type stays where it is.
DispatchUnknown ==
  /\ pc = "dispatch" /\ rd.need = 0 /\ packet_type \in Unknown
  /\ Close
  /\ pc' = "title"
  /\ UNCHANGED <<conn, login, framing, history>>

\* client_logout between two calls (the pad's chord): the stream is closed and
\* forgotten, the framing state is left.
Logout ==
  /\ pc = "idle"
  /\ Close
  /\ pc' = "title"
  /\ UNCHANGED <<conn, login, framing, history>>

(***************************************************************************)
(* The server, seen from the client.                                       *)
(***************************************************************************)

ServerReplies(r) ==
  /\ login = "sent"
  /\ r = 1 => conn < MaxConnections     \* bound: "again" only if it can be obeyed
  /\ ServerSends(<<r>>)
  /\ login' = IF r = 2 THEN "in" ELSE "refused"
  /\ UNCHANGED <<pc, conn, framing, history>>

PayloadLengths(t) ==
  CASE SERVERPROT_SIZES[t] >= 0 -> {SERVERPROT_SIZES[t]}
    [] SERVERPROT_SIZES[t] = -1 -> 0..Least(MaxPayload, Base - 1)
    [] SERVERPROT_SIZES[t] = -2 -> 0..MaxPayload

LengthBytes(t, n) ==
  CASE SERVERPROT_SIZES[t] = -1 -> <<n>>
    [] SERVERPROT_SIZES[t] = -2 -> <<n \div Base, n % Base>>
    [] OTHER -> <<>>

\* A payload no other packet has: its bytes count on from the packet's number.
Payload(n) == [i \in 1..n |-> (Len(sent) + i) % Base]

ServerSendsPacket(t, n) ==
  /\ login = "in" /\ Len(sent) < MaxPackets
  /\ n \in PayloadLengths(t)
  /\ ServerSends(<<(t + Key(Len(sent))) % Base>> \o LengthBytes(t, n) \o Payload(n))
  /\ sent' = Append(sent, [type |-> t, payload |-> Payload(n)])
  /\ UNCHANGED <<pc, conn, login, framing, dispatched>>

ServerEnds == ServerCloses /\ conn > 0 /\ UNCHANGED <<pc, conn, login, framing, history>>

Network == Arrive /\ UNCHANGED <<pc, conn, login, framing, history>>

\* The blocking loop of read_bytes.
Blocked ==
  /\ RecvMore \/ RecvEnd \/ RecvTimeout
  /\ UNCHANGED <<pc, conn, login, framing, history>>

\* The title screen waits for the player.
TitleWaits == pc = "title" /\ UNCHANGED vars

ClientRead ==
  \/ NothingToRead \/ ReadType \/ GoOn \/ DecodeType
  \/ SizeKnown \/ ReadSize \/ DecodeSize \/ ReadPayload
  \/ Dispatch \/ DispatchLogout \/ DispatchUnknown

Next ==
  \/ ClientRead \/ Blocked \/ Network
  \/ Login \/ Reconnect \/ SendLogin \/ LoginAccepted \/ LoginRefused \/ LoginAgain
  \/ Logout \/ TitleWaits
  \/ \E r \in {1, 2, 3} : ServerReplies(r)
  \/ \E t \in Byte, n \in 0..MaxPayload : ServerSendsPacket(t, n)
  \/ ServerEnds

Spec == Init /\ [][Next]_vars

\* The game loop keeps calling client_read, and bytes on the wire arrive.
FairSpec == Spec /\ WF_vars(ClientRead) /\ WF_vars(Network)
-----------------------------------------------------------------------------
(***************************************************************************)
(* Properties.                                                             *)
(***************************************************************************)

TypeOK ==
  /\ inFlight \in Seq(Byte) /\ kernel \in Seq(Byte) /\ buf \in Seq(Byte)
  /\ bufPos \in Nat
  /\ peerClosed \in BOOLEAN /\ socketOpen \in BOOLEAN /\ closed \in BOOLEAN
  /\ rd \in [need : Nat, off : Nat, dst : Seq(Byte), failed : BOOLEAN]
  /\ pc \in {"title", "seed", "reply", "idle"} \union InClientRead
  /\ login \in {"none", "sent", "in", "refused"}
  /\ packet_type \in {-1} \union Byte
  /\ packet_size \in (-2)..(Base * Base - 1)
  /\ random_in \in Nat /\ conn \in 0..MaxConnections

\* client_read never waits for the network: whenever it calls read_bytes the
\* whole request is in the buffer, so the 5000 x 1 ms loop is not entered from
\* the game loop and no read comes back short or overwritten.
GameLoopNeverBlocks == pc \in InClientRead => rd.need = 0 /\ ~rd.failed

\* The bytes the current stage of the packet waits for.
Awaited ==
  IF packet_type = -1 THEN 1 ELSE IF packet_size < 0 THEN -packet_size ELSE packet_size

\* Between two calls of client_read the buffer holds only part of the field
\* being waited for, from offset 0: it never reads ahead into the next packet
\* and never creeps towards the end of buf[5000].
BufferHoldsOneField == pc = "idle" => bufPos = 0 /\ Len(buf) < Awaited

\* The keystream has advanced once for each packet begun, so it is in step with
\* the server's at every type byte, across stalls in the middle of a packet and
\* across reconnects.
KeystreamInStep ==
  pc = "idle" =>
    random_in = Len(dispatched) + (IF packet_type = -1 THEN 0 ELSE 1)

\* The abstract channel, with the connections, the server's packets and the
\* packets handed to the handlers.
Channel == INSTANCE PacketChannel WITH
  session <- conn, handled <- dispatched

\* What the handlers see is exactly what the server sent, whatever the network
\* and reconnects in mid-packet do: the reader implements PacketChannel.
ImplementsChannel == Channel!Spec

\* A packet that was sent is handled, however its bytes arrive, and also when
\* the server closes right after it, unless the client drops the connection.
EveryPacketHandled ==
  \A c \in 1..MaxConnections, i \in 1..MaxPackets :
    (conn = c /\ pc = "idle" /\ Len(sent) >= i)
      ~> (conn # c \/ pc = "title" \/ Len(dispatched) >= i)
=============================================================================
