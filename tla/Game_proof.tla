------------------------------ MODULE Game_proof -------------------------------
(***************************************************************************)
(* The client in the game: its session, and what it keeps of the world,    *)
(* for every value of the constants.                                       *)
(*                                                                         *)
(* The session holds for any number of sockets, reads and keystream words, *)
(* and any limits of silence and grace.  The argument follows the stream:  *)
(* a login works on a socket of its own, different from the one the        *)
(* reconnect will close (LoginInv), and what is in the output buffer       *)
(* continues what was written to the stream of the game that is on         *)
(* (OutInv).                                                               *)
(*                                                                         *)
(* The entities the client knows are the server's, stand where it has      *)
(* them and look as it said: after every packet both lists are the same,   *)
(* or the server's is empty after a reconnect (ListInv, PlaceInv), and     *)
(* what the client remembers of an entity out of sight is what it was told *)
(* last (LookInv, ListedLooks).                                            *)
(*                                                                         *)
(* An entity is drawn between the waypoint it reached and the one it makes *)
(* for: a packet changes neither (GoesOn), a step towards a waypoint ends  *)
(* at it (TowardsIt), and a slide ends in time, on the tile the route then *)
(* consists of, if that is still where it leads to (SlideInv).             *)
(*                                                                         *)
(* The doors inside the scene stand as the server has them: the record of  *)
(* a changed tile keeps what the map has there (RecordInv), a tile without *)
(* one is as in the map (UnrecordedInv), so that the map with the records  *)
(* is what the scene shows (ShownInv), and what a merge puts back is what  *)
(* it took away (MergeInv).                                                *)
(*                                                                         *)
(* On the ground lie the things of the server.  Sorting a stack, and the   *)
(* move of all stacks in one array, lose nothing and double nothing        *)
(* (SortedKeeps, MovedInPlace); that there is one pile on a tile           *)
(* (OnePileInv) is why taking off the first thing of an id takes off the   *)
(* right one.  What a loop of the code does is a recursive function here,  *)
(* and is proved by induction over its steps (Induction).                  *)
(***************************************************************************)
EXTENDS ClientSession, World, Induction

-------------------------------------------------------------------------------
(***************************************************************************)
(* The session.                                                            *)
(***************************************************************************)

UpdatePoints == {"loop", "reads", "cycle", "input", "flush"}
LoginPoints == {"discover", "open", "seed", "reply", "return"}

\* The silence that is counted in game is within its limit.
SilenceInv == ingame => idle_net_cycles <= NetLimit

\* The game that is on, and the one a reconnect started from, have carried one;
\* nothing was written to a socket that has not.
SocketInv ==
  /\ ingame => stream \in played
  /\ oldStream \in played \union {NULL}
  /\ \A s \in Sockets \ played : wire[s] = <<>>

\* A login has left the game, its socket is fresh, and a reconnect's is not the
\* one to be closed; outside a login no game's socket is kept without the game.
LoginInv ==
  /\ pc \in {"discover", "open", "seed", "reply"} => ~ingame
  /\ pc \in {"seed", "reply"} =>
       stream # NULL /\ stream # oldStream /\ stream \notin played /\ wire[stream] = <<>>
  /\ pc = "reply" => random = [on |-> stream, word |-> 0]
  /\ pc = "return" /\ ingame => stream # oldStream
  /\ pc \in LoginPoints /\ ~reconnecting =>
       oldStream = NULL /\ resume = "loop" /\ (ingame \/ stream \notin played)
  /\ pc = "cycle" => ingame
  /\ pc \in {"input", "flush"} /\ ~ingame => stream = NULL
  /\ pc \in {"loop", "reads"} /\ ~ingame => stream \notin played

\* The sockets of games that are over are closed, but for the one a reconnect
\* has still to close.
ClosedInv ==
  /\ pc \in UpdatePoints => \A s \in played : s # stream => fd[s] = "closed"
  /\ pc \in LoginPoints =>
       \A s \in played : s # oldStream /\ ~(ingame /\ s = stream) => fd[s] = "closed"

\* In game the buffer goes on where the wire of the stream stops.
OutInv ==
  ingame =>
    /\ stream # NULL /\ random.on = stream
    /\ Len(wire[stream]) + Len(out) = random.word
    /\ \A i \in 1..Len(out) : out[i] = [on |-> stream, word |-> Len(wire[stream]) + i - 1]

IInv ==
  /\ TypeOK /\ SilenceInv /\ SocketInv /\ LoginInv /\ ClosedInv /\ OutInv
  /\ InGameHasStream /\ OutgoingInStep

LEMMA InitIInv == Init => IInv
  <1> SUFFICES ASSUME Init PROVE IInv
    OBVIOUS
  <1>1. TypeOK
    <2>1. <<>> \in Seq(Word) /\ [on |-> NULL, word |-> 0] \in Word
      BY BoundsAssumption DEF Word
    <2>2. wire \in [Sockets -> Seq(Word)] /\ out \in Seq(Word) /\ random \in Word
      BY <2>1 DEF Init
    <2>3. /\ idle_net_cycles \in 0..(NetLimit + 1) /\ idle_timeout \in 0..LogoutGrace
          /\ reads \in 0..MaxReads /\ unread \in 0..MaxUnread
      BY BoundsAssumption DEF Init
    <2> QED
      BY <2>2, <2>3 DEF Init, TypeOK, Points
  <1>2. OutgoingInStep
    BY DEF Init, OutgoingInStep
  <1> QED
    BY <1>1, <1>2, BoundsAssumption
    DEF Init, IInv, SilenceInv, SocketInv, LoginInv, ClosedInv, OutInv, InGameHasStream,
        UpdatePoints, LoginPoints

-------------------------------------------------------------------------------

\* A stream is NULL or a socket, never both.
LEMMA NullIsNoSocket == NULL \notin Sockets
  BY BoundsAssumption DEF NULL, Sockets

\* What encoding does to the buffer and the keystream: at most one more opcode,
\* with the keystream's next word.
LEMMA EncodeEffect ==
  ASSUME TypeOK, NEW n \in Encodings, Encode(n)
  PROVE  /\ out' \in Seq(Word) /\ random' \in Word
         /\ random'.on = random.on /\ random'.word = random.word + n
         /\ Len(out') = Len(out) + n /\ n \in 0..1
         /\ \A i \in 1..Len(out) : out'[i] = out[i]
         /\ n = 1 => out'[Len(out) + 1] = [on |-> random.on, word |-> random.word]
  <1> DEFINE new == [i \in 1..n |-> [on |-> random.on, word |-> random.word + i - 1]]
  <1>1. random \in Word /\ out \in Seq(Word)
    BY DEF TypeOK
  <1>2. n \in 0..1 /\ (n = 1 => random.word < MaxWords)
    BY DEF Encodings
  <1>3. random' = [random EXCEPT !.word = @ + n] /\ out' = out \o new
    BY DEF Encode
  <1>4. random' \in Word /\ random'.on = random.on /\ random'.word = random.word + n
    <2>1. random.on \in Sockets \union {NULL} /\ random.word \in 0..MaxWords
            /\ random = [on |-> random.on, word |-> random.word]
      BY <1>1 DEF Word
    <2>2. random.word + n \in 0..MaxWords
      BY <1>2, <2>1, BoundsAssumption
    <2>3. random' = [on |-> random.on, word |-> random.word + n]
      BY <1>3, <2>1
    <2> QED
      BY <2>1, <2>2, <2>3 DEF Word
  <1>5. \A i \in 1..n : [on |-> random.on, word |-> random.word + i - 1] \in Word
    BY <1>1, <1>2, BoundsAssumption DEF Word
  <1>6. new \in Seq(Word) /\ Len(new) = n
    BY <1>2, <1>5
  <1>7. n = 1 => new[1] = [on |-> random.on, word |-> random.word]
    BY <1>1 DEF Word
  <1> HIDE DEF new
  <1>8. out' \in Seq(Word) /\ Len(out') = Len(out) + n
    BY <1>1, <1>3, <1>6, ConcatProperties
  <1>9. \A i \in 1..Len(out) : out'[i] = out[i]
    BY <1>1, <1>3, <1>6, ConcatProperties
  <1>10. n = 1 => out'[Len(out) + 1] = new[1]
    BY <1>1, <1>3, <1>6, ConcatProperties
  <1> QED
    BY <1>2, <1>4, <1>7, <1>8, <1>9, <1>10

\* In game, what is encoded continues the buffer.
LEMMA EncodeKeepsStep ==
  ASSUME TypeOK, OutInv, NEW n \in Encodings, Encode(n), ingame' => ingame,
         ingame' => stream' = stream, wire' = wire
  PROVE  OutInv'
  <1>1. SUFFICES ASSUME ingame' PROVE OutInv'
    BY DEF OutInv
  <1>2. /\ ingame /\ stream' = stream /\ stream # NULL /\ stream \in Sockets
        /\ random.on = stream /\ Len(wire[stream]) + Len(out) = random.word
        /\ \A i \in 1..Len(out) : out[i] = [on |-> stream, word |-> Len(wire[stream]) + i - 1]
    BY <1>1 DEF OutInv, TypeOK
  <1>3. Len(wire[stream]) \in Nat /\ Len(out) \in Nat /\ random.word \in Nat
    BY <1>2 DEF TypeOK, Word
  <1>4. \A i \in 1..Len(out') : out'[i] = [on |-> stream, word |-> Len(wire[stream]) + i - 1]
    <2> SUFFICES ASSUME NEW i \in 1..Len(out')
                 PROVE  out'[i] = [on |-> stream, word |-> Len(wire[stream]) + i - 1]
      OBVIOUS
    <2>1. CASE i \in 1..Len(out)
      BY <1>2, <2>1, EncodeEffect
    <2>2. CASE i \notin 1..Len(out)
      <3>1. n = 1 /\ i = Len(out) + 1
        BY <1>3, <2>2, EncodeEffect
      <3>2. Len(wire[stream]) + i - 1 = random.word
        BY <1>2, <1>3, <3>1
      <3> QED
        BY <1>2, <3>1, <3>2, EncodeEffect
    <2> QED
      BY <2>1, <2>2
  <1>5. Len(wire[stream]) + Len(out') = random'.word /\ random'.on = stream
    <2>1. /\ random'.word = random.word + n /\ random'.on = random.on
          /\ Len(out') = Len(out) + n /\ n \in 0..1
      BY EncodeEffect
    <2>2. Len(wire[stream]) + Len(out) = random.word /\ random.on = stream
      BY <1>2
    <2>3. n \in Nat /\ Len(out) \in Nat /\ Len(wire[stream]) \in Nat
      BY <1>3, <2>1
    <2>4. Len(wire[stream]) + (Len(out) + n) = (Len(wire[stream]) + Len(out)) + n
      <3>1. \A a, b, m \in Nat : a + (b + m) = (a + b) + m
        OBVIOUS
      <3> QED
        BY <2>3, <3>1, Zenon
    <2> QED
      BY <2>1, <2>2, <2>4
  <1> QED
    BY <1>2, <1>4, <1>5 DEF OutInv

\* Reading something leaves the server where it is, and less to be read.
LEMMA TakeEffect ==
  ASSUME TypeOK, Take
  PROVE  stream \in Sockets /\ unread' \in 0..MaxUnread /\ peer' = peer
  <1>1. stream \in Sockets /\ peer' = peer
    BY DEF Take, Readable, TypeOK
  <1>2. unread' \in 0..MaxUnread
    BY BoundsAssumption DEF Take, Readable, TypeOK
  <1> QED
    BY <1>1, <1>2

\* TryReconnect, in a step from input or, with the silence counted, from cycle.
LEMMA ReconnectStep ==
  ASSUME IInv, pc \in {"cycle", "input"}, TryReconnect("input"),
         UNCHANGED <<idle_timeout, reads, wire, server, played>>,
         out' \in Seq(Word), random' \in Word, idle_net_cycles' \in 0..(NetLimit + 1)
  PROVE  IInv'
  <1> USE NullIsNoSocket DEF IInv
  <1>1. ingame' = FALSE /\ (stream = NULL \/ stream \in Sockets)
    BY DEF TryReconnect, Logout, TypeOK
  <1>2. CASE idle_timeout > 0 /\ Logout /\ pc' = "input" /\ UNCHANGED login
    <2>1. stream' = NULL /\ fd' = IF stream # NULL THEN Closed(stream, fd) ELSE fd
      BY <1>2 DEF Logout
    <2>2. TypeOK'
      BY <1>1, <1>2, <2>1 DEF TypeOK, server, Closed, login, Points
    <2>3. SocketInv'
      BY <1>1, <1>2, <2>1 DEF SocketInv, Closed, login, TypeOK
    <2>4. ClosedInv'
      BY <1>1, <1>2, <2>1 DEF ClosedInv, Closed, TypeOK, UpdatePoints, LoginPoints
    <2>5. LoginInv' /\ SilenceInv' /\ OutInv' /\ InGameHasStream'
      BY <1>1, <1>2, <2>1 DEF LoginInv, SilenceInv, OutInv, InGameHasStream, LoginPoints, TypeOK
    <2>6. OutgoingInStep'
      BY DEF OutgoingInStep
    <2> QED
      BY <2>2, <2>3, <2>4, <2>5, <2>6
  <1>3. CASE /\ oldStream' = stream /\ reconnecting' = TRUE /\ resume' = "input"
             /\ pc' = "discover" /\ UNCHANGED conn
    <2>1. TypeOK'
      BY <1>1, <1>3 DEF TypeOK, server, conn, Points
    <2>2. SocketInv' /\ ClosedInv'
      <3>1. stream \in played \union {NULL}
        BY DEF SocketInv, LoginInv
      <3> QED
        BY <1>1, <1>3, <3>1 DEF SocketInv, ClosedInv, conn, UpdatePoints, LoginPoints
    <2>3. LoginInv' /\ SilenceInv' /\ OutInv' /\ InGameHasStream'
      BY <1>1, <1>3 DEF LoginInv, SilenceInv, OutInv, InGameHasStream, LoginPoints
    <2>4. OutgoingInStep'
      BY DEF OutgoingInStep
    <2> QED
      BY <2>1, <2>2, <2>3, <2>4
  <1> QED
    BY <1>2, <1>3 DEF TryReconnect

\* An update, up to the count of the silence.
LEMMA ReadsStep ==
  ASSUME IInv, UpdateGame \/ ReadPacket \/ ReadLogout \/ ReadsDone
  PROVE  IInv'
  <1> USE NullIsNoSocket, BoundsAssumption DEF IInv, conn, login, output, idle, server
  <1>1. CASE UpdateGame
    <2>1. TypeOK'
      BY <1>1 DEF UpdateGame, TypeOK, Points
    <2> QED
      BY <1>1, <2>1 DEF UpdateGame, SilenceInv, SocketInv, LoginInv, ClosedInv, OutInv,
                        InGameHasStream, OutgoingInStep, UpdatePoints, LoginPoints
  <1>2. CASE ReadPacket
    <2>1. TypeOK'
      BY <1>2, TakeEffect DEF ReadPacket, TypeOK
    <2> QED
      BY <1>2, <2>1 DEF ReadPacket, SilenceInv, SocketInv, LoginInv, ClosedInv, OutInv,
                        InGameHasStream, OutgoingInStep
  <1>3. CASE ReadLogout
    <2>1. /\ stream \in Sockets /\ stream' = NULL /\ fd' = Closed(stream, fd)
          /\ ingame' = FALSE /\ pc = "reads" /\ pc' = pc
      BY <1>3, TakeEffect DEF ReadLogout, Logout
    <2>2. TypeOK'
      <3>1. fd' \in [Sockets -> {"none", "open", "eof", "closed"}]
        BY <2>1 DEF TypeOK, Closed
      <3>2. idle_net_cycles' \in 0..(NetLimit + 1) /\ reads' \in 0..MaxReads
        BY <1>3 DEF ReadLogout
      <3> QED
        BY <1>3, <2>1, <3>1, <3>2, TakeEffect DEF ReadLogout, TypeOK
    <2>3. SocketInv' /\ ClosedInv'
      BY <1>3, <2>1 DEF ReadLogout, SocketInv, ClosedInv, Closed, TypeOK, LoginPoints
    <2>4. LoginInv' /\ SilenceInv' /\ OutInv' /\ InGameHasStream' /\ OutgoingInStep'
      BY <1>3, <2>1 DEF ReadLogout, LoginInv, SilenceInv, OutInv, InGameHasStream,
                        OutgoingInStep, LoginPoints, TypeOK
    <2> QED
      BY <2>2, <2>3, <2>4
  <1>4. CASE ReadsDone
    <2>1. TypeOK'
      BY <1>4 DEF ReadsDone, TypeOK, Points
    <2> QED
      BY <1>4, <2>1 DEF ReadsDone, SilenceInv, SocketInv, LoginInv, ClosedInv, OutInv,
                        InGameHasStream, OutgoingInStep, UpdatePoints, LoginPoints
  <1> QED
    BY <1>1, <1>2, <1>3, <1>4

LEMMA CountSilenceStep ==
  ASSUME IInv, CountSilence
  PROVE  IInv'
  <1> USE NullIsNoSocket, BoundsAssumption DEF IInv
  <1>1. PICK n \in Encodings : Encode(n)
    BY DEF CountSilence
  <1>2. pc = "cycle" /\ ingame /\ idle_net_cycles' = idle_net_cycles + 1
          /\ idle_net_cycles \in 0..NetLimit
    BY DEF CountSilence, LoginInv, SilenceInv, TypeOK
  <1>3. out' \in Seq(Word) /\ random' \in Word /\ idle_net_cycles' \in 0..(NetLimit + 1)
    BY <1>1, <1>2, EncodeEffect
  <1>4. UNCHANGED <<idle_timeout, reads, wire, server, played>>
    BY DEF CountSilence
  <1>5. CASE idle_net_cycles' > NetLimit
    BY <1>2, <1>3, <1>4, <1>5, ReconnectStep DEF CountSilence
  <1>6. CASE ~(idle_net_cycles' > NetLimit)
    <2>1. pc' = "input" /\ UNCHANGED <<ingame, conn, login>>
      BY <1>6 DEF CountSilence
    <2>2. TypeOK'
      BY <1>3, <1>4, <2>1 DEF TypeOK, server, conn, login, Points
    <2>3. OutInv'
      BY <1>1, <1>4, <2>1, EncodeKeepsStep DEF conn
    <2>4. SilenceInv' /\ SocketInv' /\ LoginInv' /\ ClosedInv' /\ InGameHasStream' /\ OutgoingInStep'
      BY <1>2, <1>4, <1>6, <2>1
      DEF SilenceInv, SocketInv, LoginInv, ClosedInv, InGameHasStream, OutgoingInStep,
          UpdatePoints, LoginPoints, conn, login
    <2> QED
      BY <2>2, <2>3, <2>4
  <1> QED
    BY <1>5, <1>6

\* The rest of the update.
LEMMA EndInputStep ==
  ASSUME IInv, EndInput
  PROVE  IInv'
  <1> USE NullIsNoSocket, BoundsAssumption DEF IInv
  <1>1. PICK n \in Encodings : Encode(n)
    BY DEF EndInput
  <1>2. /\ pc = "input" /\ pc' = "flush" /\ idle_timeout' \in 0..LogoutGrace
        /\ UNCHANGED <<ingame, conn, idle_net_cycles, reads, login, wire, server, played>>
    BY DEF EndInput, TypeOK
  <1>3. out' \in Seq(Word) /\ random' \in Word
    BY <1>1, EncodeEffect
  <1>4. TypeOK'
    BY <1>2, <1>3 DEF TypeOK, server, conn, login, Points
  <1>5. OutInv'
    BY <1>1, <1>2, EncodeKeepsStep DEF conn
  <1>6. SilenceInv' /\ SocketInv' /\ LoginInv' /\ ClosedInv' /\ InGameHasStream' /\ OutgoingInStep'
    BY <1>2
    DEF SilenceInv, SocketInv, LoginInv, ClosedInv, InGameHasStream, OutgoingInStep,
        UpdatePoints, LoginPoints, conn, login
  <1> QED
    BY <1>4, <1>5, <1>6

LEMMA FlushStep ==
  ASSUME IInv, Flush
  PROVE  IInv'
  <1> USE NullIsNoSocket, BoundsAssumption DEF IInv
  <1>1. /\ pc = "flush" /\ pc' = "loop"
        /\ UNCHANGED <<ingame, stream, fd, idle_net_cycles, idle_timeout, reads, reconnecting,
                       oldStream, resume, random, server, played>>
    BY DEF Flush, conn, idle, login
  <1>2. CASE UNCHANGED <<wire, out>>
    <2>1. TypeOK'
      BY <1>1, <1>2 DEF TypeOK, server, Points
    <2>2. SilenceInv' /\ SocketInv' /\ OutInv' /\ OutgoingInStep'
      BY <1>1, <1>2 DEF SilenceInv, SocketInv, OutInv, OutgoingInStep
    <2>3. LoginInv' /\ ClosedInv' /\ InGameHasStream'
      BY <1>1, <1>2 DEF LoginInv, ClosedInv, InGameHasStream, TypeOK, UpdatePoints, LoginPoints
    <2> QED
      BY <2>1, <2>2, <2>3
  <1>3. CASE stream # NULL /\ out # <<>>
    <2>1. ingame /\ stream \in Sockets /\ fd[stream] = "open"
      BY <1>1, <1>3 DEF LoginInv, InGameHasStream, TypeOK
    <2>2. wire' = [wire EXCEPT ![stream] = wire[stream] \o out] /\ out' = <<>>
      BY <1>3, <2>1 DEF Flush
    <2>3. wire[stream] \in Seq(Word) /\ out \in Seq(Word)
      BY <2>1 DEF TypeOK
    <2> DEFINE w == wire[stream] \o out
    <2>4. /\ w \in Seq(Word) /\ Len(w) = Len(wire[stream]) + Len(out)
          /\ Len(wire[stream]) \in Nat /\ Len(out) \in Nat
      BY <2>3, ConcatProperties
    <2>5. \A i \in 1..Len(w) : w[i] = [on |-> stream, word |-> i - 1]
      <3> SUFFICES ASSUME NEW i \in 1..Len(w) PROVE w[i] = [on |-> stream, word |-> i - 1]
        OBVIOUS
      <3>1. CASE i <= Len(wire[stream])
        <4>1. w[i] = wire[stream][i]
          BY <2>3, <2>4, <3>1, ConcatProperties
        <4>2. i \in DOMAIN wire[stream]
          BY <2>3, <2>4, <3>1
        <4> QED
          BY <2>1, <4>1, <4>2 DEF OutgoingInStep
      <3>2. CASE i > Len(wire[stream])
        <4>1. w[i] = out[i - Len(wire[stream])] /\ i - Len(wire[stream]) \in 1..Len(out)
          BY <2>3, <2>4, <3>2, ConcatProperties
        <4>2. out[i - Len(wire[stream])] =
                [on |-> stream, word |-> Len(wire[stream]) + (i - Len(wire[stream])) - 1]
          BY <2>1, <4>1 DEF OutInv
        <4>3. Len(wire[stream]) + (i - Len(wire[stream])) - 1 = i - 1
          BY <2>4
        <4> QED
          BY <4>1, <4>2, <4>3
      <3> QED
        BY <2>4, <3>1, <3>2
    <2>6. wire'[stream] = w /\ \A s \in Sockets \ {stream} : wire'[s] = wire[s]
      BY <2>1, <2>2 DEF TypeOK
    <2> HIDE DEF w
    <2>7. TypeOK'
      <3>1. out' \in Seq(Word)
        BY <2>2
      <3>2. wire' \in [Sockets -> Seq(Word)]
        BY <2>1, <2>2, <2>4 DEF TypeOK, w
      <3> QED
        BY <1>1, <3>1, <3>2 DEF TypeOK, server, Points
    <2>8. OutgoingInStep'
      <3> SUFFICES ASSUME NEW s \in Sockets, NEW i \in DOMAIN wire'[s]
                   PROVE  wire'[s][i] = [on |-> s, word |-> i - 1]
        BY DEF OutgoingInStep
      <3>1. CASE s = stream
        BY <2>4, <2>5, <2>6, <3>1
      <3>2. CASE s # stream
        BY <2>6, <3>2 DEF OutgoingInStep
      <3> QED
        BY <3>1, <3>2
    <2>9. OutInv'
      <3>1. Len(wire'[stream]) = random.word /\ random.on = stream /\ Len(out') = 0
        BY <2>1, <2>2, <2>4, <2>6 DEF OutInv
      <3>2. random.word \in Nat
        BY <2>4, <2>6, <3>1
      <3> QED
        BY <1>1, <1>3, <3>1, <3>2 DEF OutInv
    <2>10. SocketInv'
      BY <1>1, <2>1, <2>6 DEF SocketInv
    <2>11. SilenceInv' /\ LoginInv' /\ ClosedInv' /\ InGameHasStream'
      BY <1>1, <2>1 DEF SilenceInv, LoginInv, ClosedInv, InGameHasStream, UpdatePoints, LoginPoints
    <2> QED
      BY <2>7, <2>8, <2>9, <2>10, <2>11
  <1> QED
    BY <1>2, <1>3 DEF Flush

LEMMA Stutter ==
  ASSUME IInv, UNCHANGED vars
  PROVE  IInv'
  <1> USE DEF IInv, vars, conn, idle, login, output, server
  <1>1. TypeOK'
    BY DEF TypeOK
  <1>2. SilenceInv' /\ SocketInv' /\ ClosedInv' /\ InGameHasStream'
    BY DEF SilenceInv, SocketInv, ClosedInv, InGameHasStream
  <1>3. LoginInv' /\ OutInv' /\ OutgoingInStep'
    BY DEF LoginInv, OutInv, OutgoingInStep
  <1> QED
    BY <1>1, <1>2, <1>3

\* What happens between updates, and the server's end.
LEMMA OutsideStep ==
  ASSUME IInv,
         \/ StartLogin \/ LogoutChord \/ ClientDrop \/ TitleScreen \/ Undefined
         \/ \E s \in Sockets : ServerGone(s)
  PROVE  IInv'
  <1> USE NullIsNoSocket, BoundsAssumption DEF IInv
  <1>1. CASE StartLogin
    <2>1. /\ pc = "loop" /\ ~ingame /\ pc' = "discover"
          /\ reconnecting' = FALSE /\ resume' = "loop" /\ oldStream' = NULL
          /\ UNCHANGED <<ingame, stream, fd, idle_net_cycles, idle_timeout, reads,
                         out, random, wire, server, played>>
      BY <1>1 DEF StartLogin, conn, idle, output
    <2>2. TypeOK'
      BY <2>1 DEF TypeOK, server, Points
    <2>3. SilenceInv' /\ SocketInv' /\ OutInv' /\ OutgoingInStep' /\ InGameHasStream'
      BY <2>1 DEF SilenceInv, SocketInv, OutInv, OutgoingInStep, InGameHasStream
    <2>4. LoginInv' /\ ClosedInv'
      BY <2>1 DEF LoginInv, ClosedInv, TypeOK, UpdatePoints, LoginPoints
    <2> QED
      BY <2>2, <2>3, <2>4
  <1>2. CASE LogoutChord
    <2>1. /\ pc = "loop" /\ ingame /\ stream \in Sockets /\ pc' = pc
          /\ stream' = NULL /\ fd' = Closed(stream, fd) /\ ingame' = FALSE
          /\ UNCHANGED <<idle_net_cycles, idle_timeout, reads, reconnecting, oldStream, resume,
                         out, random, wire, server, played>>
      BY <1>2 DEF LogoutChord, Logout, idle, login, output, InGameHasStream, TypeOK
    <2>2. fd' \in [Sockets -> {"none", "open", "eof", "closed"}]
      BY <2>1 DEF TypeOK, Closed
    <2>3. TypeOK'
      BY <2>1, <2>2 DEF TypeOK, server
    <2>4. SocketInv' /\ ClosedInv'
      BY <2>1 DEF SocketInv, ClosedInv, Closed, TypeOK, LoginPoints
    <2>5. SilenceInv' /\ LoginInv' /\ OutInv' /\ OutgoingInStep' /\ InGameHasStream'
      BY <2>1 DEF SilenceInv, LoginInv, OutInv, OutgoingInStep, InGameHasStream, LoginPoints, TypeOK
    <2> QED
      BY <2>3, <2>4, <2>5
  <1>3. CASE ClientDrop
    <2>1. out' \in Seq(Word) /\ random' \in Word /\ idle_net_cycles' \in 0..(NetLimit + 1)
      BY <1>3 DEF ClientDrop, output, idle, TypeOK
    <2> QED
      BY <1>3, <2>1, ReconnectStep DEF ClientDrop, output, idle
  <1>4. CASE TitleScreen \/ Undefined
    BY <1>4, Stutter DEF TitleScreen, Undefined
  <1>5. ASSUME NEW s \in Sockets, ServerGone(s) PROVE IInv'
    <2>1. peer' \in [Sockets -> {"none", "up", "gone"}] /\ unread' \in 0..MaxUnread
      BY <1>5 DEF ServerGone, TypeOK
    <2>2. UNCHANGED <<pc, ingame, stream, fd, idle_net_cycles, idle_timeout, reads, reconnecting,
                      oldStream, resume, out, random, wire, played>>
      BY <1>5 DEF ServerGone, conn, idle, login, output
    <2>3. TypeOK'
      BY <2>1, <2>2 DEF TypeOK
    <2> QED
      BY <2>2, <2>3
      DEF SilenceInv, SocketInv, LoginInv, ClosedInv, OutInv, OutgoingInStep, InGameHasStream
  <1> QED
    BY <1>1, <1>2, <1>3, <1>4, <1>5

\* The steps of a login that only move on.
LEMMA MoveOnStep ==
  ASSUME IInv, Discover \/ ReplyAgain \/ ReplyRefused
  PROVE  IInv'
  <1> USE NullIsNoSocket DEF IInv
  <1>1. /\ pc \in {"discover", "reply"} /\ pc' \in {"open", "return", "discover"}
        /\ UNCHANGED <<ingame, stream, fd, idle_net_cycles, idle_timeout, reads, reconnecting,
                       oldStream, resume, out, random, wire, played>>
    BY DEF Discover, ReplyAgain, ReplyRefused, Replied, conn, idle, login, output
  <1>2. TypeOK'
    <2>1. peer' = peer /\ unread' \in 0..MaxUnread
      BY TakeEffect DEF Discover, ReplyAgain, ReplyRefused, Replied, server, TypeOK
    <2> QED
      BY <1>1, <2>1 DEF TypeOK, Points
  <1>3. SilenceInv' /\ SocketInv' /\ OutInv' /\ OutgoingInStep' /\ InGameHasStream'
    BY <1>1 DEF SilenceInv, SocketInv, OutInv, OutgoingInStep, InGameHasStream, LoginInv
  <1>4. LoginInv' /\ ClosedInv'
    BY <1>1 DEF LoginInv, ClosedInv, UpdatePoints, LoginPoints
  <1> QED
    BY <1>2, <1>3, <1>4

LEMMA OpenSocketStep ==
  ASSUME IInv, OpenSocket
  PROVE  IInv'
  <1> USE NullIsNoSocket DEF IInv
  <1>1. /\ pc = "open" /\ ~ingame /\ unread' \in 0..MaxUnread
        /\ UNCHANGED <<ingame, idle_net_cycles, idle_timeout, reads, reconnecting,
                       oldStream, resume, out, random, wire, played>>
    BY BoundsAssumption DEF OpenSocket, idle, login, output, LoginInv
  <1>2. ASSUME NEW s \in Sockets \ played, fd' = [fd EXCEPT ![s] = "open"],
               peer' = [peer EXCEPT ![s] = "up"], stream' = s, pc' = "seed"
        PROVE  IInv'
    <2>1. s \notin played /\ s # oldStream /\ wire[s] = <<>> /\ s # NULL
      BY <1>2 DEF SocketInv
    <2>2. fd' \in [Sockets -> {"none", "open", "eof", "closed"}]
            /\ peer' \in [Sockets -> {"none", "up", "gone"}]
      BY <1>2 DEF TypeOK
    <2>3. TypeOK'
      BY <1>1, <1>2, <2>2 DEF TypeOK, server, Points
    <2>4. SocketInv' /\ ClosedInv'
      BY <1>1, <1>2, <2>1 DEF SocketInv, ClosedInv, TypeOK, UpdatePoints, LoginPoints
    <2>5. LoginInv' /\ SilenceInv' /\ OutInv' /\ OutgoingInStep' /\ InGameHasStream'
      BY <1>1, <1>2, <2>1
      DEF LoginInv, SilenceInv, OutInv, OutgoingInStep, InGameHasStream, LoginPoints
    <2> QED
      BY <2>3, <2>4, <2>5
  <1>3. CASE stream' = NULL /\ pc' = "return" /\ UNCHANGED <<fd, peer>>
    <2>1. TypeOK'
      BY <1>1, <1>3 DEF TypeOK, server, Points
    <2>2. SocketInv' /\ ClosedInv'
      BY <1>1, <1>3 DEF SocketInv, ClosedInv, UpdatePoints, LoginPoints
    <2>3. LoginInv' /\ SilenceInv' /\ OutInv' /\ OutgoingInStep' /\ InGameHasStream'
      BY <1>1, <1>3 DEF LoginInv, SilenceInv, OutInv, OutgoingInStep, InGameHasStream,
                        LoginPoints, TypeOK
    <2> QED
      BY <2>1, <2>2, <2>3
  <1> QED
    BY <1>2, <1>3 DEF OpenSocket

\* The exchange with the server on the fresh socket, up to its answer.
LEMMA ExchangeStep ==
  ASSUME IInv, SendLogin \/ SeedFails \/ NoReply
  PROVE  IInv'
  <1> USE NullIsNoSocket, BoundsAssumption DEF IInv
  <1>1. /\ pc \in {"seed", "reply"} /\ ~ingame /\ stream \in Sockets /\ stream # oldStream
        /\ stream \notin played /\ wire[stream] = <<>>
    BY DEF SendLogin, SeedFails, NoReply, LoginInv, TypeOK
  <1>2. /\ UNCHANGED <<ingame, stream, idle_net_cycles, idle_timeout, reads, reconnecting,
                       oldStream, resume, wire, played>>
        /\ peer' = peer /\ unread' \in 0..MaxUnread
        /\ fd' \in [Sockets -> {"none", "open", "eof", "closed"}]
        /\ \A s \in Sockets \ {stream} : fd'[s] = fd[s]
    <2>1. peer' = peer /\ unread' \in 0..MaxUnread
      BY TakeEffect DEF SendLogin, SeedFails, NoReply, server, TypeOK
    <2> QED
      BY <1>1, <2>1 DEF SendLogin, SeedFails, NoReply, conn, idle, login, output, Closed, TypeOK
  <1>3. \/ pc' = "reply" /\ random' = [on |-> stream, word |-> 0] /\ out' = <<LoginBlock>>
        \/ pc' = "return" /\ UNCHANGED <<out, random>>
    BY DEF SendLogin, SeedFails, NoReply, output
  <1>4. LoginBlock \in Word /\ [on |-> stream, word |-> 0] \in Word
    BY <1>1 DEF LoginBlock, Word
  <1>5. out' \in Seq(Word) /\ random' \in Word
    <2>1. <<LoginBlock>> \in Seq(Word)
      BY <1>4
    <2> QED
      BY <1>3, <1>4, <2>1 DEF TypeOK
  <1>6. TypeOK'
    BY <1>2, <1>3, <1>5 DEF TypeOK, server, Points
  <1>7. SocketInv'
    BY <1>1, <1>2 DEF SocketInv, TypeOK
  <1>8. ClosedInv'
    BY <1>1, <1>2, <1>3 DEF ClosedInv, TypeOK, UpdatePoints, LoginPoints
  <1>9. LoginInv' /\ SilenceInv' /\ OutInv' /\ OutgoingInStep' /\ InGameHasStream'
    BY <1>1, <1>2, <1>3
    DEF LoginInv, SilenceInv, OutInv, OutgoingInStep, InGameHasStream, LoginPoints
  <1> QED
    BY <1>6, <1>7, <1>8, <1>9

\* The server takes the player in, for a new session or the one there was.
LEMMA AcceptedStep ==
  ASSUME IInv, ReplyNew \/ ReplyResume
  PROVE  IInv'
  <1> USE NullIsNoSocket, BoundsAssumption DEF IInv
  <1>1. /\ pc = "reply" /\ ~ingame /\ stream \in Sockets /\ stream # oldStream
        /\ stream \notin played /\ wire[stream] = <<>> /\ random = [on |-> stream, word |-> 0]
        /\ fd[stream] = "open"
    BY DEF ReplyNew, ReplyResume, Replied, LoginInv, TypeOK
  <1>2. /\ ingame' = TRUE /\ out' = <<>> /\ idle_net_cycles' = 0
        /\ idle_timeout' \in {0, idle_timeout}
        /\ played' = played \union {stream} /\ pc' = "return"
        /\ UNCHANGED <<stream, fd, reads, reconnecting, oldStream, resume, random, wire>>
    BY DEF ReplyNew, ReplyResume, conn, login
  <1>3. out' \in Seq(Word) /\ Len(out') = 0 /\ Len(wire'[stream]) = 0
    BY <1>1, <1>2
  <1>4. TypeOK'
    <2>1. idle_timeout' \in 0..LogoutGrace /\ idle_net_cycles' \in 0..(NetLimit + 1)
      BY <1>2 DEF TypeOK
    <2>2. peer' = peer /\ unread' \in 0..MaxUnread
      BY TakeEffect DEF ReplyNew, ReplyResume, Replied
    <2> QED
      BY <1>1, <1>2, <1>3, <2>1, <2>2 DEF TypeOK, Points
  <1>5. OutInv'
    BY <1>1, <1>2, <1>3 DEF OutInv
  <1>6. SocketInv' /\ ClosedInv'
    BY <1>1, <1>2 DEF SocketInv, ClosedInv, TypeOK, UpdatePoints, LoginPoints
  <1>7. LoginInv' /\ SilenceInv' /\ OutgoingInStep' /\ InGameHasStream'
    BY <1>1, <1>2 DEF LoginInv, SilenceInv, OutgoingInStep, InGameHasStream, LoginPoints
  <1> QED
    BY <1>4, <1>5, <1>6, <1>7

\* The login is over; a reconnect closes the stream it started from, and without
\* a game the other one too.
LEMMA ReturnStep ==
  ASSUME IInv, Return
  PROVE  IInv'
  <1> USE NullIsNoSocket DEF IInv
  <1>1. /\ pc = "return" /\ reconnecting' = FALSE /\ oldStream' = NULL /\ resume' = "loop"
        /\ UNCHANGED <<ingame, idle_net_cycles, idle_timeout, reads, out, random, wire, server, played>>
    BY DEF Return, idle, output
  <1>2. CASE ~reconnecting
    <2>1. /\ pc' = "loop" /\ UNCHANGED <<stream, fd>>
          /\ oldStream = NULL /\ (ingame \/ stream \notin played)
      BY <1>1, <1>2 DEF Return, conn, LoginInv, LoginPoints
    <2>2. TypeOK'
      BY <1>1, <2>1 DEF TypeOK, server, Points
    <2>3. SilenceInv' /\ SocketInv' /\ OutInv' /\ OutgoingInStep' /\ InGameHasStream'
      BY <1>1, <2>1 DEF SilenceInv, SocketInv, OutInv, OutgoingInStep, InGameHasStream
    <2>4. LoginInv' /\ ClosedInv'
      BY <1>1, <2>1 DEF LoginInv, ClosedInv, TypeOK, UpdatePoints, LoginPoints
    <2> QED
      BY <2>2, <2>3, <2>4
  <1>3. CASE reconnecting /\ oldStream = NULL
    <2>1. pc' = "undefined" /\ UNCHANGED <<stream, fd>>
      BY <1>3 DEF Return, conn
    <2>2. TypeOK'
      BY <1>1, <2>1 DEF TypeOK, server, Points
    <2>3. SilenceInv' /\ SocketInv' /\ OutInv' /\ OutgoingInStep' /\ InGameHasStream'
      BY <1>1, <2>1 DEF SilenceInv, SocketInv, OutInv, OutgoingInStep, InGameHasStream
    <2>4. LoginInv' /\ ClosedInv'
      BY <1>1, <2>1 DEF LoginInv, ClosedInv, UpdatePoints, LoginPoints
    <2> QED
      BY <2>2, <2>3, <2>4
  <1>4. CASE reconnecting /\ oldStream # NULL
    <2>1. /\ pc' = resume /\ stream' = IF ingame THEN stream ELSE NULL
          /\ fd' = Closed(oldStream, IF ingame \/ stream = NULL THEN fd ELSE Closed(stream, fd))
          /\ oldStream \in Sockets /\ stream \in Sockets \union {NULL}
          /\ ingame => stream # oldStream /\ stream # NULL /\ fd[stream] = "open"
      BY <1>1, <1>4 DEF Return, TypeOK, LoginInv, InGameHasStream
    <2>2. /\ fd' \in [Sockets -> {"none", "open", "eof", "closed"}]
          /\ fd'[oldStream] = "closed"
          /\ \A s \in Sockets : fd'[s] = fd[s] \/ fd'[s] = "closed"
          /\ ingame => fd'[stream] = fd[stream]
      BY <2>1 DEF Closed, TypeOK
    <2>3. TypeOK'
      BY <1>1, <2>1, <2>2 DEF TypeOK, server, Points
    <2>4. SocketInv' /\ ClosedInv'
      BY <1>1, <2>1, <2>2 DEF SocketInv, ClosedInv, TypeOK, LoginPoints
    <2>5. LoginInv' /\ SilenceInv' /\ OutInv' /\ OutgoingInStep' /\ InGameHasStream'
      BY <1>1, <2>1, <2>2
      DEF LoginInv, SilenceInv, OutInv, OutgoingInStep, InGameHasStream, LoginPoints, TypeOK
    <2> QED
      BY <2>3, <2>4, <2>5
  <1> QED
    BY <1>2, <1>3, <1>4

LEMMA NextIInv == IInv /\ [Next]_vars => IInv'
  <1> SUFFICES ASSUME IInv, [Next]_vars PROVE IInv'
    OBVIOUS
  <1>1. CASE Update
    BY <1>1, ReadsStep, CountSilenceStep, EndInputStep, FlushStep DEF Update
  <1>2. CASE ClientLogin
    BY <1>2, MoveOnStep, OpenSocketStep, ExchangeStep, AcceptedStep, ReturnStep DEF ClientLogin
  <1> QED
    BY <1>1, <1>2, OutsideStep, Stutter DEF Next

\* The inductive invariant of the session.
LEMMA Invariant == Spec => []IInv
  BY InitIInv, NextIInv, PTL DEF Spec

-------------------------------------------------------------------------------

\* The types of the session hold for any bounds: the silence is never counted past
\* its limit, the keystream never past the words of its connection.
THEOREM TypeCorrect == Spec => []TypeOK
  <1>1. IInv => TypeOK
    BY DEF IInv
  <1> QED
    BY <1>1, Invariant, PTL

\* A client in game has an open stream, also in the rest of an update in which
\* client_try_reconnect replaced it.
THEOREM GameHasStream == Spec => []InGameHasStream
  <1>1. IInv => InGameHasStream
    BY DEF IInv
  <1> QED
    BY <1>1, Invariant, PTL

\* client_try_reconnect and client_logout leave no socket of a game open, whatever
\* the login in between ran into.
THEOREM NoLeak == Spec => []NoGameSocketLeaks
  <1>1. IInv => NoGameSocketLeaks
    BY DEF IInv, ClosedInv, NoGameSocketLeaks, UpdatePoints
  <1> QED
    BY <1>1, Invariant, PTL

\* On every connection the opcodes are encoded for it, with consecutive words:
\* p1isaac, the login and the flush at the end of the update fit together.
THEOREM OpcodesInStep == Spec => []OutgoingInStep
  <1>1. IInv => OutgoingInStep
    BY DEF IInv
  <1> QED
    BY <1>1, Invariant, PTL

\* An update that goes on without its session has no stream to write to.
THEOREM MuteWithoutSession == Spec => []UpdateWithoutSessionIsMute
  <1>1. IInv => UpdateWithoutSessionIsMute
    BY DEF IInv, LoginInv, UpdateWithoutSessionIsMute
  <1> QED
    BY <1>1, Invariant, PTL

-------------------------------------------------------------------------------
(***************************************************************************)
(* The entities.                                                           *)
(***************************************************************************)

\* The server's list is the client's, or empty after a reconnect.
ListInv == E!Defined => serverIds \in {ids, <<>>}

\* Each entity stands where the server has it.
PlaceInv ==
  E!Defined =>
    /\ placed => localAt = base + localTile
    /\ \A k \in DOMAIN serverIds :
          slot[serverIds[k]] = "live" /\ where[serverIds[k]] = base + tile[serverIds[k]]

\* Whose look the server need not tell again has it in the buffer, if it is a
\* player, and in its slot, if it has one.
LookInv ==
  \A i \in Ids : sent[i] = "new" =>
      /\ kind = "player" => buffer[i] = "new"
      /\ slot[i] # "none" => look[i] = "new"

ListedLooks == E!Defined => \A k \in DOMAIN serverIds : look[serverIds[k]] = sent[serverIds[k]]

EntityInv == E!TypeOK /\ ListInv /\ PlaceInv /\ LookInv /\ ListedLooks

LEMMA EntityInit == E!Init => EntityInv
  <1> SUFFICES ASSUME E!Init PROVE EntityInv
    OBVIOUS
  <1>1. /\ Places \subseteq Int /\ Bases \subseteq Int
    BY EntitiesAssumption DEF E!EntitiesAssumption
  <1>2. <<>> \in Seq(Ids)
    OBVIOUS
  <1>3. E!TypeOK
    <2>1. E!Nothing \in [Ids -> E!Slots] /\ E!Nothing \in [Ids -> E!Looks]
      BY DEF E!Nothing, E!Slots, E!Looks
    <2>2. /\ kind \in Kinds /\ base \in Bases /\ localAt \in Places /\ localTile = 0
          /\ ids = <<>> /\ serverIds = <<>>
          /\ slot = E!Nothing /\ look = E!Nothing /\ buffer = E!Nothing /\ sent = E!Nothing
      BY DEF E!Init
    <2>3. ids \in Seq(Ids) /\ serverIds \in Seq(Ids)
      BY <1>2, <2>2
    <2>4. /\ slot \in [Ids -> E!Slots] /\ look \in [Ids -> E!Looks]
          /\ buffer \in [Ids -> E!Looks] /\ sent \in [Ids -> E!Looks]
      BY <2>1, <2>2
    <2>5. kind \in Kinds /\ base \in Bases /\ localAt \in Places /\ localTile \in Int
      BY <2>2
    <2>6. placed \in BOOLEAN
      BY Zenon DEF E!Init
    <2>7. /\ seen = {} /\ tile = [i \in Ids |-> 0] /\ where = [i \in Ids |-> localAt]
          /\ localAt \in Places
      BY DEF E!Init
    <2>8. seen \subseteq Ids /\ tile \in [Ids -> Int] /\ where \in [Ids -> Places]
      BY <2>7
    <2> QED
      BY <2>3, <2>4, <2>5, <2>6, <2>8 DEF E!TypeOK
  <1>4. ~placed
    BY DEF E!Init
  <1>5. ListInv /\ PlaceInv /\ LookInv /\ ListedLooks
    BY <1>4 DEF E!Init, ListInv, PlaceInv, LookInv, ListedLooks, E!Nothing
  <1> QED
    BY <1>3, <1>5 DEF EntityInv

\* The invariant says what the properties say.
LEMMA EntityImplies == EntityInv => InStep /\ LooksRight
  <1> SUFFICES ASSUME EntityInv PROVE InStep /\ LooksRight
    OBVIOUS
  <1>1. /\ ids \in Seq(Ids) /\ serverIds \in Seq(Ids)
    BY DEF EntityInv, E!TypeOK
  <1>2. E!ToSet(serverIds) = {serverIds[k] : k \in DOMAIN serverIds}
    BY DEF E!ToSet
  <1>3. ASSUME E!Defined PROVE serverIds = SubSeq(ids, 1, Len(serverIds))
    <2>1. CASE serverIds = ids
      BY <1>1, <2>1
    <2>2. CASE serverIds = <<>>
      <3>1. SubSeq(ids, 1, 0) = <<>>
        BY <1>1
      <3> QED
        BY <2>2, <3>1
    <2> QED
      BY <1>3, <2>1, <2>2 DEF EntityInv, ListInv
  <1>4. E!InStep
    BY <1>2, <1>3 DEF E!InStep, EntityInv, PlaceInv
  <1>5. E!LooksRight
    BY <1>2 DEF E!LooksRight, EntityInv, ListedLooks
  <1> QED
    BY <1>4, <1>5 DEF InStep, LooksRight, EntityInv

-----------------------------------------------------------------------------

LEMMA FiniteSetsOfEntities == \A S : E!Cardinality(S) = Cardinality(S)
  BY Zenon DEF E!Cardinality, Cardinality

\* What is kept of a list is a list.
LEMMA KeptIsList ==
  ASSUME NEW n \in Nat, NEW ops \in [1..n -> {"stay", "walk", "gone"}],
         NEW order \in E!InOrder(E!Staying(ops)),
         NEW list \in Seq(Ids), \A k \in 1..n : k \in DOMAIN list
  PROVE  /\ E!Kept(list, order) \in Seq(Ids)
         /\ \A k \in DOMAIN E!Kept(list, order) :
              order[k] \in E!Staying(ops) /\ E!Kept(list, order)[k] = list[order[k]]
         /\ DOMAIN E!Kept(list, order) = DOMAIN order
  <1> DEFINE S == E!Staying(ops)
  <1>1. Len(ops) = n /\ S \subseteq 1..n
    BY DEF E!Staying
  <1>2. E!Cardinality(S) \in Nat
    <2>1. IsFiniteSet(1..n)
      BY FS_Interval
    <2>2. IsFiniteSet(S)
      BY <1>1, <2>1, FS_Subset
    <2> QED
      BY <2>2, FS_CardinalityType, FiniteSetsOfEntities
  <1>3. order \in [1..E!Cardinality(S) -> S]
    BY DEF E!InOrder
  <1> HIDE DEF S
  <1>4. /\ DOMAIN order = 1..E!Cardinality(S)
        /\ \A k \in DOMAIN order : order[k] \in S /\ list[order[k]] \in Ids
    <2>1. \A j \in S : list[j] \in Ids
      BY <1>1
    <2> QED
      BY <1>3, <2>1
  <1>5. [k \in DOMAIN order |-> list[order[k]]] \in Seq(Ids)
    BY <1>2, <1>4
  <1> QED
    BY <1>4, <1>5 DEF E!Kept, S

\* What one packet does to the list, the slots, the tiles and the looks.
LEMMA InfoKeeps ==
  ASSUME EntityInv, E!Defined,
         NEW ops \in E!Ops, NEW adds \in Seq(Ids), NEW named \in SUBSET Ids,
         NEW order \in E!InOrder(E!Staying(ops)),
         E!Tells(ops, order, adds, named),
         NEW blocks \in {named, named \ E!ToSet(adds)},
         \/ kind = "player" /\ blocks = named
         \/ kind = "npc" /\ E!ToSet(adds) \subseteq named,
         E!Info(ops, order, adds, blocks),
         localAt' \in Places, localTile' \in Int, localAt' = base + localTile', placed' = TRUE
  PROVE  EntityInv'
  <1> DEFINE Added == {adds[k] : k \in DOMAIN adds}
             kept == E!Kept(ids, order)
             stamped == seen \cup E!ToSet(kept) \cup E!ToSet(adds)
             removed == E!Removed(ops)
             dropped == {k \in DOMAIN removed : removed[k] \notin stamped}
             slots == [i \in Ids |-> IF i \in Added /\ slot[i] = "none" THEN "live" ELSE slot[i]]
  <1>0. Places \subseteq Int /\ Bases \subseteq Int
    BY EntitiesAssumption DEF E!EntitiesAssumption
  <1>1. /\ ids \in Seq(Ids) /\ serverIds \in {ids, <<>>}
        /\ ops \in [1..Len(serverIds) -> {"stay", "walk", "gone"}]
        /\ Len(ops) = Len(serverIds) /\ Len(serverIds) \in Nat
        /\ \A k \in 1..Len(ops) : /\ k \in DOMAIN ids /\ k \in DOMAIN serverIds
                                  /\ serverIds[k] = ids[k] /\ ids[k] \in Ids
    BY DEF EntityInv, ListInv, E!TypeOK, E!Ops
  <1>2. /\ kept \in Seq(Ids) /\ E!Kept(serverIds, order) = kept
        /\ \A k \in DOMAIN kept : order[k] \in E!Staying(ops) /\ kept[k] = ids[order[k]]
    <2>1. /\ kept \in Seq(Ids) /\ DOMAIN kept = DOMAIN order
          /\ \A k \in DOMAIN kept : order[k] \in E!Staying(ops) /\ kept[k] = ids[order[k]]
      <3> DEFINE n == Len(serverIds)
      <3>1. /\ n \in Nat /\ ops \in [1..n -> {"stay", "walk", "gone"}] /\ ids \in Seq(Ids)
            /\ \A k \in 1..n : k \in DOMAIN ids
        BY <1>1
      <3> HIDE DEF n
      <3> QED
        BY <3>1, KeptIsList
    <2>2. E!Kept(serverIds, order) = kept
      BY <1>1, <2>1 DEF E!Kept, E!Staying
    <2> QED
      BY <2>1, <2>2
  <1>3. E!ToSet(adds) = Added /\ Added \subseteq Ids
    BY DEF E!ToSet
  <1> HIDE DEF kept
  <1>4. /\ ids' = kept \o adds /\ serverIds' = kept \o adds /\ ids' \in Seq(Ids)
    BY <1>2 DEF E!Info, E!Tells, kept
  <1>5. /\ \A k \in DOMAIN ids' : ids'[k] \in stamped
        /\ \A k \in DOMAIN ids' : ids'[k] \in Ids
        /\ \A k \in DOMAIN ids' :
              \/ ids'[k] \in Added
              \/ \E p \in E!Staying(ops) : ids'[k] = ids[p]
    <2> SUFFICES ASSUME NEW k \in DOMAIN ids'
                 PROVE  /\ ids'[k] \in stamped /\ ids'[k] \in Ids
                        /\ \/ ids'[k] \in Added
                           \/ \E p \in E!Staying(ops) : ids'[k] = ids[p]
      OBVIOUS
    <2>1. /\ Len(ids') = Len(kept) + Len(adds) /\ k \in 1..Len(ids')
          /\ ids'[k] = IF k <= Len(kept) THEN kept[k] ELSE adds[k - Len(kept)]
      BY <1>2, <1>4, ConcatProperties
    <2>2. CASE k <= Len(kept)
      <3>1. k \in DOMAIN kept /\ ids'[k] = kept[k]
        BY <1>2, <2>1, <2>2
      <3> QED
        BY <1>2, <3>1 DEF E!ToSet
    <2>3. CASE ~(k <= Len(kept))
      <3>1. k - Len(kept) \in DOMAIN adds /\ ids'[k] = adds[k - Len(kept)]
        BY <1>2, <2>1, <2>3
      <3> QED
        BY <1>3, <3>1
    <2> QED
      BY <2>2, <2>3
  <1>6. /\ seen' = stamped /\ stamped \subseteq Ids
        /\ kind' = kind /\ base' = base
    BY <1>2, <1>3 DEF E!Info, kept, E!ToSet, EntityInv, E!TypeOK
  <1>7. slot' = [i \in Ids |->
                    IF \E k \in dropped : removed[k] = i THEN "none"
                    ELSE IF E!FreedInstead(i, dropped) /\ slots[i] # "none" THEN "freed"
                    ELSE slots[i]]
    BY <1>3 DEF E!Info, E!AfterRemoval, kept
  <1>8. slots \in [Ids -> E!Slots] /\ slot \in [Ids -> E!Slots]
    BY DEF EntityInv, E!TypeOK, E!Slots
  <1> HIDE DEF slots, removed, stamped
  <1>9. /\ slot' \in [Ids -> E!Slots]
        /\ \A i \in stamped \cap Ids : slot'[i] \in {slots[i], "freed"}
        /\ \A i \in Ids : slots[i] = "none" => slot'[i] = "none"
    BY <1>7, <1>8 DEF E!Slots
  <1>10. \A k \in DOMAIN serverIds' : slots[serverIds'[k]] # "none"
    <2> SUFFICES ASSUME NEW k \in DOMAIN serverIds' PROVE slots[serverIds'[k]] # "none"
      OBVIOUS
    <2>1. CASE serverIds'[k] \in Added
      BY <1>3, <2>1 DEF slots
    <2>2. CASE \E p \in E!Staying(ops) : serverIds'[k] = ids[p]
      <3>1. PICK p \in 1..Len(ops) : serverIds'[k] = ids[p]
        BY <2>2 DEF E!Staying
      <3>2. slot[ids[p]] = "live" /\ ids[p] \in Ids
        BY <1>1 DEF EntityInv, PlaceInv
      <3> QED
        BY <3>1, <3>2 DEF slots
    <2> QED
      BY <1>4, <1>5, <2>1, <2>2
  <1>11. ASSUME E!Defined', NEW k \in DOMAIN serverIds'
         PROVE  slot'[serverIds'[k]] = "live"
    <2>1. serverIds'[k] \in stamped \cap Ids /\ slot'[serverIds'[k]] # "freed"
      BY <1>4, <1>5, <1>11 DEF E!Defined, E!ToSet
    <2> QED
      BY <1>8, <1>9, <1>10, <2>1 DEF E!Slots
  <1>12. /\ where' \in [Ids -> Places] /\ where \in [Ids -> Places] /\ tile \in [Ids -> Int]
         /\ \A i \in Ids : i \notin Added /\ i \notin {serverIds[k] : k \in E!Positions(ops, "walk")}
                             => where'[i] = where[i]
    BY <1>3 DEF E!Tells, EntityInv, E!TypeOK
  <1>13. {ids[k] : k \in E!Positions(ops, "walk")} = {serverIds[k] : k \in E!Positions(ops, "walk")}
    BY <1>1 DEF E!Positions
  <1>14. tile' = [i \in Ids |->
                    IF i \in Added THEN localTile' + (where'[i] - localAt')
                    ELSE IF i \in {serverIds[k] : k \in E!Positions(ops, "walk")}
                    THEN tile[i] + (where'[i] - where[i]) ELSE tile[i]]
    BY <1>3, <1>13 DEF E!Info, E!Offset
  <1>15. tile' \in [Ids -> Int]
    <2>1. \A i \in Ids : where'[i] \in Int /\ where[i] \in Int /\ tile[i] \in Int
      BY <1>0, <1>12
    <2>2. localTile' \in Int /\ localAt' \in Int
      BY <1>0
    <2> DEFINE walks == {serverIds[k] : k \in E!Positions(ops, "walk")}
    <2> HIDE DEF Added, walks
    <2>3. \A i \in Ids : (IF i \in Added THEN localTile' + (where'[i] - localAt')
                          ELSE IF i \in walks THEN tile[i] + (where'[i] - where[i])
                          ELSE tile[i]) \in Int
      BY <2>1, <2>2
    <2> QED
      BY <1>14, <2>3 DEF walks
  <1>16. ASSUME NEW k \in DOMAIN serverIds'
         PROVE  where'[serverIds'[k]] = base + tile'[serverIds'[k]]
    <2> DEFINE i == serverIds'[k]
    <2>1. i \in Ids /\ base \in Int
      BY <1>0, <1>4, <1>5 DEF EntityInv, E!TypeOK
    <2>2. where'[i] \in Int /\ where[i] \in Int /\ tile[i] \in Int /\ localAt' \in Int
      BY <1>0, <1>12, <2>1
    <2>3. CASE i \in Added
      BY <1>14, <2>1, <2>2, <2>3
    <2>4. CASE i \notin Added
      <3>1. PICK p \in 1..Len(ops) : i = ids[p]
        BY <1>4, <1>5, <2>4 DEF E!Staying
      <3>2. where[i] = base + tile[i]
        BY <1>1, <3>1 DEF EntityInv, PlaceInv
      <3>3. CASE i \in {serverIds[j] : j \in E!Positions(ops, "walk")}
        <4>1. tile'[i] = tile[i] + (where'[i] - where[i])
          BY <1>14, <2>1, <2>4, <3>3
        <4> QED
          BY <2>1, <2>2, <3>2, <4>1
      <3>4. CASE i \notin {serverIds[j] : j \in E!Positions(ops, "walk")}
        <4>1. tile'[i] = tile[i] /\ where'[i] = where[i]
          BY <1>12, <1>14, <2>1, <2>4, <3>4
        <4> QED
          BY <3>2, <4>1
      <3> QED
        BY <3>3, <3>4
    <2> QED
      BY <2>3, <2>4
  <1>17. /\ sent \in [Ids -> E!Looks] /\ look \in [Ids -> E!Looks] /\ buffer \in [Ids -> E!Looks]
         /\ "new" \in E!Looks
    BY DEF EntityInv, E!TypeOK, E!Looks
  <1>18. sent' = [i \in Ids |-> IF i \in named THEN "new" ELSE sent[i]]
    BY DEF E!Tells
  <1>19. /\ look' = [i \in Ids |-> IF i \in blocks THEN "new"
                                   ELSE IF i \in Added /\ slot[i] = "none"
                                   THEN IF kind = "player" THEN buffer[i] ELSE "new"
                                   ELSE IF i \in Added /\ kind = "npc" THEN "new" ELSE look[i]]
         /\ buffer' = [i \in Ids |-> IF i \in blocks /\ kind = "player" THEN "new" ELSE buffer[i]]
    BY <1>3 DEF E!Info, E!LooksAfterAdds
  <1>20. /\ sent' \in [Ids -> E!Looks] /\ look' \in [Ids -> E!Looks] /\ buffer' \in [Ids -> E!Looks]
    BY <1>17, <1>18, <1>19
  <1>21. LookInv'
    <2> SUFFICES ASSUME NEW i \in Ids, sent'[i] = "new"
                 PROVE  /\ kind = "player" => buffer'[i] = "new"
                        /\ slot'[i] # "none" => look'[i] = "new"
      BY <1>6 DEF LookInv
    <2>1. CASE i \in named
      BY <1>3, <1>19, <2>1
    <2>2. CASE i \notin named
      <3>1. /\ sent[i] = "new" /\ i \notin blocks /\ (kind = "player" => buffer[i] = "new")
            /\ slot[i] # "none" => look[i] = "new"
        BY <1>18, <2>2 DEF EntityInv, LookInv
      <3>2. slot'[i] # "none" /\ i \notin Added => slot[i] # "none"
        BY <1>9 DEF slots
      <3> QED
        BY <1>19, <3>1, <3>2
    <2> QED
      BY <2>1, <2>2
  <1>22. ListedLooks'
    <2> SUFFICES ASSUME E!Defined', NEW k \in DOMAIN serverIds'
                 PROVE  look'[serverIds'[k]] = sent'[serverIds'[k]]
      BY DEF ListedLooks
    <2>1. serverIds'[k] \in Ids /\ serverIds'[k] \in E!ToSet(serverIds')
      BY <1>4, <1>5 DEF E!ToSet
    <2>2. sent'[serverIds'[k]] = "new"
      BY <1>18, <2>1 DEF E!Tells
    <2> QED
      BY <1>11, <1>21, <2>1, <2>2 DEF LookInv
  <1>23. E!TypeOK'
    BY <1>4, <1>6, <1>9, <1>12, <1>15, <1>20 DEF EntityInv, E!TypeOK
  <1>24. PlaceInv' /\ ListInv'
    BY <1>4, <1>6, <1>11, <1>16 DEF PlaceInv, ListInv
  <1> QED
    BY <1>21, <1>22, <1>23, <1>24 DEF EntityInv

\* Wherever the local player goes, and however it is told.
LEMMA LocalMovesKeep ==
  ASSUME E!LocalMoves, localAt \in Places, localTile \in Int, base \in Bases
  PROVE  /\ localAt' \in Places /\ localTile' \in Int /\ placed' = TRUE
         /\ (placed => localAt = base + localTile) => localAt' = base + localTile'
  <1>1. /\ localAt \in Int /\ localAt' \in Int /\ base \in Int /\ localAt' \in Places
        /\ placed' = TRUE
    BY EntitiesAssumption DEF E!EntitiesAssumption, E!LocalMoves
  <1>2. \/ placed /\ localTile' = localTile + (localAt' - localAt)
        \/ localTile' = localAt' - base
    BY DEF E!LocalMoves
  <1> QED
    BY <1>1, <1>2

LEMMA PlayerInfoKeeps ==
  ASSUME EntityInv, E!PlayerInfo
  PROVE  EntityInv'
  <1>1. PICK ops \in E!Ops, adds \in E!Adds, named \in SUBSET Ids :
          \E order \in E!InOrder(E!Staying(ops)) :
             E!Tells(ops, order, adds, named) /\ E!Info(ops, order, adds, named)
    BY DEF E!PlayerInfo
  <1>2. PICK order \in E!InOrder(E!Staying(ops)) :
          E!Tells(ops, order, adds, named) /\ E!Info(ops, order, adds, named)
    BY <1>1
  <1>3. kind = "player" /\ E!Defined
    BY DEF E!PlayerInfo
  <1>4. adds \in Seq(Ids)
    BY DEF E!Adds, E!SeqOf
  <1>5. localAt' \in Places /\ localTile' \in Int /\ localAt' = base + localTile' /\ placed' = TRUE
    BY <1>3, LocalMovesKeep DEF EntityInv, E!TypeOK, PlaceInv, E!PlayerInfo
  <1> QED
    BY <1>2, <1>3, <1>4, <1>5, InfoKeeps

\* An npc that is added is told what it looks like with it.
LEMMA NpcInfoKeeps ==
  ASSUME EntityInv, E!NpcInfo
  PROVE  EntityInv'
  <1>1. PICK ops \in E!Ops, adds \in E!Adds, named \in SUBSET Ids :
          \E order \in E!InOrder(E!Staying(ops)) :
             /\ E!ToSet(adds) \subseteq named
             /\ E!Tells(ops, order, adds, named)
             /\ E!Info(ops, order, adds, named \ E!ToSet(adds))
    BY DEF E!NpcInfo
  <1>2. PICK order \in E!InOrder(E!Staying(ops)) :
             /\ E!ToSet(adds) \subseteq named
             /\ E!Tells(ops, order, adds, named)
             /\ E!Info(ops, order, adds, named \ E!ToSet(adds))
    BY <1>1
  <1>3. kind = "npc" /\ E!Defined
    BY DEF E!NpcInfo
  <1>4. adds \in Seq(Ids)
    BY DEF E!Adds, E!SeqOf
  <1>5. localAt' \in Places /\ localTile' \in Int /\ localAt' = base + localTile' /\ placed' = TRUE
    BY <1>3 DEF EntityInv, E!TypeOK, PlaceInv, E!NpcInfo
  <1> QED
    BY <1>2, <1>3, <1>4, <1>5, InfoKeeps

\* The origin moves, and every tile with it.
LEMMA RebuildKeeps ==
  ASSUME EntityInv, E!Rebuild
  PROVE  EntityInv'
  <1>1. /\ base \in Int /\ base' \in Int /\ base' \in Bases /\ localTile \in Int
        /\ tile \in [Ids -> Int] /\ E!Defined
        /\ UNCHANGED <<kind, ids, slot, seen, look, buffer, serverIds, where, localAt, sent, placed>>
        /\ localTile' = localTile - (base' - base)
        /\ tile' = [i \in Ids |-> IF slot[i] = "none" THEN tile[i]
                                  ELSE tile[i] - (base' - base)]
    BY EntitiesAssumption DEF EntityInv, E!TypeOK, E!EntitiesAssumption, E!Rebuild, E!server
  <1>2. tile' \in [Ids -> Int] /\ localTile' \in Int
    BY <1>1
  <1>3. E!TypeOK'
    BY <1>1, <1>2 DEF EntityInv, E!TypeOK
  <1>4. ListInv' /\ LookInv' /\ ListedLooks'
    BY <1>1 DEF EntityInv, ListInv, LookInv, ListedLooks, E!Defined
  <1>5. placed' => localAt' = base' + localTile'
    <2> SUFFICES ASSUME placed PROVE localAt' = base' + localTile'
      BY <1>1, Zenon
    <2>1. localAt = base + localTile
      BY <1>1, Zenon DEF EntityInv, PlaceInv
    <2>2. /\ localAt' = localAt /\ localTile' = localTile - (base' - base)
          /\ base \in Int /\ base' \in Int /\ localTile \in Int
      BY <1>1
    <2>3. \A x, y, z \in Int : x + z = y + (z - (y - x))
      OBVIOUS
    <2>4. base + localTile = base' + localTile'
      BY <2>2, <2>3, Zenon
    <2> QED
      BY <2>1, <2>2, <2>4, Zenon
  <1>6. ASSUME NEW k \in DOMAIN serverIds'
        PROVE  /\ slot'[serverIds'[k]] = "live"
               /\ where'[serverIds'[k]] = base' + tile'[serverIds'[k]]
    <2> DEFINE i == serverIds[k]
    <2>1. i \in Ids /\ slot[i] = "live" /\ where[i] = base + tile[i]
      BY <1>1, <1>6 DEF EntityInv, E!TypeOK, PlaceInv
    <2>2. tile'[i] = tile[i] - (base' - base) /\ tile[i] \in Int
      BY <1>1, <2>1
    <2> QED
      BY <1>1, <2>1, <2>2
  <1> QED
    BY <1>3, <1>4, <1>5, <1>6 DEF EntityInv, PlaceInv

LEMMA ChangesKeeps ==
  ASSUME EntityInv, NEW i \in Ids, E!Changes(i)
  PROVE  EntityInv'
  <1>1. /\ sent[i] = "new"
        /\ look' = [look EXCEPT ![i] = IF @ = "new" THEN "old" ELSE @]
        /\ buffer' = [buffer EXCEPT ![i] = IF @ = "new" THEN "old" ELSE @]
        /\ sent' = [sent EXCEPT ![i] = IF @ = "new" THEN "old" ELSE @]
        /\ UNCHANGED <<kind, ids, slot, seen, tile, localTile, base, serverIds, where, localAt, placed>>
    BY DEF E!Changes
  <1>2. E!TypeOK'
    BY <1>1 DEF EntityInv, E!TypeOK, E!Looks
  <1>3. ListInv' /\ PlaceInv'
    BY <1>1 DEF EntityInv, ListInv, PlaceInv, E!Defined
  <1>4. LookInv'
    BY <1>1 DEF EntityInv, E!TypeOK, LookInv
  <1>5. ListedLooks'
    BY <1>1 DEF EntityInv, E!TypeOK, ListedLooks, E!Defined
  <1> QED
    BY <1>2, <1>3, <1>4, <1>5 DEF EntityInv

\* A session that is taken up again, and one that begins.
LEMMA SessionKeeps ==
  ASSUME EntityInv, E!Reconnect \/ E!Login
  PROVE  EntityInv'
  <1>1. /\ serverIds' = <<>> /\ sent' = E!Nothing /\ E!Defined
        /\ UNCHANGED <<kind, seen, tile, base, where, localAt>>
        /\ UNCHANGED <<localTile, placed>> \/ (localTile' = 0 /\ placed' = FALSE)
        /\ UNCHANGED <<ids, slot, look, buffer>>
             \/ (ids' = <<>> /\ slot' = E!Nothing /\ look' = E!Nothing /\ buffer' = E!Nothing)
    BY DEF E!Reconnect, E!Login, E!client
  <1>2. <<>> \in Seq(Ids) /\ E!Nothing \in [Ids -> E!Slots] /\ E!Nothing \in [Ids -> E!Looks]
          /\ DOMAIN <<>> = {}
    BY DEF E!Nothing, E!Slots, E!Looks
  <1>3. E!TypeOK'
    <2>1. /\ ids \in Seq(Ids) /\ slot \in [Ids -> E!Slots]
          /\ look \in [Ids -> E!Looks] /\ buffer \in [Ids -> E!Looks]
      BY DEF EntityInv, E!TypeOK
    <2>2. /\ ids' \in Seq(Ids) /\ serverIds' \in Seq(Ids) /\ slot' \in [Ids -> E!Slots]
          /\ look' \in [Ids -> E!Looks] /\ buffer' \in [Ids -> E!Looks]
          /\ sent' \in [Ids -> E!Looks]
      BY <1>1, <1>2, <2>1
    <2>3. localTile' \in Int
      BY <1>1 DEF EntityInv, E!TypeOK
    <2>5. placed' \in BOOLEAN
      BY <1>1, Zenon DEF EntityInv, E!TypeOK
    <2>4. /\ kind' \in Kinds /\ seen' \subseteq Ids /\ tile' \in [Ids -> Int]
          /\ where' \in [Ids -> Places] /\ localAt' \in Places /\ base' \in Bases
      BY <1>1 DEF EntityInv, E!TypeOK
    <2> QED
      BY <2>2, <2>3, <2>4, <2>5 DEF E!TypeOK
  <1>4. ListInv' /\ PlaceInv' /\ ListedLooks'
    BY <1>1, <1>2 DEF EntityInv, ListInv, PlaceInv, ListedLooks
  <1>5. LookInv'
    BY <1>1 DEF LookInv, E!Nothing
  <1> QED
    BY <1>3, <1>4, <1>5 DEF EntityInv

\* The local player of those who follow npcs, and the cycles of the client.
LEMMA NothingElse ==
  ASSUME EntityInv, E!LocalWalks \/ E!NextCycle \/ UNCHANGED E!vars
  PROVE  EntityInv'
  <1>1. UNCHANGED <<kind, ids, slot, tile, look, buffer, base, serverIds, where, sent>>
    BY DEF E!LocalWalks, E!NextCycle, E!vars, E!client, E!server
  <1>2. seen' \subseteq Ids /\ localAt' \in Places /\ localTile' \in Int
          /\ placed' \in BOOLEAN
          /\ ((placed => localAt = base + localTile) => (placed' => localAt' = base' + localTile'))
    <2>1. CASE E!LocalWalks
      BY <1>1, <2>1, LocalMovesKeep DEF E!LocalWalks, EntityInv, E!TypeOK
    <2>2. CASE E!NextCycle \/ UNCHANGED E!vars
      BY <2>2 DEF E!NextCycle, E!vars, E!client, E!server, EntityInv, E!TypeOK
    <2> QED
      BY <2>1, <2>2
  <1> QED
    BY <1>1, <1>2 DEF EntityInv, E!TypeOK, ListInv, PlaceInv, LookInv, ListedLooks, E!Defined

LEMMA EntityStep == EntityInv /\ [E!Next]_(E!vars) => EntityInv'
  BY PlayerInfoKeeps, NpcInfoKeeps, RebuildKeeps, ChangesKeeps, SessionKeeps, NothingElse
     DEF E!Next

\* The server names entities by their place in a list, and every one it names
\* stands where it has it (getPlayer, getNpcPos and REBUILD_NORMAL of
\* client.c), for any number of entities, tiles and moves of the origin.
THEOREM ListsStayInStep == E!Spec => []InStep
  <1> QED
    BY EntityInit, EntityStep, EntityImplies, PTL DEF E!Spec

\* And it looks as the server said last, whatever it went through meanwhile.
THEOREM LooksStayRight == E!Spec => []LooksRight
  <1> QED
    BY EntityInit, EntityStep, EntityImplies, PTL DEF E!Spec

-------------------------------------------------------------------------------
(***************************************************************************)
(* The way of one entity.                                                  *)
(***************************************************************************)

\* The numbers, as a set of which nothing need be known.
Whole == Int

LEMMA WholeIs == Whole = Int /\ Seq(Whole) = Seq(Int)
  BY DEF Whole

LEMMA TilesAreWhole == RouteTiles \subseteq Whole
  BY PathingAssumption DEF P!PathingAssumption, Whole

LEMMA CentreType ==
  ASSUME NEW t \in Whole
  PROVE  P!Centre(t) \in Int
  <1>1. t \in Int /\ EntitySize \in Int /\ TileWidth \in Int
    BY PathingAssumption, WholeIs DEF P!PathingAssumption
  <1>2. TileWidth \div 2 \in Int
    BY <1>1
  <1>3. t * TileWidth \in Int /\ EntitySize * (TileWidth \div 2) \in Int
    BY <1>1, <1>2
  <1> QED
    BY <1>3 DEF P!Centre

\* What is rounded towards zero is a number, and divides what was multiplied.
LEMMA DivType ==
  ASSUME NEW a \in Int, NEW b \in Nat \ {0}
  PROVE  P!Div(a, b) \in Int
  BY DEF P!Div

LEMMA DivExact ==
  ASSUME NEW k \in Nat, NEW g \in Nat \ {0}
  PROVE  (k * g) \div g = k
  OBVIOUS

LEMMA DivCancels ==
  ASSUME NEW a \in Int, NEW g \in Nat \ {0}
  PROVE  P!Div(a * g, g) = a
  <1>1. CASE a >= 0
    <2>1. a \in Nat /\ a * g >= 0
      BY <1>1
    <2> QED
      BY <2>1, DivExact DEF P!Div
  <1>2. CASE a < 0
    <2>1. -a \in Nat /\ ~(a * g >= 0) /\ -(a * g) = (-a) * g
      BY <1>2
    <2>2. ((-a) * g) \div g = -a
      BY <2>1, DivExact
    <2> QED
      BY <2>1, <2>2 DEF P!Div
  <1> QED
    BY <1>1, <1>2

LEMMA MoreThanOne ==
  ASSUME NEW n \in Nat \ {0}, n # 1
  PROVE  n > 1 /\ n - 1 \in 1..n
  OBVIOUS

LEMMA EntryOf ==
  ASSUME NEW S, NEW q \in Seq(S), NEW i \in 1..Len(q)
  PROVE  q[i] \in S
  OBVIOUS

\* A new entry comes to the front; the last one stays if there is room.
LEMMA PushOf ==
  ASSUME NEW S, NEW q \in Seq(S), Len(q) \in 1..(MaxRoute + 1), NEW e \in S
  PROVE  LET r == P!Push(q, e)
         IN  /\ r \in Seq(S) /\ r[1] = e
             /\ Len(r) = IF Len(q) <= MaxRoute THEN Len(q) + 1 ELSE Len(q)
             /\ \A i \in 2..Len(r) : r[i] = q[i - 1]
  <1> DEFINE k == IF Len(q) <= MaxRoute THEN Len(q) ELSE MaxRoute
             tail == SubSeq(q, 1, k)
  <1>1. MaxRoute \in Nat \ {0} /\ Len(q) \in Nat
    BY PathingAssumption DEF P!PathingAssumption
  <1>2. k \in 1..Len(q)
    BY <1>1
  <1> HIDE DEF k
  <1>3. tail \in Seq(S) /\ Len(tail) = k /\ \A i \in 1..k : tail[i] = q[i]
    BY <1>2, SubSeqProperties
  <1> HIDE DEF tail
  <1>4. <<e>> \in Seq(S) /\ Len(<<e>>) = 1 /\ <<e>>[1] = e
    OBVIOUS
  <1> DEFINE r == <<e>> \o tail
  <1>5. r \in Seq(S) /\ Len(r) = 1 + k
          /\ \A i \in 1..(1 + k) : r[i] = IF i <= 1 THEN <<e>>[i] ELSE tail[i - 1]
    BY <1>3, <1>4, ConcatProperties
  <1> HIDE DEF r
  <1>6. r[1] = e /\ \A i \in 2..Len(r) : r[i] = q[i - 1]
    BY <1>2, <1>3, <1>4, <1>5
  <1>7. Len(r) = IF Len(q) <= MaxRoute THEN Len(q) + 1 ELSE Len(q)
    BY <1>1, <1>5 DEF k
  <1>8. P!Push(q, e) = r
    BY DEF P!Push, r, tail, k
  <1> QED
    BY <1>5, <1>6, <1>7, <1>8
\* One number is between two others, whichever is the larger.
Between(n, a, b) == n \in a..b \/ n \in b..a

\* The waypoint it reached last, and the one it makes for.
Reached(q) == P!Centre(q[Len(q)])
Ahead(q) == P!Centre(q[Len(q) - 1])

\* It is drawn on its route.
OnIts(n, q) ==
  IF Len(q) = 1 THEN n = P!Centre(q[1]) ELSE Between(n, Reached(q), Ahead(q))

\* A slide that is under way takes some time, and ends on the tile at the end
\* of the route, unless it was disturbed.
SlideInv ==
  P!Forced =>
    /\ force \in P!Slides
    /\ force.begin # force.end /\ force.end - force.begin \in -MaxSlide..MaxSlide
    /\ ~lost => force.begin < force.end /\ path[Len(path)] = force.to

RouteInv == P!TypeOK /\ SlideInv /\ (~P!Forced /\ ~lost => OnIts(entityX, path))

LEMMA RouteInit == P!Init => RouteInv
  <1> SUFFICES ASSUME P!Init PROVE RouteInv
    OBVIOUS
  <1>1. PICK t \in Whole : path = <<t>> /\ entityX = P!Centre(t)
    BY TilesAreWhole DEF P!Init
  <1>2. /\ path \in Seq(Whole) /\ Len(path) = 1 /\ path[1] = t
        /\ pathRunning \in Seq(BOOLEAN) /\ Len(pathRunning) = 1
        /\ 1 \in 1..(MaxRoute + 1) /\ 0 \in 0..MaxPackets
    BY <1>1, PathingAssumption DEF P!Init, P!PathingAssumption
  <1>3. P!TypeOK
    <2>1. entityX \in Int /\ yaw \in 0..(P!Turn - 1) /\ dstYaw \in {P!South, P!West, P!East}
      BY <1>1, CentreType DEF P!Init, P!Turn, P!West, P!East, P!South
    <2>2. /\ seqTrigger \in Nat /\ primarySeq \in {"none", "weak", "firm"}
          /\ force \in P!Slides \cup {P!NotForced} /\ packets \in 0..MaxPackets
          /\ lost \in BOOLEAN
      BY <1>2 DEF P!Init
    <2> QED
      BY <1>2, <2>1, <2>2, WholeIs DEF P!TypeOK
  <1>4. ~P!Forced
    BY DEF P!Init, P!Forced, P!Lasts, P!NotForced
  <1> QED
    BY <1>1, <1>2, <1>3, <1>4 DEF RouteInv, SlideInv, OnIts

LEMMA RouteImplies == RouteInv => OnRoute
  <1> SUFFICES ASSUME RouteInv PROVE OnRoute
    OBVIOUS
  <1>1. Len(path) \in Nat \ {0} /\ path \in Seq(Whole)
    BY PathingAssumption, WholeIs DEF RouteInv, P!TypeOK, P!PathingAssumption
  <1> QED
    BY <1>1 DEF RouteInv, OnRoute, P!OnRoute, OnIts, Between, Reached, Ahead, P!pathLength, P!Waypoint

\* What a route becomes when tiles are told: where it goes on stays where it
\* was, unless a waypoint is lost.
GoesOn(q, r) ==
  /\ r[Len(r)] = q[Len(q)]
  /\ Len(r) > 1
  /\ Len(q) > 1 => r[Len(r) - 1] = q[Len(q) - 1]

LEMMA PushGoesOn ==
  ASSUME NEW S, NEW q \in Seq(S), Len(q) \in 1..MaxRoute, NEW e \in S
  PROVE  GoesOn(q, P!Push(q, e)) /\ Len(P!Push(q, e)) = Len(q) + 1
  <1>1. MaxRoute \in Nat \ {0}
    BY PathingAssumption DEF P!PathingAssumption
  <1>2. /\ Len(P!Push(q, e)) = Len(q) + 1
        /\ \A i \in 2..Len(P!Push(q, e)) : P!Push(q, e)[i] = q[i - 1]
    BY <1>1, PushOf
  <1> QED
    BY <1>1, <1>2 DEF GoesOn

LEMMA RouteTold ==
  ASSUME RouteInv, NEW tiles \in Seq(Whole), Len(tiles) \in {1, 2}, NEW run \in BOOLEAN,
         P!Route(tiles, run)
  PROVE  /\ path' \in Seq(Whole) /\ Len(path') \in 1..(MaxRoute + 1)
         /\ pathRunning' \in Seq(BOOLEAN) /\ Len(pathRunning') = Len(path')
         /\ lost' \in BOOLEAN /\ entityX' = entityX /\ seqTrigger' = seqTrigger
         /\ ~lost' => ~lost /\ GoesOn(path, path')
  <1>1. /\ path \in Seq(Whole) /\ Len(path) \in 1..(MaxRoute + 1)
        /\ pathRunning \in Seq(BOOLEAN) /\ Len(pathRunning) = Len(path) /\ lost \in BOOLEAN
        /\ MaxRoute \in Nat \ {0}
    BY PathingAssumption, WholeIs DEF RouteInv, P!TypeOK, P!PathingAssumption
  <1>2. lost' = (lost \/ Len(path) + Len(tiles) > MaxRoute + 1)
          /\ entityX' = entityX /\ seqTrigger' = seqTrigger
    BY DEF P!Route
  <1>7. ~lost' => ~lost /\ ~(Len(path) + Len(tiles) > MaxRoute + 1)
    BY <1>1, <1>2, Zenon
  <1> DEFINE first == P!Push(path, tiles[1])
             firstRun == P!Push(pathRunning, run)
  <1>3. /\ first \in Seq(Whole) /\ Len(first) \in 1..(MaxRoute + 1)
        /\ firstRun \in Seq(BOOLEAN) /\ Len(firstRun) = Len(first)
    <2>1. /\ first \in Seq(Whole)
          /\ Len(first) = IF Len(path) <= MaxRoute THEN Len(path) + 1 ELSE Len(path)
      <3>1. PICK t \in Whole : t = tiles[1]
        OBVIOUS
      <3>2. /\ P!Push(path, t) \in Seq(Whole)
            /\ Len(P!Push(path, t)) = IF Len(path) <= MaxRoute THEN Len(path) + 1 ELSE Len(path)
        BY <1>1, PushOf
      <3> QED
        BY <3>1, <3>2
    <2>2. /\ firstRun \in Seq(BOOLEAN)
          /\ Len(firstRun) = IF Len(path) <= MaxRoute THEN Len(path) + 1 ELSE Len(path)
      BY <1>1, PushOf
    <2> QED
      BY <1>1, <2>1, <2>2
  <1>4. Len(path) <= MaxRoute => GoesOn(path, first) /\ Len(first) = Len(path) + 1
    BY <1>1, PushGoesOn
  <1> HIDE DEF first, firstRun
  <1>5. CASE Len(tiles) = 1
    <2>1. path' = first /\ pathRunning' = firstRun
      BY <1>5 DEF P!Route, first, firstRun
    <2>2. ~lost' => ~lost /\ Len(path) <= MaxRoute
      BY <1>1, <1>5, <1>7
    <2> QED
      BY <1>1, <1>2, <1>3, <1>4, <2>1, <2>2
  <1>6. CASE Len(tiles) = 2
    <2>1. path' = P!Push(first, tiles[2]) /\ pathRunning' = P!Push(firstRun, run)
      BY <1>6 DEF P!Route, first, firstRun
    <2>4. tiles[2] \in Whole
      <3>1. PICK i \in 1..Len(tiles) : i = 2
        BY <1>6
      <3>2. tiles[i] \in Whole
        BY EntryOf
      <3> QED
        BY <3>1, <3>2, Zenon
    <2>2. /\ path' \in Seq(Whole) /\ Len(path') \in 1..(MaxRoute + 1)
          /\ pathRunning' \in Seq(BOOLEAN) /\ Len(pathRunning') = Len(path')
      <3>1. /\ path' \in Seq(Whole)
            /\ Len(path') = IF Len(first) <= MaxRoute THEN Len(first) + 1 ELSE Len(first)
        <4>1. PICK t \in Whole : t = tiles[2]
          BY <2>4
        <4>2. /\ P!Push(first, t) \in Seq(Whole)
              /\ Len(P!Push(first, t)) = IF Len(first) <= MaxRoute THEN Len(first) + 1 ELSE Len(first)
          BY <1>3, PushOf
        <4> QED
          BY <2>1, <4>1, <4>2
      <3>2. /\ pathRunning' \in Seq(BOOLEAN)
            /\ Len(pathRunning') = IF Len(first) <= MaxRoute THEN Len(first) + 1 ELSE Len(first)
        BY <1>3, <2>1, PushOf
      <3> QED
        BY <1>1, <1>3, <3>1, <3>2
    <2>3. ASSUME ~lost' PROVE ~lost /\ GoesOn(path, path')
      <3>1. ~lost /\ Len(path) + 1 <= MaxRoute
        BY <1>1, <1>6, <1>7, <2>3
      <3>2. GoesOn(path, first) /\ Len(first) = Len(path) + 1
        BY <1>1, <1>4, <3>1
      <3>3. GoesOn(first, path')
        <4>1. tiles[2] \in Whole
          BY <2>4
        <4>2. Len(first) \in 1..MaxRoute
          BY <1>1, <3>1, <3>2
        <4> QED
          BY <1>3, <2>1, <4>1, <4>2, PushGoesOn
      <3> QED
        BY <1>1, <3>1, <3>2, <3>3 DEF GoesOn
    <2> QED
      BY <1>1, <1>2, <2>2, <2>3
  <1> QED
    BY <1>5, <1>6

\* So it is drawn on the new route if it was on the old one.
LEMMA StaysOn ==
  ASSUME NEW q \in Seq(Whole), NEW r \in Seq(Whole), Len(q) \in Nat \ {0},
         Len(r) \in Nat \ {0}, GoesOn(q, r), NEW n, OnIts(n, q)
  PROVE  OnIts(n, r)
  <1>1. Reached(r) = Reached(q) /\ Len(r) # 1 /\ Reached(r) \in Int /\ Ahead(r) \in Int
    BY CentreType DEF GoesOn, Reached, Ahead
  <1>2. CASE Len(q) = 1
    BY <1>1, <1>2 DEF OnIts, Between, Reached
  <1>3. CASE Len(q) # 1
    <2>1. Ahead(r) = Ahead(q)
      <3>1. Len(q) > 1
        BY <1>3, MoreThanOne, Zenon
      <3> QED
        BY <3>1, Zenon DEF GoesOn, Ahead
    <2>2. Between(n, Reached(q), Ahead(q))
      BY <1>3 DEF OnIts
    <2> QED
      BY <1>1, <2>1, <2>2 DEF OnIts
  <1> QED
    BY <1>2, <1>3

LEMMA FirstRunning ==
  ASSUME RouteInv
  PROVE  <<pathRunning[1]>> \in Seq(BOOLEAN) /\ Len(<<pathRunning[1]>>) = 1
  <1>1. pathRunning \in Seq(BOOLEAN) /\ Len(pathRunning) \in Nat \ {0}
    BY PathingAssumption, WholeIs DEF RouteInv, P!TypeOK, P!PathingAssumption
  <1>2. pathRunning[1] \in BOOLEAN
    BY <1>1, EntryOf
  <1> QED
    BY <1>2

LEMMA BesideWhole ==
  ASSUME NEW s \in Whole
  PROVE  \A t \in P!Beside(s) : t \in Whole
  BY WholeIs DEF P!Beside

LEMMA StepKeeps ==
  ASSUME RouteInv, P!Step
  PROVE  RouteInv'
  <1>0. /\ path \in Seq(Whole) /\ Len(path) \in 1..(MaxRoute + 1) /\ MaxRoute \in Nat \ {0}
    BY PathingAssumption, WholeIs DEF RouteInv, P!TypeOK, P!PathingAssumption
  <1>0a. path[1] \in Whole
    BY <1>0, EntryOf
  <1>1. /\ UNCHANGED <<yaw, dstYaw, force>> /\ packets' \in 0..MaxPackets
        /\ primarySeq' \in {"none", "weak", "firm"}
    BY PathingAssumption DEF P!Step, P!EndsSequence, RouteInv, P!TypeOK, P!PathingAssumption
  <1>2. ASSUME NEW tiles \in Seq(Whole), Len(tiles) \in {1, 2}, NEW run \in BOOLEAN,
               P!Route(tiles, run)
        PROVE  RouteInv'
    <2>1. /\ path' \in Seq(Whole) /\ Len(path') \in 1..(MaxRoute + 1)
          /\ pathRunning' \in Seq(BOOLEAN) /\ Len(pathRunning') = Len(path')
          /\ lost' \in BOOLEAN /\ entityX' = entityX /\ seqTrigger' = seqTrigger
          /\ ~lost' => ~lost /\ GoesOn(path, path')
      BY <1>2, RouteTold
    <2>2. P!TypeOK'
      BY <1>1, <2>1, WholeIs DEF RouteInv, P!TypeOK
    <2>3. SlideInv'
      BY <1>1, <2>1 DEF RouteInv, SlideInv, P!Forced, GoesOn
    <2>4. ~P!Forced' /\ ~lost' => OnIts(entityX, path)
      BY <1>1, <2>1 DEF RouteInv, P!Forced
    <2>5. ~P!Forced' /\ ~lost' => OnIts(entityX', path')
      BY <1>0, <2>1, <2>4, StaysOn
    <2> QED
      BY <2>2, <2>3, <2>5 DEF RouteInv, OnIts, Between, Reached, Ahead
  <1>3. CASE P!Walk
    <2>1. PICK t \in Whole : P!Route(<<t>>, FALSE)
      BY <1>3, <1>0a, BesideWhole DEF P!Walk
    <2>2. <<t>> \in Seq(Whole) /\ Len(<<t>>) = 1
      OBVIOUS
    <2> QED
      BY <1>2, <2>1, <2>2
  <1>4. CASE P!Run
    <2>1. PICK s \in Whole, t \in Whole : P!Route(<<s, t>>, TRUE)
      <3>1. PICK s \in P!Beside(path[1]) : \E t \in P!Beside(s) : P!Route(<<s, t>>, TRUE)
        BY <1>4 DEF P!Run
      <3>2. s \in Whole
        BY <3>1, <1>0a, BesideWhole
      <3>3. \A t \in P!Beside(s) : t \in Whole
        BY <3>2, BesideWhole
      <3> QED
        BY <3>1, <3>2, <3>3
    <2>2. <<s, t>> \in Seq(Whole) /\ Len(<<s, t>>) = 2
      OBVIOUS
    <2> QED
      BY <1>2, <2>1, <2>2
  <1>5. CASE P!Teleport
    <2>1. PICK t \in Whole :
            \/ P!Route(<<t>>, FALSE)
            \/ /\ path' = <<t>> /\ pathRunning' = <<pathRunning[1]>>
               /\ entityX' = P!Centre(t) /\ seqTrigger' = 0 /\ lost' = P!Forced
      BY <1>5, TilesAreWhole DEF P!Teleport
    <2>2. CASE P!Route(<<t>>, FALSE)
      <3>1. <<t>> \in Seq(Whole) /\ Len(<<t>>) = 1
        OBVIOUS
      <3> QED
        BY <1>2, <2>2, <3>1
    <2>3. CASE /\ path' = <<t>> /\ pathRunning' = <<pathRunning[1]>>
               /\ entityX' = P!Centre(t) /\ seqTrigger' = 0 /\ lost' = P!Forced
      <3>1. /\ path' \in Seq(Whole) /\ Len(path') = 1 /\ path'[1] = t
            /\ 1 \in 1..(MaxRoute + 1)
        BY <1>0, <2>3
      <3>2. pathRunning' \in Seq(BOOLEAN) /\ Len(pathRunning') = 1
        BY <2>3, FirstRunning
      <3>3. lost' \in BOOLEAN /\ P!Centre(t) \in Int
        BY <2>3, CentreType DEF P!Forced, P!Lasts
      <3>4. P!TypeOK'
        BY <1>1, <2>3, <3>1, <3>2, <3>3, WholeIs DEF RouteInv, P!TypeOK
      <3>5. P!Forced' <=> P!Forced
        BY <1>1 DEF P!Forced
      <3>6. SlideInv'
        BY <1>1, <2>3, <3>5 DEF RouteInv, SlideInv
      <3> QED
        BY <2>3, <3>1, <3>4, <3>6 DEF RouteInv, OnIts
    <2> QED
      BY <2>1, <2>2, <2>3
  <1> QED
    BY <1>3, <1>4, <1>5 DEF P!Step

LEMMA OtherPacketsKeep ==
  ASSUME RouteInv, P!Animate \/ P!SequenceEnds \/ UNCHANGED P!vars
  PROVE  RouteInv'
  <1>1. UNCHANGED <<entityX, path, pathRunning, yaw, dstYaw, seqTrigger, force, lost>>
    BY DEF P!Animate, P!SequenceEnds, P!vars
  <1>2. packets \in 0..MaxPackets /\ primarySeq \in {"none", "weak", "firm"}
    BY DEF RouteInv, P!TypeOK
  <1>3. packets' \in 0..MaxPackets
    BY <1>2, PathingAssumption DEF P!Animate, P!SequenceEnds, P!vars, P!PathingAssumption
  <1>4. primarySeq' \in {"none", "weak", "firm"}
    BY <1>2 DEF P!Animate, P!SequenceEnds, P!vars
  <1> QED
    BY <1>1, <1>3, <1>4 DEF RouteInv, P!TypeOK, SlideInv, P!Forced, OnIts, Between, Reached, Ahead

\* The route is the tile a slide ends on, if it does not end before it begins.
LEMMA ForceMoveKeeps ==
  ASSUME RouteInv, P!ForceMove
  PROVE  RouteInv'
  <1>1. PICK f \in P!Slides :
          /\ f.begin >= 0 /\ f.end >= 0 /\ f.begin # f.end
          /\ force' = f /\ path' = <<f.to>> /\ pathRunning' = <<pathRunning[1]>>
          /\ lost' = (f.end < f.begin)
    BY DEF P!ForceMove
  <1>2. /\ packets' \in 0..MaxPackets
        /\ UNCHANGED <<entityX, yaw, dstYaw, seqTrigger, primarySeq>>
    <2>1. packets < MaxPackets /\ packets' = packets + 1
          /\ UNCHANGED <<entityX, yaw, dstYaw, seqTrigger, primarySeq>>
      BY DEF P!ForceMove
    <2>2. packets \in 0..MaxPackets /\ MaxPackets \in Nat
      BY PathingAssumption DEF RouteInv, P!TypeOK, P!PathingAssumption
    <2> QED
      BY <2>1, <2>2
  <1>3. /\ f.to \in Whole /\ f.begin \in -MaxSlide..MaxSlide /\ f.end \in -MaxSlide..MaxSlide
        /\ MaxSlide \in Nat /\ 1 \in 1..(MaxRoute + 1)
    <2>1. f.to \in Whole /\ f.begin \in -MaxSlide..MaxSlide /\ f.end \in -MaxSlide..MaxSlide
      BY TilesAreWhole DEF P!Slides
    <2>2. MaxSlide \in Nat /\ MaxRoute \in Nat \ {0}
      BY PathingAssumption DEF P!PathingAssumption
    <2> QED
      BY <2>1, <2>2
  <1>4. path' \in Seq(Whole) /\ Len(path') = 1 /\ path'[1] = f.to
    BY <1>1, <1>3
  <1>5. pathRunning' \in Seq(BOOLEAN) /\ Len(pathRunning') = 1
    BY <1>1, FirstRunning
  <1>6. lost' \in BOOLEAN /\ (~lost' => f.begin < f.end)
    <2>1. f.begin \in Int /\ f.end \in Int
      BY <1>3
    <2>2. ~(f.end < f.begin) => f.begin < f.end
      BY <1>1, <2>1
    <2>3. lost' \in BOOLEAN
      BY <1>1
    <2>4. ~lost' => ~(f.end < f.begin)
      BY <1>1, Zenon
    <2> QED
      BY <2>2, <2>3, <2>4
  <1>7. P!TypeOK'
    BY <1>1, <1>2, <1>3, <1>4, <1>5, <1>6, WholeIs DEF RouteInv, P!TypeOK
  <1>8. P!Forced'
    BY <1>1, <1>3 DEF P!Forced, P!Lasts
  <1>9. f.end - f.begin \in -MaxSlide..MaxSlide
    BY <1>1, <1>3
  <1>10. SlideInv'
    BY <1>1, <1>4, <1>6, <1>9 DEF SlideInv
  <1> QED
    BY <1>7, <1>8, <1>10 DEF RouteInv

\* A tile that moves with the window is drawn as far from where it was.
LEMMA CentreMoves ==
  ASSUME NEW t \in Int, NEW d \in Int
  PROVE  P!Centre(t - d) = P!Centre(t) - d * TileWidth
  <1>1. EntitySize \in Int /\ TileWidth \in Int
    BY PathingAssumption DEF P!PathingAssumption
  <1>2. TileWidth \div 2 \in Int
    BY <1>1
  <1>3. EntitySize * (TileWidth \div 2) \in Int
    BY <1>1, <1>2
  <1>4. (t - d) * TileWidth = t * TileWidth - d * TileWidth
    BY <1>1
  <1>5. t * TileWidth \in Int /\ d * TileWidth \in Int
    BY <1>1
  <1> QED
    BY <1>3, <1>4, <1>5 DEF P!Centre

LEMMA BetweenMoves ==
  ASSUME NEW n \in Int, NEW a \in Int, NEW b \in Int, NEW m \in Int
  PROVE  Between(n, a, b) => Between(n - m, a - m, b - m)
  BY DEF Between

\* The window moves: the entity stays on its route, and a slide is disturbed.
LEMMA WindowShiftKeeps ==
  ASSUME RouteInv, P!Rebuild
  PROVE  RouteInv'
  <1>1. PICK d \in Shifts :
          /\ path' = [i \in 1..Len(path) |-> path[i] - d]
          /\ entityX' = entityX - d * TileWidth
    BY DEF P!Rebuild
  <1>2. /\ packets' \in 0..MaxPackets /\ lost' = (lost \/ P!Forced)
        /\ UNCHANGED <<pathRunning, yaw, dstYaw, seqTrigger, primarySeq, force>>
    BY PathingAssumption DEF P!Rebuild, RouteInv, P!TypeOK, P!PathingAssumption
  <1>3. /\ d \in Int /\ path \in Seq(Whole) /\ Len(path) \in Nat \ {0} /\ entityX \in Int
        /\ TileWidth \in Int /\ lost \in BOOLEAN
    BY PathingAssumption, WholeIs DEF RouteInv, P!TypeOK, P!PathingAssumption
  <1>4. \A i \in 1..Len(path) : path[i] \in Int /\ path[i] - d \in Int
    BY <1>3, WholeIs
  <1>5. /\ path' \in Seq(Whole) /\ Len(path') = Len(path)
        /\ \A i \in 1..Len(path) : path'[i] = path[i] - d
    BY <1>1, <1>3, <1>4, WholeIs
  <1>6. d * TileWidth \in Int
    BY <1>3
  <1>7. entityX' \in Int /\ lost' \in BOOLEAN
    <2>1. entityX' \in Int
      BY <1>1, <1>3, <1>6
    <2>2. lost' \in BOOLEAN
      BY <1>2, <1>3 DEF P!Forced, P!Lasts
    <2> QED
      BY <2>1, <2>2
  <1>8. P!TypeOK'
    BY <1>2, <1>5, <1>7, WholeIs DEF RouteInv, P!TypeOK
  <1>9. P!Forced' <=> P!Forced
    BY <1>2 DEF P!Forced
  <1>10. SlideInv'
    BY <1>2, <1>9 DEF RouteInv, SlideInv
  <1>11. \A i \in 1..Len(path) :
           P!Centre(path'[i]) = P!Centre(path[i]) - d * TileWidth /\ P!Centre(path[i]) \in Int
    BY <1>3, <1>4, <1>5, CentreMoves, CentreType, WholeIs
  <1>12. ASSUME ~P!Forced, ~lost PROVE OnIts(entityX, path)'
    <2>1. OnIts(entityX, path)
      BY <1>12 DEF RouteInv
    <2>2. CASE Len(path) = 1
      BY <1>1, <1>5, <1>11, <2>1, <2>2 DEF OnIts
    <2>3. CASE Len(path) # 1
      <3>1. Len(path) \in 1..Len(path) /\ Len(path) - 1 \in 1..Len(path)
        <4>1. Len(path) \in Nat \ {0}
          BY <1>3
        <4>2. Len(path) - 1 \in 1..Len(path)
          BY <4>1, <2>3, MoreThanOne, Zenon
        <4> QED
          BY <4>1, <4>2
      <3>2. /\ Reached(path)' = Reached(path) - d * TileWidth /\ Reached(path) \in Int
            /\ Ahead(path)' = Ahead(path) - d * TileWidth /\ Ahead(path) \in Int
        BY <1>5, <1>11, <3>1 DEF Reached, Ahead
      <3>3. Between(entityX, Reached(path), Ahead(path))
        BY <2>1, <2>3 DEF OnIts
      <3>4. Between(entityX - d * TileWidth, Reached(path) - d * TileWidth,
                    Ahead(path) - d * TileWidth)
        BY <1>3, <1>6, <3>2, <3>3, BetweenMoves
      <3>5. Between(entityX', Reached(path)', Ahead(path)')
        BY <1>1, <3>2, <3>4
      <3> QED
        BY <1>5, <2>3, <3>5 DEF OnIts, Between, Reached, Ahead
    <2> QED
      BY <2>2, <2>3
  <1> QED
    BY <1>2, <1>8, <1>9, <1>10, <1>12 DEF RouteInv

LEMMA SpeedType ==
  ASSUME NEW to, NEW targeted
  PROVE  P!moveSpeed(to, targeted) \in 1..16
  BY DEF P!moveSpeed

LEMMA TowardsType ==
  ASSUME NEW from \in Int, NEW to \in Int, NEW by \in Nat
  PROVE  P!Towards(from, to, by) \in Int
  BY DEF P!Towards

\* A step towards a waypoint ends between where it began and the waypoint.
LEMMA TowardsIt ==
  ASSUME NEW a \in Int, NEW from \in Int, NEW to \in Int, Between(from, a, to),
         NEW by \in Nat
  PROVE  Between(P!Towards(from, to, by), a, to)
  BY DEF P!Towards, Between

\* The way it looks is one of a turn.
LEMMA FacedType ==
  ASSUME yaw \in 0..(P!Turn - 1), NEW to \in {P!South, P!West, P!East}
  PROVE  P!Faced(to) \in 0..(P!Turn - 1)
  <1>1. TurnStep \in Nat
    BY PathingAssumption DEF P!PathingAssumption
  <1>2. P!Turn = 2048 /\ P!South = 0 /\ P!West = 512 /\ P!East = 1536
    BY DEF P!Turn, P!South, P!West, P!East
  <1>3. (yaw - TurnStep) % 2048 \in 0..2047 /\ (yaw + TurnStep) % 2048 \in 0..2047
    BY <1>1, <1>2
  <1> QED
    BY <1>2, <1>3 DEF P!Faced

\* Walking: the route keeps its end, and is left behind waypoint by waypoint.
LEMMA MovementKeeps ==
  ASSUME RouteInv, ~P!Forced, P!updateMovement, force' = force,
         packets' = packets, primarySeq' = primarySeq,
         yaw' \in 0..(P!Turn - 1)
  PROVE  RouteInv'
  <1>0. /\ path \in Seq(Whole) /\ Len(path) \in 1..(MaxRoute + 1) /\ MaxRoute \in Nat \ {0}
        /\ pathRunning \in Seq(BOOLEAN) /\ Len(pathRunning) = Len(path)
        /\ entityX \in Int /\ seqTrigger \in Nat /\ lost \in BOOLEAN
        /\ P!pathLength = Len(path) - 1 /\ P!pathLength \in Int
        /\ \A i \in 1..Len(path) : path[i] \in Whole
    BY PathingAssumption, WholeIs DEF RouteInv, P!TypeOK, P!PathingAssumption, P!pathLength
  <1>1. ~P!Forced' /\ SlideInv'
    BY DEF P!Forced, SlideInv
  <1>2. ASSUME P!pathLength > 0
        PROVE  P!Waypoint = Ahead(path) /\ P!Waypoint \in Int /\ Reached(path) \in Int
                 /\ Len(path) > 1
    <2>1. path[Len(path) - 1] \in Whole /\ path[Len(path)] \in Whole
      BY <1>0, <1>2
    <2> QED
      BY <1>0, <1>2, <2>1, CentreType DEF P!Waypoint, Ahead, Reached
  <1>3. CASE P!Idle \/ P!Stalled
    <2>1. /\ UNCHANGED <<entityX, path, pathRunning, dstYaw, lost>> /\ seqTrigger' \in Nat
      BY <1>0, <1>3 DEF P!Idle, P!Stalled
    <2> QED
      BY <1>1, <2>1 DEF RouteInv, P!TypeOK, OnIts, Between, Reached, Ahead, P!Forced
  <1>4. CASE P!Snap
    <2>1. /\ UNCHANGED <<path, pathRunning, dstYaw, seqTrigger, lost>>
          /\ entityX' = P!Waypoint /\ P!pathLength > 0
      BY <1>4 DEF P!Snap
    <2>2. P!TypeOK'
      BY <1>2, <2>1, WholeIs DEF RouteInv, P!TypeOK
    <2>3. OnIts(entityX', path)
      <3>1. /\ P!Waypoint = Ahead(path) /\ P!Waypoint \in Int /\ Reached(path) \in Int
            /\ Len(path) > 1
        BY <1>2, <2>1
      <3>2. Between(Ahead(path), Reached(path), Ahead(path))
        BY <3>1 DEF Between
      <3>3. Len(path) # 1 /\ entityX' = Ahead(path)
        BY <1>0, <2>1, <3>1
      <3> QED
        BY <3>2, <3>3, Zenon DEF OnIts
    <2> QED
      BY <1>1, <2>1, <2>2, <2>3 DEF RouteInv, OnIts, Between, Reached, Ahead
  <1>5. CASE P!Advance
    <2>0. PICK targeted \in BOOLEAN :
            entityX' = P!Towards(entityX, P!Waypoint, P!moveSpeed(dstYaw', targeted))
      BY <1>5 DEF P!Advance
    <2> DEFINE speed == P!moveSpeed(dstYaw', targeted)
               reached == entityX' = P!Waypoint
    <2>1. /\ P!pathLength > 0 /\ dstYaw' \in {P!South, P!West, P!East}
          /\ entityX' = P!Towards(entityX, P!Waypoint, speed)
          /\ path' = SubSeq(path, 1, P!Left(reached))
          /\ pathRunning' = SubSeq(pathRunning, 1, P!Left(reached))
          /\ lost' = (lost /\ ~reached)
      BY <1>5, <2>0 DEF P!Advance
    <2>2. seqTrigger' \in Nat
      BY <1>0, <1>5 DEF P!Advance
    <2>3. /\ P!Waypoint = Ahead(path) /\ P!Waypoint \in Int /\ Reached(path) \in Int
          /\ Len(path) > 1
      BY <1>2, <2>1
    <2>4. entityX' \in Int
          /\ (Between(entityX, Reached(path), P!Waypoint) => Between(entityX', Reached(path), P!Waypoint))
      <3>1. speed \in Nat
        BY SpeedType
      <3>2. entityX' \in Int
        BY <1>0, <2>1, <2>3, <3>1, TowardsType
      <3>3. ASSUME Between(entityX, Reached(path), P!Waypoint)
            PROVE  Between(entityX', Reached(path), P!Waypoint)
        <4>1. Between(P!Towards(entityX, P!Waypoint, speed), Reached(path), P!Waypoint)
          BY <1>0, <2>3, <3>1, <3>3, TowardsIt
        <4> QED
          BY <2>1, <4>1, Zenon
      <3> QED
        BY <3>2, <3>3
    <2>5. CASE reached
      <3>1. P!Left(reached) = Len(path) - 1 /\ Len(path) - 1 \in 1..Len(path)
        BY <1>0, <2>3, <2>5 DEF P!Left
      <3>2. /\ path' \in Seq(Whole) /\ Len(path') = Len(path) - 1
            /\ path'[Len(path')] = path[Len(path) - 1]
        BY <1>0, <2>1, <3>1, SubSeqProperties
      <3>3. pathRunning' \in Seq(BOOLEAN) /\ Len(pathRunning') = Len(path) - 1
        BY <1>0, <2>1, <3>1, SubSeqProperties
      <3>4. lost' = FALSE
        BY <2>1, <2>5
      <3>5. P!TypeOK'
        <4>1. Len(path') \in 1..(MaxRoute + 1) /\ Len(pathRunning') = Len(path')
          BY <1>0, <3>1, <3>2, <3>3
        <4>2. lost' \in BOOLEAN
          BY <3>4
        <4> QED
          BY <2>1, <2>2, <2>4, <3>2, <3>3, <4>1, <4>2, WholeIs DEF RouteInv, P!TypeOK
      <3>6. entityX' = Reached(path)'
        BY <2>3, <2>5, <3>2 DEF Reached, Ahead
      <3>7. Reached(path)' \in Int
        BY <2>3, <2>5, <3>6
      <3>8. OnIts(entityX, path)'
        <4>1. CASE Len(path') = 1
          BY <3>6, <4>1 DEF OnIts, Reached
        <4>2. CASE Len(path') # 1
          <5>1. path'[Len(path') - 1] \in Whole
            BY <3>2, <1>0, <2>3, <4>2
          <5>2. Ahead(path)' \in Int
            BY <5>1, CentreType DEF Ahead
          <5> QED
            BY <3>6, <3>7, <4>2, <5>2 DEF OnIts, Between
        <4> QED
          BY <4>1, <4>2
      <3> QED
        BY <1>1, <3>5, <3>8 DEF RouteInv
    <2>6. CASE ~reached
      <3>1. P!Left(reached) = Len(path)
        BY <2>6 DEF P!Left
      <3>2. path' = path /\ pathRunning' = pathRunning
        BY <1>0, <2>1, <3>1
      <3>3. lost' = lost
        BY <1>0, <2>1, <2>6
      <3>4. P!TypeOK'
        BY <1>0, <2>1, <2>2, <2>4, <3>2, <3>3, WholeIs DEF RouteInv, P!TypeOK
      <3>5. ~lost => OnIts(entityX', path)
        <4>1. ASSUME ~lost PROVE OnIts(entityX', path)
          <5>1. Len(path) # 1 /\ P!Waypoint = Ahead(path)
            BY <1>0, <2>3
          <5>2. OnIts(entityX, path)
            BY <4>1 DEF RouteInv
          <5>3. Between(entityX, Reached(path), P!Waypoint)
            BY <5>1, <5>2, Zenon DEF OnIts
          <5>4. Between(entityX', Reached(path), P!Waypoint)
            BY <2>4, <5>3
          <5> QED
            BY <5>1, <5>4, Zenon DEF OnIts
        <4> QED
          BY <4>1
      <3>6. ~lost' => OnIts(entityX, path)'
        BY <3>2, <3>3, <3>5 DEF OnIts, Between, Reached, Ahead
      <3> QED
        BY <1>1, <3>4, <3>6 DEF RouteInv
    <2> QED
      BY <2>5, <2>6
  <1> QED
    BY <1>3, <1>4, <1>5 DEF P!updateMovement

LEMMA OneLess ==
  ASSUME NEW f \in P!Slides, NEW g, g = [f EXCEPT !.begin = @ - 1, !.end = @ - 1]
  PROVE  g = [from |-> f.from, to |-> f.to, begin |-> f.begin - 1, end |-> f.end - 1]
  <1>1. PICK a \in RouteTiles, b \in RouteTiles, c \in -MaxSlide..MaxSlide,
             d \in -MaxSlide..MaxSlide :
          f = [from |-> a, to |-> b, begin |-> c, end |-> d]
    BY DEF P!Slides
  <1>2. f.from = a /\ f.to = b /\ f.begin = c /\ f.end = d /\ c \in Int /\ d \in Int
    BY <1>1
  <1>3. g = [from |-> a, to |-> b, begin |-> c - 1, end |-> d - 1]
    BY <1>1, <1>2
  <1> QED
    BY <1>2, <1>3

\* Sliding: it is on the tile it slides to when the slide is over.
LEMMA SlideKeeps ==
  ASSUME RouteInv, P!Slide, packets' = packets
  PROVE  RouteInv'
  <1> DEFINE next == [force EXCEPT !.begin = @ - 1, !.end = @ - 1]
  <1>1. /\ P!updateForceMovement \/ P!startForceMovement
        /\ seqTrigger' = 0 /\ dstYaw' \in {P!West, P!East}
        /\ force' = IF P!Lasts(next) THEN next ELSE P!NotForced
        /\ yaw' = IF force.begin <= 0 THEN dstYaw' ELSE P!Faced(dstYaw')
        /\ primarySeq' = primarySeq /\ packets' = packets /\ P!Forced
    BY DEF P!Slide
  <1>2. UNCHANGED <<path, pathRunning, lost>>
    BY <1>1 DEF P!updateForceMovement, P!startForceMovement
  <1>3. /\ force \in P!Slides /\ force.begin # force.end
        /\ force.end - force.begin \in -MaxSlide..MaxSlide
        /\ MaxSlide \in Nat
        /\ force.end \in -MaxSlide..MaxSlide /\ force.begin \in -MaxSlide..MaxSlide
        /\ force.end \in Int /\ force.begin \in Int
        /\ force.from \in Whole /\ force.to \in Whole
        /\ ~lost => force.begin < force.end /\ path[Len(path)] = force.to
        /\ force.begin > 0 \/ force.end >= 0
    BY <1>1, PathingAssumption, TilesAreWhole DEF RouteInv, SlideInv, P!Forced, P!Lasts, P!Slides, P!PathingAssumption
  <1>4. P!Centre(force.from) \in Int /\ P!Centre(force.to) \in Int
    BY <1>3, CentreType
  <1>5. yaw' \in 0..(P!Turn - 1)
    <2>1. P!Faced(dstYaw') \in 0..(P!Turn - 1)
      BY <1>1, FacedType, WholeIs DEF RouteInv, P!TypeOK
    <2> QED
      BY <1>1, <2>1 DEF P!West, P!East, P!Turn
  <1>6. entityX' \in Int
    <2>1. entityX \in Int
      BY DEF RouteInv, P!TypeOK
    <2>2. CASE P!updateForceMovement
      <3>1. /\ force.begin \in Nat \ {0} /\ P!Centre(force.from) - entityX \in Int
            /\ entityX' = entityX + P!Div(P!Centre(force.from) - entityX, force.begin)
        BY <1>3, <1>4, <2>1, <2>2 DEF P!updateForceMovement
      <3>2. P!Div(P!Centre(force.from) - entityX, force.begin) \in Int
        BY <3>1, DivType
      <3> QED
        BY <2>1, <3>1, <3>2
    <2>3. CASE P!startForceMovement
      <3> DEFINE duration == force.end - force.begin
                 gone     == -force.begin
                 reachedAt   == P!Centre(force.from) * (duration - gone) + P!Centre(force.to) * gone
      <3>1. duration \in Nat \ {0} /\ gone \in Int /\ duration - gone \in Int
        BY <1>3, <2>3 DEF P!startForceMovement
      <3>2. reachedAt \in Int
        <4> HIDE DEF duration, gone
        <4> QED
          BY <1>4, <3>1
      <3>3. entityX' = P!Div(reachedAt, duration) \/ entityX' = entityX
        BY <2>3 DEF P!startForceMovement
      <3>4. P!Div(reachedAt, duration) \in Int
        <4> HIDE DEF duration, reachedAt
        <4> QED
          BY <3>1, <3>2, DivType
      <3> QED
        BY <2>1, <3>3, <3>4
    <2> QED
      BY <1>1, <2>2, <2>3
  <1>6a. /\ next = [from |-> force.from, to |-> force.to,
                    begin |-> force.begin - 1, end |-> force.end - 1]
         /\ next.begin = force.begin - 1 /\ next.end = force.end - 1 /\ next.to = force.to
         /\ P!Lasts(next) <=> force.begin - 1 > 0 \/ force.end - 1 >= 0
    <2>2. next = [from |-> force.from, to |-> force.to,
                  begin |-> force.begin - 1, end |-> force.end - 1]
      BY <1>3, OneLess
    <2> HIDE DEF next
    <2> QED
      BY <2>2 DEF P!Lasts
  <1> HIDE DEF next
  <1>7. CASE ~P!Lasts(next)
    <2>1. force' = P!NotForced /\ ~P!Forced'
      BY <1>1, <1>7 DEF P!NotForced, P!Forced, P!Lasts
    <2>2. P!TypeOK'
      BY <1>1, <1>2, <1>5, <1>6, <2>1, WholeIs DEF RouteInv, P!TypeOK
    <2>2a. ~lost => force.end = 0 /\ force.begin < 0
      BY <1>3, <1>6a, <1>7
    <2>3. ASSUME ~lost PROVE entityX' = P!Centre(force.to)
      <3> DEFINE g == -force.begin
      <3>1. g \in Nat \ {0} /\ force.begin < 0 /\ force.end = 0
        BY <1>3, <2>2a, <2>3
      <3>2. P!startForceMovement
        <4>1. ~(force.begin > 0)
          BY <1>3, <3>1
        <4>2. ~P!updateForceMovement
          BY <4>1, Zenon DEF P!updateForceMovement
        <4> QED
          BY <1>1, <4>2, Zenon
      <3>3. entityX' = P!Div(P!Centre(force.from) * ((0 - force.begin) - g) + P!Centre(force.to) * g,
                             0 - force.begin)
        BY <3>1, <3>2 DEF P!startForceMovement
      <3>4. 0 - force.begin = g /\ (0 - force.begin) - g = 0
        BY <1>3
      <3>5. P!Centre(force.from) * ((0 - force.begin) - g) + P!Centre(force.to) * g = P!Centre(force.to) * g
        <4> HIDE DEF g
        <4> QED
          BY <1>4, <3>1, <3>4
      <3> HIDE DEF g
      <3>6. entityX' = P!Div(P!Centre(force.to) * g, g)
        BY <3>3, <3>4, <3>5
      <3> QED
        BY <1>4, <3>1, <3>6, DivCancels
    <2>4. ASSUME ~lost' PROVE OnIts(entityX, path)'
      <3>1. entityX' = Reached(path)' /\ Reached(path)' \in Int
        BY <1>2, <1>3, <1>4, <2>3, <2>4 DEF Reached
      <3>2. /\ path' \in Seq(Whole) /\ Len(path') \in Nat \ {0}
        BY <2>2, PathingAssumption, WholeIs DEF P!TypeOK, P!PathingAssumption
      <3>3. CASE Len(path') = 1
        BY <3>1, <3>3 DEF OnIts, Reached
      <3>4. CASE Len(path') # 1
        <4>1. path'[Len(path') - 1] \in Whole
          <5>1. Len(path') - 1 \in 1..Len(path')
            BY <3>2, <3>4, MoreThanOne, Zenon
          <5> QED
            BY <3>2, <5>1, EntryOf
        <4>2. Ahead(path)' \in Int
          BY <4>1, CentreType DEF Ahead
        <4> QED
          BY <3>1, <3>4, <4>2 DEF OnIts, Between
      <3> QED
        BY <3>3, <3>4
    <2> QED
      BY <2>1, <2>2, <2>4 DEF RouteInv, SlideInv
  <1>8. CASE P!Lasts(next)
    <2>1. force' = next
      BY <1>1, <1>8
    <2>2. next \in P!Slides
      <3>1. force.begin - 1 \in -MaxSlide..MaxSlide /\ force.end - 1 \in -MaxSlide..MaxSlide
        BY <1>3, <1>6a, <1>8
      <3> QED
        BY <1>3, <1>6a, <3>1 DEF P!Slides
    <2>3. SlideInv'
      <3>1. /\ next.begin # next.end /\ next.end - next.begin \in -MaxSlide..MaxSlide
            /\ ~lost => next.begin < next.end /\ path[Len(path)] = next.to
        BY <1>3, <1>6a
      <3> QED
        BY <1>2, <2>1, <2>2, <3>1 DEF SlideInv
    <2>4. P!TypeOK'
      BY <1>1, <1>2, <1>5, <1>6, <2>1, <2>2, WholeIs DEF RouteInv, P!TypeOK
    <2>5. P!Forced'
      BY <1>8, <2>1 DEF P!Forced
    <2> QED
      BY <2>3, <2>4, <2>5 DEF RouteInv
  <1> QED
    BY <1>7, <1>8

\* Put back on its tile, it has nowhere to go.
LEMMA PutBackKeeps ==
  ASSUME RouteInv, P!PutBack, packets' = packets
  PROVE  RouteInv'
  <1>1. /\ path \in Seq(Whole) /\ Len(path) \in Nat \ {0} /\ 1 \in 1..(MaxRoute + 1)
    BY PathingAssumption, WholeIs DEF RouteInv, P!TypeOK, P!PathingAssumption
  <1>2. path[1] \in Whole
    BY <1>1, EntryOf
  <1>3. /\ path' \in Seq(Whole) /\ Len(path') = 1 /\ path'[1] = path[1]
    BY <1>2 DEF P!PutBack
  <1>4. pathRunning' \in Seq(BOOLEAN) /\ Len(pathRunning') = 1
    BY FirstRunning DEF P!PutBack
  <1>5. entityX' = P!Centre(path[1]) /\ P!Centre(path[1]) \in Int
    BY <1>2, CentreType DEF P!PutBack
  <1>6. /\ dstYaw' = dstYaw /\ dstYaw \in {P!South, P!West, P!East} /\ yaw' = P!Faced(dstYaw)
        /\ yaw \in 0..(P!Turn - 1)
    BY DEF P!PutBack, RouteInv, P!TypeOK
  <1>7. yaw' \in 0..(P!Turn - 1)
    BY <1>6, FacedType
  <1>8. /\ force' = P!NotForced /\ primarySeq' = "none" /\ seqTrigger' = 0 /\ lost' = FALSE
    BY DEF P!PutBack
  <1>9. P!TypeOK'
    BY <1>1, <1>3, <1>4, <1>5, <1>6, <1>7, <1>8, WholeIs DEF RouteInv, P!TypeOK
  <1>10. ~P!Forced'
    BY <1>8 DEF P!Forced, P!Lasts, P!NotForced
  <1> QED
    BY <1>3, <1>5, <1>9, <1>10 DEF RouteInv, SlideInv, OnIts

LEMMA CycleKeeps ==
  ASSUME RouteInv, P!Cycle
  PROVE  RouteInv'
  <1>1. packets' = packets
    BY DEF P!Cycle
  <1>2. CASE P!PutBack
    BY <1>1, <1>2, PutBackKeeps
  <1>3. CASE P!Slide
    BY <1>1, <1>3, SlideKeeps
  <1>4. CASE P!Move
    <2>1. /\ P!updateMovement /\ force' = force /\ yaw' = P!Faced(dstYaw')
          /\ primarySeq' = primarySeq /\ ~P!Forced
      BY <1>4 DEF P!Move
    <2>2. dstYaw' \in {P!South, P!West, P!East} /\ yaw \in 0..(P!Turn - 1)
      BY <2>1 DEF P!updateMovement, P!Idle, P!Stalled, P!Snap, P!Advance, RouteInv, P!TypeOK
    <2>3. yaw' \in 0..(P!Turn - 1)
      BY <2>1, <2>2, FacedType
    <2> QED
      BY <1>1, <2>1, <2>3, MovementKeeps
  <1> QED
    BY <1>2, <1>3, <1>4 DEF P!Cycle

\* Nobody walks through walls on the screen (pathingentity.c, updateMovement and
\* startForceMovement of client.c), for any size of a tile, length of a route,
\* speed of turning and slides, and whatever comes of the server meanwhile.
THEOREM KeepsToItsRoute == P!Spec => []OnRoute
  <1>1. RouteInv /\ [P!Next]_(P!vars) => RouteInv'
    BY StepKeeps, OtherPacketsKeep, ForceMoveKeeps, WindowShiftKeeps, CycleKeeps DEF P!Next
  <1> QED
    BY RouteInit, <1>1, RouteImplies, PTL DEF P!Spec

-------------------------------------------------------------------------------
(***************************************************************************)
(* The locs.  Tiles of the scene are called x, tiles of the world t.       *)
(***************************************************************************)

SceneTiles == 0..(Span - 1)

\* The loc of tile x of a window from b on, when changes are made to the map.
Has(changes, b, x, loc) ==
  /\ (\A c \in changes : c.x # x) => loc = L!MapLoc(b + x)
  /\ \A c \in changes : c.x = x => loc = c.loc

\* A record remembers what the map has, and, in a zone the client is told of,
\* what the server has; a tile without a record is as in the map.
RecordInv ==
  \A s \in spawned :
    /\ locsBase + s.x \in Doors
    /\ locsBase + s.x \notin locsOff =>
         /\ s.last = L!MapLoc(locsBase + s.x)
         /\ L!Zone(locsBase + s.x) \in locsFollowed => s.loc = locs[locsBase + s.x]

UnrecordedInv ==
  \A t \in Doors :
    L!Zone(t) \in locsFollowed /\ ~L!Recorded(t - locsBase) => locs[t] = L!MapLoc(t)

\* The scene shows the map with the changes, except at its edge, and but for
\* tiles that are part of a merge or were missing when it was built.
ShownInv ==
  locsState = 2 =>
    \A t \in Doors \cap L!Window(locsBase) :
      t \notin locsOff /\ ~L!Missing(t) /\ L!Inner(t) /\ ~L!Pending(t - locsBase) =>
        Has(spawned, locsBase, t - locsBase, shown[t - locsBase])

\* What a merge puts back is what stood there, and it comes last.
MergeInv ==
  locsState = 2 =>
    \A m \in merged :
      /\ locsBase + m.x \in Doors
      /\ m.back /\ locsBase + m.x \notin locsOff => Has(spawned, locsBase, m.x, m.loc)
      /\ ~m.back => \E r \in merged : r.back /\ r.pair = m.pair /\ r.x = m.x

LocsInv == L!TypeOK /\ RecordInv /\ UnrecordedInv /\ ShownInv /\ MergeInv

LEMMA Monotone ==
  ASSUME NEW n \in Nat, NEW i \in Int, NEW j \in Int, i <= j
  PROVE  n * i <= n * j
  <1>1. PICK k \in Nat : j = i + k
    BY j - i \in Nat
  <1>2. n * j = n * i + n * k /\ n * k >= 0 /\ n * i \in Int /\ n * k \in Int
    BY <1>1
  <1> QED
    BY <1>2

LEMMA DivBounds ==
  ASSUME NEW i \in Nat, NEW n \in Nat \ {0}
  PROVE  i \div n \in Int /\ (i \div n) * n <= i /\ i < ((i \div n) + 1) * n
  OBVIOUS

LEMMA DivOfMultiple ==
  ASSUME NEW i \in Nat, NEW n \in Nat \ {0}, NEW k \in Nat
  PROVE  /\ k * n <= i => k <= i \div n
         /\ i < k * n => i \div n < k
  OBVIOUS

\* A zone is in a window as a whole or not at all.
LEMMA WholeZones ==
  ASSUME NEW b \in Windows, NEW t \in Nat, L!Zone(t) \in L!Zones(b)
  PROVE  t \in L!Window(b)
  <1> DEFINE k == b \div ZoneSize
             n == Span \div ZoneSize
             q == t \div ZoneSize
  <1>1. /\ Span \in Nat /\ ZoneSize \in Nat \ {0} /\ b \in Nat
        /\ Span = n * ZoneSize /\ b = k * ZoneSize
    BY SceneLocsAssumption DEF L!SceneLocsAssumption, L!Whole
  <1>2. PICK u \in L!Window(b) : q = u \div ZoneSize
    BY DEF L!Zones, L!Zone
  <1>3. u \in Nat /\ b <= u /\ u < b + Span
    BY <1>1 DEF L!Window
  <1>4. k \in Nat /\ n \in Nat
    BY <1>1
  <1>5. q \in Int /\ q * ZoneSize <= t /\ t < (q + 1) * ZoneSize
    BY <1>1, DivBounds
  <1> HIDE DEF k, n, q
  <1>6. k + n \in Nat /\ (k + n) * ZoneSize = b + Span
    BY <1>1, <1>4
  <1>7. k <= q /\ q < k + n
    BY <1>1, <1>2, <1>3, <1>4, <1>6, DivOfMultiple
  <1>8. ZoneSize * k <= ZoneSize * q /\ ZoneSize * (q + 1) <= ZoneSize * (k + n)
    BY <1>1, <1>4, <1>5, <1>6, <1>7, Monotone
  <1>9. b <= t /\ t < b + Span
    <2>1. b <= q * ZoneSize
      BY <1>1, <1>4, <1>5, <1>8
    <2>2. (q + 1) * ZoneSize <= b + Span
      BY <1>1, <1>4, <1>5, <1>6, <1>8
    <2> QED
      BY <1>1, <1>5, <2>1, <2>2
  <1> QED
    BY <1>1, <1>9 DEF L!Window

LEMMA FollowedIsSeen ==
  ASSUME L!TypeOK, NEW t \in Doors, L!Zone(t) \in locsFollowed
  PROVE  t \in L!Window(locsBase)
  BY WholeZones, SceneLocsAssumption DEF L!TypeOK, L!SceneLocsAssumption

\* What addLoc and a number of them make of the scene.
LEMMA AddLoc ==
  ASSUME NEW scene \in [SceneTiles -> L!Locs], NEW x \in SceneTiles, NEW loc \in L!Locs
  PROVE  /\ L!addLoc(scene, x, loc) \in [SceneTiles -> L!Locs]
         /\ \A y \in SceneTiles :
              L!addLoc(scene, x, loc)[y] = IF y = x /\ x \in 1..(Span - 2) THEN loc ELSE scene[y]
  <1>1. Span \in Nat
    BY SceneLocsAssumption DEF L!SceneLocsAssumption, L!Whole
  <1>2. x \in Int /\ (x < 1 \/ x > Span - 2 <=> x \notin 1..(Span - 2))
    BY <1>1 DEF SceneTiles
  <1> QED
    BY <1>1, <1>2 DEF L!addLoc

LEMMA AddLocs ==
  ASSUME NEW scene \in [SceneTiles -> L!Locs], NEW changes,
         \A c \in changes : c.loc \in L!Locs,
         \A c, d \in changes : c.x = d.x => c.loc = d.loc
  PROVE  LET made == L!addLocs(scene, changes)
         IN  /\ made \in [SceneTiles -> L!Locs]
             /\ \A x \in SceneTiles : x \notin 1..(Span - 2) => made[x] = scene[x]
             /\ \A x \in SceneTiles : (\A c \in changes : c.x # x) => made[x] = scene[x]
             /\ \A c \in changes : c.x \in SceneTiles /\ c.x \in 1..(Span - 2) => made[c.x] = c.loc
  <1> DEFINE made == L!addLocs(scene, changes)
  <1>1. made = [x \in SceneTiles |->
                    IF x \in 1..(Span - 2) /\ \E c \in changes : c.x = x
                    THEN (CHOOSE c \in changes : c.x = x).loc ELSE scene[x]]
    BY Zenon DEF L!addLocs, SceneTiles
  <1> HIDE DEF made
  <1>2. ASSUME NEW c \in changes
        PROVE  (CHOOSE d \in changes : d.x = c.x).loc = c.loc
    <2>1. (CHOOSE d \in changes : d.x = c.x) \in changes /\ (CHOOSE d \in changes : d.x = c.x).x = c.x
      OBVIOUS
    <2> QED
      BY <2>1
  <1>3. \A x \in SceneTiles : (\E c \in changes : c.x = x) => (CHOOSE c \in changes : c.x = x).loc \in L!Locs
    BY <1>2
  <1>4. made \in [SceneTiles -> L!Locs]
    BY <1>1, <1>3
  <1>5. \A x \in SceneTiles : x \notin 1..(Span - 2) => made[x] = scene[x]
    BY <1>1
  <1>6. \A x \in SceneTiles : (\A c \in changes : c.x # x) => made[x] = scene[x]
    BY <1>1
  <1>7. ASSUME NEW c \in changes, c.x \in SceneTiles, c.x \in 1..(Span - 2)
        PROVE  made[c.x] = c.loc
    <2>1. made[c.x] = (CHOOSE d \in changes : d.x = c.x).loc
      BY <1>1, <1>7
    <2> QED
      BY <1>2, <2>1
  <1> QED
    BY <1>4, <1>5, <1>6, <1>7 DEF made

LEMMA LocsInit == L!Init => LocsInv
  <1> SUFFICES ASSUME L!Init PROVE LocsInv
    OBVIOUS
  <1>1. /\ locsState \in {0, 1} /\ shown = L!Empty /\ spawned = {} /\ merged = {}
        /\ loaded \subseteq MapFiles /\ built = {} /\ locsFollowed = {} /\ locsOff = {} /\ locsBase \in Windows
        /\ locs = [t \in Doors |-> L!MapLoc(t)]
    BY DEF L!Init, L!FilesOf
  <1>2. L!Empty \in [0..(Span - 1) -> L!Locs] /\ \A t : L!MapLoc(t) \in L!Locs
    BY DEF L!Empty, L!Locs, L!MapLoc
  <1>3. locs \in [Doors -> L!Locs]
    BY <1>1, <1>2
  <1>4. locsState \in 0..2
    BY <1>1
  <1>5. L!TypeOK
    BY <1>1, <1>2, <1>3, <1>4 DEF L!TypeOK
  <1> QED
    BY <1>1, <1>5 DEF LocsInv, RecordInv, UnrecordedInv, ShownInv, MergeInv

LEMMA LocsImplies == LocsInv => LocsAsTold
  <1> SUFFICES ASSUME LocsInv PROVE LocsAsTold
    OBVIOUS
  <1>1. ASSUME locsState = 2, NEW t \in Doors \ locsOff,
               L!Zone(t) \in locsFollowed, L!Inner(t), ~L!Pending(t - locsBase), ~L!Missing(t)
        PROVE  shown[t - locsBase] = locs[t]
    <2>1. t \in L!Window(locsBase)
      BY <1>1, FollowedIsSeen DEF LocsInv
    <2>2. Has(spawned, locsBase, t - locsBase, shown[t - locsBase])
      BY <1>1, <2>1 DEF LocsInv, ShownInv
    <2>3. t \in Int /\ locsBase \in Int
      BY SceneLocsAssumption DEF L!SceneLocsAssumption, L!Whole, LocsInv, L!TypeOK
    <2>4. CASE L!Recorded(t - locsBase)
      <3>1. PICK s \in spawned : s.x = t - locsBase
        BY <2>4 DEF L!Recorded
      <3>2. locsBase + s.x = t
        BY <2>3, <3>1
      <3> QED
        BY <1>1, <2>2, <3>1, <3>2 DEF LocsInv, RecordInv, Has
    <2>5. CASE ~L!Recorded(t - locsBase)
      <3>1. locsBase + (t - locsBase) = t
        BY <2>3
      <3> QED
        BY <1>1, <2>2, <2>5, <3>1 DEF LocsInv, UnrecordedInv, Has, L!Recorded
    <2> QED
      BY <2>4, <2>5
  <1> QED
    BY <1>1 DEF LocsAsTold, L!LocsAsTold, LocsInv

LEMMA SceneTypes ==
  ASSUME L!TypeOK
  PROVE  /\ Span \in Nat /\ locsBase \in Nat /\ Doors \subseteq Nat
         /\ \A t \in L!Window(locsBase) : t \in Int /\ t - locsBase \in SceneTiles
                                          /\ locsBase + (t - locsBase) = t
         /\ \A x \in SceneTiles : x \in Int /\ locsBase + x \in L!Window(locsBase)
                                  /\ (locsBase + x) - locsBase = x
  <1>1. Span \in Nat /\ locsBase \in Nat /\ Doors \subseteq Nat
    BY SceneLocsAssumption DEF L!SceneLocsAssumption, L!Whole, L!TypeOK
  <1> QED
    BY <1>1 DEF L!Window, SceneTiles

LEMMA MapLocType == \A t : L!MapLoc(t) \in L!Locs
  BY DEF L!MapLoc, L!Locs

\* What the records are once a tile has changed.
LEMMA ChangeRecords ==
  ASSUME L!TypeOK, NEW x \in SceneTiles, NEW loc \in L!Locs
  PROVE  LET changed == L!WithChange(x, loc)
         IN  /\ changed \subseteq L!Spawned
             /\ \A q, s \in changed : q.x = s.x => q = s
             /\ \E s \in changed : s.x = x
             /\ \A s \in changed : s.x = x =>
                  /\ s.loc = loc
                  /\ L!Recorded(x) => \E q \in spawned : q.x = x /\ s.last = q.last
                  /\ ~L!Recorded(x) => s.last = shown[x]
             /\ \A s : s.x # x => (s \in changed <=> s \in spawned)
  <1> DEFINE changed == L!WithChange(x, loc)
             new == [x |-> x, loc |-> loc, last |-> shown[x]]
             Renewed(s) == [s EXCEPT !.loc = loc]
  <1>1. /\ spawned \subseteq L!Spawned /\ shown[x] \in L!Locs
        /\ \A q, s \in spawned : q.x = s.x => q = s
    BY DEF L!TypeOK, SceneTiles
  <1>2. CASE L!Recorded(x)
    <2>1. PICK q \in spawned : q.x = x
      BY <1>2 DEF L!Recorded
    <2>2. /\ Renewed(q) \in L!Spawned /\ Renewed(q).x = x /\ Renewed(q).loc = loc
          /\ Renewed(q).last = q.last
      BY <1>1, <2>1 DEF L!Spawned
    <2>3. \A s \in spawned : s.x = x => s = q
      BY <1>1, <2>1
    <2>4. changed = {IF s.x = x THEN Renewed(s) ELSE s : s \in spawned}
      BY <1>2 DEF L!WithChange
    <2>5. Renewed(q) \in changed /\ \A s \in spawned : s.x # x => s \in changed
      BY <2>1, <2>4
    <2>6. \A s \in changed : s = Renewed(q) \/ (s \in spawned /\ s.x # x)
      BY <2>3, <2>4
    <2> HIDE DEF changed, Renewed
    <2> QED
      BY <1>1, <1>2, <2>1, <2>2, <2>5, <2>6 DEF changed
  <1>3. CASE ~L!Recorded(x)
    <2>1. new \in L!Spawned /\ new.x = x /\ new.loc = loc /\ new.last = shown[x]
      BY <1>1 DEF L!Spawned, SceneTiles
    <2>2. changed = spawned \cup {new}
      BY <1>3 DEF L!WithChange
    <2>3. \A s \in spawned : s.x # x
      BY <1>3 DEF L!Recorded
    <2> HIDE DEF changed, new
    <2> QED
      BY <1>1, <1>3, <2>1, <2>2, <2>3 DEF changed
  <1> QED
    BY <1>2, <1>3

\* A tile that is not changed keeps what it has.
LEMMA HasStays ==
  ASSUME NEW old1, NEW new1, NEW b, NEW y, NEW loc,
         \A s : s.x = y => (s \in new1 <=> s \in old1), Has(old1, b, y, loc)
  PROVE  Has(new1, b, y, loc)
  BY DEF Has

\* A change the client is not told.
LEMMA UntoldKeeps ==
  ASSUME LocsInv, NEW t \in Doors, NEW loc \in L!Locs,
         locs' = [locs EXCEPT ![t] = loc], L!Zone(t) \notin locsFollowed,
         UNCHANGED <<locsBase, locsState, shown, spawned, merged, loaded, built, locsFollowed, locsOff>>
  PROVE  LocsInv'
  <1>1. locs' \in [Doors -> L!Locs] /\ \A u \in Doors : u # t => locs'[u] = locs[u]
    BY DEF LocsInv, L!TypeOK
  <1>2. L!TypeOK'
    BY <1>1 DEF LocsInv, L!TypeOK
  <1>3. RecordInv'
    BY <1>1 DEF LocsInv, RecordInv
  <1>4. UnrecordedInv'
    BY <1>1 DEF LocsInv, UnrecordedInv, L!Recorded
  <1>5. ShownInv'
    BY DEF LocsInv, ShownInv, L!Missing, L!Inner, L!Pending
  <1>6. MergeInv'
    BY DEF LocsInv, MergeInv
  <1> QED
    BY <1>2, <1>3, <1>4, <1>5, <1>6 DEF LocsInv

\* A change it is told: what the record then remembers is the map's, unless
\* the change was Spoilt.
LEMMA ToldKeeps ==
  ASSUME LocsInv, NEW t \in Doors \cap L!Window(locsBase), NEW loc \in L!Locs,
         L!Zone(t) \in locsFollowed, L!Change(t, loc)
  PROVE  LocsInv'
  <1> DEFINE x == t - locsBase
  <1>0. L!TypeOK
    BY DEF LocsInv
  <1>1. /\ locs' = [locs EXCEPT ![t] = loc] /\ spawned' = L!WithChange(x, loc)
        /\ shown' = L!addLoc(shown, x, loc)
        /\ locsOff' = IF L!Spoilt(t, ~L!Recorded(x)) THEN locsOff \cup {t} ELSE locsOff
        /\ UNCHANGED <<locsBase, locsState, merged, loaded, built, locsFollowed>>
    BY DEF L!Change
  <1>2. x \in SceneTiles /\ x \in Int /\ t \in Int /\ locsBase \in Int /\ locsBase + x = t /\ Span \in Nat
    BY <1>0, SceneTypes
  <1>3. /\ locs' \in [Doors -> L!Locs] /\ locs'[t] = loc
        /\ \A u \in Doors : u # t => locs'[u] = locs[u]
    BY <1>0, <1>1 DEF L!TypeOK
  <1>4. /\ spawned' \subseteq L!Spawned
        /\ \A q, s \in spawned' : q.x = s.x => q = s
        /\ \E s \in spawned' : s.x = x
        /\ \A s \in spawned' : s.x = x =>
             /\ s.loc = loc
             /\ L!Recorded(x) => \E q \in spawned : q.x = x /\ s.last = q.last
             /\ ~L!Recorded(x) => s.last = shown[x]
        /\ \A s : s.x # x => (s \in spawned' <=> s \in spawned)
    BY <1>0, <1>1, <1>2, ChangeRecords
  <1>5. /\ shown' \in [SceneTiles -> L!Locs]
        /\ \A y \in SceneTiles : shown'[y] = IF y = x /\ x \in 1..(Span - 2) THEN loc ELSE shown[y]
    <2>1. shown \in [SceneTiles -> L!Locs] /\ x \in SceneTiles
      BY <1>0, <1>2 DEF L!TypeOK, SceneTiles
    <2>2. shown' = L!addLoc(shown, x, loc)
      BY <1>1
    <2> HIDE DEF x
    <2>3. /\ L!addLoc(shown, x, loc) \in [SceneTiles -> L!Locs]
          /\ \A y \in SceneTiles :
               L!addLoc(shown, x, loc)[y] = IF y = x /\ x \in 1..(Span - 2) THEN loc ELSE shown[y]
      BY <2>1, AddLoc
    <2> QED
      BY <2>2, <2>3
  <1>6. locsOff \subseteq locsOff' /\ locsOff' \subseteq Doors
        /\ (t \notin locsOff' => ~L!Spoilt(t, ~L!Recorded(x)))
    BY <1>0, <1>1 DEF L!TypeOK
  <1> HIDE DEF x
  <1>7. L!TypeOK'
    BY <1>0, <1>1, <1>3, <1>4, <1>5, <1>6 DEF L!TypeOK, SceneTiles
  <1>8. ASSUME t \notin locsOff', ~L!Recorded(x)
        PROVE  shown[x] = L!MapLoc(t)
    <2>1. locsState = 2 /\ ~L!Missing(t) /\ L!Inner(t) /\ ~L!Pending(x)
      BY <1>2, <1>6, <1>8 DEF L!Spoilt, x
    <2>2. t \notin locsOff
      BY <1>6, <1>8
    <2>3. Has(spawned, locsBase, x, shown[x])
      BY <2>1, <2>2 DEF LocsInv, ShownInv, x
    <2>4. \A s \in spawned : s.x # x
      BY <1>8 DEF L!Recorded
    <2> QED
      BY <1>2, <2>3, <2>4 DEF Has
  <1>9. RecordInv'
    <2> SUFFICES ASSUME NEW s \in spawned'
                 PROVE  /\ locsBase + s.x \in Doors
                        /\ locsBase + s.x \notin locsOff' =>
                             /\ s.last = L!MapLoc(locsBase + s.x)
                             /\ L!Zone(locsBase + s.x) \in locsFollowed => s.loc = locs'[locsBase + s.x]
      BY <1>1 DEF RecordInv
    <2>1. CASE s.x = x
      <3>1. locsBase + s.x = t /\ s.loc = locs'[t]
        BY <1>2, <1>3, <1>4, <2>1
      <3>2. ASSUME t \notin locsOff' PROVE s.last = L!MapLoc(t)
        <4>1. CASE L!Recorded(x)
          <5>1. PICK q \in spawned : q.x = x /\ s.last = q.last
            BY <1>4, <2>1, <4>1
          <5> QED
            BY <1>2, <1>6, <3>2, <5>1 DEF LocsInv, RecordInv
        <4>2. CASE ~L!Recorded(x)
          BY <1>4, <1>8, <2>1, <3>2, <4>2
        <4> QED
          BY <4>1, <4>2
      <3> QED
        BY <3>1, <3>2
    <2>2. CASE s.x # x
      <3>1. s \in spawned
        BY <1>4, <2>2
      <3>2. s.x \in SceneTiles
        BY <1>0, <3>1 DEF L!TypeOK, L!Spawned, SceneTiles
      <3>3. locsBase + s.x # t
        BY <1>0, <1>2, <2>2, <3>2, SceneTypes
      <3>4. /\ locsBase + s.x \in Doors
            /\ locsBase + s.x \notin locsOff =>
                 /\ s.last = L!MapLoc(locsBase + s.x)
                 /\ L!Zone(locsBase + s.x) \in locsFollowed => s.loc = locs[locsBase + s.x]
        BY <3>1 DEF LocsInv, RecordInv
      <3> QED
        BY <1>3, <1>6, <3>3, <3>4
    <2> QED
      BY <2>1, <2>2
  <1>10. UnrecordedInv'
    <2> SUFFICES ASSUME NEW u \in Doors, L!Zone(u) \in locsFollowed,
                        ~\E s \in spawned' : s.x = u - locsBase
                 PROVE  locs'[u] = L!MapLoc(u)
      BY <1>1 DEF UnrecordedInv, L!Recorded
    <2>1. u # t
      BY <1>4 DEF x
    <2>2. u - locsBase # x
      <3>1. u \in Int
        BY <1>0, SceneTypes
      <3> QED
        BY <1>2, <2>1, <3>1
    <2>3. ~L!Recorded(u - locsBase)
      BY <1>4, <2>2 DEF L!Recorded
    <2> QED
      BY <1>3, <1>6, <2>1, <2>3 DEF LocsInv, UnrecordedInv
  <1>11. ShownInv'
    <2> SUFFICES ASSUME locsState = 2, NEW u \in Doors \cap L!Window(locsBase), u \notin locsOff',
                        ~L!Missing(u), L!Inner(u), ~L!Pending(u - locsBase)
                 PROVE  Has(spawned', locsBase, u - locsBase, shown'[u - locsBase])
      BY <1>1 DEF ShownInv, L!Missing, L!Inner, L!Pending
    <2>1. Has(spawned, locsBase, u - locsBase, shown[u - locsBase])
      BY <1>6 DEF LocsInv, ShownInv
    <2>2. u - locsBase \in SceneTiles /\ (u # t => u - locsBase # x) /\ u \in Int
      BY <1>0, <1>2, SceneTypes
    <2>3. CASE u = t
      <3>1. shown'[x] = loc
        BY <1>2, <1>5, <2>3 DEF L!Inner, x
      <3>2. Has(spawned', locsBase, x, loc)
        BY <1>4 DEF Has
      <3> QED
        BY <2>3, <3>1, <3>2 DEF x
    <2>4. CASE u # t
      <3>1. shown'[u - locsBase] = shown[u - locsBase]
        BY <1>5, <2>2, <2>4
      <3>2. Has(spawned', locsBase, u - locsBase, shown[u - locsBase])
        BY <1>4, <2>1, <2>2, <2>4, HasStays
      <3> QED
        BY <3>1, <3>2
    <2> QED
      BY <2>3, <2>4
  <1>12. MergeInv'
    <2> SUFFICES ASSUME locsState = 2, NEW m \in merged
                 PROVE  /\ locsBase + m.x \in Doors
                        /\ m.back /\ locsBase + m.x \notin locsOff' => Has(spawned', locsBase, m.x, m.loc)
                        /\ ~m.back => \E q \in merged : q.back /\ q.pair = m.pair /\ q.x = m.x
      BY <1>1 DEF MergeInv
    <2>1. /\ locsBase + m.x \in Doors
          /\ m.back /\ locsBase + m.x \notin locsOff => Has(spawned, locsBase, m.x, m.loc)
          /\ ~m.back => \E q \in merged : q.back /\ q.pair = m.pair /\ q.x = m.x
      BY DEF LocsInv, MergeInv
    <2>2. CASE m.x = x
      <3>1. L!Pending(x)
        BY <2>2 DEF L!Pending
      <3>2. t \in locsOff'
        BY <1>6, <3>1 DEF L!Spoilt, x
      <3> QED
        BY <1>2, <2>1, <2>2, <3>2
    <2>3. CASE m.x # x
      BY <1>4, <1>6, <2>1, <2>3, HasStays
    <2> QED
      BY <2>2, <2>3
  <1> QED
    BY <1>7, <1>9, <1>10, <1>11, <1>12 DEF LocsInv

LEMMA ChangeKeeps ==
  ASSUME LocsInv, NEW t \in Doors \cap L!Window(locsBase), NEW loc \in L!Locs, L!Change(t, loc)
  PROVE  LocsInv'
  <1>1. CASE L!Zone(t) \in locsFollowed
    BY <1>1, ToldKeeps
  <1>2. CASE L!Zone(t) \notin locsFollowed
    BY <1>2, UntoldKeeps DEF L!Change
  <1> QED
    BY <1>1, <1>2

\* What is undone of a tile, and what the records and the scene are once the
\* zone is told in full.
LEMMA UndoneLoc ==
  ASSUME L!TypeOK, NEW z
  PROVE  /\ L!Undone(z) \in [SceneTiles -> L!Locs]
         /\ \A x \in SceneTiles : x \notin 1..(Span - 2) => L!Undone(z)[x] = shown[x]
         /\ \A x \in SceneTiles : (\A s \in L!Changed(z) : s.x # x) => L!Undone(z)[x] = shown[x]
         /\ \A s \in L!Changed(z) : s.x \in 1..(Span - 2) => L!Undone(z)[s.x] = s.last
  <1> DEFINE Back(s) == [x |-> s.x, loc |-> s.last]
             changes == {Back(s) : s \in L!Changed(z)}
  <1>1. /\ shown \in [SceneTiles -> L!Locs]
        /\ \A s \in L!Changed(z) : s.x \in SceneTiles /\ s.last \in L!Locs
        /\ \A q, s \in L!Changed(z) : q.x = s.x => q = s
    BY DEF L!TypeOK, L!Changed, L!Spawned, SceneTiles
  <1>2. \A s : Back(s).x = s.x /\ Back(s).loc = s.last
    OBVIOUS
  <1>3. \A c \in changes : \E s \in L!Changed(z) : c = Back(s)
    OBVIOUS
  <1>4. \A s \in L!Changed(z) : Back(s) \in changes
    OBVIOUS
  <1>5. L!Undone(z) = L!addLocs(shown, changes)
    BY Zenon DEF L!Undone
  <1> HIDE DEF Back, changes
  <1>6. \A c \in changes : c.loc \in L!Locs
    BY <1>1, <1>2, <1>3
  <1>7. \A c, d \in changes : c.x = d.x => c.loc = d.loc
    BY <1>1, <1>2, <1>3
  <1>8. /\ L!Undone(z) \in [SceneTiles -> L!Locs]
        /\ \A x \in SceneTiles : x \notin 1..(Span - 2) => L!Undone(z)[x] = shown[x]
        /\ \A x \in SceneTiles : (\A c \in changes : c.x # x) => L!Undone(z)[x] = shown[x]
        /\ \A c \in changes : c.x \in SceneTiles /\ c.x \in 1..(Span - 2) => L!Undone(z)[c.x] = c.loc
    BY <1>1, <1>5, <1>6, <1>7, AddLocs
  <1> QED
    BY <1>1, <1>2, <1>3, <1>4, <1>8

\* A tile of a zone that is told in full: without its changes it is as in the
\* map.
LEMMA UndoneIsMap ==
  ASSUME LocsInv, locsState = 2, NEW t \in Doors \cap L!Window(locsBase),
         t \notin locsOff, ~L!Missing(t), L!Inner(t), ~L!Pending(t - locsBase)
  PROVE  L!Undone(L!Zone(t))[t - locsBase] = L!MapLoc(t)
  <1> DEFINE x == t - locsBase
             z == L!Zone(t)
             undone == L!Undone(z)
  <1>0. L!TypeOK
    BY DEF LocsInv
  <1>1. x \in SceneTiles /\ t \in Int /\ locsBase \in Int /\ locsBase + x = t
    BY <1>0, SceneTypes
  <1>2. Has(spawned, locsBase, x, shown[x])
    BY DEF LocsInv, ShownInv
  <1>3. x \in 1..(Span - 2)
    BY DEF L!Inner
  <1>4. /\ (\A s \in L!Changed(z) : s.x # x) => undone[x] = shown[x]
        /\ \A s \in L!Changed(z) : s.x \in 1..(Span - 2) => undone[s.x] = s.last
    BY <1>0, <1>1, UndoneLoc
  <1>5. \A s \in spawned : s.x = x => s \in L!Changed(z)
    BY <1>1 DEF L!Changed
  <1> HIDE DEF x, undone
  <1>6. CASE L!Recorded(x)
    <2>1. PICK s \in spawned : s.x = x
      BY <1>6 DEF L!Recorded
    <2>2. undone[x] = s.last
      BY <1>3, <1>4, <1>5, <2>1
    <2>3. s.last = L!MapLoc(t)
      BY <1>1, <2>1 DEF LocsInv, RecordInv
    <2> QED
      BY <2>2, <2>3 DEF undone, x, z
  <1>7. CASE ~L!Recorded(x)
    <2>1. \A s \in spawned : s.x # x
      BY <1>7 DEF L!Recorded
    <2>2. undone[x] = shown[x]
      BY <1>4, <2>1 DEF L!Changed
    <2>3. shown[x] = L!MapLoc(t)
      BY <1>1, <1>2, <2>1 DEF Has
    <2> QED
      BY <2>2, <2>3 DEF undone, x, z
  <1> QED
    BY <1>6, <1>7

\* The zone is told in full: other zones' records are as they were, and the
\* tiles that differ from the map are recorded anew.
LEMMA FollowRecords ==
  ASSUME LocsInv, NEW z \in L!Zones(locsBase), L!Follow(z)
  PROVE  /\ L!TypeOK'
         /\ \A t \in Doors : L!Zone(t) # z => \A s : s.x = t - locsBase =>
                                                 (s \in spawned' <=> s \in spawned)
         /\ \A s \in spawned' : L!Zone(locsBase + s.x) # z => s \in spawned
         /\ \A s \in spawned' : L!Zone(locsBase + s.x) = z =>
              /\ locsBase + s.x \in Doors
              /\ locs[locsBase + s.x] # L!MapLoc(locsBase + s.x)
              /\ s.loc = locs[locsBase + s.x]
              /\ s.last = L!Undone(z)[s.x]
         /\ \A t \in Doors : L!Zone(t) = z /\ locs[t] # L!MapLoc(t) =>
              \E s \in spawned' : s.x = t - locsBase
         /\ \A x \in SceneTiles :
              shown'[x] = IF /\ x \in 1..(Span - 2) /\ locsBase + x \in Doors
                             /\ L!Zone(locsBase + x) = z
                             /\ locs[locsBase + x] # L!MapLoc(locsBase + x)
                          THEN locs[locsBase + x] ELSE L!Undone(z)[x]
  <1> DEFINE undone == L!Undone(z)
             touched == {t \in Doors : L!Zone(t) = z}
             differ == {t \in touched : locs[t] # L!MapLoc(t)}
             Record(t) == [x |-> t - locsBase, loc |-> locs[t], last |-> undone[t - locsBase]]
             Told(t) == [x |-> t - locsBase, loc |-> locs[t]]
             records == {Record(t) : t \in differ}
             changes == {Told(t) : t \in differ}
  <1>0. L!TypeOK
    BY DEF LocsInv
  <1>1. /\ locsFollowed' = locsFollowed \cup {z}
        /\ spawned' = (spawned \ L!Changed(z)) \cup records
        /\ shown' = L!addLocs(undone, changes)
        /\ locsOff' \subseteq locsOff \cup touched
        /\ UNCHANGED <<locsBase, locsState, merged, loaded, built, locs>>
    BY DEF L!Follow
  <1>2. /\ differ \subseteq touched /\ touched \subseteq Doors
        /\ \A t \in Doors : t \in differ <=> L!Zone(t) = z /\ locs[t] # L!MapLoc(t)
        /\ \A t \in touched : L!Zone(t) = z
    OBVIOUS
  <1>3. \A t \in touched : t \in L!Window(locsBase)
    <2> SUFFICES ASSUME NEW t \in touched PROVE t \in L!Window(locsBase)
      OBVIOUS
    <2> QED
      BY <1>0, WholeZones, SceneTypes DEF L!TypeOK
  <1>4. \A t \in touched : /\ t \in Int /\ t - locsBase \in SceneTiles
                            /\ locsBase + (t - locsBase) = t
    BY <1>0, <1>3, SceneTypes
  <1>5. /\ undone \in [SceneTiles -> L!Locs]
        /\ \A t \in touched : locs[t] \in L!Locs
    BY <1>0, UndoneLoc DEF L!TypeOK
  <1>6. /\ \A t \in differ : Record(t) \in records /\ Told(t) \in changes
        /\ \A s \in records : \E t \in differ : s = Record(t)
        /\ \A c \in changes : \E t \in differ : c = Told(t)
        /\ \A t : Record(t).x = t - locsBase /\ Record(t).loc = locs[t]
                  /\ Record(t).last = undone[t - locsBase]
        /\ \A t : Told(t).x = t - locsBase /\ Told(t).loc = locs[t]
    OBVIOUS
  <1>7. \A t \in differ : Record(t) \in L!Spawned
    BY <1>2, <1>4, <1>5 DEF L!Spawned, SceneTiles
  <1> HIDE DEF undone, touched, differ, Record, Told, records, changes
  <1>8. \A s \in records : locsBase + s.x \in differ /\ s = Record(locsBase + s.x)
    BY <1>2, <1>4, <1>6
  <1>9. \A c \in changes : locsBase + c.x \in differ /\ c = Told(locsBase + c.x)
    BY <1>2, <1>4, <1>6
  <1>10. \A s \in spawned' : L!Zone(locsBase + s.x) # z => s \in spawned
    BY <1>1, <1>2, <1>8
  <1>11. \A s \in spawned' : L!Zone(locsBase + s.x) = z => s \in records
    BY <1>1 DEF L!Changed
  <1>12. \A s \in spawned' : L!Zone(locsBase + s.x) = z =>
           /\ locsBase + s.x \in Doors
           /\ locs[locsBase + s.x] # L!MapLoc(locsBase + s.x)
           /\ s.loc = locs[locsBase + s.x]
           /\ s.last = undone[s.x]
    <2> SUFFICES ASSUME NEW s \in spawned', L!Zone(locsBase + s.x) = z
                 PROVE  /\ locsBase + s.x \in Doors
                        /\ locs[locsBase + s.x] # L!MapLoc(locsBase + s.x)
                        /\ s.loc = locs[locsBase + s.x]
                        /\ s.last = undone[s.x]
      OBVIOUS
    <2>1. PICK t \in differ : s = Record(t)
      BY <1>6, <1>11
    <2>2. s.x = t - locsBase /\ s.loc = locs[t] /\ s.last = undone[t - locsBase]
      BY <1>6, <2>1
    <2>3. locsBase + s.x = t
      BY <1>2, <1>4, <2>2
    <2> QED
      BY <1>2, <2>2, <2>3
  <1>13. \A t \in Doors : L!Zone(t) = z /\ locs[t] # L!MapLoc(t) =>
           \E s \in spawned' : s.x = t - locsBase
    BY <1>1, <1>2, <1>6
  <1>14. ASSUME NEW t \in Doors, L!Zone(t) # z, NEW s, s.x = t - locsBase
         PROVE  s \in spawned' <=> s \in spawned
    <2>1. t \in Int /\ locsBase \in Int
      BY <1>0, SceneTypes
    <2>2. locsBase + s.x = t
      BY <1>14, <2>1
    <2>3. s \notin records
      BY <1>2, <1>8, <1>14, <2>2
    <2>4. s \notin L!Changed(z)
      BY <1>14, <2>2 DEF L!Changed
    <2> QED
      BY <1>1, <2>3, <2>4
  <1>15. /\ shown' \in [SceneTiles -> L!Locs]
         /\ \A x \in SceneTiles : x \notin 1..(Span - 2) => shown'[x] = undone[x]
         /\ \A x \in SceneTiles : (\A c \in changes : c.x # x) => shown'[x] = undone[x]
         /\ \A c \in changes : c.x \in SceneTiles /\ c.x \in 1..(Span - 2) => shown'[c.x] = c.loc
    <2>1. \A c \in changes : c.loc \in L!Locs
      BY <1>2, <1>5, <1>6
    <2>2. \A c, d \in changes : c.x = d.x => c.loc = d.loc
      BY <1>9
    <2>3. /\ L!addLocs(undone, changes) \in [SceneTiles -> L!Locs]
          /\ \A x \in SceneTiles : x \notin 1..(Span - 2) => L!addLocs(undone, changes)[x] = undone[x]
          /\ \A x \in SceneTiles : (\A c \in changes : c.x # x) => L!addLocs(undone, changes)[x] = undone[x]
          /\ \A c \in changes : c.x \in SceneTiles /\ c.x \in 1..(Span - 2) =>
               L!addLocs(undone, changes)[c.x] = c.loc
      BY <1>5, <2>1, <2>2, AddLocs
    <2> QED
      BY <1>1, <2>3
  <1>16. ASSUME NEW x \in SceneTiles
         PROVE  shown'[x] = IF /\ x \in 1..(Span - 2) /\ locsBase + x \in Doors
                               /\ L!Zone(locsBase + x) = z
                               /\ locs[locsBase + x] # L!MapLoc(locsBase + x)
                            THEN locs[locsBase + x] ELSE undone[x]
    <2>1. x \in Int /\ locsBase \in Int /\ (locsBase + x) - locsBase = x
      BY <1>0, SceneTypes
    <2>2. CASE x \in 1..(Span - 2) /\ locsBase + x \in differ
      <3>1. Told(locsBase + x) \in changes /\ Told(locsBase + x).x = x
            /\ Told(locsBase + x).loc = locs[locsBase + x]
        BY <1>6, <2>1, <2>2
      <3>2. shown'[x] = locs[locsBase + x]
        BY <1>15, <2>2, <3>1
      <3> QED
        BY <1>2, <2>2, <3>2
    <2>3. CASE x \notin 1..(Span - 2)
      BY <1>15, <2>3
    <2>4. CASE locsBase + x \notin differ
      <3>1. \A c \in changes : c.x # x
        BY <1>9, <2>4
      <3>2. shown'[x] = undone[x]
        BY <1>15, <3>1
      <3> QED
        BY <1>2, <2>4, <3>2
    <2> QED
      BY <2>2, <2>3, <2>4
  <1>17. L!TypeOK'
    <2>1. spawned' \subseteq L!Spawned
      BY <1>0, <1>1, <1>6, <1>7 DEF L!TypeOK
    <2>2. ASSUME NEW q \in spawned', NEW s \in spawned', q.x = s.x
          PROVE  q = s
      <3>1. CASE L!Zone(locsBase + s.x) = z
        BY <1>8, <1>11, <2>2, <3>1
      <3>2. CASE L!Zone(locsBase + s.x) # z
        BY <1>0, <1>10, <2>2, <3>2 DEF L!TypeOK
      <3> QED
        BY <3>1, <3>2
    <2>3. locsFollowed' \subseteq L!Zones(locsBase)
      BY <1>0, <1>1 DEF L!TypeOK
    <2>4. locsOff' \subseteq Doors
      BY <1>0, <1>1, <1>2 DEF L!TypeOK
    <2>5. shown' \in [0..(Span - 1) -> L!Locs]
      BY <1>15 DEF SceneTiles
    <2> QED
      BY <1>0, <1>1, <2>1, <2>2, <2>3, <2>4, <2>5 DEF L!TypeOK
  <1> QED
    BY <1>10, <1>12, <1>13, <1>14, <1>16, <1>17 DEF undone

LEMMA FollowKeeps ==
  ASSUME LocsInv, NEW z \in L!Zones(locsBase), L!Follow(z)
  PROVE  LocsInv'
  <1>0. L!TypeOK
    BY DEF LocsInv
  <1>1. /\ locsFollowed' = locsFollowed \cup {z} /\ locsOff \subseteq locsOff'
        /\ \A t \in Doors : L!Zone(t) = z /\ t \notin locsOff' =>
             ~L!Spoilt(t, locs[t] # L!MapLoc(t))
        /\ UNCHANGED <<locsBase, locsState, merged, loaded, built, locs>>
    BY DEF L!Follow
  <1>2. /\ L!TypeOK'
        /\ \A t \in Doors : L!Zone(t) # z => \A s : s.x = t - locsBase =>
                                                (s \in spawned' <=> s \in spawned)
        /\ \A s \in spawned' : L!Zone(locsBase + s.x) # z => s \in spawned
        /\ \A s \in spawned' : L!Zone(locsBase + s.x) = z =>
             /\ locsBase + s.x \in Doors
             /\ locs[locsBase + s.x] # L!MapLoc(locsBase + s.x)
             /\ s.loc = locs[locsBase + s.x]
             /\ s.last = L!Undone(z)[s.x]
        /\ \A t \in Doors : L!Zone(t) = z /\ locs[t] # L!MapLoc(t) =>
             \E s \in spawned' : s.x = t - locsBase
        /\ \A x \in SceneTiles :
             shown'[x] = IF /\ x \in 1..(Span - 2) /\ locsBase + x \in Doors
                            /\ L!Zone(locsBase + x) = z
                            /\ locs[locsBase + x] # L!MapLoc(locsBase + x)
                         THEN locs[locsBase + x] ELSE L!Undone(z)[x]
    BY FollowRecords
  <1>3. ASSUME NEW t \in Doors \cap L!Window(locsBase), L!Zone(t) = z, t \notin locsOff',
               locsState = 2, ~L!Missing(t), L!Inner(t), ~L!Pending(t - locsBase)
        PROVE  L!Undone(z)[t - locsBase] = L!MapLoc(t)
    BY <1>1, <1>3, UndoneIsMap
  <1>4. \A t \in Doors : L!Zone(t) = z => t \in L!Window(locsBase)
    BY <1>0, WholeZones, SceneTypes DEF L!TypeOK
  <1>5. RecordInv'
    <2> SUFFICES ASSUME NEW s \in spawned'
                 PROVE  /\ locsBase + s.x \in Doors
                        /\ locsBase + s.x \notin locsOff' =>
                             /\ s.last = L!MapLoc(locsBase + s.x)
                             /\ L!Zone(locsBase + s.x) \in locsFollowed' => s.loc = locs[locsBase + s.x]
      BY <1>1 DEF RecordInv
    <2>1. CASE L!Zone(locsBase + s.x) # z
      BY <1>1, <1>2, <2>1 DEF LocsInv, RecordInv
    <2>2. CASE L!Zone(locsBase + s.x) = z
      <3> DEFINE t == locsBase + s.x
      <3>1. t \in Doors /\ locs[t] # L!MapLoc(t) /\ s.loc = locs[t] /\ s.last = L!Undone(z)[s.x]
        BY <1>2, <2>2
      <3>2. t - locsBase = s.x
        <4>1. s.x \in SceneTiles
          BY <1>2 DEF L!TypeOK, L!Spawned, SceneTiles
        <4> QED
          BY <1>0, <4>1, SceneTypes
      <3>3. t \in L!Window(locsBase)
        BY <1>4, <2>2, <3>1
      <3> HIDE DEF t
      <3>4. ASSUME t \notin locsOff' PROVE s.last = L!MapLoc(t)
        <4>1. ~L!Spoilt(t, TRUE)
          BY <1>1, <2>2, <3>1, <3>4 DEF t
        <4>2. locsState = 2 /\ ~L!Missing(t) /\ L!Inner(t) /\ ~L!Pending(t - locsBase)
          BY <4>1 DEF L!Spoilt
        <4> QED
          BY <1>3, <2>2, <3>1, <3>2, <3>3, <3>4, <4>2 DEF t
      <3> QED
        BY <3>1, <3>4 DEF t
    <2> QED
      BY <2>1, <2>2
  <1>6. UnrecordedInv'
    <2> SUFFICES ASSUME NEW t \in Doors, L!Zone(t) \in locsFollowed',
                        ~\E s \in spawned' : s.x = t - locsBase
                 PROVE  locs[t] = L!MapLoc(t)
      BY <1>1 DEF UnrecordedInv, L!Recorded
    <2>1. CASE L!Zone(t) = z
      BY <1>2, <2>1
    <2>2. CASE L!Zone(t) # z
      <3>1. ~L!Recorded(t - locsBase)
        BY <1>2, <2>2 DEF L!Recorded
      <3> QED
        BY <1>1, <2>2, <3>1 DEF LocsInv, UnrecordedInv
    <2> QED
      BY <2>1, <2>2
  <1>7. ShownInv'
    <2> SUFFICES ASSUME locsState = 2, NEW t \in Doors \cap L!Window(locsBase), t \notin locsOff',
                        ~L!Missing(t), L!Inner(t), ~L!Pending(t - locsBase)
                 PROVE  Has(spawned', locsBase, t - locsBase, shown'[t - locsBase])
      BY <1>1 DEF ShownInv, L!Missing, L!Inner, L!Pending
    <2> DEFINE x == t - locsBase
    <2>1. x \in SceneTiles /\ t \in Int /\ locsBase \in Int /\ locsBase + x = t
      BY <1>0, SceneTypes
    <2>2. x \in 1..(Span - 2)
      BY DEF L!Inner
    <2> HIDE DEF x
    <2>3. CASE L!Zone(t) # z
      <3>1. shown'[x] = L!Undone(z)[x]
        BY <1>2, <2>1, <2>3
      <3>2. \A s \in L!Changed(z) : s.x # x
        BY <2>1, <2>3 DEF L!Changed
      <3>3. L!Undone(z)[x] = shown[x]
        BY <1>0, <2>1, <3>2, UndoneLoc
      <3>4. Has(spawned, locsBase, x, shown[x])
        BY <1>1 DEF LocsInv, ShownInv, x
      <3>5. \A s : s.x = x => (s \in spawned' <=> s \in spawned)
        BY <1>2, <2>3 DEF x
      <3>6. Has(spawned', locsBase, x, shown[x])
        BY <3>4, <3>5, HasStays
      <3> QED
        BY <3>1, <3>3, <3>6 DEF x
    <2>4. CASE L!Zone(t) = z
      <3>1. L!Undone(z)[x] = L!MapLoc(t)
        BY <1>3, <2>4 DEF x
      <3>2. shown'[x] = locs[t]
        BY <1>2, <2>1, <2>2, <2>4, <3>1
      <3>3. \A s \in spawned' : s.x = x => locs[t] # L!MapLoc(t) /\ s.loc = locs[t]
        BY <1>2, <2>1, <2>4
      <3>4. (\A s \in spawned' : s.x # x) => locs[t] = L!MapLoc(t)
        BY <1>2, <2>4 DEF x
      <3>5. Has(spawned', locsBase, x, locs[t])
        BY <2>1, <3>3, <3>4 DEF Has
      <3> QED
        BY <3>2, <3>5 DEF x
    <2> QED
      BY <2>3, <2>4
  <1>8. MergeInv'
    <2> SUFFICES ASSUME locsState = 2, NEW m \in merged
                 PROVE  /\ locsBase + m.x \in Doors
                        /\ m.back /\ locsBase + m.x \notin locsOff' => Has(spawned', locsBase, m.x, m.loc)
                        /\ ~m.back => \E q \in merged : q.back /\ q.pair = m.pair /\ q.x = m.x
      BY <1>1 DEF MergeInv
    <2>1. /\ locsBase + m.x \in Doors
          /\ m.back /\ locsBase + m.x \notin locsOff => Has(spawned, locsBase, m.x, m.loc)
          /\ ~m.back => \E q \in merged : q.back /\ q.pair = m.pair /\ q.x = m.x
      BY DEF LocsInv, MergeInv
    <2> DEFINE t == locsBase + m.x
    <2>2. t - locsBase = m.x
      <3>1. m.x \in SceneTiles
        BY <1>0 DEF L!TypeOK, L!Merged, SceneTiles
      <3> QED
        BY <1>0, <3>1, SceneTypes
    <2>3. L!Pending(m.x)
      BY DEF L!Pending
    <2> HIDE DEF t
    <2>4. CASE L!Zone(t) = z
      <3>1. t \in locsOff'
        BY <1>1, <2>1, <2>2, <2>3, <2>4 DEF L!Spoilt, t
      <3> QED
        BY <2>1, <3>1 DEF t
    <2>5. CASE L!Zone(t) # z
      <3>1. \A s : s.x = m.x => (s \in spawned' <=> s \in spawned)
        BY <1>2, <2>1, <2>2, <2>5 DEF t
      <3> QED
        BY <1>1, <2>1, <3>1, HasStays
    <2> QED
      BY <2>4, <2>5
  <1> QED
    BY <1>2, <1>5, <1>6, <1>7, <1>8 DEF LocsInv

LEMMA UnfollowKeeps ==
  ASSUME LocsInv, NEW z, L!Unfollow(z)
  PROVE  LocsInv'
  <1>1. /\ locsFollowed' \subseteq locsFollowed
        /\ UNCHANGED <<locsBase, locsState, shown, spawned, merged, loaded, built, locs, locsOff>>
    BY DEF L!Unfollow
  <1>2. L!TypeOK'
    BY <1>1 DEF LocsInv, L!TypeOK
  <1>3. RecordInv'
    BY <1>1 DEF LocsInv, RecordInv
  <1>4. UnrecordedInv'
    BY <1>1 DEF LocsInv, UnrecordedInv, L!Recorded
  <1>5. ShownInv'
    BY <1>1 DEF LocsInv, ShownInv, L!Missing, L!Inner, L!Pending
  <1>6. MergeInv'
    BY <1>1 DEF LocsInv, MergeInv
  <1> QED
    BY <1>2, <1>3, <1>4, <1>5, <1>6 DEF LocsInv

\* The window moves: the records within it are of the same tiles of the world.
LEMMA WindowMovesKeeps ==
  ASSUME LocsInv, NEW b \in Windows, L!Rebuild(b)
  PROVE  LocsInv'
  <1> DEFINE Moved(s) == [s EXCEPT !.x = @ - (b - locsBase)]
             kept == {s \in spawned : locsBase + s.x \in L!Window(b)}
  <1>0. L!TypeOK
    BY DEF LocsInv
  <1>1. /\ locsBase' = b /\ spawned' = {Moved(s) : s \in kept}
        /\ loaded' \subseteq L!FilesOf(b) /\ locsState' \in {0, 1}
        /\ locsFollowed' = locsFollowed \cap L!Zones(b)
        /\ locsOff' = locsOff \cap L!Window(b)
        /\ UNCHANGED <<shown, merged, built, locs>>
    BY DEF L!Rebuild, L!Shifted
  <1>2. /\ b \in Int /\ locsBase \in Int /\ Span \in Nat /\ Doors \subseteq Nat
    BY <1>0, SceneTypes, SceneLocsAssumption DEF L!SceneLocsAssumption, L!Whole
  <1>3. ASSUME NEW s \in kept
        PROVE  /\ s \in spawned /\ s.x \in Int
               /\ Moved(s) \in L!Spawned /\ Moved(s).x = s.x - (b - locsBase)
               /\ b + Moved(s).x = locsBase + s.x
               /\ Moved(s).loc = s.loc /\ Moved(s).last = s.last
               /\ locsBase + s.x \in L!Window(b)
    <2>1. s \in L!Spawned /\ s \in spawned /\ locsBase + s.x \in L!Window(b)
      BY <1>0, <1>3 DEF L!TypeOK
    <2>2. s.x \in Int
      BY <1>2, <2>1 DEF L!Spawned
    <2>3. s.x - (b - locsBase) \in 0..(Span - 1)
      BY <1>2, <2>1, <2>2 DEF L!Window
    <2>4. Moved(s) \in L!Spawned /\ Moved(s).x = s.x - (b - locsBase)
          /\ Moved(s).loc = s.loc /\ Moved(s).last = s.last
      BY <2>1, <2>3 DEF L!Spawned
    <2> QED
      BY <1>2, <2>1, <2>2, <2>4
  <1>4. \A s \in kept : Moved(s) \in spawned'
    BY <1>1
  <1>5. \A r \in spawned' : \E s \in kept : r = Moved(s)
    BY <1>1
  <1>6. \A s \in spawned : locsBase + s.x \in L!Window(b) => s \in kept
    OBVIOUS
  <1> HIDE DEF Moved, kept
  <1>7. RecordInv'
    <2> SUFFICES ASSUME NEW r \in spawned'
                 PROVE  /\ b + r.x \in Doors
                        /\ b + r.x \notin locsOff' =>
                             /\ r.last = L!MapLoc(b + r.x)
                             /\ L!Zone(b + r.x) \in locsFollowed' => r.loc = locs[b + r.x]
      BY <1>1 DEF RecordInv
    <2>1. PICK s \in kept : r = Moved(s)
      BY <1>5
    <2>2. /\ s \in spawned /\ b + r.x = locsBase + s.x /\ locsBase + s.x \in L!Window(b)
          /\ r.loc = s.loc /\ r.last = s.last
      BY <1>3, <2>1
    <2>3. /\ locsBase + s.x \in Doors
          /\ locsBase + s.x \notin locsOff =>
               /\ s.last = L!MapLoc(locsBase + s.x)
               /\ L!Zone(locsBase + s.x) \in locsFollowed => s.loc = locs[locsBase + s.x]
      BY <2>2 DEF LocsInv, RecordInv
    <2> QED
      BY <1>1, <2>2, <2>3
  <1>8. UnrecordedInv'
    <2> SUFFICES ASSUME NEW t \in Doors, L!Zone(t) \in locsFollowed',
                        ~\E r \in spawned' : r.x = t - b
                 PROVE  locs[t] = L!MapLoc(t)
      BY <1>1 DEF UnrecordedInv, L!Recorded
    <2>1. t \in Nat /\ L!Zone(t) \in locsFollowed /\ L!Zone(t) \in L!Zones(b)
      BY <1>1, <1>2
    <2>2. t \in L!Window(b)
      BY <2>1, WholeZones
    <2>3. ASSUME NEW s \in spawned, s.x = t - locsBase
          PROVE  FALSE
      <3>1. locsBase + s.x = t
        BY <1>2, <2>1, <2>3
      <3>2. s \in kept
        BY <1>6, <2>2, <3>1
      <3>3. Moved(s) \in spawned' /\ Moved(s).x = t - b
        BY <1>2, <1>3, <1>4, <2>1, <2>3, <3>2
      <3> QED
        BY <3>3
    <2> QED
      BY <2>1, <2>3 DEF LocsInv, UnrecordedInv, L!Recorded
  <1>9. ShownInv' /\ MergeInv'
    BY <1>1 DEF ShownInv, MergeInv
  <1>10. L!TypeOK'
    <2>1. spawned' \subseteq L!Spawned
      BY <1>3, <1>5
    <2>2. ASSUME NEW q \in spawned', NEW r \in spawned', q.x = r.x
          PROVE  q = r
      <3>1. PICK s \in kept : q = Moved(s)
        BY <1>5
      <3>2. PICK u \in kept : r = Moved(u)
        BY <1>5
      <3>3. s.x = u.x
        BY <1>2, <1>3, <2>2, <3>1, <3>2
      <3>4. s = u
        BY <1>0, <1>3, <3>3 DEF L!TypeOK
      <3> QED
        BY <3>1, <3>2, <3>4
    <2>3. loaded' \subseteq MapFiles
      BY <1>1 DEF L!FilesOf
    <2> QED
      BY <1>0, <1>1, <2>1, <2>2, <2>3 DEF L!TypeOK
  <1> QED
    BY <1>7, <1>8, <1>9, <1>10 DEF LocsInv

\* A file comes: the scene that is shown was built without it.
LEMMA FileArrivesKeeps ==
  ASSUME LocsInv, NEW f, L!FileArrives(f)
  PROVE  LocsInv'
  <1>1. /\ loaded' = loaded \cup {f} /\ f \in MapFiles
        /\ UNCHANGED <<locsBase, locsState, shown, spawned, merged, built, locs, locsFollowed, locsOff>>
    BY DEF L!FileArrives, L!FilesOf
  <1>2. L!TypeOK'
    BY <1>1 DEF LocsInv, L!TypeOK
  <1>3. RecordInv' /\ MergeInv'
    BY <1>1 DEF LocsInv, RecordInv, MergeInv
  <1>4. UnrecordedInv'
    BY <1>1 DEF LocsInv, UnrecordedInv, L!Recorded
  <1>5. ShownInv'
    BY <1>1 DEF LocsInv, ShownInv, L!Missing, L!Inner, L!Pending
  <1> QED
    BY <1>2, <1>3, <1>4, <1>5 DEF LocsInv

\* The last one has come, and the scene is to be built.
LEMMA FileDoneKeeps ==
  ASSUME LocsInv, L!FileDone
  PROVE  LocsInv'
  <1>1. /\ locsState' = 1
        /\ UNCHANGED <<locsBase, shown, spawned, merged, loaded, built, locs, locsFollowed, locsOff>>
    BY DEF L!FileDone
  <1>2. L!TypeOK'
    <2>1. locsState' \in 0..2
      BY <1>1
    <2> QED
      BY <1>1, <2>1 DEF LocsInv, L!TypeOK
  <1>3. RecordInv'
    BY <1>1 DEF LocsInv, RecordInv
  <1>4. UnrecordedInv'
    BY <1>1 DEF LocsInv, UnrecordedInv, L!Recorded
  <1>5. ShownInv' /\ MergeInv'
    BY <1>1 DEF ShownInv, MergeInv
  <1> QED
    BY <1>2, <1>3, <1>4, <1>5 DEF LocsInv

\* A session begins, without a record.
LEMMA LoginKeeps ==
  ASSUME LocsInv, L!Login
  PROVE  LocsInv'
  <1>1. /\ locsState' = 0 /\ spawned' = {} /\ merged' = {} /\ locsFollowed' = {}
        /\ UNCHANGED <<locsBase, shown, loaded, built, locs, locsOff>>
    BY DEF L!Login
  <1>2. L!TypeOK'
    <2>1. locsState' \in 0..2
      BY <1>1
    <2> QED
      BY <1>1, <2>1 DEF LocsInv, L!TypeOK
  <1> QED
    BY <1>1, <1>2 DEF LocsInv, RecordInv, UnrecordedInv, ShownInv, MergeInv

\* The scene is built; tiles without a record are as in the map again.
LEMMA BuildKeeps ==
  ASSUME LocsInv, L!BuildScene
  PROVE  LocsInv'
  <1> DEFINE map == [x \in SceneTiles |->
                      IF x \in 1..(Span - 2) /\ \E f \in loaded : locsBase + x \in f
                      THEN L!MapLoc(locsBase + x) ELSE "none"]
  <1>0. L!TypeOK
    BY DEF LocsInv
  <1>1. /\ locsState' = 2 /\ merged' = {} /\ shown' = L!addLocs(map, spawned)
        /\ built' = loaded /\ locsOff' = {t \in locsOff : L!Recorded(t - locsBase)}
        /\ UNCHANGED <<locsBase, spawned, loaded, locs, locsFollowed>>
    BY DEF L!BuildScene, SceneTiles
  <1>2. map \in [SceneTiles -> L!Locs]
    BY MapLocType DEF L!Locs
  <1>3. \A x \in SceneTiles : x \in 1..(Span - 2) /\ (\E f \in loaded : locsBase + x \in f)
                              => map[x] = L!MapLoc(locsBase + x)
    OBVIOUS
  <1> HIDE DEF map
  <1>4. /\ \A s \in spawned : s.x \in SceneTiles /\ s.loc \in L!Locs
        /\ \A q, s \in spawned : q.x = s.x => q.loc = s.loc
    BY <1>0 DEF L!TypeOK, L!Spawned, SceneTiles
  <1>5. /\ L!addLocs(map, spawned) \in [SceneTiles -> L!Locs]
        /\ \A x \in SceneTiles : x \notin 1..(Span - 2) => L!addLocs(map, spawned)[x] = map[x]
        /\ \A x \in SceneTiles : (\A c \in spawned : c.x # x) => L!addLocs(map, spawned)[x] = map[x]
        /\ \A c \in spawned : c.x \in SceneTiles /\ c.x \in 1..(Span - 2) => L!addLocs(map, spawned)[c.x] = c.loc
    BY <1>2, <1>4, AddLocs
  <1>6. L!TypeOK'
    <2>1. shown' \in [0..(Span - 1) -> L!Locs]
      BY <1>1, <1>5 DEF SceneTiles
    <2>2. locsState' \in 0..2
      BY <1>1
    <2> QED
      BY <1>0, <1>1, <2>1, <2>2 DEF L!TypeOK
  <1>7. ShownInv'
    <2> SUFFICES ASSUME NEW t \in Doors \cap L!Window(locsBase), L!Inner(t),
                        \A f \in L!FilesOf(locsBase) \ loaded : t \notin f
                 PROVE  Has(spawned, locsBase, t - locsBase, shown'[t - locsBase])
      BY <1>1 DEF ShownInv, L!Missing, L!Inner
    <2> DEFINE x == t - locsBase
    <2>1. x \in SceneTiles /\ locsBase + x = t
      BY <1>0, SceneTypes
    <2>2. x \in 1..(Span - 2)
      BY DEF L!Inner
    <2> HIDE DEF x
    <2>3. map[x] = L!MapLoc(t)
      <3>1. PICK f \in MapFiles : t \in f
        BY SceneLocsAssumption DEF L!SceneLocsAssumption
      <3>2. f \in L!FilesOf(locsBase)
        BY <3>1 DEF L!FilesOf
      <3>3. f \in loaded
        BY <3>1, <3>2
      <3> QED
        BY <1>3, <2>1, <2>2, <3>1, <3>3
    <2>4. /\ (\A s \in spawned : s.x # x) => shown'[x] = L!MapLoc(t)
          /\ \A s \in spawned : s.x = x => shown'[x] = s.loc
      BY <1>1, <1>4, <1>5, <2>1, <2>2, <2>3
    <2> QED
      BY <2>1, <2>4 DEF Has, x
  <1>8. RecordInv'
    <2> SUFFICES ASSUME NEW s \in spawned, locsBase + s.x \notin locsOff'
                 PROVE  locsBase + s.x \notin locsOff
      BY <1>1 DEF LocsInv, RecordInv
    <2>1. (locsBase + s.x) - locsBase = s.x
      BY <1>0, <1>4, SceneTypes
    <2> QED
      BY <1>1, <2>1 DEF L!Recorded
  <1>9. UnrecordedInv'
    BY <1>1 DEF LocsInv, UnrecordedInv, L!Recorded
  <1>10. MergeInv'
    BY <1>1 DEF MergeInv
  <1> QED
    BY <1>6, <1>7, <1>8, <1>9, <1>10 DEF LocsInv

\* A merge puts back what the server has.
LEMMA MergeKeeps ==
  ASSUME LocsInv, NEW t \in Doors \cap L!Window(locsBase), L!Merge(t)
  PROVE  LocsInv'
  <1> DEFINE x == t - locsBase
             Away(p) == [x |-> x, loc |-> "none", pair |-> p, back |-> FALSE]
             Back(p) == [x |-> x, loc |-> locs[t], pair |-> p, back |-> TRUE]
  <1>0. L!TypeOK
    BY DEF LocsInv
  <1>1. PICK p \in 1..MaxMerges : merged' = merged \cup {Away(p), Back(p)}
    BY DEF L!Merge
  <1>2. /\ L!Zone(t) \in locsFollowed
        /\ UNCHANGED <<locsBase, locsState, shown, spawned, loaded, built, locs, locsFollowed, locsOff>>
    BY DEF L!Merge
  <1>3. x \in SceneTiles /\ t \in Int /\ locsBase \in Int /\ locsBase + x = t
    BY <1>0, SceneTypes
  <1>4. locs[t] \in L!Locs
    BY <1>0 DEF L!TypeOK
  <1>5. Away(p) \in L!Merged /\ Back(p) \in L!Merged
    BY <1>3, <1>4 DEF L!Merged, L!Locs, SceneTiles
  <1>6. /\ Back(p).back /\ Back(p).x = x /\ Back(p).loc = locs[t] /\ Back(p).pair = p
        /\ ~Away(p).back /\ Away(p).x = x /\ Away(p).pair = p
    OBVIOUS
  <1> HIDE DEF x, Away, Back
  <1>7. L!TypeOK'
    BY <1>0, <1>1, <1>2, <1>5 DEF L!TypeOK
  <1>8. RecordInv'
    BY <1>2 DEF LocsInv, RecordInv
  <1>9. UnrecordedInv'
    BY <1>2 DEF LocsInv, UnrecordedInv, L!Recorded
  <1>10. ShownInv'
    <2>1. \A y : L!Pending(y) => \E m \in merged' : m.x = y
      BY <1>1 DEF L!Pending
    <2> QED
      BY <1>2, <2>1 DEF LocsInv, ShownInv, L!Missing, L!Inner, L!Pending
  <1>11. ASSUME t \notin locsOff
         PROVE  Has(spawned, locsBase, x, locs[t])
    <2>1. \A s \in spawned : s.x = x => s.loc = locs[t]
      BY <1>2, <1>3, <1>11 DEF LocsInv, RecordInv
    <2>2. (\A s \in spawned : s.x # x) => locs[t] = L!MapLoc(t)
      BY <1>2, <1>11 DEF LocsInv, UnrecordedInv, L!Recorded, x
    <2> QED
      BY <1>3, <2>1, <2>2 DEF Has
  <1>12. MergeInv'
    <2> SUFFICES ASSUME locsState = 2, NEW m \in merged'
                 PROVE  /\ locsBase + m.x \in Doors
                        /\ m.back /\ locsBase + m.x \notin locsOff => Has(spawned, locsBase, m.x, m.loc)
                        /\ ~m.back => \E q \in merged' : q.back /\ q.pair = m.pair /\ q.x = m.x
      BY <1>2 DEF MergeInv
    <2>1. CASE m \in merged
      BY <1>1, <2>1 DEF LocsInv, MergeInv
    <2>2. CASE m = Away(p)
      BY <1>1, <1>3, <1>6, <2>2
    <2>3. CASE m = Back(p)
      BY <1>3, <1>6, <1>11, <2>3
    <2> QED
      BY <1>1, <2>1, <2>2, <2>3
  <1> QED
    BY <1>7, <1>8, <1>9, <1>10, <1>12 DEF LocsInv

\* The last entry of a tile puts a loc back.
LEMMA MergeFiresKeeps ==
  ASSUME LocsInv, NEW m \in merged, L!MergeFires(m)
  PROVE  LocsInv'
  <1>0. L!TypeOK
    BY DEF LocsInv
  <1>1. /\ locsState = 2 /\ (m.back => \A r \in merged : r.pair = m.pair => r.back)
        /\ shown' = L!addLoc(shown, m.x, m.loc) /\ merged' = merged \ {m}
        /\ UNCHANGED <<locsBase, locsState, spawned, loaded, built, locs, locsFollowed, locsOff>>
    BY DEF L!MergeFires
  <1>2. m.x \in SceneTiles /\ m.loc \in L!Locs
    BY <1>0 DEF L!TypeOK, L!Merged, SceneTiles
  <1>3. /\ shown' \in [SceneTiles -> L!Locs]
        /\ \A y \in SceneTiles : shown'[y] = IF y = m.x /\ m.x \in 1..(Span - 2) THEN m.loc ELSE shown[y]
    <2>1. shown \in [SceneTiles -> L!Locs]
      BY <1>0 DEF L!TypeOK, SceneTiles
    <2>2. /\ L!addLoc(shown, m.x, m.loc) \in [SceneTiles -> L!Locs]
          /\ \A y \in SceneTiles :
               L!addLoc(shown, m.x, m.loc)[y] = IF y = m.x /\ m.x \in 1..(Span - 2) THEN m.loc ELSE shown[y]
      BY <1>2, <2>1, AddLoc
    <2> QED
      BY <1>1, <2>2
  <1>4. L!TypeOK'
    BY <1>0, <1>1, <1>3 DEF L!TypeOK, SceneTiles
  <1>5. RecordInv'
    BY <1>1 DEF LocsInv, RecordInv
  <1>6. UnrecordedInv'
    BY <1>1 DEF LocsInv, UnrecordedInv, L!Recorded
  <1>7. \A q \in merged : /\ locsBase + q.x \in Doors
                          /\ q.back /\ locsBase + q.x \notin locsOff => Has(spawned, locsBase, q.x, q.loc)
                          /\ ~q.back => \E r \in merged : r.back /\ r.pair = q.pair /\ r.x = q.x
    BY <1>1 DEF LocsInv, MergeInv
  <1>8. MergeInv'
    <2> SUFFICES ASSUME NEW q \in merged'
                 PROVE  /\ locsBase + q.x \in Doors
                        /\ q.back /\ locsBase + q.x \notin locsOff => Has(spawned, locsBase, q.x, q.loc)
                        /\ ~q.back => \E r \in merged' : r.back /\ r.pair = q.pair /\ r.x = q.x
      BY <1>1 DEF MergeInv
    <2>1. q \in merged
      BY <1>1
    <2>2. ASSUME ~q.back
          PROVE  \E r \in merged' : r.back /\ r.pair = q.pair /\ r.x = q.x
      <3>1. PICK r \in merged : r.back /\ r.pair = q.pair /\ r.x = q.x
        BY <1>7, <2>1, <2>2
      <3>2. r # m
        BY <1>1, <2>1, <2>2, <3>1
      <3> QED
        BY <1>1, <3>1, <3>2
    <2> QED
      BY <1>7, <2>1, <2>2
  <1>9. ShownInv'
    <2> SUFFICES ASSUME NEW t \in Doors \cap L!Window(locsBase), t \notin locsOff, ~L!Missing(t),
                        L!Inner(t), \A q \in merged' : q.x # t - locsBase
                 PROVE  Has(spawned, locsBase, t - locsBase, shown'[t - locsBase])
      BY <1>1 DEF ShownInv, L!Missing, L!Inner, L!Pending
    <2> DEFINE x == t - locsBase
    <2>1. x \in SceneTiles /\ locsBase + x = t
      BY <1>0, SceneTypes
    <2>2. x \in 1..(Span - 2)
      BY DEF L!Inner
    <2>3. (\A q \in merged : q.x # x) => Has(spawned, locsBase, x, shown[x])
      BY <1>1 DEF LocsInv, ShownInv, L!Pending
    <2> HIDE DEF x
    <2>4. CASE m.x # x
      <3>1. shown'[x] = shown[x]
        BY <1>3, <2>1, <2>4
      <3>2. \A q \in merged : q.x # x
        BY <1>1, <2>4 DEF x
      <3> QED
        BY <2>3, <3>1, <3>2 DEF x
    <2>5. CASE m.x = x
      <3>1. m.back
        <4> SUFFICES ASSUME ~m.back PROVE FALSE
          OBVIOUS
        <4>1. PICK r \in merged : r.back /\ r.x = m.x
          BY <1>7
        <4>2. r \in merged'
          BY <1>1, <4>1
        <4> QED
          BY <2>5, <4>1, <4>2 DEF x
      <3>2. shown'[x] = m.loc
        BY <1>3, <2>1, <2>2, <2>5
      <3> QED
        BY <1>7, <2>1, <2>5, <3>1, <3>2 DEF x
    <2> QED
      BY <2>4, <2>5
  <1> QED
    BY <1>4, <1>5, <1>6, <1>8, <1>9 DEF LocsInv

LEMMA LocsNext == LocsInv /\ [L!Next]_(L!vars) => LocsInv'
  <1> SUFFICES ASSUME LocsInv, [L!Next]_(L!vars) PROVE LocsInv'
    OBVIOUS
  <1>1. CASE UNCHANGED L!vars
    <2>1. UNCHANGED <<locsBase, locsState, shown, spawned, merged, loaded, built, locs, locsFollowed, locsOff>>
      BY <1>1 DEF L!vars
    <2> QED
      BY <2>1 DEF LocsInv, L!TypeOK, RecordInv, UnrecordedInv, L!Recorded, ShownInv, L!Missing,
                  L!Inner, L!Pending, MergeInv
  <1>2. ASSUME NEW t \in Doors \cap L!Window(locsBase), NEW loc \in L!Locs, L!Change(t, loc)
        PROVE  LocsInv'
    BY <1>2, ChangeKeeps
  <1>3. ASSUME NEW t \in Doors \cap L!Window(locsBase), L!Merge(t)
        PROVE  LocsInv'
    BY <1>3, MergeKeeps
  <1>4. ASSUME NEW z \in L!Zones(locsBase), L!Follow(z)
        PROVE  LocsInv'
    BY <1>4, FollowKeeps
  <1>5. ASSUME NEW z, L!Unfollow(z)
        PROVE  LocsInv'
    BY <1>5, UnfollowKeeps
  <1>6. ASSUME NEW b \in Windows, L!Rebuild(b)
        PROVE  LocsInv'
    BY <1>6, WindowMovesKeeps
  <1>7. ASSUME NEW f, L!FileArrives(f)
        PROVE  LocsInv'
    BY <1>7, FileArrivesKeeps
  <1>8. ASSUME L!BuildScene \/ L!FileDone \/ L!Login
        PROVE  LocsInv'
    BY <1>8, BuildKeeps, FileDoneKeeps, LoginKeeps
  <1>9. ASSUME NEW m \in merged, L!MergeFires(m)
        PROVE  LocsInv'
    BY <1>9, MergeFiresKeeps
  <1> QED
    BY <1>1, <1>2, <1>3, <1>4, <1>5, <1>6, <1>7, <1>8, <1>9 DEF L!Next

\* However the window of the scene moves over them, however often their zone is
\* told anew and whichever of their files are late, the doors of the zones the
\* server tells of stand in the scene as they do on the server
\* (UPDATE_ZONE_FULL_FOLLOWS, LOC_ADD_CHANGE, LOC_MERGE, REBUILD_NORMAL and
\* client_build_scene): those that are in no merge, not at the edge and on a part
\* of the map that was there when the scene was built.  One whose record was made
\* elsewhere (SceneLocs!Spoilt) need not, until the scene is built without it.
THEOREM LocsStayAsTold == L!Spec => []LocsAsTold
  <1>1. LocsInv /\ [L!Next]_(L!vars) => LocsInv'
    BY LocsNext
  <1> QED
    BY <1>1, LocsInit, LocsImplies, PTL DEF L!Spec

-------------------------------------------------------------------------------
(***************************************************************************)
(* The things on the ground.                                               *)
(***************************************************************************)

LEMMA FiniteSetsOfObjs ==
  /\ \A S : O!IsFiniteSet(S) <=> IsFiniteSet(S)
  /\ \A S : O!Cardinality(S) = Cardinality(S)
  <1>1. \A S : O!IsFiniteSet(S) <=> IsFiniteSet(S)
    BY Zenon DEF O!IsFiniteSet, IsFiniteSet
  <1>2. \A S : O!Cardinality(S) = Cardinality(S)
    BY Zenon DEF O!Cardinality, Cardinality
  <1> QED
    BY <1>1, <1>2

\* The places of e on a list.
PlacesOf(list, e) == {i \in DOMAIN list : list[i] = e}

LEMMA ManyPlaces ==
  ASSUME NEW S, NEW list \in Seq(S), NEW e
  PROVE  /\ IsFiniteSet(PlacesOf(list, e))
         /\ O!Many(list, e) = Cardinality(PlacesOf(list, e))
         /\ O!Many(list, e) \in Nat
         /\ O!Many(list, e) = 0 <=> \A i \in 1..Len(list) : list[i] # e
  <1>1. Len(list) \in Nat /\ DOMAIN list = 1..Len(list)
    OBVIOUS
  <1>2. IsFiniteSet(1..Len(list))
    BY <1>1, FS_Interval
  <1>3. PlacesOf(list, e) \in SUBSET (1..Len(list))
    BY <1>1 DEF PlacesOf
  <1>4. IsFiniteSet(PlacesOf(list, e))
    BY <1>2, <1>3, FS_Subset
  <1>5. O!Many(list, e) = Cardinality(PlacesOf(list, e))
    BY FiniteSetsOfObjs DEF O!Many, PlacesOf
  <1>6. Cardinality(PlacesOf(list, e)) \in Nat
    BY <1>4, FS_CardinalityType
  <1>7. Cardinality(PlacesOf(list, e)) = 0 <=> PlacesOf(list, e) = {}
    BY <1>4, FS_EmptySet
  <1> QED
    BY <1>1, <1>4, <1>5, <1>6, <1>7 DEF PlacesOf

\* f pairs the members of T with those of R, which then are as many.
Pairs(f, T, R) ==
  /\ f \in [T -> R]
  /\ \A i, j \in T : f[i] = f[j] => i = j
  /\ \A m \in R : \E i \in T : f[i] = m

LEMMA SameMany ==
  ASSUME NEW f, NEW T, NEW R, Pairs(f, T, R), IsFiniteSet(T)
  PROVE  IsFiniteSet(R) /\ Cardinality(R) = Cardinality(T)
  <1>1. f \in Bijection(T, R)
    BY DEF Pairs, Bijection, Injection, Surjection, IsInjective
  <1>2. ExistsBijection(T, R)
    BY <1>1 DEF ExistsBijection
  <1> QED
    BY <1>2, FS_Bijection

LEMMA ManyAppend ==
  ASSUME NEW S, NEW list \in Seq(S), NEW a \in S, NEW e
  PROVE  /\ Append(list, a) \in Seq(S)
         /\ O!Many(Append(list, a), e) = O!Many(list, e) + (IF a = e THEN 1 ELSE 0)
  <1>1. /\ Append(list, a) \in Seq(S) /\ Len(Append(list, a)) = Len(list) + 1
        /\ Append(list, a)[Len(list) + 1] = a
        /\ \A i \in 1..Len(list) : Append(list, a)[i] = list[i]
        /\ Len(list) \in Nat
    OBVIOUS
  <1>2. /\ DOMAIN list = 1..Len(list)
        /\ DOMAIN Append(list, a) = 1..(Len(list) + 1)
    BY <1>1
  <1>3. PlacesOf(Append(list, a), e) = IF a = e THEN PlacesOf(list, e) \cup {Len(list) + 1}
                                       ELSE PlacesOf(list, e)
    <2>1. ASSUME NEW i PROVE i \in PlacesOf(Append(list, a), e) <=>
                             i \in PlacesOf(list, e) \/ (a = e /\ i = Len(list) + 1)
      BY <1>1, <1>2 DEF PlacesOf
    <2> QED
      BY <2>1
  <1>4. Len(list) + 1 \notin PlacesOf(list, e)
    BY <1>1, <1>2 DEF PlacesOf
  <1>5. IsFiniteSet(PlacesOf(list, e)) /\ O!Many(list, e) = Cardinality(PlacesOf(list, e)) /\ O!Many(list, e) \in Nat
    BY ManyPlaces
  <1>6. O!Many(Append(list, a), e) = Cardinality(PlacesOf(Append(list, a), e))
    BY <1>1, ManyPlaces
  <1>7. Cardinality(PlacesOf(list, e) \cup {Len(list) + 1}) = Cardinality(PlacesOf(list, e)) + 1
    BY <1>4, <1>5, FS_AddElement
  <1> QED
    BY <1>1, <1>3, <1>5, <1>6, <1>7

\* Where the entries of a list come to be when the one at k is taken out.
LEMMA WithoutEntry ==
  ASSUME NEW S, NEW list \in Seq(S), NEW k \in 1..Len(list)
  PROVE  /\ O!RemoveAt(list, k) \in Seq(S)
         /\ Len(O!RemoveAt(list, k)) = Len(list) - 1
         /\ \A i \in 1..(Len(list) - 1) :
               O!RemoveAt(list, k)[i] = IF i < k THEN list[i] ELSE list[i + 1]
  <1>1. O!RemoveAt(list, k) = CutAt(list, k)
    BY DEF O!RemoveAt, CutAt
  <1> QED
    BY <1>1, CutOut

LEMMA ManyWithout ==
  ASSUME NEW S, NEW list \in Seq(S), NEW k \in 1..Len(list), NEW e
  PROVE  O!Many(O!RemoveAt(list, k), e) = O!Many(list, e) - (IF list[k] = e THEN 1 ELSE 0)
  <1> DEFINE rest == O!RemoveAt(list, k)
             T == PlacesOf(rest, e)
             R == PlacesOf(list, e) \ {k}
             f == [i \in T |-> IF i < k THEN i ELSE i + 1]
  <1>1. /\ rest \in Seq(S) /\ Len(rest) = Len(list) - 1
        /\ \A i \in 1..(Len(list) - 1) : rest[i] = IF i < k THEN list[i] ELSE list[i + 1]
    BY WithoutEntry
  <1>2. /\ Len(list) \in Nat /\ DOMAIN list = 1..Len(list) /\ DOMAIN rest = 1..(Len(list) - 1)
    BY <1>1
  <1> HIDE DEF rest
  <1>3. IsFiniteSet(T) /\ O!Many(rest, e) = Cardinality(T)
    BY <1>1, ManyPlaces
  <1>4. IsFiniteSet(PlacesOf(list, e)) /\ O!Many(list, e) = Cardinality(PlacesOf(list, e)) /\ O!Many(list, e) \in Nat
    BY ManyPlaces
  <1>5. f \in [T -> R]
    BY <1>1, <1>2 DEF PlacesOf
  <1>6. ASSUME NEW i \in T, NEW j \in T, f[i] = f[j] PROVE i = j
    BY <1>2, <1>6 DEF PlacesOf
  <1>7. ASSUME NEW m \in R PROVE \E i \in T : f[i] = m
    <2>1. m \in 1..Len(list) /\ list[m] = e /\ m # k
      BY <1>2 DEF PlacesOf
    <2>2. CASE m < k
      <3>1. m \in T
        BY <1>1, <1>2, <2>1, <2>2 DEF PlacesOf
      <3> QED
        BY <2>2, <3>1
    <2>3. CASE m > k
      <3>1. m - 1 \in 1..(Len(list) - 1) /\ ~(m - 1 < k) /\ (m - 1) + 1 = m
        BY <2>1, <2>3
      <3>2. rest[m - 1] = list[m]
        BY <1>1, <3>1
      <3>3. m - 1 \in T
        BY <1>2, <2>1, <3>1, <3>2 DEF PlacesOf
      <3> QED
        BY <3>1, <3>3
    <2> QED
      BY <2>1, <2>2, <2>3
  <1> HIDE DEF T, R, f
  <1>8. Cardinality(R) = Cardinality(T)
    <2>1. Pairs(f, T, R)
      BY <1>5, <1>6, <1>7 DEF Pairs
    <2> QED
      BY <1>3, <2>1, SameMany
  <1>9. Cardinality(R) = IF k \in PlacesOf(list, e) THEN Cardinality(PlacesOf(list, e)) - 1
                         ELSE Cardinality(PlacesOf(list, e))
    BY <1>4, FS_RemoveElement DEF R
  <1>10. k \in PlacesOf(list, e) <=> list[k] = e
    BY <1>2 DEF PlacesOf
  <1> QED
    BY <1>3, <1>4, <1>8, <1>9, <1>10 DEF rest

LEMMA ManyAfterHead ==
  ASSUME NEW S, NEW list \in Seq(S), NEW a \in S, NEW e
  PROVE  /\ << a >> \o list \in Seq(S)
         /\ O!Many(<< a >> \o list, e) = O!Many(list, e) + (IF a = e THEN 1 ELSE 0)
  <1> DEFINE all == << a >> \o list
             T == PlacesOf(list, e)
             R == PlacesOf(all, e) \ {1}
             f == [i \in T |-> i + 1]
  <1>1. /\ all \in Seq(S) /\ Len(all) = Len(list) + 1 /\ all[1] = a
        /\ \A i \in 1..Len(list) : all[i + 1] = list[i]
    OBVIOUS
  <1>2. Len(list) \in Nat /\ DOMAIN list = 1..Len(list) /\ DOMAIN all = 1..(Len(list) + 1)
    BY <1>1
  <1> HIDE DEF all
  <1>3. IsFiniteSet(T) /\ O!Many(list, e) = Cardinality(T) /\ O!Many(list, e) \in Nat
    BY ManyPlaces
  <1>4. IsFiniteSet(PlacesOf(all, e)) /\ O!Many(all, e) = Cardinality(PlacesOf(all, e)) /\ O!Many(all, e) \in Nat
    BY <1>1, ManyPlaces
  <1>5. f \in [T -> R]
    BY <1>1, <1>2 DEF PlacesOf
  <1>6. ASSUME NEW i \in T, NEW j \in T, f[i] = f[j] PROVE i = j
    BY <1>2, <1>6 DEF PlacesOf
  <1>7. ASSUME NEW m \in R PROVE \E i \in T : f[i] = m
    <2>1. m - 1 \in 1..Len(list) /\ (m - 1) + 1 = m /\ all[m] = e
      BY <1>2 DEF PlacesOf
    <2>2. m - 1 \in T
      BY <1>1, <1>2, <2>1 DEF PlacesOf
    <2> QED
      BY <2>1, <2>2
  <1> HIDE DEF T, R, f
  <1>8. Cardinality(R) = Cardinality(T)
    <2>1. Pairs(f, T, R)
      BY <1>5, <1>6, <1>7 DEF Pairs
    <2> QED
      BY <1>3, <2>1, SameMany
  <1>9. Cardinality(R) = IF 1 \in PlacesOf(all, e) THEN Cardinality(PlacesOf(all, e)) - 1
                         ELSE Cardinality(PlacesOf(all, e))
    BY <1>4, FS_RemoveElement DEF R
  <1>10. 1 \in PlacesOf(all, e) <=> a = e
    BY <1>1, <1>2 DEF PlacesOf
  <1> QED
    BY <1>1, <1>3, <1>4, <1>8, <1>9, <1>10 DEF all

\* An entry that changes from one thing into another.
LEMMA ManyChanged ==
  ASSUME NEW S, NEW list \in Seq(S), NEW k \in 1..Len(list), NEW a \in S, NEW e
  PROVE  /\ [list EXCEPT ![k] = a] \in Seq(S)
         /\ O!Many([list EXCEPT ![k] = a], e) =
               O!Many(list, e) - (IF list[k] = e THEN 1 ELSE 0) + (IF a = e THEN 1 ELSE 0)
  <1> DEFINE after == [list EXCEPT ![k] = a]
             others == PlacesOf(list, e) \ {k}
  <1>1. /\ after \in Seq(S) /\ Len(after) = Len(list) /\ after[k] = a
        /\ \A i \in 1..Len(list) : i # k => after[i] = list[i]
    OBVIOUS
  <1>2. DOMAIN list = 1..Len(list) /\ DOMAIN after = 1..Len(list)
    BY <1>1
  <1> HIDE DEF after
  <1>3. IsFiniteSet(PlacesOf(list, e)) /\ O!Many(list, e) = Cardinality(PlacesOf(list, e)) /\ O!Many(list, e) \in Nat
    BY ManyPlaces
  <1>4. O!Many(after, e) = Cardinality(PlacesOf(after, e))
    BY <1>1, ManyPlaces
  <1>5. PlacesOf(after, e) = IF a = e THEN others \cup {k} ELSE others
    <2>1. ASSUME NEW i PROVE i \in PlacesOf(after, e) <=> i \in others \/ (a = e /\ i = k)
      BY <1>1, <1>2 DEF PlacesOf
    <2> QED
      BY <2>1
  <1>6. k \in PlacesOf(list, e) <=> list[k] = e
    BY <1>2 DEF PlacesOf
  <1>7. /\ IsFiniteSet(others)
        /\ Cardinality(others) = IF list[k] = e THEN Cardinality(PlacesOf(list, e)) - 1
                                 ELSE Cardinality(PlacesOf(list, e))
    BY <1>3, <1>6, FS_RemoveElement
  <1>8. k \notin others
    OBVIOUS
  <1> HIDE DEF others
  <1>9. Cardinality(others \cup {k}) = Cardinality(others) + 1
    <2>1. Cardinality(others \cup {k}) = IF k \in others THEN Cardinality(others) ELSE Cardinality(others) + 1
      BY <1>7, FS_AddElement
    <2> QED
      BY <1>8, <2>1
  <1> QED
    BY <1>1, <1>3, <1>4, <1>5, <1>7, <1>9 DEF after

LEMMA WorthType ==
  ASSUME NEW e \in O!Things
  PROVE  O!Worth(e) \in Nat
  <1>1. e.count \in Nat /\ e.id \in {Single, Piled}
    <2>1. PileCounts \subseteq Nat
      BY ObjStacksAssumption DEF O!ObjStacksAssumption
    <2>2. CASE e = [id |-> Single, count |-> 1]
      BY <2>2
    <2>3. CASE e \in [id : {Piled}, count : PileCounts]
      BY <2>1, <2>3
    <2> QED
      BY <2>2, <2>3 DEF O!Things
  <1>2. Cost[e.id] \in Nat /\ e.count + 1 \in Nat
    BY <1>1, ObjStacksAssumption DEF O!ObjStacksAssumption
  <1>3. \A p, q \in Nat : p * q \in Nat
    OBVIOUS
  <1> QED
    BY <1>2, <1>3 DEF O!Worth

\* On a list that is not empty there is a thing that costs most.
LEMMA BestOfList ==
  ASSUME NEW list \in Seq(O!Things), list # << >>
  PROVE  O!Best(list) \in 1..Len(list)
  <1> DEFINE w == [i \in 1..Len(list) |-> O!Worth(list[i])]
             IsBest(b, n) == /\ b \in 1..n /\ \A j \in 1..n : w[j] <= w[b]
                             /\ \A j \in 1..(b - 1) : w[j] < w[b]
             S == {n \in Nat : n + 1 <= Len(list) => \E b \in 1..(n + 1) : IsBest(b, n + 1)}
  <1>1. Len(list) \in Nat /\ Len(list) >= 1 /\ DOMAIN list = 1..Len(list)
    OBVIOUS
  <1>2. \A i \in 1..Len(list) : w[i] \in Nat /\ w[i] = O!Worth(list[i])
    BY WorthType
  <1> HIDE DEF w
  <1>3. 0 \in S
    <2>1. 1 <= Len(list) => IsBest(1, 1)
      BY <1>1, <1>2
    <2>2. 0 + 1 = 1 /\ 1 \in 1..1
      OBVIOUS
    <2> HIDE DEF IsBest
    <2> QED
      BY <2>1, <2>2
  <1>4. ASSUME NEW n \in Nat, n \in S
        PROVE  n + 1 \in S
    <2> SUFFICES ASSUME n + 2 <= Len(list) PROVE \E b \in 1..(n + 2) : IsBest(b, n + 2)
      OBVIOUS
    <2>1. PICK b \in 1..(n + 1) : IsBest(b, n + 1)
      BY <1>4
    <2>2. CASE w[n + 2] <= w[b]
      <3>1. \A j \in 1..(n + 2) : j = n + 2 \/ j \in 1..(n + 1)
        OBVIOUS
      <3>2. IsBest(b, n + 2)
        BY <2>1, <2>2, <3>1
      <3> QED
        BY <3>2
    <2>3. CASE ~(w[n + 2] <= w[b])
      <3>1. \A j \in 1..(n + 1) : w[j] <= w[b] /\ w[j] \in Nat
        BY <1>1, <1>2, <2>1
      <3>2. w[b] \in Nat /\ w[n + 2] \in Nat
        BY <1>2
      <3>3. \A j \in 1..(n + 1) : w[j] < w[n + 2]
        BY <2>3, <3>1, <3>2
      <3>4. \A j \in 1..(n + 2) : j = n + 2 \/ j \in 1..(n + 1)
        OBVIOUS
      <3>5. n + 2 \in 1..(n + 2) /\ (n + 2) - 1 = n + 1
        OBVIOUS
      <3>6. \A j \in 1..(n + 2) : w[j] <= w[n + 2]
        BY <3>1, <3>2, <3>3, <3>4
      <3>7. IsBest(n + 2, n + 2)
        BY <3>3, <3>5, <3>6
      <3> QED
        BY <3>5, <3>7
    <2> QED
      BY <2>2, <2>3
  <1>5. Nat \subseteq S
    <2> HIDE DEF S
    <2> QED
      BY <1>3, <1>4, AllNumbers
  <1>6. PICK b \in 1..Len(list) : IsBest(b, Len(list))
    <2>1. Len(list) - 1 \in Nat /\ (Len(list) - 1) + 1 = Len(list)
      BY <1>1
    <2>2. Len(list) - 1 \in S
      <3> HIDE DEF S
      <3> QED
        BY <1>5, <2>1
    <2> QED
      BY <1>1, <2>1, <2>2
  <1>7. /\ \A j \in DOMAIN list : O!Worth(list[j]) <= O!Worth(list[b])
        /\ \A j \in 1..(b - 1) : O!Worth(list[j]) < O!Worth(list[b])
    BY <1>1, <1>2, <1>6
  <1> QED
    BY <1>1, <1>7 DEF O!Best

\* sortObjStacks only puts the things of a stack in another order.
LEMMA SortedKeeps ==
  ASSUME NEW list \in Seq(O!Things)
  PROVE  /\ O!Sorted(list) \in Seq(O!Things)
         /\ \A e : O!Many(O!Sorted(list), e) = O!Many(list, e)
  <1>1. CASE list = << >>
    BY <1>1 DEF O!Sorted
  <1>2. CASE list # << >>
    <2> DEFINE b == O!Best(list)
               rest == O!RemoveAt(list, b)
    <2>1. b \in 1..Len(list)
      BY <1>2, BestOfList
    <2> HIDE DEF b
    <2>2. rest \in Seq(O!Things)
      BY <2>1, WithoutEntry
    <2>3. \A e : O!Many(rest, e) = O!Many(list, e) - (IF list[b] = e THEN 1 ELSE 0)
      BY <2>1, ManyWithout
    <2>4. list[b] \in O!Things
      BY <2>1
    <2> HIDE DEF rest
    <2>5. \A e : /\ << list[b] >> \o rest \in Seq(O!Things)
                 /\ O!Many(<< list[b] >> \o rest, e) = O!Many(rest, e) + (IF list[b] = e THEN 1 ELSE 0)
      BY <2>2, <2>4, ManyAfterHead
    <2>6. O!Sorted(list) = << list[b] >> \o rest
      BY <1>2 DEF O!Sorted, b, rest
    <2>7. \A e : O!Many(list, e) \in Nat
      BY ManyPlaces
    <2> DEFINE new == << list[b] >> \o rest
    <2>8. new \in Seq(O!Things)
      BY <2>5, Zenon
    <2>9. \A e : O!Many(new, e) = O!Many(list, e)
      <3> HIDE DEF new
      <3> TAKE e
      <3> DEFINE k == IF list[b] = e THEN 1 ELSE 0
      <3>1. O!Many(rest, e) = O!Many(list, e) - k
        BY <2>3, Zenon
      <3>2. O!Many(new, e) = O!Many(rest, e) + k
        BY <2>5, Zenon DEF new
      <3>3. k \in Int /\ O!Many(list, e) \in Nat
        BY <2>7
      <3> HIDE DEF k
      <3> QED
        BY <3>1, <3>2, <3>3
    <2> QED
      BY <2>6, <2>8, <2>9, Zenon
  <1> QED
    BY <1>1, <1>2

LEMMA TopType ==
  ASSUME NEW list \in Seq(O!Things)
  PROVE  O!TopOf(list) \in O!Things \cup {O!NoThing}
  <1>1. CASE list = << >>
    BY <1>1 DEF O!TopOf
  <1>2. CASE list # << >>
    <2>1. list[1] \in O!Things
      BY <1>2
    <2> QED
      BY <1>2, <2>1 DEF O!TopOf
  <1> QED
    BY <1>1, <1>2

\* A zone told thing by thing: the stack has the things of the list.
LEMMA HeapedKeeps ==
  ASSUME NEW list \in Seq(O!Things)
  PROVE  /\ O!Heaped(list) \in Seq(O!Things)
         /\ \A e : O!Many(O!Heaped(list), e) = O!Many(list, e)
  <1> DEFINE m == Len(list)
             X == Seq(O!Things)
             none == << >>
             Heap(g) == [n \in 0..Len(list) |->
                          IF n = 0 THEN << >> ELSE O!Sorted(Append(g[n - 1], list[n]))]
             heap == CHOOSE g : g = Heap(g)
             step == [p \in X \X (1..m) |-> O!Sorted(Append(p[1], list[p[2]]))]
  <1>1. m \in Nat /\ none \in X /\ \A n \in 1..m : list[n] \in O!Things
    OBVIOUS
  <1>2. step \in [X \X (1..m) -> X]
    <2> SUFFICES ASSUME NEW q \in X, NEW n \in 1..m
                 PROVE  O!Sorted(Append(q, list[n])) \in X
      OBVIOUS
    <2>1. Append(q, list[n]) \in X
      BY <1>1
    <2> QED
      BY <2>1, SortedKeeps
  <1>3. PICK g \in [0..m -> X] : Runs(g, m, none, step)
    <2> HIDE DEF m, X, none, step
    <2> QED
      BY <1>1, <1>2, Recursion
  <1>4. g = Heap(g)
    <2>1. ASSUME NEW n \in 1..m PROVE g[n] = O!Sorted(Append(g[n - 1], list[n]))
      <3>1. n - 1 \in 0..m
        BY <1>1, <2>1
      <3>2. << g[n - 1], n >> \in X \X (1..m)
        BY <1>3, <3>1
      <3>3. g[n] = step[<< g[n - 1], n >>]
        BY <1>3 DEF Runs
      <3> QED
        BY <3>2, <3>3
    <2>2. g[0] = << >>
      BY <1>3 DEF Runs
    <2> HIDE DEF step
    <2>3. \A n \in 0..m : g[n] = IF n = 0 THEN << >> ELSE O!Sorted(Append(g[n - 1], list[n]))
      BY <1>1, <2>1, <2>2
    <2> QED
      BY <2>3
  <1>5. heap = Heap(heap)
    <2> HIDE DEF Heap
    <2> QED
      BY <1>4
  <1>6. O!Heaped(list) = heap[m]
    BY DEF O!Heaped
  <1> HIDE DEF heap, step
  <1>7. /\ heap[0] = << >>
        /\ \A n \in 1..m : heap[n] = O!Sorted(Append(heap[n - 1], list[n]))
    <2>1. 0 \in 0..m /\ \A n \in 1..m : n \in 0..m /\ n # 0
      BY <1>1
    <2> QED
      BY <1>5, <2>1
  <1> DEFINE S == {k \in Nat : k <= m => /\ heap[k] \in X
                                         /\ \A e : O!Many(heap[k], e) = O!Many(SubSeq(list, 1, k), e)}
  <1>8. 0 \in S
    <2>1. SubSeq(list, 1, 0) = << >>
      OBVIOUS
    <2> QED
      BY <1>1, <1>7, <2>1
  <1>9. ASSUME NEW k \in Nat, k \in S
        PROVE  k + 1 \in S
    <2> SUFFICES ASSUME k + 1 <= m
                 PROVE  /\ heap[k + 1] \in X
                        /\ \A e : O!Many(heap[k + 1], e) = O!Many(SubSeq(list, 1, k + 1), e)
      OBVIOUS
    <2>1. heap[k] \in X /\ \A e : O!Many(heap[k], e) = O!Many(SubSeq(list, 1, k), e)
      BY <1>9
    <2>2. k + 1 \in 1..m /\ (k + 1) - 1 = k
      BY <1>1
    <2>3. heap[k + 1] = O!Sorted(Append(heap[k], list[k + 1]))
      BY <1>7, <2>2
    <2>4. list[k + 1] \in O!Things
      BY <1>1, <2>2
    <2>5. SubSeq(list, 1, k) \in X /\ SubSeq(list, 1, k + 1) = Append(SubSeq(list, 1, k), list[k + 1])
      BY <2>2
    <2>6. \A e : /\ Append(heap[k], list[k + 1]) \in X
                 /\ O!Many(Append(heap[k], list[k + 1]), e) =
                      O!Many(heap[k], e) + (IF list[k + 1] = e THEN 1 ELSE 0)
      BY <2>1, <2>4, ManyAppend
    <2>7. \A e : O!Many(SubSeq(list, 1, k + 1), e) =
                   O!Many(SubSeq(list, 1, k), e) + (IF list[k + 1] = e THEN 1 ELSE 0)
      <3> DEFINE front == SubSeq(list, 1, k)
                 next == list[k + 1]
      <3> HIDE DEF front, next
      <3>1. front \in X /\ next \in O!Things
        BY <2>4, <2>5 DEF front, next
      <3>2. \A e : O!Many(Append(front, next), e) = O!Many(front, e) + (IF next = e THEN 1 ELSE 0)
        BY <3>1, ManyAppend
      <3> QED
        BY <2>5, <3>2 DEF front, next
    <2>8. /\ O!Sorted(Append(heap[k], list[k + 1])) \in X
          /\ \A e : O!Many(O!Sorted(Append(heap[k], list[k + 1])), e) = O!Many(Append(heap[k], list[k + 1]), e)
      BY <2>6, SortedKeeps
    <2> QED
      BY <2>1, <2>3, <2>6, <2>7, <2>8
  <1>10. Nat \subseteq S
    <2> HIDE DEF S
    <2> QED
      BY <1>8, <1>9, AllNumbers
  <1>11. heap[m] \in X /\ \A e : O!Many(heap[m], e) = O!Many(SubSeq(list, 1, m), e)
    BY <1>1, <1>10
  <1>12. SubSeq(list, 1, m) = list
    OBVIOUS
  <1> QED
    BY <1>6, <1>11, <1>12

\* When the window moves every stack moves with its tile, though in place: what
\* is still to be taken is not yet overwritten.
LEMMA MovedInPlace ==
  ASSUME stacks \in [O!Scene -> Seq(O!Things)], NEW dx \in Int
  PROVE  O!Moved(dx) = [x \in O!Scene |-> IF x + dx \in O!Scene THEN stacks[x + dx] ELSE << >>]
  <1> DEFINE X == [O!Scene -> Seq(O!Things)]
             Nth(n) == IF dx < 0 THEN Span - n ELSE n - 1
             From(array, y) == IF y + dx \in O!Scene THEN array[y + dx] ELSE << >>
             One(array, n) == [array EXCEPT ![Nth(n)] = From(array, Nth(n))]
             Taken(array, n) == [array EXCEPT ![O!Order(dx)[n]] =
                                   IF O!Order(dx)[n] + dx \in O!Scene THEN array[O!Order(dx)[n] + dx]
                                   ELSE << >>]
             Loop(g) == [n \in 0..Span |-> IF n = 0 THEN stacks ELSE Taken(g[n - 1], n)]
             loop == CHOOSE g : g = Loop(g)
             step == [p \in X \X (1..Span) |-> One(p[1], p[2])]
  <1>1. Span \in Nat /\ O!Scene = 0..(Span - 1)
    BY ObjStacksAssumption DEF O!ObjStacksAssumption, O!Whole, O!Scene
  <1>2. \A n \in 1..Span : O!Order(dx)[n] = Nth(n) /\ Nth(n) \in O!Scene
    BY <1>1 DEF O!Order
  <1>3. << >> \in Seq(O!Things)
    OBVIOUS
  <1>4. \A array \in X, y \in O!Scene : From(array, y) \in Seq(O!Things)
    BY <1>3
  <1> HIDE DEF From, Nth
  <1>5. \A array \in X, n \in 1..Span : One(array, n) \in X
    BY <1>2, <1>4
  <1>6. step \in [X \X (1..Span) -> X]
    <2> HIDE DEF One, X
    <2> QED
      BY <1>5
  <1>7. PICK g \in [0..Span -> X] : Runs(g, Span, stacks, step)
    <2>1. stacks \in X
      OBVIOUS
    <2> HIDE DEF X, step
    <2> QED
      BY <1>1, <1>6, <2>1, Recursion
  <1>8. \A array : \A n \in 1..Span : One(array, n) = Taken(array, n)
    BY <1>2 DEF From
  <1>9. O!Moved(dx) = loop[Span]
    BY DEF O!Moved
  <1> HIDE DEF Taken
  <1>10. g = Loop(g)
    <2>1. ASSUME NEW n \in 1..Span PROVE g[n] = One(g[n - 1], n)
      <3>1. n - 1 \in 0..Span
        BY <1>1, <2>1
      <3>2. << g[n - 1], n >> \in X \X (1..Span)
        BY <1>7, <3>1
      <3>3. g[n] = step[<< g[n - 1], n >>]
        BY <1>7 DEF Runs
      <3> HIDE DEF One, X
      <3> QED
        BY <3>2, <3>3
    <2>2. g[0] = stacks
      BY <1>7 DEF Runs
    <2> HIDE DEF step, One
    <2>3. \A n \in 0..Span : g[n] = IF n = 0 THEN stacks ELSE Taken(g[n - 1], n)
      BY <1>1, <1>8, <2>1, <2>2
    <2>4. DOMAIN g = 0..Span
      BY <1>7
    <2> HIDE DEF X
    <2> QED
      BY <1>7, <2>3
  <1>11. loop = Loop(loop)
    <2> HIDE DEF Loop
    <2> QED
      BY <1>10
  <1> HIDE DEF loop, step, One
  <1>12. loop[0] = stacks /\ \A n \in 1..Span : loop[n] = One(loop[n - 1], n)
    <2>1. 0 \in 0..Span /\ \A n \in 1..Span : n \in 0..Span /\ n # 0
      BY <1>1
    <2> QED
      BY <1>8, <1>11, <2>1
  <1> DEFINE Passed(y, n) == IF dx < 0 THEN y >= Span - n ELSE y < n
             Done(k) == /\ loop[k] \in X
                        /\ \A y \in O!Scene : loop[k][y] = IF Passed(y, k) THEN From(stacks, y)
                                                          ELSE stacks[y]
             S == {k \in Nat : k <= Span => Done(k)}
  <1>13. 0 \in S
    <2>1. \A y \in O!Scene : ~Passed(y, 0)
      BY <1>1
    <2> HIDE DEF Passed
    <2> QED
      BY <1>12, <2>1
  <1>14. ASSUME NEW k \in Nat, k \in S
         PROVE  k + 1 \in S
    <2> SUFFICES ASSUME k + 1 <= Span PROVE Done(k + 1)
      <3> HIDE DEF Done
      <3> QED
        OBVIOUS
    <2>0. Done(k)
      <3> HIDE DEF Done
      <3> QED
        BY <1>1, <1>14
    <2>1. /\ loop[k] \in X
          /\ \A y \in O!Scene : loop[k][y] = IF Passed(y, k) THEN From(stacks, y) ELSE stacks[y]
      BY <2>0
    <2>2. k + 1 \in 1..Span /\ (k + 1) - 1 = k
      BY <1>1
    <2>3. loop[k + 1] = One(loop[k], k + 1)
      BY <1>12, <2>2
    <2>4. loop[k + 1] \in X
      BY <1>5, <2>1, <2>2, <2>3
    <2>5. Nth(k + 1) \in O!Scene
      BY <1>2, <2>2
    <2>6. \A y \in O!Scene : loop[k + 1][y] = IF y = Nth(k + 1) THEN From(loop[k], y) ELSE loop[k][y]
      BY <2>1, <2>3, <2>5 DEF One
    <2>7. \A y \in O!Scene : Passed(y, k + 1) <=> Passed(y, k) \/ y = Nth(k + 1)
      BY <1>1, <2>2 DEF Nth
    <2>8. ~Passed(Nth(k + 1), k)
      BY <1>1, <2>2 DEF Nth
    <2>9. Nth(k + 1) + dx \in O!Scene => ~Passed(Nth(k + 1) + dx, k)
      BY <1>1, <2>2 DEF Nth
    <2> HIDE DEF Passed
    <2>10. From(loop[k], Nth(k + 1)) = From(stacks, Nth(k + 1))
      BY <2>1, <2>9 DEF From
    <2> QED
      BY <2>1, <2>4, <2>6, <2>7, <2>10
  <1>15. Nat \subseteq S
    <2> HIDE DEF S
    <2> QED
      BY <1>13, <1>14, AllNumbers
  <1>16. /\ loop[Span] \in X
         /\ \A y \in O!Scene : loop[Span][y] = IF Passed(y, Span) THEN From(stacks, y) ELSE stacks[y]
    BY <1>1, <1>15
  <1>17. \A y \in O!Scene : Passed(y, Span)
    BY <1>1
  <1> HIDE DEF Passed
  <1>18. \A y \in O!Scene : loop[Span][y] = From(stacks, y)
    BY <1>16, <1>17
  <1>19. loop[Span] = [x \in O!Scene |-> From(stacks, x)]
    BY <1>16, <1>18
  <1> QED
    BY <1>9, <1>19 DEF From

\* Of what stacks the server keeps one pile on a tile.
OnePileInv ==
  \A t \in Ground : \A i, j \in DOMAIN things[t] :
    things[t][i].id = Piled /\ things[t][j].id = Piled => i = j

ObjsInv == ThingsAsTold /\ OnePileInv

SameThings(q, r) == \A e \in O!Things : O!Many(q, e) = O!Many(r, e)

LEMMA ObjsInit == O!Init => ObjsInv
  <1> SUFFICES ASSUME O!Init PROVE ObjsInv
    OBVIOUS
  <1>1. /\ objBase \in Windows /\ objState = 1 /\ objFollowed = {}
        /\ stacks = [x \in O!Scene |-> << >>] /\ top = [x \in O!Scene |-> O!NoThing]
        /\ things = [t \in Ground |-> << >>]
    BY DEF O!Init
  <1>2. << >> \in Seq(O!Things)
    OBVIOUS
  <1>3. O!TypeOK
    BY <1>1, <1>2 DEF O!TypeOK
  <1>4. O!ThingsAsTold
    BY <1>1 DEF O!ThingsAsTold
  <1>5. OnePileInv
    BY <1>1 DEF OnePileInv
  <1> QED
    BY <1>3, <1>4, <1>5 DEF ObjsInv, ThingsAsTold

LEMMA ObjsParts ==
  ObjsInv <=>
    /\ O!TypeOK /\ OnePileInv
    /\ \A t \in Ground \cap O!Window(objBase) :
          O!Zone(t) \in objFollowed => SameThings(stacks[t - objBase], things[t])
    /\ objState = 2 => \A x \in O!Scene : top[x] = O!TopOf(stacks[x])
  BY DEF ObjsInv, ThingsAsTold, O!ThingsAsTold, O!Stack, SameThings

\* The tiles of a window are those of the scene.
LEMMA TileOfScene ==
  ASSUME NEW b \in Windows, NEW t \in Ground \cap O!Window(b)
  PROVE  t - b \in O!Scene /\ b + (t - b) = t /\ t \in Int /\ b \in Int /\ Span \in Nat
  BY ObjStacksAssumption DEF O!ObjStacksAssumption, O!Whole, O!Window, O!Scene

\* A tile that changes on the server, and the stack the client is told to make.
LEMMA StackKeeps ==
  ASSUME ObjsInv, NEW t \in Ground \cap O!Window(objBase),
         NEW list \in Seq(O!Things), NEW heap \in Seq(O!Things),
         O!Told(t, list), things' = [things EXCEPT ![t] = heap],
         UNCHANGED << objBase, objState, objFollowed >>,
         O!Zone(t) \in objFollowed => SameThings(list, heap),
         \A i, j \in DOMAIN heap : heap[i].id = Piled /\ heap[j].id = Piled => i = j
  PROVE  ObjsInv'
  <1> DEFINE x == t - objBase
  <1>1. O!TypeOK /\ OnePileInv
    BY ObjsParts
  <1>2. /\ objBase \in Windows /\ stacks \in [O!Scene -> Seq(O!Things)]
        /\ top \in [O!Scene -> O!Things \cup {O!NoThing}]
        /\ things \in [Ground -> Seq(O!Things)]
    BY <1>1 DEF O!TypeOK
  <1>3. \A r \in Ground \cap O!Window(objBase) :
          r - objBase \in O!Scene /\ (r - objBase = x => r = t)
    BY <1>2, TileOfScene
  <1>4. x \in O!Scene
    BY <1>3
  <1>5. O!Sorted(list) \in Seq(O!Things) /\ \A e : O!Many(O!Sorted(list), e) = O!Many(list, e)
    BY SortedKeeps
  <1>6. O!TopOf(O!Sorted(list)) \in O!Things \cup {O!NoThing}
    BY <1>5, TopType
  <1>7. CASE O!Zone(t) \in objFollowed
    <2>1. /\ stacks' = [stacks EXCEPT ![x] = O!Sorted(list)]
          /\ top' = [top EXCEPT ![x] = O!TopOf(O!Sorted(list))]
      BY <1>7 DEF O!Told, O!Puts
    <2> HIDE DEF x
    <2>2. O!TypeOK'
      BY <1>1, <1>2, <1>4, <1>5, <1>6, <2>1 DEF O!TypeOK, O!Zones, O!Window
    <2>3. OnePileInv'
      BY <1>1, <1>2 DEF OnePileInv
    <2>4. /\ \A y \in O!Scene : y # x => stacks'[y] = stacks[y] /\ top'[y] = top[y]
          /\ stacks'[x] = O!Sorted(list) /\ top'[x] = O!TopOf(O!Sorted(list))
      BY <1>2, <1>4, <2>1
    <2>5. ASSUME NEW r \in Ground \cap O!Window(objBase), O!Zone(r) \in objFollowed
          PROVE  SameThings(stacks'[r - objBase], things'[r])
      <3>1. CASE r = t
        <4>1. things'[r] = heap /\ stacks'[r - objBase] = O!Sorted(list)
          BY <1>2, <2>4, <3>1 DEF x
        <4> QED
          BY <1>5, <1>7, <4>1 DEF SameThings
      <3>2. CASE r # t
        <4>1. things'[r] = things[r] /\ stacks'[r - objBase] = stacks[r - objBase]
          BY <1>2, <1>3, <2>4, <3>2
        <4> QED
          BY <2>5, <4>1, ObjsParts
      <3> QED
        BY <3>1, <3>2
    <2>6. ASSUME objState = 2, NEW y \in O!Scene
          PROVE  top'[y] = O!TopOf(stacks'[y])
      <3>1. CASE y = x
        BY <2>4, <3>1
      <3>2. CASE y # x
        BY <2>4, <2>6, <3>2, ObjsParts
      <3> QED
        BY <3>1, <3>2
    <2> QED
      BY <2>2, <2>3, <2>5, <2>6 DEF ObjsInv, ThingsAsTold, O!ThingsAsTold, O!Stack, SameThings, O!Window
  <1>8. CASE O!Zone(t) \notin objFollowed
    <2>1. UNCHANGED << stacks, top >>
      BY <1>8 DEF O!Told
    <2>2. O!TypeOK'
      BY <1>1, <1>2, <2>1 DEF O!TypeOK, O!Zones, O!Window
    <2>3. OnePileInv'
      BY <1>1, <1>2 DEF OnePileInv
    <2>4. ASSUME NEW r \in Ground \cap O!Window(objBase), O!Zone(r) \in objFollowed
          PROVE  SameThings(stacks'[r - objBase], things'[r])
      <3>1. r # t
        BY <1>8, <2>4
      <3>2. things'[r] = things[r] /\ stacks'[r - objBase] = stacks[r - objBase]
        BY <1>2, <2>1, <3>1
      <3> QED
        BY <2>4, <3>2, ObjsParts
    <2>5. objState = 2 => \A y \in O!Scene : top'[y] = O!TopOf(stacks'[y])
      BY <2>1, ObjsParts
    <2> QED
      BY <2>2, <2>3, <2>4, <2>5 DEF ObjsInv, ThingsAsTold, O!ThingsAsTold, O!Stack, SameThings, O!Window
  <1> QED
    BY <1>7, <1>8

\* A list without e has none, and one with e has some.
LEMMA SameHave ==
  ASSUME NEW q \in Seq(O!Things), NEW r \in Seq(O!Things), SameThings(q, r),
         NEW i \in 1..Len(q)
  PROVE  \E j \in 1..Len(r) : r[j] = q[i]
  <1>1. q[i] \in O!Things
    OBVIOUS
  <1>2. O!Many(q, q[i]) # 0
    BY ManyPlaces
  <1>3. O!Many(r, q[i]) # 0
    BY <1>1, <1>2 DEF SameThings
  <1> QED
    BY <1>3, ManyPlaces

\* The first of a list that is asked for.
LEMMA FirstOf ==
  ASSUME NEW I, I \subseteq Nat, I # {}
  PROVE  O!Min(I) \in I
  <1>1. PICK m \in I : \A n \in I : m <= n
    BY LeastNumber
  <1> QED
    BY <1>1 DEF O!Min

\* OBJ_ADD, OBJ_REVEAL.
LEMMA AddObjKeeps ==
  ASSUME ObjsInv, NEW t \in Ground \cap O!Window(objBase), NEW e \in O!Things, O!Add(t, e)
  PROVE  ObjsInv'
  <1> DEFINE list == Append(stacks[t - objBase], e)
             heap == Append(things[t], e)
  <1>1. O!TypeOK /\ OnePileInv
    BY ObjsParts
  <1>2. objBase \in Windows /\ t - objBase \in O!Scene
    BY <1>1, TileOfScene DEF O!TypeOK
  <1>3. stacks[t - objBase] \in Seq(O!Things) /\ things[t] \in Seq(O!Things) /\ t \in Ground
    BY <1>1, <1>2 DEF O!TypeOK
  <1>4. list \in Seq(O!Things) /\ heap \in Seq(O!Things)
    BY <1>3
  <1>5. O!Told(t, list) /\ things' = [things EXCEPT ![t] = heap]
        /\ UNCHANGED << objBase, objState, objFollowed >>
    BY DEF O!Add, O!Stack
  <1>6. O!Zone(t) \in objFollowed => SameThings(list, heap)
    <2>1. \A a : O!Many(list, a) = O!Many(stacks[t - objBase], a) + (IF e = a THEN 1 ELSE 0)
      BY <1>3, ManyAppend
    <2>2. \A a : O!Many(heap, a) = O!Many(things[t], a) + (IF e = a THEN 1 ELSE 0)
      BY <1>3, ManyAppend
    <2>3. O!Zone(t) \in objFollowed => SameThings(stacks[t - objBase], things[t])
      BY ObjsParts
    <2> HIDE DEF list, heap
    <2> QED
      BY <2>1, <2>2, <2>3 DEF SameThings
  <1>7. ASSUME NEW i \in DOMAIN heap, NEW j \in DOMAIN heap, heap[i].id = Piled, heap[j].id = Piled
        PROVE  i = j
    <2>1. e.id = Piled => \A m \in DOMAIN things[t] : things[t][m].id # Piled
      BY DEF O!Add
    <2>2. /\ DOMAIN heap = 1..(Len(things[t]) + 1) /\ DOMAIN things[t] = 1..Len(things[t])
          /\ Len(things[t]) \in Nat /\ heap[Len(things[t]) + 1] = e
          /\ \A m \in 1..Len(things[t]) : heap[m] = things[t][m]
      BY <1>3
    <2>3. \A m, n \in DOMAIN things[t] : things[t][m].id = Piled /\ things[t][n].id = Piled => m = n
      BY <1>1, <1>3 DEF OnePileInv
    <2> HIDE DEF heap
    <2> QED
      BY <1>7, <2>1, <2>2, <2>3
  <1> HIDE DEF list, heap
  <1> QED
    BY <1>4, <1>5, <1>6, <1>7, StackKeeps

\* OBJ_DEL: the client takes the same thing off its list, wherever that stands.
LEMMA DelObjKeeps ==
  ASSUME ObjsInv, NEW t \in Ground \cap O!Window(objBase), NEW i, O!Del(t, i)
  PROVE  ObjsInv'
  <1> DEFINE stack == stacks[t - objBase]
             lying == things[t]
             named == {j \in 1..Len(stack) : stack[j].id = lying[i].id}
             k     == IF named # {} THEN O!Min(named) ELSE 0
             list  == IF k = 0 THEN stack ELSE O!RemoveAt(stack, k)
             heap  == O!RemoveAt(lying, i)
  <1>1. O!TypeOK /\ OnePileInv
    BY ObjsParts
  <1>2. objBase \in Windows /\ t - objBase \in O!Scene
    BY <1>1, TileOfScene DEF O!TypeOK
  <1>3. stack \in Seq(O!Things) /\ lying \in Seq(O!Things) /\ t \in Ground
    BY <1>1, <1>2 DEF O!TypeOK
  <1>4. i \in 1..Len(lying) /\ DOMAIN lying = 1..Len(lying)
    BY <1>3 DEF O!Del
  <1>5. O!Told(t, list) /\ things' = [things EXCEPT ![t] = heap]
        /\ UNCHANGED << objBase, objState, objFollowed >>
    BY <1>3 DEF O!Del, O!Stack, O!First, O!SelectInSeq
  <1>6. k # 0 => k \in 1..Len(stack) /\ stack[k].id = lying[i].id
    <2>1. named \subseteq Nat
      OBVIOUS
    <2>2. named # {} => O!Min(named) \in named
      BY <2>1, FirstOf
    <2> QED
      BY <2>2
  <1>7. k = 0 => \A j \in 1..Len(stack) : stack[j].id # lying[i].id
    <2>1. named \subseteq Nat /\ 0 \notin named
      OBVIOUS
    <2>2. named # {} => O!Min(named) \in named
      BY <2>1, FirstOf
    <2>3. k = 0 => named = {}
      BY <2>1, <2>2
    <2> QED
      BY <2>3
  <1>8. O!Zone(t) \in objFollowed => SameThings(stack, lying) /\ SameThings(lying, stack)
    BY ObjsParts DEF SameThings
  <1> HIDE DEF k
  <1>9. heap \in Seq(O!Things) /\ list \in Seq(O!Things)
    BY <1>3, <1>4, <1>6, WithoutEntry
  <1>10. ASSUME O!Zone(t) \in objFollowed
         PROVE  SameThings(list, heap)
    <2>1. k # 0
      BY <1>3, <1>4, <1>7, <1>8, <1>10, SameHave
    <2>2. stack[k] = lying[i]
      <3>1. PICK j \in 1..Len(lying) : lying[j] = stack[k]
        BY <1>3, <1>6, <1>8, <1>10, <2>1, SameHave
      <3>2. lying[j].id = lying[i].id
        BY <1>6, <2>1, <3>1
      <3>3. CASE lying[i].id = Piled
        <4>1. j = i
          BY <1>1, <1>3, <1>4, <3>2, <3>3 DEF OnePileInv
        <4> QED
          BY <3>1, <4>1
      <3>4. CASE lying[i].id # Piled
        <4>1. lying[i] \in O!Things /\ lying[j] \in O!Things
          BY <1>3, <1>4
        <4>2. \A e \in O!Things : e.id # Piled => e = [id |-> Single, count |-> 1]
          BY DEF O!Things
        <4> HIDE DEF stack, lying
        <4> QED
          BY <3>1, <3>2, <3>4, <4>1, <4>2
      <3> QED
        BY <3>3, <3>4
    <2>3. \A e : O!Many(heap, e) = O!Many(lying, e) - (IF lying[i] = e THEN 1 ELSE 0)
      BY <1>3, <1>4, ManyWithout
    <2>4. \A e : O!Many(list, e) = O!Many(stack, e) - (IF stack[k] = e THEN 1 ELSE 0)
      BY <1>3, <1>6, <2>1, ManyWithout
    <2> HIDE DEF list, heap, stack, lying
    <2> QED
      BY <1>8, <1>10, <2>2, <2>3, <2>4 DEF SameThings
  <1>11. ASSUME NEW p \in DOMAIN heap, NEW q \in DOMAIN heap, heap[p].id = Piled, heap[q].id = Piled
         PROVE  p = q
    <2>1. /\ Len(heap) = Len(lying) - 1 /\ DOMAIN heap = 1..Len(heap) /\ Len(lying) \in Nat
          /\ \A m \in 1..(Len(lying) - 1) : heap[m] = IF m < i THEN lying[m] ELSE lying[m + 1]
      <3> HIDE DEF lying
      <3>1. /\ Len(heap) = Len(lying) - 1
            /\ \A m \in 1..(Len(lying) - 1) : heap[m] = IF m < i THEN lying[m] ELSE lying[m + 1]
        BY <1>3, <1>4, WithoutEntry
      <3> HIDE DEF heap
      <3>2. DOMAIN heap = 1..Len(heap) /\ Len(lying) \in Nat
        BY <1>3, <1>9
      <3> QED
        BY <3>1, <3>2
    <2>2. \A m, n \in 1..Len(lying) : lying[m].id = Piled /\ lying[n].id = Piled => m = n
      BY <1>1, <1>3, <1>4 DEF OnePileInv
    <2> HIDE DEF heap, lying
    <2>3. p \in 1..(Len(lying) - 1) /\ q \in 1..(Len(lying) - 1)
      BY <2>1
    <2>4. (IF p < i THEN p ELSE p + 1) = (IF q < i THEN q ELSE q + 1)
      BY <1>4, <1>11, <2>1, <2>2, <2>3
    <2> QED
      BY <1>4, <2>3, <2>4
  <1> HIDE DEF list, heap
  <1> QED
    BY <1>5, <1>9, <1>10, <1>11, StackKeeps

\* OBJ_COUNT.
LEMMA CountObjKeeps ==
  ASSUME ObjsInv, NEW t \in Ground \cap O!Window(objBase), NEW i, NEW n \in PileCounts,
         O!Count(t, i, n)
  PROVE  ObjsInv'
  <1> DEFINE stack == stacks[t - objBase]
             lying == things[t]
             equal == {j \in 1..Len(stack) : stack[j] = lying[i]}
             k     == IF equal # {} THEN O!Min(equal) ELSE 0
             new   == [id |-> Piled, count |-> n]
             list  == IF k = 0 THEN stack ELSE [stack EXCEPT ![k].count = n]
             heap  == [lying EXCEPT ![i].count = n]
  <1>1. O!TypeOK /\ OnePileInv
    BY ObjsParts
  <1>2. objBase \in Windows /\ t - objBase \in O!Scene
    BY <1>1, TileOfScene DEF O!TypeOK
  <1>3. stack \in Seq(O!Things) /\ lying \in Seq(O!Things) /\ t \in Ground
    BY <1>1, <1>2 DEF O!TypeOK
  <1>4. i \in 1..Len(lying) /\ DOMAIN lying = 1..Len(lying) /\ lying[i].id = Piled
    BY <1>3 DEF O!Count
  <1>5. things \in [Ground -> Seq(O!Things)]
    BY <1>1 DEF O!TypeOK
  <1>6. O!Told(t, list) /\ things' = [things EXCEPT ![t] = heap]
        /\ UNCHANGED << objBase, objState, objFollowed >>
    <2>1. O!Told(t, list) /\ UNCHANGED << objBase, objState, objFollowed >>
      BY <1>3 DEF O!Count, O!Stack, O!First, O!SelectInSeq
    <2>2. things' = [things EXCEPT ![t][i].count = n]
      BY DEF O!Count
    <2>3. things' = [things EXCEPT ![t] = heap]
      BY <1>3, <1>5, <2>2
    <2> QED
      BY <2>1, <2>3
  <1>7. k # 0 => k \in 1..Len(stack) /\ stack[k] = lying[i]
    <2>1. equal \subseteq Nat
      OBVIOUS
    <2>2. equal # {} => O!Min(equal) \in equal
      BY <2>1, FirstOf
    <2> QED
      BY <2>2
  <1>8. k = 0 => \A j \in 1..Len(stack) : stack[j] # lying[i]
    <2>1. equal \subseteq Nat /\ 0 \notin equal
      OBVIOUS
    <2>2. equal # {} => O!Min(equal) \in equal
      BY <2>1, FirstOf
    <2>3. k = 0 => equal = {}
      BY <2>1, <2>2
    <2> QED
      BY <2>3
  <1>9. O!Zone(t) \in objFollowed => SameThings(stack, lying) /\ SameThings(lying, stack)
    BY ObjsParts DEF SameThings
  <1> HIDE DEF k
  <1>10. \A e \in O!Things : e.id = Piled => [e EXCEPT !.count = n] = new
    BY ObjStacksAssumption DEF O!Things, O!ObjStacksAssumption
  <1>11. new \in O!Things
    BY DEF O!Things
  <1>12. lying[i] \in O!Things
    BY <1>3, <1>4
  <1> HIDE DEF new
  <1>13. heap = [lying EXCEPT ![i] = new]
    BY <1>4, <1>10, <1>12
  <1>14. k # 0 => list = [stack EXCEPT ![k] = new]
    BY <1>4, <1>7, <1>10, <1>12
  <1>15. k = 0 => list = stack
    OBVIOUS
  <1> HIDE DEF list, heap
  <1>16. heap \in Seq(O!Things) /\ \A e : O!Many(heap, e) =
           O!Many(lying, e) - (IF lying[i] = e THEN 1 ELSE 0) + (IF new = e THEN 1 ELSE 0)
    BY <1>3, <1>4, <1>11, <1>13, ManyChanged
  <1>17. k # 0 => list \in Seq(O!Things) /\ \A e : O!Many(list, e) =
           O!Many(stack, e) - (IF stack[k] = e THEN 1 ELSE 0) + (IF new = e THEN 1 ELSE 0)
    BY <1>3, <1>7, <1>11, <1>14, ManyChanged
  <1>18. list \in Seq(O!Things)
    BY <1>3, <1>15, <1>17
  <1>19. ASSUME O!Zone(t) \in objFollowed
         PROVE  SameThings(list, heap)
    <2>1. k # 0
      BY <1>3, <1>4, <1>8, <1>9, <1>19, SameHave
    <2> HIDE DEF stack, lying
    <2> QED
      BY <1>7, <1>9, <1>16, <1>17, <1>19, <2>1 DEF SameThings
  <1>20. ASSUME NEW p \in DOMAIN heap, NEW q \in DOMAIN heap, heap[p].id = Piled, heap[q].id = Piled
         PROVE  p = q
    <2>1. /\ DOMAIN heap = 1..Len(lying)
          /\ \A m \in 1..Len(lying) : m # i => heap[m] = lying[m]
      BY <1>3, <1>4, <1>13
    <2>2. \A m, r \in 1..Len(lying) : lying[m].id = Piled /\ lying[r].id = Piled => m = r
      BY <1>1, <1>3, <1>4 DEF OnePileInv
    <2> HIDE DEF lying
    <2>3. p = i
      BY <1>4, <1>20, <2>1, <2>2
    <2>4. q = i
      BY <1>4, <1>20, <2>1, <2>2
    <2> QED
      BY <2>3, <2>4
  <1> QED
    BY <1>6, <1>16, <1>18, <1>19, <1>20, StackKeeps

\* UPDATE_ZONE_FULL_FOLLOWS, and what lies in the zone.
LEMMA FollowObjsKeeps ==
  ASSUME ObjsInv, NEW z, O!Follow(z)
  PROVE  ObjsInv'
  <1> DEFINE ListOf(x) == IF objBase + x \in Ground THEN O!Heaped(things[objBase + x]) ELSE << >>
             In(x) == O!Zone(objBase + x) = z
  <1>1. O!TypeOK /\ OnePileInv
    BY ObjsParts
  <1>2. /\ objBase \in Windows /\ stacks \in [O!Scene -> Seq(O!Things)]
        /\ top \in [O!Scene -> O!Things \cup {O!NoThing}]
        /\ things \in [Ground -> Seq(O!Things)]
    BY <1>1 DEF O!TypeOK
  <1>3. /\ z \in O!Zones(objBase) /\ objFollowed' = objFollowed \cup {z}
        /\ stacks' = [x \in O!Scene |-> IF In(x) THEN ListOf(x) ELSE stacks[x]]
        /\ top' = [x \in O!Scene |-> IF In(x) THEN O!TopOf(ListOf(x)) ELSE top[x]]
        /\ UNCHANGED << objBase, objState, things >>
    BY DEF O!Follow
  <1>4. ASSUME NEW x \in O!Scene
        PROVE  ListOf(x) \in Seq(O!Things)
    <2>1. << >> \in Seq(O!Things)
      OBVIOUS
    <2>2. CASE objBase + x \in Ground
      BY <1>2, <2>2, HeapedKeeps
    <2>3. CASE objBase + x \notin Ground
      BY <2>1, <2>3
    <2> QED
      BY <2>2, <2>3
  <1>5. ASSUME NEW t \in Ground
        PROVE  SameThings(O!Heaped(things[t]), things[t])
    BY <1>2, HeapedKeeps DEF SameThings
  <1>6. \A x : In(x) <=> O!Zone(objBase + x) = z
    OBVIOUS
  <1>7. \A x : objBase + x \in Ground => ListOf(x) = O!Heaped(things[objBase + x])
    OBVIOUS
  <1> HIDE DEF ListOf, In
  <1>8. \A x \in O!Scene : O!TopOf(ListOf(x)) \in O!Things \cup {O!NoThing}
    BY <1>4, TopType
  <1>9. O!TypeOK'
    <2>1. stacks' \in [O!Scene -> Seq(O!Things)]
      BY <1>2, <1>3, <1>4
    <2>2. top' \in [O!Scene -> O!Things \cup {O!NoThing}]
      BY <1>2, <1>3, <1>8
    <2>3. objFollowed' \subseteq O!Zones(objBase)
      BY <1>1, <1>3 DEF O!TypeOK
    <2> QED
      BY <1>1, <1>3, <2>1, <2>2, <2>3 DEF O!TypeOK, O!Zones, O!Window
  <1>10. OnePileInv'
    BY <1>1, <1>3 DEF OnePileInv
  <1>11. ASSUME NEW t \in Ground \cap O!Window(objBase), O!Zone(t) \in objFollowed'
         PROVE  SameThings(stacks'[t - objBase], things[t])
    <2>1. t - objBase \in O!Scene /\ objBase + (t - objBase) = t
      BY <1>2, TileOfScene
    <2>2. CASE O!Zone(t) = z
      <3>1. stacks'[t - objBase] = O!Heaped(things[t])
        BY <1>3, <1>6, <1>7, <2>1, <2>2
      <3> QED
        BY <1>5, <3>1
    <2>3. CASE O!Zone(t) # z
      <3>1. stacks'[t - objBase] = stacks[t - objBase]
        BY <1>3, <1>6, <2>1, <2>3
      <3>2. O!Zone(t) \in objFollowed
        BY <1>3, <1>11, <2>3
      <3> QED
        BY <3>1, <3>2, ObjsParts
    <2> QED
      BY <2>2, <2>3
  <1>12. ASSUME objState = 2, NEW x \in O!Scene
         PROVE  top'[x] = O!TopOf(stacks'[x])
    <2>1. top[x] = O!TopOf(stacks[x])
      BY <1>12, ObjsParts
    <2> QED
      BY <1>3, <2>1
  <1> QED
    BY <1>3, <1>9, <1>10, <1>11, <1>12
    DEF ObjsInv, ThingsAsTold, O!ThingsAsTold, O!Stack, SameThings, O!Window

LEMMA UnfollowObjsKeeps ==
  ASSUME ObjsInv, NEW z, O!Unfollow(z)
  PROVE  ObjsInv'
  <1>1. /\ objFollowed' = objFollowed \ {z}
        /\ UNCHANGED << objBase, objState, stacks, top, things >>
    BY DEF O!Unfollow
  <1>2. O!TypeOK'
    BY <1>1, ObjsParts DEF O!TypeOK, O!Zones, O!Window
  <1>3. OnePileInv'
    BY <1>1, ObjsParts DEF OnePileInv
  <1>4. O!ThingsAsTold'
    BY <1>1 DEF ObjsInv, ThingsAsTold, O!ThingsAsTold, O!Stack, O!Window
  <1> QED
    BY <1>2, <1>3, <1>4 DEF ObjsInv, ThingsAsTold

\* REBUILD_NORMAL: the stacks move with the window.
LEMMA ObjsMoveKeeps ==
  ASSUME ObjsInv, NEW b \in Windows, O!Rebuild(b)
  PROVE  ObjsInv'
  <1> DEFINE dx == b - objBase
  <1>1. O!TypeOK /\ OnePileInv
    BY ObjsParts
  <1>2. /\ objBase \in Windows /\ stacks \in [O!Scene -> Seq(O!Things)]
        /\ objFollowed \subseteq O!Zones(objBase)
    BY <1>1 DEF O!TypeOK
  <1>3. /\ objBase' = b /\ objState' = 1
        /\ stacks' = O!Moved(dx) /\ objFollowed' = objFollowed \cap O!Zones(b)
        /\ UNCHANGED << top, things >>
    BY DEF O!Rebuild
  <1>4. objBase \in Int /\ b \in Int /\ dx \in Int
    BY <1>2, <1>3, ObjStacksAssumption DEF O!ObjStacksAssumption, O!Whole
  <1>5. dx + objBase = b
    BY <1>4
  <1> HIDE DEF dx
  <1>6. stacks' = [x \in O!Scene |-> IF x + dx \in O!Scene THEN stacks[x + dx] ELSE << >>]
    BY <1>2, <1>3, <1>4, MovedInPlace
  <1>7. O!TypeOK'
    <2>1. << >> \in Seq(O!Things)
      OBVIOUS
    <2>2. stacks' \in [O!Scene -> Seq(O!Things)]
      BY <1>2, <1>6, <2>1
    <2>3. objFollowed' \subseteq O!Zones(b)
      BY <1>3
    <2> QED
      BY <1>1, <1>3, <2>2, <2>3 DEF O!TypeOK, O!Zones, O!Window
  <1>8. OnePileInv'
    BY <1>1, <1>3 DEF OnePileInv
  <1>9. ASSUME NEW t \in Ground \cap O!Window(b), O!Zone(t) \in objFollowed'
        PROVE  SameThings(stacks'[t - b], things[t])
    <2>1. t - b \in O!Scene /\ t \in Int
      BY <1>3, TileOfScene
    <2>2. O!Zone(t) \in objFollowed
      BY <1>3, <1>9
    <2>3. t \in O!Window(objBase)
      <3>1. t \in Nat
        BY ObjStacksAssumption DEF O!ObjStacksAssumption
      <3>2. L!Zone(t) \in L!Zones(objBase)
        BY <1>2, <2>2 DEF O!Zone, O!Zones, O!Window, L!Zone, L!Zones, L!Window
      <3>3. t \in L!Window(objBase)
        BY <1>2, <3>1, <3>2, WholeZones
      <3> QED
        BY <3>3 DEF O!Window, L!Window
    <2>4. t - objBase \in O!Scene
      BY <1>2, <2>3, TileOfScene
    <2>5. (t - b) + dx = t - objBase
      BY <1>4, <1>5, <2>1
    <2>6. stacks'[t - b] = stacks[t - objBase]
      BY <1>6, <2>1, <2>4, <2>5
    <2> QED
      BY <2>2, <2>3, <2>6, ObjsParts
  <1> QED
    BY <1>3, <1>7, <1>8, <1>9
    DEF ObjsInv, ThingsAsTold, O!ThingsAsTold, O!Stack, SameThings, O!Window

\* client_build_scene.
LEMMA ShowObjsKeeps ==
  ASSUME ObjsInv, O!BuildScene
  PROVE  ObjsInv'
  <1>1. O!TypeOK /\ OnePileInv
    BY ObjsParts
  <1>2. objBase \in Windows /\ stacks \in [O!Scene -> Seq(O!Things)]
    BY <1>1 DEF O!TypeOK
  <1>3. /\ objState' = 2
        /\ stacks' = [x \in O!Scene |-> O!Sorted(stacks[x])]
        /\ top' = [x \in O!Scene |-> O!TopOf(O!Sorted(stacks[x]))]
        /\ UNCHANGED << objBase, things, objFollowed >>
    BY DEF O!BuildScene
  <1>4. \A x \in O!Scene : /\ O!Sorted(stacks[x]) \in Seq(O!Things)
                           /\ \A e : O!Many(O!Sorted(stacks[x]), e) = O!Many(stacks[x], e)
    BY <1>2, SortedKeeps
  <1>5. \A x \in O!Scene : O!TopOf(O!Sorted(stacks[x])) \in O!Things \cup {O!NoThing}
    BY <1>4, TopType
  <1>6. O!TypeOK'
    <2>1. stacks' \in [O!Scene -> Seq(O!Things)]
      BY <1>3, <1>4
    <2>2. top' \in [O!Scene -> O!Things \cup {O!NoThing}]
      BY <1>3, <1>5
    <2> QED
      BY <1>1, <1>3, <2>1, <2>2 DEF O!TypeOK, O!Zones, O!Window
  <1>7. OnePileInv'
    BY <1>1, <1>3 DEF OnePileInv
  <1>8. ASSUME NEW t \in Ground \cap O!Window(objBase), O!Zone(t) \in objFollowed
        PROVE  SameThings(stacks'[t - objBase], things[t])
    <2>1. t - objBase \in O!Scene
      BY <1>2, TileOfScene
    <2>2. SameThings(stacks[t - objBase], things[t])
      BY <1>8, ObjsParts
    <2> QED
      BY <1>3, <1>4, <2>1, <2>2 DEF SameThings
  <1>9. \A x \in O!Scene : top'[x] = O!TopOf(stacks'[x])
    BY <1>3
  <1> QED
    BY <1>3, <1>6, <1>7, <1>8, <1>9
    DEF ObjsInv, ThingsAsTold, O!ThingsAsTold, O!Stack, SameThings, O!Window

\* A session begins with nothing on the ground, and no zone that is told.
LEMMA NoObjsKeeps ==
  ASSUME ObjsInv, O!Login
  PROVE  ObjsInv'
  <1>1. O!TypeOK /\ OnePileInv
    BY ObjsParts
  <1>2. /\ objState' = 0 /\ objFollowed' = {} /\ stacks' = [x \in O!Scene |-> << >>]
        /\ UNCHANGED << objBase, top, things >>
    BY DEF O!Login
  <1>3. O!TypeOK'
    <2>1. << >> \in Seq(O!Things)
      OBVIOUS
    <2>2. stacks' \in [O!Scene -> Seq(O!Things)] /\ objState' \in 0..2
      BY <1>2, <2>1
    <2> QED
      BY <1>1, <1>2, <2>2 DEF O!TypeOK
  <1>4. OnePileInv'
    BY <1>1, <1>2 DEF OnePileInv
  <1> QED
    BY <1>2, <1>3, <1>4 DEF ObjsInv, ThingsAsTold, O!ThingsAsTold

LEMMA ObjsNext == ObjsInv /\ [O!Next]_(O!vars) => ObjsInv'
  <1> SUFFICES ASSUME ObjsInv, [O!Next]_(O!vars) PROVE ObjsInv'
    OBVIOUS
  <1>1. CASE UNCHANGED O!vars
    <2>1. UNCHANGED << objBase, objState, stacks, top, things, objFollowed >>
      BY <1>1 DEF O!vars
    <2> QED
      BY <2>1 DEF ObjsInv, ThingsAsTold, O!TypeOK, O!ThingsAsTold, O!Stack, OnePileInv, O!Window, O!Zones
  <1>2. ASSUME NEW t \in Ground \cap O!Window(objBase), O!OnTile(t)
        PROVE  ObjsInv'
    BY <1>2, AddObjKeeps, DelObjKeeps, CountObjKeeps DEF O!OnTile
  <1>3. ASSUME NEW z, O!Follow(z) \/ O!Unfollow(z)
        PROVE  ObjsInv'
    BY <1>3, FollowObjsKeeps, UnfollowObjsKeeps
  <1>4. ASSUME NEW b \in Windows, O!Rebuild(b)
        PROVE  ObjsInv'
    BY <1>4, ObjsMoveKeeps
  <1> QED
    BY <1>1, <1>2, <1>3, <1>4, ShowObjsKeeps, NoObjsKeeps DEF O!Next

\* On the tiles of the zones the server tells of lie the same things on the
\* client as on the server, and the scene shows the top of each stack: however
\* packets name them, sorting reorders them and the window moves them in place
\* (OBJ_ADD, OBJ_DEL, OBJ_COUNT, UPDATE_ZONE_FULL_FOLLOWS, REBUILD_NORMAL and
\* sortObjStacks).
THEOREM ThingsStayAsTold == O!Spec => []ThingsAsTold
  <1>1. ObjsInv /\ [O!Next]_(O!vars) => ObjsInv'
    BY ObjsNext
  <1>2. ObjsInv => ThingsAsTold
    BY DEF ObjsInv
  <1> QED
    BY <1>1, <1>2, ObjsInit, PTL DEF O!Spec

===============================================================================
