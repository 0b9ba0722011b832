-------------------------- MODULE PacketReader_proof ------------------------
(***************************************************************************)
(* Proofs about PacketReader, for every byte base, size table, keystream   *)
(* and bound.                                                              *)
(*                                                                         *)
(* The invariants the runs check are not inductive: that read_bytes finds  *)
(* its whole request in the buffer depends on what the poll before it left *)
(* there, hence on how much the buffer may hold at each point of           *)
(* client_read.  Inv states that, point by point.                          *)
(*                                                                         *)
(* That the reader implements PacketChannel needs more: which bytes are    *)
(* where.  CutInv says that what is still unread can be cut into what is   *)
(* left of the packet in progress and the packets sent after it.           *)
(***************************************************************************)
EXTENDS PacketReader, SequenceTheorems, TLAPS

InGame == pc \in {"idle"} \union InClientRead

\* A stream that is not flagged closed has its socket, and the buffer never
\* keeps a hole at its front.
StreamInv ==
  /\ ~closed => socketOpen
  /\ bufPos = 0

\* While the login waits, nothing has been polled; a read that did not fail
\* left the stream open.
LoginInv ==
  pc \in {"seed", "reply"} =>
    /\ buf = <<>> /\ dispatched = <<>>
    /\ ~rd.failed => ~closed
    /\ pc = "reply" => random_in = 0

\* In game no read is pending and the stream is open; then, for each point of
\* client_read, what the buffer and the last read hold.
GameInv ==
  InGame =>
    /\ ~closed /\ rd.need = 0 /\ ~rd.failed
    /\ random_in = Len(dispatched) + (IF packet_type = -1 THEN 0 ELSE 1)
    /\ pc = "idle" => Len(buf) < Awaited
    /\ pc = "decodeType" => packet_type = -1 /\ buf = <<>> /\ Len(rd.dst) = 1
    /\ pc = "size" => packet_type # -1 /\ Len(buf) <= Awaited
    /\ pc = "decodeSize" =>
         /\ packet_type # -1 /\ packet_size < 0 /\ buf = <<>>
         /\ Len(rd.dst) = -packet_size
    /\ pc = "payload" => packet_type # -1 /\ packet_size >= 0 /\ Len(buf) <= packet_size
    /\ pc = "dispatch" => packet_type # -1 /\ buf = <<>>

\* The bytes received so far by a blocking read lie at the front of dst.
ReadInv == rd.off <= Len(rd.dst)

Packet == [type : {-1} \union Byte, payload : Seq(Byte)]
HistoryOK == sent \in Seq(Packet) /\ dispatched \in Seq(Packet)

Inv == TypeOK /\ HistoryOK /\ ReadInv /\ StreamInv /\ LoginInv /\ GameInv

(***************************************************************************)
(* Sequences.                                                              *)
(***************************************************************************)

\* A suffix of a sequence is a sequence over the same set.
LEMMA SuffixType ==
  ASSUME NEW S, NEW s \in Seq(S), NEW a \in Nat, 1 <= a
  PROVE  SubSeq(s, a, Len(s)) \in Seq(S)
OBVIOUS

\* Two ways of cutting a sequence at the same place are the same.
LEMMA SameCut ==
  ASSUME NEW S, NEW a \in Seq(S), NEW b \in Seq(S), NEW c \in Seq(S), NEW d \in Seq(S),
         a \o b = c \o d, Len(a) = Len(c)
  PROVE  a = c /\ b = d
<1>1. ASSUME NEW i \in 1..Len(a) PROVE a[i] = c[i]
  <2>1. (a \o b)[i] = a[i] /\ (c \o d)[i] = c[i] OBVIOUS
  <2>. QED BY <2>1
<1>2. a = c BY <1>1, SeqEqual
<1>3. b = d BY <1>2, ConcatSimplifications
<1>. QED BY <1>2, <1>3

\* A sequence is its first m elements and the others.
LEMMA Halves ==
  ASSUME NEW S, NEW s \in Seq(S), NEW m \in 0..Len(s)
  PROVE  /\ SubSeq(s, 1, m) \in Seq(S) /\ SubSeq(s, m + 1, Len(s)) \in Seq(S)
         /\ Len(SubSeq(s, 1, m)) = m
         /\ SubSeq(s, 1, m) \o SubSeq(s, m + 1, Len(s)) = s
<1> DEFINE len == Len(s)
<1>0. len \in Nat /\ 1 \in 1..(len + 1) /\ m \in (1 - 1)..len /\ len \in m..len
  OBVIOUS
<1>1. SubSeq(s, 1, m) \o SubSeq(s, m + 1, len) = SubSeq(s, 1, len)
  <2> HIDE DEF len
  <2>. QED BY <1>0, ConcatAdjacentSubSeq DEF len
<1>2. SubSeq(s, 1, len) = s BY SubSeqFull
<1>3. SubSeq(s, 1, m) \in Seq(S) /\ Len(SubSeq(s, 1, m)) = m OBVIOUS
<1>4. SubSeq(s, m + 1, len) \in Seq(S)
  <2>1. m + 1 \in Nat /\ 1 <= m + 1 OBVIOUS
  <2>. QED BY <2>1, SuffixType
<1>. QED BY <1>1, <1>2, <1>3, <1>4

\* Concatenation under a name of its own: in the steps below the provers need
\* only these facts about it, and not its definition.
Join(a, b) == a \o b

LEMMA JoinBytes ==
  ASSUME NEW S
  PROVE  /\ \A a, b \in Seq(S) : Join(a, b) \in Seq(S) /\ Len(Join(a, b)) = Len(a) + Len(b)
         /\ \A a, b, c \in Seq(S) : Join(Join(a, b), c) = Join(a, Join(b, c))
         /\ \A a \in Seq(S) : Join(<<>>, a) = a /\ Join(a, <<>>) = a
         /\ \A a, b, c, d \in Seq(S) :
              Join(a, b) = Join(c, d) /\ Len(a) = Len(c) => a = c /\ b = d
<1>1. ASSUME NEW a \in Seq(S), NEW b \in Seq(S)
      PROVE  Join(a, b) \in Seq(S) /\ Len(Join(a, b)) = Len(a) + Len(b)
  BY ConcatProperties DEF Join
<1>2. ASSUME NEW a \in Seq(S), NEW b \in Seq(S), NEW c \in Seq(S)
      PROVE  Join(Join(a, b), c) = Join(a, Join(b, c))
  BY ConcatAssociative DEF Join
<1>3. ASSUME NEW a \in Seq(S) PROVE Join(<<>>, a) = a /\ Join(a, <<>>) = a
  BY ConcatEmptySeq DEF Join
<1>4. ASSUME NEW a \in Seq(S), NEW b \in Seq(S), NEW c \in Seq(S), NEW d \in Seq(S),
             Join(a, b) = Join(c, d), Len(a) = Len(c)
      PROVE  a = c /\ b = d
  BY <1>4, SameCut DEF Join
<1>. QED BY <1>1, <1>2, <1>3, <1>4

\* In the form the read of a field needs them.
LEMMA JoinLen ==
  ASSUME NEW S, NEW a \in Seq(S), NEW b \in Seq(S)
  PROVE  Join(a, b) \in Seq(S) /\ Len(Join(a, b)) = Len(a) + Len(b)
BY JoinBytes

LEMMA JoinAssoc ==
  ASSUME NEW S, NEW a \in Seq(S), NEW b \in Seq(S), NEW c \in Seq(S)
  PROVE  Join(Join(a, b), c) = Join(a, Join(b, c))
BY JoinBytes

LEMMA BytesAssoc ==
  \A a, b, c \in Seq(Byte) : Join(Join(a, b), c) = Join(a, Join(b, c))
BY JoinBytes

LEMMA JoinCancel ==
  ASSUME NEW S, NEW d \in Seq(S), NEW u \in Seq(S), NEW a \in Seq(S), NEW b \in Seq(S),
         Join(d, u) = Join(a, b), Len(d) = Len(a)
  PROVE  d = a /\ u = b
BY JoinBytes

USE BaseAssumption, SizesAssumption, KeystreamAssumption, BoundsAssumption

(***************************************************************************)
(* What the operations of ClientStream do to the buffer.                   *)
(***************************************************************************)

\* recv takes at most what it asks for.
LEMMA TakenLength ==
  ASSUME TypeOK, NEW n \in Nat
  PROVE  /\ Taken(n) \in Seq(Byte)
         /\ Len(Taken(n)) <= n
         /\ Len(Taken(n)) <= Len(kernel)
BY DEF Taken, Least, TypeOK

\* available(len) tops the buffer up to len bytes at most, and says yes only
\* when they are there.
LEMMA FilledLength ==
  ASSUME TypeOK, NEW n \in Nat
  PROVE  /\ Filled(n) \in Seq(Byte)
         /\ Len(buf) <= n => Len(Filled(n)) <= n
         /\ Len(buf) >= n => Filled(n) = buf
         /\ Len(buf) <= Len(Filled(n))
         /\ Len(Filled(n)) - Len(buf) <= Len(kernel)
         /\ Available(n) => Len(Filled(n)) >= n
         /\ ~Available(n) => Len(Filled(n)) < n
<1>1. CASE Len(buf) >= n
  BY <1>1 DEF Filled, Available, TypeOK
<1>2. CASE ~(Len(buf) >= n)
  <2>1. n - Len(buf) \in Nat BY <1>2 DEF TypeOK
  <2>2. /\ Taken(n - Len(buf)) \in Seq(Byte)
        /\ Len(Taken(n - Len(buf))) <= n - Len(buf)
        /\ Len(Taken(n - Len(buf))) <= Len(kernel)
    BY <2>1, TakenLength
  <2>3. Filled(n) = buf \o Taken(n - Len(buf)) BY <1>2 DEF Filled
  <2>4. Len(Filled(n)) = Len(buf) + Len(Taken(n - Len(buf)))
    BY <2>2, <2>3 DEF TypeOK
  <2>. QED BY <1>2, <2>2, <2>3, <2>4 DEF Available, TypeOK
<1>. QED BY <1>1, <1>2

LEMMA PollEffect ==
  ASSUME TypeOK, bufPos = 0, NEW n \in Nat, Poll(n)
  PROVE  /\ buf' = Filled(n) /\ buf' \in Seq(Byte) /\ kernel' \in Seq(Byte)
         /\ UNCHANGED <<inFlight, peerClosed, socketOpen, closed, bufPos, rd>>
<1>1. /\ Filled(n) \in Seq(Byte)
      /\ Len(buf) <= Len(Filled(n))
      /\ Len(Filled(n)) - Len(buf) <= Len(kernel)
  BY FilledLength
<1>2. kernel' = SubSeq(kernel, 1 + Len(Filled(n)) - Len(buf), Len(kernel))
  BY DEF Poll, Polled
<1>3. kernel' \in Seq(Byte)
  <2> DEFINE a == 1 + Len(Filled(n)) - Len(buf)
  <2>1. a \in Nat /\ 1 <= a BY <1>1 DEF TypeOK
  <2>2. kernel \in Seq(Byte) BY DEF TypeOK
  <2>. QED BY <1>2, <2>1, <2>2, SuffixType
<1>. QED BY <1>1, <1>3 DEF Poll

\* A poll for exactly len bytes that says yes, then the read of them: the read
\* is served from the buffer, which it leaves empty.
LEMMA PollAndReadEffect ==
  ASSUME TypeOK, bufPos = 0, ~closed,
         NEW n \in Nat, Len(buf) <= n, Available(n), PollAndRead(n)
  PROVE  /\ rd'.need = 0 /\ rd'.failed = FALSE /\ rd'.off = 0 /\ Len(rd'.dst) = n
         /\ rd' \in [need : Nat, off : Nat, dst : Seq(Byte), failed : BOOLEAN]
         /\ buf' = <<>> /\ bufPos' = 0 /\ kernel' \in Seq(Byte)
         /\ UNCHANGED <<inFlight, peerClosed, socketOpen, closed>>
<1> DEFINE held == Filled(n)
<1>1. /\ held \in Seq(Byte) /\ Len(held) = n
      /\ Len(buf) <= Len(held)
      /\ Len(held) - Len(buf) <= Len(kernel)
  BY FilledLength DEF TypeOK
<1>2. kernel' = SubSeq(kernel, 1 + Len(held) - Len(buf), Len(kernel))
  BY DEF PollAndRead, Polled
<1>3. kernel' \in Seq(Byte)
  <2> DEFINE a == 1 + Len(held) - Len(buf)
  <2>1. a \in Nat /\ 1 <= a BY <1>1 DEF TypeOK
  <2>2. kernel \in Seq(Byte) BY DEF TypeOK
  <2>. QED BY <1>2, <2>1, <2>2, SuffixType
<1>0. closed = FALSE BY Zenon DEF TypeOK
<1>4. /\ rd' = [need |-> n - Least(n, Len(held)), off |-> 0,
                dst |-> SubSeq(held, 1, Least(n, Len(held))), failed |-> FALSE]
      /\ buf' = SubSeq(held, Least(n, Len(held)) + 1, Len(held))
      /\ bufPos' = IF Least(n, Len(held)) = Len(held) THEN 0
                   ELSE bufPos + Least(n, Len(held))
  BY <1>0 DEF PollAndRead, BeginRead
<1>5. Least(n, Len(held)) = n BY <1>1 DEF Least
<1>6. rd' = [need |-> 0, off |-> 0, dst |-> SubSeq(held, 1, n), failed |-> FALSE]
  <2>1. n - n = 0 OBVIOUS
  <2>. QED BY <1>4, <1>5, <2>1
<1>7. SubSeq(held, 1, n) \in Seq(Byte) /\ Len(SubSeq(held, 1, n)) = n
  BY <1>1
<1>8. buf' = <<>>
  <2>1. buf' = SubSeq(held, n + 1, n) BY <1>1, <1>4, <1>5
  <2>. QED BY <1>1, <2>1
<1>9. bufPos' = 0 BY <1>1, <1>4, <1>5
<1>. QED BY <1>3, <1>6, <1>7, <1>8, <1>9 DEF PollAndRead

(***************************************************************************)
(* Values.                                                                 *)
(***************************************************************************)

LEMMA ModByte == ASSUME NEW i \in Int PROVE i % Base \in Byte
BY DEF Byte

LEMMA KeyByte == ASSUME NEW k \in Nat PROVE Key(k) \in Byte
<1>1. Len(Keystream) \in Nat \ {0} OBVIOUS
<1>2. k % Len(Keystream) \in 0..(Len(Keystream) - 1) BY <1>1
<1>3. 1 + (k % Len(Keystream)) \in 1..Len(Keystream) BY <1>1, <1>2
<1>. QED BY <1>3 DEF Key, Byte

\* A two-byte number fits.
LEMMA TwoBytes ==
  ASSUME NEW hi \in Byte, NEW lo \in Byte
  PROVE  Base * hi + lo \in 0..(Base * Base - 1)
<1>1. Base * hi <= Base * (Base - 1) BY DEF Byte
<1>2. Base * (Base - 1) = Base * Base - Base OBVIOUS
<1>3. Base * hi \in Nat BY DEF Byte
<1>. QED BY <1>1, <1>2, <1>3 DEF Byte

\* The two bytes of a length, the high one first, are bytes and mean the length.
LEMMA SplitLength ==
  ASSUME NEW n \in 0..(Base * Base - 1)
  PROVE  n \div Base \in Byte /\ n % Base \in Byte /\ Base * (n \div Base) + (n % Base) = n
<1> DEFINE q == n \div Base
           r == n % Base
<1>0. Base * Base - 1 \in Int OBVIOUS
<1>1. n \in Int /\ 0 <= n /\ n < Base * Base BY <1>0
<1>2. q \in Int /\ r \in 0..(Base - 1) /\ n = Base * q + r BY <1>1
<1> HIDE DEF q, r
<1>3. ~(q >= Base)
  <2> SUFFICES ASSUME q >= Base PROVE FALSE
    OBVIOUS
  <2>1. Base * q >= Base * Base BY <1>2
  <2>2. Base * q \in Int /\ Base * Base \in Int BY <1>2
  <2> QED BY <1>1, <1>2, <2>1, <2>2
<1>4. ~(q < 0)
  <2> SUFFICES ASSUME q < 0 PROVE FALSE
    OBVIOUS
  <2>1. Base * q <= Base * (-1) BY <1>2
  <2>2. Base * (-1) = -Base OBVIOUS
  <2>3. Base * q \in Int BY <1>2
  <2> QED BY <1>1, <1>2, <2>1, <2>2, <2>3
<1>5. q \in Byte /\ r \in Byte BY <1>2, <1>3, <1>4 DEF Byte
<1>. QED BY <1>2, <1>5 DEF q, r

\* The lengths a packet can have, and what its length bytes can say of them.
LEMMA LengthRange ==
  ASSUME NEW t \in Byte, NEW n \in PayloadLengths(t)
  PROVE  /\ n \in 0..MaxPayload /\ n \in Nat /\ n \in 0..(Base * Base - 1)
         /\ SERVERPROT_SIZES[t] = -1 => n \in Byte
         /\ SERVERPROT_SIZES[t] >= 0 => n = SERVERPROT_SIZES[t]
<1>0. SERVERPROT_SIZES[t] \in (-2)..MaxPayload BY DEF Byte
<1>1. MaxPayload \in Nat /\ Base * Base - 1 \in Int /\ MaxPayload <= Base * Base - 1
  <2>1. Base * Base \in Int OBVIOUS
  <2>. QED BY <2>1, PayloadAssumption
<1>2. CASE SERVERPROT_SIZES[t] >= 0
  <2>1. n = SERVERPROT_SIZES[t] BY <1>2 DEF PayloadLengths
  <2>. QED BY <1>0, <1>1, <1>2, <2>1
<1>3. CASE SERVERPROT_SIZES[t] = -1
  <2>1. n \in 0..Least(MaxPayload, Base - 1) BY <1>3 DEF PayloadLengths
  <2>2. n \in Nat /\ n <= MaxPayload /\ n <= Base - 1 BY <1>1, <2>1 DEF Least
  <2>. QED BY <1>1, <1>3, <2>2 DEF Byte
<1>4. CASE SERVERPROT_SIZES[t] = -2
  <2>1. n \in 0..MaxPayload BY <1>4 DEF PayloadLengths
  <2>. QED BY <1>1, <1>4, <2>1
<1>. QED BY <1>0, <1>1, <1>2, <1>3, <1>4

\* What the bytes of a packet are.
LEMMA PacketBytes ==
  ASSUME HistoryOK, NEW t \in Byte, NEW n \in 0..MaxPayload, n \in PayloadLengths(t)
  PROVE  /\ <<(t + Key(Len(sent))) % Base>> \in Seq(Byte)
         /\ LengthBytes(t, n) \in Seq(Byte)
         /\ Payload(n) \in Seq(Byte)
<1>1. Len(sent) \in Nat BY DEF HistoryOK
<1>2. (t + Key(Len(sent))) % Base \in Byte
  <2>1. Key(Len(sent)) \in Byte BY <1>1, KeyByte
  <2>2. t + Key(Len(sent)) \in Int BY <2>1 DEF Byte
  <2>. QED BY <2>2, ModByte
<1>3. /\ n \in Nat /\ SERVERPROT_SIZES[t] = -1 => n \in Byte
      /\ n \div Base \in Byte /\ n % Base \in Byte
  BY LengthRange, SplitLength
<1>4. LengthBytes(t, n) \in Seq(Byte)
  <2>1. CASE SERVERPROT_SIZES[t] = -1
    <3>1. LengthBytes(t, n) = <<n>> BY <2>1 DEF LengthBytes
    <3>. QED BY <2>1, <3>1, <1>3
  <2>2. CASE SERVERPROT_SIZES[t] = -2
    <3>1. LengthBytes(t, n) = <<n \div Base, n % Base>> BY <2>2 DEF LengthBytes
    <3>. QED BY <3>1, <1>3
  <2>3. CASE SERVERPROT_SIZES[t] # -1 /\ SERVERPROT_SIZES[t] # -2
    <3>1. LengthBytes(t, n) = <<>> BY <2>3 DEF LengthBytes
    <3>. QED BY <3>1
  <2>. QED BY <2>1, <2>2, <2>3
<1>5. Payload(n) \in Seq(Byte)
  <2>1. ASSUME NEW i \in 1..n PROVE (Len(sent) + i) % Base \in Byte
    <3>1. Len(sent) + i \in Int BY <1>1
    <3>. QED BY <3>1, ModByte
  <2>2. n \in Nat BY <1>3
  <2>. QED BY <2>1, <2>2 DEF Payload
<1>. QED BY <1>2, <1>4, <1>5

(***************************************************************************)
(* The invariant.                                                          *)
(***************************************************************************)

LEMMA InitInv == Init => Inv
<1> SUFFICES ASSUME Init PROVE Inv
  OBVIOUS
<1>1. TypeOK
  <2>1. rd \in [need : Nat, off : Nat, dst : Seq(Byte), failed : BOOLEAN]
    BY DEF Init, NoRead
  <2>2. packet_size \in (-2)..(Base * Base - 1)
    BY 0 <= Base * Base - 1 DEF Init
  <2>3. 0 \in Byte BY DEF Byte
  <2>4. inFlight \in Seq(Byte) /\ kernel \in Seq(Byte) /\ buf \in Seq(Byte)
    BY DEF Init
  <2>5. pc \in {"title", "seed", "reply", "idle"} \union InClientRead BY DEF Init
  <2>6. conn \in 0..MaxConnections BY DEF Init
  <2>. QED BY <2>1, <2>2, <2>3, <2>4, <2>5, <2>6 DEF Init, TypeOK
<1>2. HistoryOK BY DEF Init, HistoryOK
<1>3. ReadInv /\ StreamInv BY DEF Init, ReadInv, StreamInv, NoRead
<1>4. LoginInv /\ GameInv BY DEF Init, LoginInv, GameInv, InGame, InClientRead
<1>. QED BY <1>1, <1>2, <1>3, <1>4 DEF Inv

\* A new connection starts the login with nothing buffered and nothing failed.
LEMMA ConnectInv == Inv /\ Connect => Inv'
<1> SUFFICES ASSUME Inv, Connect PROVE Inv'
  OBVIOUS
<1>1. ASSUME NEW i \in 1..SeedLength PROVE i % Base \in Byte
  <2>1. i \in Int OBVIOUS
  <2>. QED BY <2>1, ModByte
<1>2. inFlight' \in Seq(Byte)
  <2>1. inFlight' = [i \in 1..SeedLength |-> i % Base] BY DEF Connect, OpenAndRead
  <2>2. SeedLength \in Nat OBVIOUS
  <2>. QED BY <1>1, <2>1, <2>2
<1>3. rd' = [need |-> SeedLength, off |-> 0, dst |-> <<>>, failed |-> FALSE]
  BY DEF Connect, OpenAndRead, NoRead
<1>4. rd' \in [need : Nat, off : Nat, dst : Seq(Byte), failed : BOOLEAN]
  BY <1>3
<1>5. /\ kernel' = <<>> /\ peerClosed' = FALSE /\ socketOpen' = TRUE /\ closed' = FALSE
      /\ buf' = <<>> /\ bufPos' = 0 /\ pc' = "seed" /\ login' = "none"
      /\ conn < MaxConnections /\ conn' = conn + 1 /\ sent' = <<>> /\ dispatched' = <<>>
      /\ UNCHANGED framing
  BY Zenon DEF Connect, OpenAndRead
<1>5a. conn' \in 0..MaxConnections BY <1>5 DEF Inv, TypeOK
<1>6. TypeOK'
  <2>1. kernel' \in Seq(Byte) /\ buf' \in Seq(Byte) BY <1>5
  <2>2. pc' \in {"title", "seed", "reply", "idle"} \union InClientRead BY <1>5
  <2>. QED BY <1>2, <1>4, <1>5, <1>5a, <2>1, <2>2 DEF Inv, TypeOK, framing
<1>7. HistoryOK' BY <1>5 DEF HistoryOK
<1>8. ReadInv' /\ StreamInv' BY <1>3, <1>5 DEF ReadInv, StreamInv
<1>9. LoginInv' BY <1>3, <1>5 DEF LoginInv
<1>10. GameInv' BY <1>5 DEF GameInv, InGame, InClientRead
<1>. QED BY <1>6, <1>7, <1>8, <1>9, <1>10 DEF Inv

\* The steps of client_read that only move on or decode.
LEMMA DecodeTypeInv == Inv /\ DecodeType => Inv'
<1> SUFFICES ASSUME Inv, DecodeType PROVE Inv'
  OBVIOUS
<1>1. /\ pc = "decodeType" /\ pc' = "size"
      /\ packet_type' = (rd.dst[1] - Key(random_in)) % Base
      /\ random_in' = random_in + 1
      /\ packet_size' = SERVERPROT_SIZES[packet_type']
      /\ UNCHANGED <<streamVars, conn, login, history>>
  BY DEF DecodeType
<1>2. /\ ~closed /\ rd.need = 0 /\ ~rd.failed
      /\ random_in = Len(dispatched) /\ buf = <<>> /\ Len(rd.dst) = 1
  BY <1>1 DEF Inv, GameInv, InGame, InClientRead, HistoryOK
<1>3. packet_type' \in Byte
  <2>1. rd.dst[1] \in Byte BY <1>2 DEF Inv, TypeOK
  <2>2. Key(random_in) \in Byte BY KeyByte DEF Inv, TypeOK
  <2>3. rd.dst[1] - Key(random_in) \in Int BY <2>1, <2>2 DEF Byte
  <2>. QED BY <2>3, <1>1, ModByte
<1>4. packet_size' \in (-2)..(Base * Base - 1)
  <2>1. packet_size' \in (-2)..MaxPayload BY <1>1, <1>3 DEF Byte
  <2>2. MaxPayload <= Base * Base - 1
    <3>1. Base * Base \in Int OBVIOUS
    <3>. QED BY <3>1, PayloadAssumption
  <2>3. Base * Base - 1 \in Int OBVIOUS
  <2> HIDE DEF Byte
  <2>. QED BY <2>1, <2>2, <2>3
<1>5. TypeOK' BY <1>1, <1>3, <1>4 DEF Inv, TypeOK, streamVars, InClientRead
<1>6. HistoryOK' BY <1>1 DEF Inv, HistoryOK, history
<1>7. ReadInv' /\ StreamInv' BY <1>1 DEF Inv, ReadInv, StreamInv, streamVars
<1>8. LoginInv' BY <1>1 DEF LoginInv
<1>9. packet_type' # -1 BY <1>3 DEF Byte
<1>10. Len(buf') <= Awaited'
  BY <1>1, <1>2, <1>4, <1>9 DEF Awaited, streamVars
<1>11. GameInv'
  BY <1>1, <1>2, <1>9, <1>10 DEF GameInv, InGame, InClientRead, streamVars, history
<1>. QED BY <1>5, <1>6, <1>7, <1>8, <1>11 DEF Inv

LEMMA DecodeSizeInv == Inv /\ (SizeKnown \/ DecodeSize) => Inv'
<1> SUFFICES ASSUME Inv, SizeKnown \/ DecodeSize PROVE Inv'
  OBVIOUS
<1>1. /\ pc \in {"size", "decodeSize"} /\ pc' = "payload"
      /\ UNCHANGED <<streamVars, conn, login, packet_type, random_in, history>>
  BY DEF SizeKnown, DecodeSize, framing
<1>2. /\ ~closed /\ rd.need = 0 /\ ~rd.failed /\ packet_type # -1
      /\ random_in = Len(dispatched) + 1
  BY <1>1 DEF Inv, GameInv, InGame, InClientRead
<1>3. packet_size' \in 0..(Base * Base - 1) /\ Len(buf) <= packet_size'
  <2>1. CASE SizeKnown
    BY <2>1, <1>2 DEF SizeKnown, framing, Inv, TypeOK, GameInv, InGame, InClientRead, Awaited
  <2>2. CASE DecodeSize
    <3>1. Len(rd.dst) = -packet_size /\ packet_size < 0 /\ buf = <<>>
      BY <2>2 DEF DecodeSize, Inv, GameInv, InGame, InClientRead
    <3>2. rd.dst \in Seq(Byte) /\ packet_size \in (-2)..(Base * Base - 1)
      BY DEF Inv, TypeOK
    <3>3. CASE Len(rd.dst) = 1
      <4>1. rd.dst[1] \in Byte BY <3>2, <3>3
      <4>2. packet_size' = rd.dst[1] BY <2>2, <3>3 DEF DecodeSize
      <4>3. Base - 1 <= Base * Base - 1 /\ Base * Base - 1 \in Int OBVIOUS
      <4>. QED BY <3>1, <4>1, <4>2, <4>3 DEF Byte
    <3>4. CASE Len(rd.dst) # 1
      <4>1. Len(rd.dst) = 2
        <5>1. packet_size = -1 \/ packet_size = -2
          BY <3>1, <3>2, Base * Base - 1 \in Int
        <5>. QED BY <5>1, <3>1, <3>4
      <4>2. rd.dst[1] \in Byte /\ rd.dst[2] \in Byte BY <3>2, <4>1
      <4>3. packet_size' = Base * rd.dst[1] + rd.dst[2] BY <2>2, <3>4 DEF DecodeSize
      <4>4. packet_size' \in 0..(Base * Base - 1) BY <4>2, <4>3, TwoBytes
      <4>. QED BY <3>1, <4>4, Base * Base - 1 \in Int
    <3>. QED BY <3>3, <3>4
  <2>. QED BY <2>1, <2>2
<1>4. TypeOK' BY <1>1, <1>3, Base * Base - 1 \in Int DEF Inv, TypeOK, streamVars, InClientRead
<1>5. HistoryOK' BY <1>1 DEF Inv, HistoryOK, history
<1>6. ReadInv' /\ StreamInv' BY <1>1 DEF Inv, ReadInv, StreamInv, streamVars
<1>7. LoginInv' BY <1>1 DEF LoginInv
<1>8. GameInv'
  BY <1>1, <1>2, <1>3, Base * Base - 1 \in Int
     DEF GameInv, InGame, InClientRead, streamVars, history
<1>. QED BY <1>4, <1>5, <1>6, <1>7, <1>8 DEF Inv

\* What a handler leaves, whatever it does with the stream.
LEMMA HandleInv ==
  ASSUME Inv, Handle
  PROVE  /\ [type |-> packet_type, payload |-> rd.dst] \in Packet
         /\ HistoryOK' /\ packet_type' = -1
         /\ UNCHANGED <<conn, login, packet_size, random_in>>
<1>1. [type |-> packet_type, payload |-> rd.dst] \in Packet BY DEF Packet, Inv, TypeOK
<1>2. dispatched' = Append(dispatched, [type |-> packet_type, payload |-> rd.dst]) /\ sent' = sent
  BY DEF Handle
<1>3. dispatched \in Seq(Packet) /\ sent \in Seq(Packet) BY DEF Inv, HistoryOK
<1>4. dispatched' \in Seq(Packet) BY <1>1, <1>2, <1>3
<1>. QED BY <1>1, <1>2, <1>3, <1>4 DEF HistoryOK, Handle

LEMMA DispatchInv == Inv /\ Dispatch => Inv'
<1> SUFFICES ASSUME Inv, Dispatch PROVE Inv'
  OBVIOUS
<1>1. /\ pc = "dispatch" /\ pc' = "idle" /\ packet_type' = -1
      /\ dispatched' = Append(dispatched, [type |-> packet_type, payload |-> rd.dst])
      /\ UNCHANGED <<streamVars, conn, login, packet_size, random_in, sent>>
  BY DEF Dispatch, Handle
<1>2. /\ ~closed /\ rd.need = 0 /\ ~rd.failed /\ buf = <<>>
      /\ random_in = Len(dispatched) + 1
  BY <1>1 DEF Inv, GameInv, InGame, InClientRead
<1>3. [type |-> packet_type, payload |-> rd.dst] \in Packet BY DEF Packet, Inv, TypeOK
<1>4. dispatched' \in Seq(Packet) /\ Len(dispatched') = Len(dispatched) + 1
  BY <1>1, <1>3 DEF Inv, HistoryOK
<1>5. TypeOK' BY <1>1 DEF Inv, TypeOK, streamVars, InClientRead
<1>6. HistoryOK' BY <1>1, <1>4 DEF Inv, HistoryOK
<1>7. ReadInv' /\ StreamInv' BY <1>1 DEF Inv, ReadInv, StreamInv, streamVars
<1>8. LoginInv' BY <1>1 DEF LoginInv
<1>9. GameInv'
  BY <1>1, <1>2, <1>4 DEF GameInv, InGame, InClientRead, streamVars, Awaited
<1>. QED BY <1>5, <1>6, <1>7, <1>8, <1>9 DEF Inv

\* The steps of client_read that poll.  A poll that says no ends the call with
\* less than the field in the buffer; one that says yes is followed by a read
\* that the buffer serves in full.
LEMMA PollFailsInv ==
  ASSUME Inv, NEW n \in Nat, Poll(n), ~Available(n), InGame, pc' = "idle",
         n <= Awaited, UNCHANGED <<conn, login, framing, history>>
  PROVE  Inv'
<1>1. /\ buf' = Filled(n) /\ buf' \in Seq(Byte) /\ kernel' \in Seq(Byte)
      /\ UNCHANGED <<inFlight, peerClosed, socketOpen, closed, bufPos, rd>>
  BY PollEffect DEF Inv, StreamInv
<1>2. Len(buf') < n BY <1>1, FilledLength DEF Inv
<1>3. Len(buf') < Awaited'
  <2>1. Awaited \in Int BY Base * Base - 1 \in Int DEF Awaited, Inv, TypeOK
  <2>2. Awaited' = Awaited BY DEF framing, Awaited
  <2>. QED BY <1>1, <1>2, <2>1, <2>2
<1>4. TypeOK' BY <1>1 DEF Inv, TypeOK, framing, InClientRead
<1>5. HistoryOK' BY DEF Inv, HistoryOK, history
<1>6. ReadInv' /\ StreamInv' BY <1>1 DEF Inv, ReadInv, StreamInv
<1>7. LoginInv' BY DEF LoginInv
<1>8. GameInv'
  BY <1>1, <1>3 DEF Inv, GameInv, InGame, InClientRead, framing, history
<1>. QED BY <1>4, <1>5, <1>6, <1>7, <1>8 DEF Inv

LEMMA PollReadsInv ==
  ASSUME Inv, NEW n \in Nat, PollAndRead(n), Available(n), InGame, Len(buf) <= n,
         UNCHANGED <<conn, login, framing, history>>,
         \/ pc' = "decodeType" /\ packet_type = -1 /\ n = 1
         \/ pc' = "decodeSize" /\ packet_type # -1 /\ packet_size < 0 /\ n = -packet_size
         \/ pc' = "dispatch" /\ packet_type # -1
  PROVE  Inv'
<1>1. ~closed BY DEF Inv, GameInv
<1>2. /\ rd'.need = 0 /\ rd'.failed = FALSE /\ rd'.off = 0 /\ Len(rd'.dst) = n
      /\ rd' \in [need : Nat, off : Nat, dst : Seq(Byte), failed : BOOLEAN]
      /\ buf' = <<>> /\ bufPos' = 0 /\ kernel' \in Seq(Byte)
      /\ UNCHANGED <<inFlight, peerClosed, socketOpen, closed>>
  BY <1>1, PollAndReadEffect DEF Inv, StreamInv
<1>3. TypeOK' BY <1>2 DEF Inv, TypeOK, framing, InClientRead
<1>4. HistoryOK' BY DEF Inv, HistoryOK, history
<1>5. ReadInv' /\ StreamInv' BY <1>2 DEF Inv, ReadInv, StreamInv
<1>6. LoginInv' BY DEF LoginInv
<1>7. GameInv'
  BY <1>1, <1>2 DEF Inv, GameInv, InGame, InClientRead, framing, history
<1>. QED BY <1>3, <1>4, <1>5, <1>6, <1>7 DEF Inv

LEMMA PollInv ==
  Inv /\ (NothingToRead \/ ReadType \/ GoOn \/ ReadSize \/ ReadPayload) => Inv'
<1> SUFFICES ASSUME Inv, NothingToRead \/ ReadType \/ GoOn \/ ReadSize \/ ReadPayload
             PROVE  Inv'
  OBVIOUS
<1>0. /\ InGame => GameInv /\ Len(buf) \in Nat /\ Awaited \in Int
      /\ packet_size \in Int
  BY Base * Base - 1 \in Int DEF Inv, TypeOK, Awaited
<1>1. CASE NothingToRead
  <2>1. Poll(1) /\ ~Available(1) /\ pc = "idle" /\ pc' = "idle" BY <1>1 DEF NothingToRead
  <2>2. InGame /\ Len(buf) < Awaited BY <2>1 DEF Inv, GameInv, InGame
  <2>3. 1 <= Awaited BY <2>2, <1>0
  <2>. QED BY <1>1, <2>1, <2>2, <2>3, PollFailsInv DEF NothingToRead
<1>2. CASE ReadType
  <2>1. PollAndRead(1) /\ Available(1) /\ pc = "idle" /\ pc' = "decodeType"
        /\ packet_type = -1
    BY <1>2 DEF ReadType
  <2>2. InGame /\ Len(buf) < Awaited BY <2>1 DEF Inv, GameInv, InGame
  <2>3. Len(buf) <= 1 BY <2>1, <2>2, <1>0 DEF Awaited
  <2>. QED BY <1>2, <2>1, <2>2, <2>3, PollReadsInv DEF ReadType
<1>3. CASE GoOn
  <2>1. Poll(1) /\ pc = "idle" /\ pc' = "size" /\ packet_type # -1 /\ Available(1)
        /\ UNCHANGED <<conn, login, framing, history>>
    BY <1>3 DEF GoOn
  <2>2. /\ buf' = Filled(1) /\ buf' \in Seq(Byte) /\ kernel' \in Seq(Byte)
        /\ UNCHANGED <<inFlight, peerClosed, socketOpen, closed, bufPos, rd>>
    BY <2>1, PollEffect DEF Inv, StreamInv
  <2>3. InGame /\ Len(buf) < Awaited BY <2>1 DEF Inv, GameInv, InGame
  <2>4. /\ Len(buf) <= 1 => Len(buf') <= 1
        /\ Len(buf) >= 1 => buf' = buf
    BY <2>2, FilledLength DEF Inv
  <2>5. Len(buf') <= Awaited BY <2>2, <2>3, <2>4, <1>0
  <2>6. TypeOK' BY <2>1, <2>2 DEF Inv, TypeOK, framing, InClientRead
  <2>7. HistoryOK' BY <2>1 DEF Inv, HistoryOK, history
  <2>8. ReadInv' /\ StreamInv' BY <2>2 DEF Inv, ReadInv, StreamInv
  <2>9. LoginInv' BY <2>1 DEF LoginInv
  <2>10. GameInv'
    BY <2>1, <2>2, <2>3, <2>5
       DEF Inv, GameInv, InGame, InClientRead, framing, history, Awaited
  <2>. QED BY <2>6, <2>7, <2>8, <2>9, <2>10 DEF Inv
<1>4. CASE ReadSize
  <2> DEFINE n == -packet_size
  <2>1. pc = "size" /\ packet_size < 0 /\ UNCHANGED <<conn, login, framing, history>>
    BY <1>4 DEF ReadSize
  <2>2. InGame /\ packet_type # -1 /\ Len(buf) <= Awaited
    BY <2>1 DEF Inv, GameInv, InGame, InClientRead
  <2>3. n \in Nat /\ Awaited = n BY <2>1, <2>2, <1>0 DEF Awaited
  <2>4. CASE Available(n)
    <3>1. PollAndRead(n) /\ pc' = "decodeSize" BY <1>4, <2>4 DEF ReadSize
    <3>. QED BY <2>1, <2>2, <2>3, <2>4, <3>1, PollReadsInv
  <2>5. CASE ~Available(n)
    <3>1. Poll(n) /\ pc' = "idle" BY <1>4, <2>5 DEF ReadSize
    <3>. QED BY <2>1, <2>2, <2>3, <2>5, <3>1, PollFailsInv
  <2>. QED BY <2>4, <2>5
<1>5. CASE ReadPayload
  <2> DEFINE n == packet_size
  <2>1. pc = "payload" /\ UNCHANGED <<conn, login, framing, history>>
    BY <1>5 DEF ReadPayload
  <2>2. InGame /\ packet_type # -1 /\ n >= 0 /\ Len(buf) <= n
    BY <2>1 DEF Inv, GameInv, InGame, InClientRead
  <2>3. n \in Nat /\ Awaited = n BY <2>2, <1>0 DEF Awaited
  <2>4. CASE Available(n)
    <3>1. PollAndRead(n) /\ pc' = "dispatch" BY <1>5, <2>4 DEF ReadPayload
    <3>. QED BY <2>1, <2>2, <2>3, <2>4, <3>1, PollReadsInv
  <2>5. CASE ~Available(n)
    <3>1. Poll(n) /\ pc' = "idle" BY <1>5, <2>5 DEF ReadPayload
    <3>. QED BY <2>1, <2>2, <2>3, <2>5, <3>1, PollFailsInv
  <2>. QED BY <2>4, <2>5
<1>. QED BY <1>1, <1>2, <1>3, <1>4, <1>5

\* The login between the two blocking reads.
LEMMA SendLoginInv == Inv /\ SendLogin => Inv'
<1> SUFFICES ASSUME Inv, SendLogin PROVE Inv'
  OBVIOUS
<1>1. /\ pc = "seed" /\ rd.need = 0 /\ random_in' = 0 /\ pc' = "reply" /\ Read(1)
      /\ login' = (IF closed \/ peerClosed THEN login ELSE "sent")
      /\ UNCHANGED <<conn, packet_type, packet_size, history>>
  BY DEF SendLogin
<1>2. buf = <<>> /\ dispatched = <<>>
  BY <1>1 DEF Inv, LoginInv, SendLogin
<1>3. /\ rd' = [need |-> IF closed THEN 0 ELSE 1, off |-> 0, dst |-> <<>>, failed |-> closed]
      /\ buf' = <<>> /\ bufPos' = 0
      /\ UNCHANGED <<inFlight, kernel, peerClosed, socketOpen, closed>>
  <2>1. Least(1, Len(buf)) = 0 BY <1>2 DEF Least
  <2>2. SubSeq(buf, 1, 0) = <<>> /\ SubSeq(buf, 1, Len(buf)) = <<>> BY <1>2
  <2>. QED BY <1>1, <1>2, <2>1, <2>2 DEF Read, BeginRead
<1>4. rd' \in [need : Nat, off : Nat, dst : Seq(Byte), failed : BOOLEAN]
  BY <1>3 DEF Inv, TypeOK
<1>5. TypeOK'
  BY <1>1, <1>2, <1>3, <1>4 DEF Inv, TypeOK, InClientRead
<1>6. HistoryOK' BY <1>1 DEF Inv, HistoryOK, history
<1>7. ReadInv' /\ StreamInv' BY <1>3 DEF Inv, ReadInv, StreamInv
<1>8. LoginInv' BY <1>1, <1>2, <1>3 DEF LoginInv, history
<1>9. GameInv' BY <1>1 DEF GameInv, InGame, InClientRead
<1>. QED BY <1>5, <1>6, <1>7, <1>8, <1>9 DEF Inv

\* The end of the login, the logout, and the title screen.
LEMMA LoginEndsInv ==
  ASSUME Inv,
         LoginAccepted \/ LoginRefused \/ Logout \/ DispatchLogout \/ DispatchUnknown
  PROVE  Inv'
<1>1. CASE LoginAccepted
  <2>1. /\ pc = "reply" /\ rd.need = 0 /\ ~rd.failed /\ pc' = "idle"
        /\ packet_type' = -1 /\ packet_size' = 0
        /\ UNCHANGED <<streamVars, conn, login, random_in, history>>
    BY <1>1 DEF LoginAccepted
  <2>2. /\ ~closed /\ buf = <<>> /\ dispatched = <<>> /\ random_in = 0
    BY <2>1 DEF Inv, LoginInv
  <2>3a. 0 \in (-2)..(Base * Base - 1)
    <3>1. Base * Base >= 1 OBVIOUS
    <3>2. Base * Base \in Int OBVIOUS
    <3>. QED BY <3>1, <3>2
  <2>3. TypeOK'
    BY <2>1, <2>3a
       DEF Inv, TypeOK, streamVars, InClientRead
  <2>4. HistoryOK' BY <2>1 DEF Inv, HistoryOK, history
  <2>5. ReadInv' /\ StreamInv' BY <2>1 DEF Inv, ReadInv, StreamInv, streamVars
  <2>6. LoginInv' BY <2>1 DEF LoginInv
  <2>7. GameInv'
    BY <2>1, <2>2 DEF GameInv, InGame, InClientRead, streamVars, history, Awaited
  <2>. QED BY <2>3, <2>4, <2>5, <2>6, <2>7 DEF Inv
<1>2. CASE LoginRefused
  <2>1. pc' = "title" /\ UNCHANGED <<streamVars, conn, login, framing, history>>
    BY <1>2 DEF LoginRefused
  <2>2. TypeOK' BY <2>1 DEF Inv, TypeOK, streamVars, framing
  <2>3. HistoryOK' /\ ReadInv' /\ StreamInv'
    BY <2>1 DEF Inv, HistoryOK, ReadInv, StreamInv, streamVars, history
  <2>4. LoginInv' /\ GameInv' BY <2>1 DEF LoginInv, GameInv, InGame, InClientRead
  <2>. QED BY <2>2, <2>3, <2>4 DEF Inv
<1>3. CASE Logout \/ DispatchLogout \/ DispatchUnknown
  <2>1. /\ pc' = "title" /\ closed' = TRUE /\ socketOpen' = FALSE
        /\ UNCHANGED <<inFlight, kernel, peerClosed, buf, bufPos, rd,
                       conn, login, packet_size, random_in>>
    BY <1>3, HandleInv DEF Logout, DispatchLogout, DispatchUnknown, Close, framing
  <2>1a. packet_type' \in {-1} \union Byte
    BY <1>3, HandleInv DEF Logout, DispatchLogout, DispatchUnknown, framing, Inv, TypeOK
  <2>1b. HistoryOK'
    BY <1>3, HandleInv DEF Logout, DispatchLogout, DispatchUnknown, history, Inv, HistoryOK
  <2>2. TypeOK' BY <2>1, <2>1a DEF Inv, TypeOK
  <2>3. HistoryOK' /\ ReadInv' /\ StreamInv'
    BY <2>1, <2>1b DEF Inv, ReadInv, StreamInv
  <2>4. LoginInv' /\ GameInv' BY <2>1 DEF LoginInv, GameInv, InGame, InClientRead
  <2>. QED BY <2>2, <2>3, <2>4 DEF Inv
<1>. QED BY <1>1, <1>2, <1>3

\* The loop of a blocking read: only during a login, and never past its end.
LEMMA OverwriteType ==
  ASSUME NEW dst \in Seq(Byte), NEW off \in 0..Len(dst), NEW got \in Seq(Byte)
  PROVE  /\ Overwrite(dst, off, got) \in Seq(Byte)
         /\ off + Len(got) <= Len(Overwrite(dst, off, got))
<1> DEFINE n == IF off + Len(got) > Len(dst) THEN off + Len(got) ELSE Len(dst)
<1>1. n \in Nat /\ off + Len(got) <= n OBVIOUS
<1>2. ASSUME NEW i \in 1..n
      PROVE  (IF i > off /\ i <= off + Len(got) THEN got[i - off] ELSE dst[i]) \in Byte
  OBVIOUS
<1>3. Overwrite(dst, off, got) =
        [i \in 1..n |-> IF i > off /\ i <= off + Len(got) THEN got[i - off] ELSE dst[i]]
  BY DEF Overwrite
<1> HIDE DEF n
<1>4. Overwrite(dst, off, got) \in [1..n -> Byte] BY <1>2, <1>3
<1>5. Overwrite(dst, off, got) \in Seq(Byte) /\ Len(Overwrite(dst, off, got)) = n
  BY <1>1, <1>4
<1>. QED BY <1>1, <1>5

LEMMA BlockedInv == Inv /\ Blocked => Inv'
<1> SUFFICES ASSUME Inv, Blocked PROVE Inv'
  OBVIOUS
<1>0. /\ rd.need > 0 /\ ~InGame /\ pc \in {"title", "seed", "reply"}
      /\ UNCHANGED <<pc, conn, login, framing, history>>
  <2>1. rd.need > 0 BY DEF Blocked, RecvMore, RecvEnd, RecvTimeout
  <2>2. ~InGame BY <2>1 DEF Inv, GameInv
  <2>3. pc \in {"title", "seed", "reply"} BY <2>2 DEF Inv, TypeOK, InGame
  <2>. QED BY <2>1, <2>2, <2>3 DEF Blocked
<1>1. CASE RecvMore
  <2> DEFINE got == Taken(rd.need)
  <2>1. /\ got \in Seq(Byte) /\ Len(got) <= rd.need /\ Len(got) <= Len(kernel)
    BY TakenLength DEF Inv, TypeOK
  <2>2. /\ rd' = [rd EXCEPT !.need = @ - Len(got), !.off = @ + Len(got),
                            !.dst = Overwrite(@, rd.off, got)]
        /\ kernel' = SubSeq(kernel, Len(got) + 1, Len(kernel))
        /\ UNCHANGED <<inFlight, peerClosed, socketOpen, closed, buf, bufPos>>
    BY <1>1 DEF RecvMore
  <2> HIDE DEF got
  <2>3. rd.off \in 0..Len(rd.dst) /\ rd.dst \in Seq(Byte) /\ rd.need \in Nat
        /\ rd \in [need : Nat, off : Nat, dst : Seq(Byte), failed : BOOLEAN]
    BY DEF Inv, TypeOK, ReadInv
  <2>4. /\ Overwrite(rd.dst, rd.off, got) \in Seq(Byte)
        /\ rd.off + Len(got) <= Len(Overwrite(rd.dst, rd.off, got))
    BY <2>1, <2>3, OverwriteType
  <2>5. /\ rd' \in [need : Nat, off : Nat, dst : Seq(Byte), failed : BOOLEAN]
        /\ rd'.off <= Len(rd'.dst) /\ rd'.failed = rd.failed
    <3>1. /\ rd'.need = rd.need - Len(got) /\ rd'.off = rd.off + Len(got)
          /\ rd'.dst = Overwrite(rd.dst, rd.off, got) /\ rd'.failed = rd.failed
          /\ rd' = [need |-> rd'.need, off |-> rd'.off, dst |-> rd'.dst,
                    failed |-> rd'.failed]
      BY <2>2, <2>3
    <3>2. rd.need - Len(got) \in Nat /\ rd.off + Len(got) \in Nat BY <2>1, <2>3
    <3>3. rd.failed \in BOOLEAN BY <2>3
    <3>. QED BY <2>4, <3>1, <3>2, <3>3
  <2>6. kernel' \in Seq(Byte)
    <3>1. Len(got) + 1 \in Nat /\ 1 <= Len(got) + 1 BY <2>1
    <3>. QED BY <2>2, <3>1, SuffixType DEF Inv, TypeOK
  <2>7. TypeOK' BY <1>0, <2>2, <2>5, <2>6 DEF Inv, TypeOK, framing
  <2>8. HistoryOK' BY <1>0 DEF Inv, HistoryOK, history
  <2>9. ReadInv' /\ StreamInv' BY <2>2, <2>5 DEF Inv, ReadInv, StreamInv
  <2>10. LoginInv' BY <1>0, <2>2, <2>5 DEF Inv, LoginInv, framing, history
  <2>11. GameInv' BY <1>0 DEF GameInv, InGame
  <2>. QED BY <2>7, <2>8, <2>9, <2>10, <2>11 DEF Inv
<1>2. CASE RecvEnd \/ RecvTimeout
  <2>1. /\ rd' = [rd EXCEPT !.need = 0, !.failed = TRUE]
        /\ closed' = TRUE /\ socketOpen' \in {socketOpen, FALSE}
        /\ UNCHANGED <<inFlight, kernel, peerClosed, buf, bufPos>>
    BY <1>2 DEF RecvEnd, RecvTimeout
  <2>2. /\ rd' \in [need : Nat, off : Nat, dst : Seq(Byte), failed : BOOLEAN]
        /\ rd'.off = rd.off /\ rd'.dst = rd.dst /\ rd'.failed = TRUE
    BY <2>1 DEF Inv, TypeOK
  <2>3. TypeOK' BY <1>0, <2>1, <2>2 DEF Inv, TypeOK, framing
  <2>4. HistoryOK' BY <1>0 DEF Inv, HistoryOK, history
  <2>5. ReadInv' /\ StreamInv' BY <2>1, <2>2 DEF Inv, ReadInv, StreamInv
  <2>6. LoginInv' BY <1>0, <2>1, <2>2 DEF Inv, LoginInv, framing, history
  <2>7. GameInv' BY <1>0 DEF GameInv, InGame
  <2>. QED BY <2>3, <2>4, <2>5, <2>6, <2>7 DEF Inv
<1>. QED BY <1>1, <1>2 DEF Blocked

\* The server and the network touch only their side of the connection.
LEMMA EnvironmentInv ==
  ASSUME Inv, inFlight' \in Seq(Byte), kernel' \in Seq(Byte), peerClosed' \in BOOLEAN,
         login' \in {"none", "sent", "in", "refused"}, sent' \in Seq(Packet),
         UNCHANGED <<pc, conn, socketOpen, closed, buf, bufPos, rd, framing, dispatched>>
  PROVE  Inv'
<1>1. TypeOK' BY DEF Inv, TypeOK, framing
<1>2. HistoryOK' BY DEF Inv, HistoryOK
<1>3. ReadInv' /\ StreamInv' BY DEF Inv, ReadInv, StreamInv
<1>4. LoginInv' BY DEF Inv, LoginInv, framing
<1>5. GameInv' BY DEF Inv, GameInv, InGame, framing, Awaited
<1>. QED BY <1>1, <1>2, <1>3, <1>4, <1>5 DEF Inv

LEMMA ServerInv ==
  Inv /\ (\/ \E r \in {1, 2, 3} : ServerReplies(r)
          \/ \E t \in Byte, n \in 0..MaxPayload : ServerSendsPacket(t, n)
          \/ ServerEnds \/ Network) => Inv'
<1>1. ASSUME Inv, NEW r \in {1, 2, 3}, ServerReplies(r) PROVE Inv'
  <2>1. <<r>> \in Seq(Byte) BY DEF Byte
  <2>2. inFlight' \in Seq(Byte) BY <1>1, <2>1 DEF ServerReplies, ServerSends, Inv, TypeOK
  <2>. QED
    BY <1>1, <2>2, EnvironmentInv
       DEF ServerReplies, ServerSends, Inv, TypeOK, HistoryOK, history
<1>2. ASSUME Inv, NEW t \in Byte, NEW n \in 0..MaxPayload, ServerSendsPacket(t, n)
      PROVE  Inv'
  <2>1. /\ <<(t + Key(Len(sent))) % Base>> \in Seq(Byte)
        /\ LengthBytes(t, n) \in Seq(Byte) /\ Payload(n) \in Seq(Byte)
    BY <1>2, PacketBytes DEF ServerSendsPacket, Inv
  <2>2. inFlight' \in Seq(Byte)
    BY <1>2, <2>1 DEF ServerSendsPacket, ServerSends, Inv, TypeOK
  <2>3. sent' \in Seq(Packet)
    BY <1>2, <2>1 DEF ServerSendsPacket, Packet, Inv, HistoryOK
  <2>. QED
    BY <1>2, <2>2, <2>3, EnvironmentInv
       DEF ServerSendsPacket, ServerSends, Inv, TypeOK
<1>3. ASSUME Inv, ServerEnds PROVE Inv'
  BY <1>3, EnvironmentInv DEF ServerEnds, ServerCloses, Inv, TypeOK, HistoryOK, history
<1>4. ASSUME Inv, Network PROVE Inv'
  <2>1. inFlight' \in Seq(Byte) /\ kernel' \in Seq(Byte)
    <3>1. inFlight \in Seq(Byte) /\ inFlight # <<>> /\ kernel \in Seq(Byte)
      BY <1>4 DEF Network, Arrive, Inv, TypeOK
    <3>2. Head(inFlight) \in Byte /\ Tail(inFlight) \in Seq(Byte) BY <3>1
    <3>. QED BY <1>4, <3>1, <3>2 DEF Network, Arrive
  <2>. QED
    BY <1>4, <2>1, EnvironmentInv DEF Network, Arrive, Inv, TypeOK, HistoryOK, history
<1>. QED BY <1>1, <1>2, <1>3, <1>4

LEMMA StutterInv == Inv /\ UNCHANGED vars => Inv'
<1> SUFFICES ASSUME Inv, UNCHANGED vars PROVE Inv'
  OBVIOUS
<1>1. TypeOK' BY DEF Inv, TypeOK, vars, streamVars, framing
<1>2. HistoryOK' /\ ReadInv' /\ StreamInv'
  BY DEF Inv, HistoryOK, ReadInv, StreamInv, vars, streamVars, history
<1>3. LoginInv' BY DEF Inv, LoginInv, vars, streamVars, framing, history
<1>4. GameInv' BY DEF Inv, GameInv, InGame, Awaited, vars, streamVars, framing, history
<1>. QED BY <1>1, <1>2, <1>3, <1>4 DEF Inv

\* Inv is inductive: one case per group of actions of Next.
THEOREM Invariance == Spec => []Inv
<1>1. Inv /\ [Next]_vars => Inv'
  <2> SUFFICES ASSUME Inv, [Next]_vars PROVE Inv'
    OBVIOUS
  <2>1. CASE ClientRead
    BY <2>1, DecodeTypeInv, DecodeSizeInv, DispatchInv, PollInv, LoginEndsInv DEF ClientRead
  <2>2. CASE Blocked BY <2>2, BlockedInv
  <2>3. CASE Login \/ Reconnect \/ LoginAgain
    BY <2>3, ConnectInv DEF Login, Reconnect, LoginAgain
  <2>4. CASE SendLogin BY <2>4, SendLoginInv
  <2>5. CASE LoginAccepted \/ LoginRefused \/ Logout BY <2>5, LoginEndsInv
  <2>6. CASE TitleWaits \/ UNCHANGED vars BY <2>6, StutterInv DEF TitleWaits
  <2>7. CASE \/ \E r \in {1, 2, 3} : ServerReplies(r)
             \/ \E t \in Byte, n \in 0..MaxPayload : ServerSendsPacket(t, n)
             \/ ServerEnds \/ Network
    BY <2>7, ServerInv
  <2>. QED BY <2>1, <2>2, <2>3, <2>4, <2>5, <2>6, <2>7 DEF Next
<1>. QED BY InitInv, <1>1, PTL DEF Spec

\* Every variable keeps its type: in particular no size is ever out of range
\* and no read is asked for a negative number of bytes.
THEOREM TypeCorrect == Spec => []TypeOK
<1>1. Inv => TypeOK BY DEF Inv
<1>. QED BY <1>1, Invariance, PTL

\* client_read never waits for the network in the game loop, whatever the size
\* table, the keystream and the chunking.
THEOREM NeverBlocks == Spec => []GameLoopNeverBlocks
<1>1. Inv => GameLoopNeverBlocks BY DEF Inv, GameInv, InGame, GameLoopNeverBlocks
<1>. QED BY <1>1, Invariance, PTL

\* Between calls the buffer holds less than the one field awaited, from 0 on.
THEOREM HoldsOneField == Spec => []BufferHoldsOneField
<1>1. Inv => BufferHoldsOneField
  BY DEF Inv, GameInv, StreamInv, InGame, BufferHoldsOneField
<1>. QED BY <1>1, Invariance, PTL

\* The keystream has advanced once per packet begun.
THEOREM InStep == Spec => []KeystreamInStep
<1>1. Inv => KeystreamInStep BY DEF Inv, GameInv, InGame, KeystreamInStep
<1>. QED BY <1>1, Invariance, PTL

(***************************************************************************)
(* The reader implements PacketChannel.                                    *)
(*                                                                         *)
(* Inv says how much the buffer holds, not which bytes.  What is added     *)
(* here: the bytes the client has not read yet can be cut into what is     *)
(* left of the packet in progress and the packets after it, as the server  *)
(* sent them.  rest is the cut: rest[i] is what follows the i-th packet.   *)
(***************************************************************************)

Unread == Join(buf, Join(kernel, inFlight))

Header(i) == <<(sent[i].type + Key(i - 1)) % Base>>
Length(i) == LengthBytes(sent[i].type, Len(sent[i].payload))
Cut(rest) ==
  /\ rest \in [Nat -> Seq(Byte)]
  /\ rest[Len(sent)] = <<>>
  /\ \A i \in 1..Len(sent) :
       rest[i - 1] = Join(Header(i), Join(Length(i), Join(sent[i].payload, rest[i])))

\* Packets are sent only on a session, with a length their type allows; only
\* what was sent has been handled.
SentInv ==
  /\ \A i \in 1..Len(sent) :
       sent[i].type \in Byte /\ Len(sent[i].payload) \in PayloadLengths(sent[i].type)
  /\ login # "in" => sent = <<>>
  /\ Len(dispatched) <= Len(sent)

\* During the login: of the greeting, what the blocking read still needs; of
\* the reply, one byte, followed by packets only if it starts a session.
LoginCut(rest) ==
  /\ pc = "seed" => login = "none" /\ (~closed => Len(Unread) = rd.need)
  /\ pc = "reply" /\ ~closed =>
       /\ Len(rd.dst) + rd.need = 1 /\ rd.off = Len(rd.dst)
       /\ login \in {"none", "sent"} => Join(rd.dst, Unread) = <<>>
       /\ login = "refused" => Join(rd.dst, Unread) \in {<<1>>, <<3>>}
       /\ login = "in" => Join(rd.dst, Unread) = Join(<<2>>, rest[0])

\* In game, point by point: which bytes of packet k + 1 have been read, and
\* that what has been decoded of it is what the server put there.
GameCut(rest) ==
  LET k == Len(dispatched)
      after == Join(sent[k + 1].payload, rest[k + 1])
  IN  InGame =>
        /\ login = "in"
        /\ packet_type # -1 => k < Len(sent) /\ packet_type = sent[k + 1].type
        /\ pc = "idle" /\ packet_type = -1 => Unread = rest[k]
        /\ pc = "decodeType" =>
             k < Len(sent) /\ rd.dst = Header(k + 1) /\ Unread = Join(Length(k + 1), after)
        /\ pc \in {"idle", "size"} /\ packet_type # -1 /\ packet_size < 0 =>
             packet_size = SERVERPROT_SIZES[packet_type] /\ Unread = Join(Length(k + 1), after)
        /\ pc = "decodeSize" => rd.dst = Length(k + 1) /\ Unread = after
        /\ pc \in {"idle", "size", "payload"} /\ packet_type # -1 /\ packet_size >= 0 =>
             packet_size = Len(sent[k + 1].payload) /\ Unread = after
        /\ pc = "dispatch" => rd.dst = sent[k + 1].payload /\ Unread = rest[k + 1]

Aligned(rest) == Cut(rest) /\ LoginCut(rest) /\ GameCut(rest)
CutInv == SentInv /\ \E rest : Aligned(rest)

\* A poll only moves bytes from the kernel's buffer to the stream's.
LEMMA PolledBytes ==
  ASSUME TypeOK, NEW n \in Nat, Polled(n)
  PROVE  kernel' \in Seq(Byte) /\ Join(Filled(n), kernel') = Join(buf, kernel)
<1>0. buf \in Seq(Byte) /\ kernel \in Seq(Byte) BY DEF TypeOK
<1>1. CASE Len(buf) >= n
  <2>1. Filled(n) = buf BY <1>1 DEF Filled
  <2>2. kernel' = SubSeq(kernel, 1, Len(kernel)) BY <2>1, <1>0 DEF Polled
  <2>3. kernel' = kernel BY <2>2, <1>0, SubSeqFull
  <2>. QED BY <2>1, <2>3, <1>0
<1>2. CASE ~(Len(buf) >= n)
  <2> DEFINE t == Taken(n - Len(buf))
             m == Len(t)
  <2>1. n - Len(buf) \in Nat BY <1>0, <1>2
  <2>2. t \in Seq(Byte) /\ m <= Len(kernel) BY <2>1, TakenLength
  <2>3. Filled(n) = Join(buf, t) BY <1>2 DEF Filled, Join
  <2>4. t = SubSeq(kernel, 1, m)
    BY <1>0, <2>1 DEF Taken, Least
  <2> HIDE DEF t
  <2>5. kernel' = SubSeq(kernel, m + 1, Len(kernel))
    <3>1. Len(Filled(n)) = Len(buf) + m BY <1>0, <2>2, <2>3, JoinBytes
    <3>2. 1 + Len(Filled(n)) - Len(buf) = m + 1 BY <1>0, <2>2, <3>1
    <3>. QED BY <3>2 DEF Polled
  <2>6. kernel' \in Seq(Byte) /\ Join(t, kernel') = kernel
    <3>1. m \in 0..Len(kernel) BY <2>2, <1>0
    <3>. QED BY <3>1, <2>4, <2>5, <1>0, Halves DEF Join
  <2>. QED BY <2>2, <2>3, <2>6, <1>0, JoinBytes
<1>. QED BY <1>1, <1>2

\* What a poll, a read after a poll, and the arrival of a byte do to the bytes
\* not read yet: only a read takes some, from the front.
LEMMA PollKeeps ==
  ASSUME Inv, NEW n \in Nat, Poll(n)
  PROVE  Unread' = Unread /\ rd' = rd /\ UNCHANGED closed
<1>1. /\ buf' = Filled(n) /\ buf' \in Seq(Byte)
      /\ UNCHANGED <<inFlight, peerClosed, socketOpen, closed, bufPos, rd>>
  BY PollEffect DEF Inv, StreamInv
<1>2. kernel' \in Seq(Byte) /\ Join(buf', kernel') = Join(buf, kernel)
  <2>1. Polled(n) BY DEF Poll
  <2>. QED BY <1>1, <2>1, PolledBytes DEF Inv
<1>3. buf \in Seq(Byte) /\ kernel \in Seq(Byte) /\ inFlight \in Seq(Byte)
  BY DEF Inv, TypeOK
<1>4. /\ Unread' = Join(buf', Join(kernel', inFlight)) BY <1>1 DEF Unread
<1>5. Unread' = Join(Join(buf', kernel'), inFlight) BY <1>1, <1>2, <1>3, <1>4, JoinBytes
<1>6. Unread = Join(Join(buf, kernel), inFlight) BY <1>3, JoinBytes DEF Unread
<1>. QED BY <1>1, <1>2, <1>5, <1>6

LEMMA ReadTakes ==
  ASSUME Inv, InGame, NEW n \in Nat, Len(buf) <= n, Available(n), PollAndRead(n)
  PROVE  /\ rd'.dst \in Seq(Byte) /\ Len(rd'.dst) = n
         /\ Unread' \in Seq(Byte) /\ Join(rd'.dst, Unread') = Unread
         /\ UNCHANGED closed
<1>0. ~closed BY DEF Inv, GameInv
<1>1. /\ Len(rd'.dst) = n
      /\ rd' \in [need : Nat, off : Nat, dst : Seq(Byte), failed : BOOLEAN]
      /\ buf' = <<>> /\ kernel' \in Seq(Byte)
      /\ UNCHANGED <<inFlight, peerClosed, socketOpen, closed>>
  BY <1>0, PollAndReadEffect DEF Inv, StreamInv
<1>2. buf \in Seq(Byte) /\ kernel \in Seq(Byte) /\ inFlight \in Seq(Byte)
  BY DEF Inv, TypeOK
<1>3. Filled(n) \in Seq(Byte) /\ Len(Filled(n)) = n BY FilledLength, <1>2 DEF Inv
<1>4. rd'.dst = Filled(n)
  <2>1. closed = FALSE BY <1>0, Zenon DEF Inv, TypeOK
  <2>2. Least(n, Len(Filled(n))) = n BY <1>3 DEF Least
  <2>3. rd'.dst = SubSeq(Filled(n), 1, n) BY <2>1, <2>2 DEF PollAndRead, BeginRead
  <2>. QED BY <1>3, <2>3, SubSeqFull
<1>5. Join(rd'.dst, kernel') = Join(buf, kernel)
  <2>1. Polled(n) BY DEF PollAndRead
  <2>. QED BY <1>4, <2>1, PolledBytes DEF Inv
<1>6. <<>> \in Seq(Byte) OBVIOUS
<1>7. Unread' = Join(kernel', inFlight)
  <2>1. Unread' = Join(<<>>, Join(kernel', inFlight)) BY <1>1 DEF Unread
  <2>. QED BY <1>1, <1>2, <2>1, JoinBytes
<1>8. rd'.dst \in Seq(Byte) BY <1>3, <1>4
<1>9. Unread' \in Seq(Byte) BY <1>1, <1>2, <1>7, JoinBytes
<1>10. Unread = Join(Join(buf, kernel), inFlight) BY <1>2, JoinBytes DEF Unread
<1>11. Join(rd'.dst, Unread') = Join(Join(rd'.dst, kernel'), inFlight)
  BY <1>1, <1>2, <1>7, <1>8, JoinBytes
<1>. QED BY <1>1, <1>5, <1>8, <1>9, <1>10, <1>11

LEMMA ArriveKeeps ==
  ASSUME Inv, Arrive
  PROVE  Unread' = Unread
<1>1. ASSUME NEW S, NEW k \in Seq(S), NEW f \in Seq(S), f # <<>>
      PROVE  Append(k, Head(f)) \o Tail(f) = k \o f
  BY <1>1
<1>2. kernel \in Seq(Byte) /\ inFlight \in Seq(Byte) /\ inFlight # <<>>
  BY DEF Inv, TypeOK, Arrive
<1>3. Append(kernel, Head(inFlight)) \o Tail(inFlight) = kernel \o inFlight
  BY <1>1, <1>2
<1>. QED BY <1>3, Zenon DEF Arrive, Unread, Join

(***************************************************************************)
(* The fields of a packet, and what the client makes of them.              *)
(***************************************************************************)

LEMMA SmallMod == ASSUME NEW x \in Int, 0 <= x, x < Base PROVE x % Base = x
OBVIOUS

LEMMA WrapMod ==
  ASSUME NEW x \in Int, Base <= x, x < Base + Base PROVE x % Base = x - Base
<1> DEFINE q == x \div Base
           r == x % Base
<1>1. q \in Int /\ r \in 0..(Base - 1) /\ x = Base * q + r OBVIOUS
<1> HIDE DEF q, r
<1>2. q = 1
  <2>1. CASE q <= 0
    <3>1. Base * q <= 0 BY <1>1, <2>1
    <3>. QED BY <1>1, <3>1
  <2>2. CASE q >= 2
    <3>1. Base * q >= Base * 2 BY <1>1, <2>2
    <3>. QED BY <1>1, <3>1
  <2>. QED BY <1>1, <2>1, <2>2
<1>. QED BY <1>1, <1>2 DEF r

LEMMA BorrowMod ==
  ASSUME NEW x \in Int, -Base <= x, x < 0 PROVE x % Base = x + Base
<1> DEFINE q == x \div Base
           r == x % Base
<1>1. q \in Int /\ r \in 0..(Base - 1) /\ x = Base * q + r OBVIOUS
<1> HIDE DEF q, r
<1>2. q = -1
  <2>1. CASE q >= 0
    <3>1. Base * q >= 0 BY <1>1, <2>1
    <3>. QED BY <1>1, <3>1
  <2>2. CASE q <= -2
    <3>1. Base * q <= Base * (-2) BY <1>1, <2>2
    <3>. QED BY <1>1, <3>1
  <2>. QED BY <1>1, <2>1, <2>2
<1>. QED BY <1>1, <1>2 DEF r

\* Taking a keystream word from a masked byte gives the byte back.
LEMMA Unmask ==
  ASSUME NEW t \in Byte, NEW w \in Byte
  PROVE  (((t + w) % Base) - w) % Base = t
<1> DEFINE x == t + w
           y == t - Base
<1>0. /\ t \in Int /\ 0 <= t /\ t < Base /\ w \in Int /\ 0 <= w /\ w < Base
      /\ x \in Int /\ 0 <= x /\ x < Base + Base /\ y \in Int
      /\ x - w = t /\ x - Base - w = y
  BY DEF Byte
<1>1. t % Base = t BY <1>0, SmallMod
<1>2. y % Base = t
  <2>1. -Base <= y /\ y < 0 /\ y + Base = t BY <1>0
  <2>2. y % Base = y + Base BY <1>0, <2>1, BorrowMod
  <2>. QED BY <2>1, <2>2
<1> HIDE DEF x, y
<1>3. CASE x < Base
  <2>1. x % Base = x BY <1>0, <1>3, SmallMod
  <2>. QED BY <1>0, <1>1, <2>1 DEF x
<1>4. CASE x >= Base
  <2>1. x % Base = x - Base BY <1>0, <1>4, WrapMod
  <2>2. (x % Base) - w = y BY <1>0, <2>1
  <2>. QED BY <1>2, <2>2 DEF x
<1>. QED BY <1>0, <1>3, <1>4

\* The length a variable-size packet carries reads back as its length; a
\* fixed-size packet carries none, and has the size of its type.
LEMMA FieldLengths ==
  ASSUME NEW t \in Byte, NEW n \in PayloadLengths(t)
  PROVE  /\ n \in 0..MaxPayload
         /\ LengthBytes(t, n) \in Seq(Byte)
         /\ SERVERPROT_SIZES[t] \in Int
         /\ SERVERPROT_SIZES[t] >= 0 =>
              LengthBytes(t, n) = <<>> /\ SERVERPROT_SIZES[t] = n
         /\ SERVERPROT_SIZES[t] < 0 => Len(LengthBytes(t, n)) = -SERVERPROT_SIZES[t]
         /\ Len(LengthBytes(t, n)) = 1 => LengthBytes(t, n)[1] = n
         /\ Len(LengthBytes(t, n)) = 2 =>
              Base * LengthBytes(t, n)[1] + LengthBytes(t, n)[2] = n
         /\ Len(LengthBytes(t, n)) \in 0..2
<1>1. n \in 0..MaxPayload /\ n \in Nat /\ SERVERPROT_SIZES[t] \in (-2)..MaxPayload
  BY LengthRange DEF Byte
<1>2. /\ n \div Base \in Byte /\ n % Base \in Byte
      /\ Base * (n \div Base) + (n % Base) = n
  BY LengthRange, SplitLength
<1>3. SERVERPROT_SIZES[t] \in Int BY <1>1
<1>4. CASE SERVERPROT_SIZES[t] = -1
  <2>1. LengthBytes(t, n) = <<n>> /\ n \in Byte BY <1>4, LengthRange DEF LengthBytes
  <2>2. LengthBytes(t, n) \in Seq(Byte) BY <2>1
  <2>3. Len(LengthBytes(t, n)) = 1 /\ LengthBytes(t, n)[1] = n BY <2>1
  <2>4. ~(SERVERPROT_SIZES[t] >= 0) BY <1>4
  <2>5. Len(LengthBytes(t, n)) = -SERVERPROT_SIZES[t]
    <3>1. -SERVERPROT_SIZES[t] = 1 BY <1>4
    <3>. QED BY <3>1, <2>3, Zenon
  <2>6. Len(LengthBytes(t, n)) # 2 /\ Len(LengthBytes(t, n)) \in 0..2 BY <2>3
  <2>. QED BY <1>1, <1>3, <2>2, <2>3, <2>4, <2>5, <2>6
<1>5. CASE SERVERPROT_SIZES[t] = -2
  <2> DEFINE hi == n \div Base
             lo == n % Base
             l == LengthBytes(t, n)
  <2>1. l = << hi, lo >> BY <1>5 DEF LengthBytes
  <2>2. hi \in Byte /\ lo \in Byte /\ Base * hi + lo = n BY <1>2
  <2> HIDE DEF hi, lo, l
  <2>3. l \in Seq(Byte) BY <2>1, <2>2
  <2>4. Len(l) = 2 /\ l[1] = hi /\ l[2] = lo BY <2>1
  <2>5. Base * l[1] + l[2] = n BY <2>2, <2>4
  <2>6. Len(l) # 1 /\ Len(l) \in 0..2 BY <2>4
  <2>7. ~(SERVERPROT_SIZES[t] >= 0) BY <1>5
  <2>8. Len(l) = -SERVERPROT_SIZES[t]
    <3>1. -SERVERPROT_SIZES[t] = 2 BY <1>5
    <3>. QED BY <3>1, <2>4, Zenon
  <2>. QED BY <1>1, <1>3, <2>3, <2>5, <2>6, <2>7, <2>8, Zenon DEF l
<1>6. CASE SERVERPROT_SIZES[t] >= 0
  <2>1. LengthBytes(t, n) = <<>> BY <1>1, <1>6 DEF LengthBytes
  <2>2. SERVERPROT_SIZES[t] = n BY <1>6, LengthRange
  <2>. QED BY <1>1, <1>6, <2>1, <2>2
<1>. QED BY <1>1, <1>4, <1>5, <1>6

\* The fields of a sent packet, and the unread bytes from each packet on.
LEMMA CutTypes ==
  ASSUME Inv, SentInv, NEW rest, Cut(rest), NEW i \in 1..Len(sent)
  PROVE  /\ Header(i) \in Seq(Byte) /\ Len(Header(i)) = 1
         /\ Length(i) \in Seq(Byte) /\ sent[i].payload \in Seq(Byte)
         /\ rest[i] \in Seq(Byte)
         /\ sent[i].type \in Byte
         /\ Len(sent[i].payload) \in PayloadLengths(sent[i].type)
<1>1. sent[i] \in Packet BY DEF Inv, HistoryOK
<1>2. sent[i].payload \in Seq(Byte) BY <1>1 DEF Packet
<1>3. sent[i].type \in Byte /\ Len(sent[i].payload) \in PayloadLengths(sent[i].type)
  BY DEF SentInv
<1>4. Length(i) \in Seq(Byte) BY <1>3, FieldLengths DEF Length
<1>5. Header(i) \in Seq(Byte) /\ Len(Header(i)) = 1
  <2>1. i - 1 \in Nat BY DEF Inv, HistoryOK
  <2>2. sent[i].type + Key(i - 1) \in Int
    <3>1. Key(i - 1) \in Byte BY <2>1, KeyByte
    <3>. QED BY <1>3, <3>1 DEF Byte
  <2>3. (sent[i].type + Key(i - 1)) % Base \in Byte BY <2>2, ModByte
  <2>. QED BY <2>3 DEF Header
<1>6. rest[i] \in Seq(Byte)
  <2>1. i \in Nat BY DEF Inv, HistoryOK
  <2>. QED BY <2>1 DEF Cut
<1>. QED BY <1>2, <1>3, <1>4, <1>5, <1>6

\* While no packet is sent the cut stays as it is.
LEMMA CutStays ==
  ASSUME NEW rest, Cut(rest), UNCHANGED sent
  PROVE  Cut(rest)'
BY DEF Cut, Header, Length

LEMMA SentStays ==
  ASSUME SentInv, UNCHANGED sent, login' # "in" => login # "in", Len(dispatched') <= Len(sent)
  PROVE  SentInv'
BY DEF SentInv, PayloadLengths

(***************************************************************************)
(* Each action keeps the bytes aligned.                                    *)
(***************************************************************************)

\* Nothing is unread and nothing sent: the title screen, and a connection that
\* has just been opened.
LEMMA InitCut == Init => CutInv
<1> SUFFICES ASSUME Init PROVE CutInv
  OBVIOUS
<1> DEFINE rest == [i \in Nat |-> <<>>]
<1>1. sent = <<>> /\ dispatched = <<>> /\ pc = "title" /\ Len(sent) = 0 BY DEF Init
<1>2. SentInv BY <1>1 DEF SentInv
<1>3. Cut(rest) BY <1>1 DEF Cut
<1>4. LoginCut(rest) /\ GameCut(rest)
  BY <1>1 DEF LoginCut, GameCut, InGame, InClientRead
<1>. QED BY <1>2, <1>3, <1>4 DEF CutInv, Aligned

LEMMA ConnectCut == Connect => CutInv'
<1> SUFFICES ASSUME Connect PROVE CutInv'
  OBVIOUS
<1> DEFINE rest == [i \in Nat |-> <<>>]
<1>1. /\ inFlight' = [i \in 1..SeedLength |-> i % Base]
      /\ kernel' = <<>> /\ buf' = <<>>
      /\ rd' = [need |-> SeedLength, off |-> 0, dst |-> <<>>, failed |-> FALSE]
      /\ pc' = "seed" /\ login' = "none" /\ sent' = <<>> /\ dispatched' = <<>>
  BY DEF Connect, OpenAndRead, NoRead
<1>2. SentInv' BY <1>1 DEF SentInv
<1>3. Cut(rest)' BY <1>1 DEF Cut
<1>4. Len(Unread') = SeedLength
  <2>1. inFlight' \in Seq(Byte) /\ Len(inFlight') = SeedLength
    <3>1. ASSUME NEW i \in 1..SeedLength PROVE i % Base \in Byte
      <4>1. i \in Int OBVIOUS
      <4>. QED BY <4>1, ModByte
    <3>2. SeedLength \in Nat OBVIOUS
    <3>. QED BY <1>1, <3>1, <3>2
  <2>2. Unread' = Join(<<>>, Join(<<>>, inFlight')) BY <1>1 DEF Unread
  <2>3. Unread' = inFlight' BY <2>1, <2>2, JoinBytes
  <2>. QED BY <2>1, <2>3
<1>5. LoginCut(rest)' BY <1>1, <1>4 DEF LoginCut
<1>6. GameCut(rest)' BY <1>1 DEF GameCut, InGame, InClientRead
<1>. QED BY <1>2, <1>3, <1>5, <1>6 DEF CutInv, Aligned

\* The type byte is unmasked with the keystream word the server masked it with.
LEMMA DecodeTypeCut ==
  ASSUME Inv, SentInv, NEW rest, Aligned(rest), DecodeType
  PROVE  SentInv' /\ Aligned(rest)'
<1> DEFINE k == Len(dispatched)
           t == sent[k + 1].type
           n == Len(sent[k + 1].payload)
           after == Join(sent[k + 1].payload, rest[k + 1])
<1>1. /\ pc = "decodeType" /\ pc' = "size"
      /\ packet_type' = (rd.dst[1] - Key(random_in)) % Base
      /\ packet_size' = SERVERPROT_SIZES[packet_type']
      /\ UNCHANGED <<streamVars, conn, login, history>>
  BY DEF DecodeType
<1>2. random_in = k /\ k \in Nat
  BY <1>1 DEF Inv, GameInv, InGame, InClientRead, HistoryOK
<1>3. /\ login = "in" /\ k < Len(sent) /\ rd.dst = Header(k + 1)
      /\ Unread = Join(Length(k + 1), after)
  BY <1>1 DEF Aligned, GameCut, InGame, InClientRead
<1>4. /\ k + 1 \in 1..Len(sent) /\ (k + 1) - 1 = k
  BY <1>2, <1>3 DEF Inv, HistoryOK
<1>5. /\ t \in Byte /\ n \in PayloadLengths(t)
      /\ sent[k + 1].payload \in Seq(Byte) /\ rest[k + 1] \in Seq(Byte)
  BY <1>4, CutTypes DEF Aligned
<1>6. packet_type' = t
  <2>1. rd.dst[1] = (t + Key(k)) % Base BY <1>3, <1>4 DEF Header
  <2>2. Key(k) \in Byte BY <1>2, KeyByte
  <2>. QED BY <1>1, <1>2, <1>5, <2>1, <2>2, Unmask
<1>7. /\ packet_size' = SERVERPROT_SIZES[t]
      /\ packet_size' \in Int /\ t # -1
      /\ packet_size' >= 0 => Length(k + 1) = <<>> /\ packet_size' = n
  <2>1. t # -1 BY <1>5 DEF Byte
  <2>2. /\ SERVERPROT_SIZES[t] \in Int
        /\ SERVERPROT_SIZES[t] >= 0 =>
             LengthBytes(t, n) = <<>> /\ SERVERPROT_SIZES[t] = n
    BY <1>5, FieldLengths
  <2>3. Length(k + 1) = LengthBytes(t, n) BY DEF Length
  <2> HIDE DEF t, n
  <2>. QED BY <1>1, <1>6, <2>1, <2>2, <2>3
<1>8. Join(<<>>, after) = after
  <2>1. after \in Seq(Byte) BY <1>5, JoinBytes
  <2> HIDE DEF after
  <2>. QED BY <2>1, JoinBytes
<1>9. /\ Unread' = Unread /\ rd' = rd /\ login' = login /\ closed' = closed
      /\ sent' = sent /\ dispatched' = dispatched
  BY <1>1 DEF Unread, streamVars, history
<1>10. Length(k + 1)' = Length(k + 1) BY <1>9 DEF Length
<1>11. SentInv' BY <1>9, SentStays DEF SentInv
<1>12. Cut(rest)' BY <1>9, CutStays DEF Aligned
<1>13. LoginCut(rest)' BY <1>1 DEF LoginCut
<1> HIDE DEF k, t, n, after
<1>14. GameCut(rest)'
  BY <1>1, <1>3, <1>6, <1>7, <1>8, <1>9, <1>10 DEF GameCut, k, t, n, after
<1>. QED BY <1>11, <1>12, <1>13, <1>14 DEF Aligned

\* The length bytes are read as the length the server wrote.
LEMMA DecodeSizeCut ==
  ASSUME Inv, SentInv, NEW rest, Aligned(rest), SizeKnown \/ DecodeSize
  PROVE  SentInv' /\ Aligned(rest)'
<1> DEFINE k == Len(dispatched)
           t == sent[k + 1].type
           n == Len(sent[k + 1].payload)
           after == Join(sent[k + 1].payload, rest[k + 1])
<1>1. /\ pc \in {"size", "decodeSize"} /\ pc' = "payload"
      /\ UNCHANGED <<streamVars, conn, login, packet_type, history>>
  BY DEF SizeKnown, DecodeSize, framing
<1>2. /\ InGame /\ login = "in" /\ packet_type # -1 /\ k < Len(sent) /\ packet_type = t
  BY <1>1 DEF Aligned, GameCut, InGame, InClientRead, Inv, GameInv
<1>3. k + 1 \in 1..Len(sent)
  BY <1>2 DEF Inv, HistoryOK
<1>4. t \in Byte /\ n \in PayloadLengths(t) BY <1>3, CutTypes DEF Aligned
<1>5. packet_size' = n /\ packet_size' >= 0 /\ Unread = after
  <2>0. n \in Nat BY <1>4, FieldLengths
  <2>1. CASE SizeKnown
    <3>1. pc = "size" /\ packet_size >= 0 /\ packet_size' = packet_size
      BY <2>1 DEF SizeKnown, framing
    <3>. QED BY <1>2, <3>1, <2>0 DEF Aligned, GameCut
  <2>2. CASE DecodeSize
    <3>1. /\ pc = "decodeSize"
          /\ packet_size' = IF Len(rd.dst) = 1 THEN rd.dst[1]
                            ELSE Base * rd.dst[1] + rd.dst[2]
      BY <2>2 DEF DecodeSize
    <3>2. rd.dst = LengthBytes(t, n) /\ Unread = after
      BY <1>2, <3>1 DEF Aligned, GameCut, Length
    <3>3. Len(rd.dst) \in {1, 2}
      <4>1. Len(rd.dst) = -packet_size /\ packet_size < 0
        BY <1>2, <3>1 DEF Inv, GameInv
      <4>2. packet_size \in Int BY Base * Base - 1 \in Int DEF Inv, TypeOK
      <4>3. Len(rd.dst) \in 0..2 BY <1>4, <3>2, FieldLengths
      <4>. QED BY <4>1, <4>2, <4>3
    <3>4. /\ Len(rd.dst) = 1 => rd.dst[1] = n
          /\ Len(rd.dst) = 2 => Base * rd.dst[1] + rd.dst[2] = n
      BY <1>4, <3>2, FieldLengths
    <3> HIDE DEF n, after
    <3>. QED BY <2>0, <3>1, <3>2, <3>3, <3>4
  <2>. QED BY <2>1, <2>2
<1>6. /\ Unread' = Unread /\ rd' = rd /\ login' = login /\ closed' = closed
      /\ sent' = sent /\ dispatched' = dispatched /\ packet_type' = packet_type
  BY <1>1 DEF Unread, streamVars, history
<1>7. SentInv' BY <1>6, SentStays DEF SentInv
<1>8. Cut(rest)' BY <1>6, CutStays DEF Aligned
<1>9. LoginCut(rest)' BY <1>1 DEF LoginCut
<1> HIDE DEF k, t, n, after
<1>10. GameCut(rest)' BY <1>1, <1>2, <1>5, <1>6 DEF GameCut, k, t, n, after
<1>. QED BY <1>7, <1>8, <1>9, <1>10 DEF Aligned

\* What is handed to the handlers is the next packet sent.
LEMMA HandleCut ==
  ASSUME Inv, SentInv, NEW rest, Aligned(rest), Handle
  PROVE  /\ Len(dispatched) < Len(sent)
         /\ dispatched' = Append(dispatched, sent[Len(dispatched) + 1])
         /\ login = "in" /\ Unread = rest[Len(dispatched) + 1]
         /\ Len(dispatched') = Len(dispatched) + 1
<1> DEFINE k == Len(dispatched)
<1>1. /\ pc = "dispatch"
      /\ dispatched' = Append(dispatched, [type |-> packet_type, payload |-> rd.dst])
  BY DEF Handle
<1>2. InGame /\ packet_type # -1
  BY <1>1 DEF InGame, InClientRead, Inv, GameInv
<1>3. /\ login = "in" /\ k < Len(sent) /\ packet_type = sent[k + 1].type
      /\ rd.dst = sent[k + 1].payload /\ Unread = rest[k + 1]
  BY <1>1, <1>2 DEF Aligned, GameCut
<1>4. k \in Nat /\ Len(sent) \in Nat /\ k + 1 \in 1..Len(sent)
  BY <1>3 DEF Inv, HistoryOK
<1>5. sent[k + 1] = [type |-> packet_type, payload |-> rd.dst]
  <2>1. sent[k + 1] \in Packet BY <1>4 DEF Inv, HistoryOK
  <2>. QED BY <1>3, <2>1 DEF Packet
<1>6. dispatched' = Append(dispatched, sent[k + 1]) BY <1>1, <1>5
<1>7. Len(dispatched') = k + 1
  BY <1>1 DEF Inv, HistoryOK
<1>. QED BY <1>3, <1>6, <1>7

LEMMA DispatchCut ==
  ASSUME Inv, SentInv, NEW rest, Aligned(rest), Dispatch
  PROVE  SentInv' /\ Aligned(rest)'
<1> DEFINE k == Len(dispatched)
<1>1. /\ pc' = "idle" /\ packet_type' = -1
      /\ UNCHANGED <<streamVars, login, sent>> /\ Handle
  BY DEF Dispatch, Handle
<1>3. login = "in" /\ k < Len(sent) /\ Unread = rest[k + 1] /\ Len(dispatched') = k + 1
  BY <1>1, HandleCut
<1>4. k \in Nat /\ Len(sent) \in Nat /\ k + 1 \in 1..Len(sent)
  BY <1>3 DEF Inv, HistoryOK
<1>8. Unread' = Unread /\ rd' = rd /\ login' = login /\ sent' = sent
  BY <1>1 DEF Unread, streamVars
<1> HIDE DEF k
<1>9. SentInv' BY <1>3, <1>4, <1>8, SentStays
<1>10. Cut(rest)' BY <1>8, CutStays DEF Aligned
<1>11. LoginCut(rest)' BY <1>1 DEF LoginCut
<1>12. GameCut(rest)' BY <1>1, <1>3, <1>8 DEF GameCut
<1>. QED BY <1>9, <1>10, <1>11, <1>12 DEF Aligned

\* A poll that is not followed by a read takes nothing.
LEMMA PollCut ==
  ASSUME Inv, SentInv, NEW rest, Aligned(rest), NEW n \in Nat, Poll(n), InGame,
         UNCHANGED <<conn, login, framing, history>>,
         \/ pc = "idle" /\ pc' = "idle"
         \/ pc = "idle" /\ pc' = "size" /\ packet_type # -1
         \/ pc = "size" /\ pc' = "idle" /\ packet_size < 0
         \/ pc = "payload" /\ pc' = "idle"
  PROVE  SentInv' /\ Aligned(rest)'
<1>1. Unread' = Unread /\ UNCHANGED <<rd, login, packet_type, packet_size, sent, dispatched>>
  BY PollKeeps DEF framing, history
<1>2. /\ pc \in {"size", "payload"} => packet_type # -1
      /\ pc = "payload" => packet_size >= 0
  BY DEF Inv, GameInv
<1>3. SentInv' BY <1>1, SentStays DEF SentInv
<1>4. Cut(rest)' BY <1>1, CutStays DEF Aligned
<1>5. LoginCut(rest)' BY DEF LoginCut
<1>6. GameCut(rest)'
  <2>0. GameCut(rest) /\ Length(Len(dispatched) + 1)' = Length(Len(dispatched) + 1)
    BY <1>1 DEF Aligned, Length
  <2>1. CASE pc = "idle" /\ pc' = "idle" BY <1>1, <2>0, <2>1 DEF GameCut
  <2>2. CASE pc = "idle" /\ pc' = "size" /\ packet_type # -1
    BY <1>1, <2>0, <2>2 DEF GameCut
  <2>3. CASE pc = "size" /\ pc' = "idle" /\ packet_size < 0
    BY <1>1, <1>2, <2>0, <2>3 DEF GameCut
  <2>4. CASE pc = "payload" /\ pc' = "idle"
    BY <1>1, <1>2, <2>0, <2>4 DEF GameCut
  <2>. QED BY <2>1, <2>2, <2>3, <2>4
<1>. QED BY <1>3, <1>4, <1>5, <1>6 DEF Aligned

\* A read that follows its poll takes one field, whole.
LEMMA ReadTypeCut ==
  ASSUME Inv, SentInv, NEW rest, Aligned(rest), ReadType
  PROVE  SentInv' /\ Aligned(rest)'
<1> DEFINE k == Len(dispatched)
           after == Join(sent[k + 1].payload, rest[k + 1])
           body == Join(Length(k + 1), after)
<1>1. /\ pc = "idle" /\ packet_type = -1 /\ pc' = "decodeType"
      /\ Available(1) /\ PollAndRead(1)
      /\ UNCHANGED <<login, packet_type, packet_size, sent, dispatched>>
  BY DEF ReadType, framing, history
<1>2. InGame /\ Len(buf) <= 1
  <2>1. InGame BY <1>1 DEF InGame
  <2>2. Len(buf) < Awaited /\ Awaited = 1 /\ Len(buf) \in Nat
    BY <1>1, <2>1 DEF Inv, TypeOK, GameInv, Awaited
  <2>. QED BY <2>1, <2>2
<1>3. login = "in" /\ Unread = rest[k] BY <1>1, <1>2 DEF Aligned, GameCut
<1>4. /\ rd'.dst \in Seq(Byte) /\ Len(rd'.dst) = 1
      /\ Unread' \in Seq(Byte) /\ Join(rd'.dst, Unread') = Unread
  BY <1>1, <1>2, 1 \in Nat, ReadTakes
<1>5. k < Len(sent)
  <2>1. Len(Unread) >= 1
    <3>1. Len(Join(rd'.dst, Unread')) = Len(rd'.dst) + Len(Unread')
      BY <1>4, JoinLen, Zenon
    <3>2. Len(Unread') \in Nat BY <1>4
    <3>. QED BY <1>4, <3>1, <3>2
  <2>2. Len(Unread) = 0 \/ k # Len(sent) BY <1>3 DEF Aligned, Cut
  <2>3. k <= Len(sent) /\ k \in Nat /\ Len(sent) \in Nat BY DEF SentInv, Inv, HistoryOK
  <2>. QED BY <2>1, <2>2, <2>3
<1>6. k + 1 \in 1..Len(sent) /\ (k + 1) - 1 = k BY <1>5 DEF Inv, HistoryOK
<1>7. /\ Header(k + 1) \in Seq(Byte) /\ Len(Header(k + 1)) = 1
      /\ Length(k + 1) \in Seq(Byte)
      /\ sent[k + 1].payload \in Seq(Byte) /\ rest[k + 1] \in Seq(Byte)
  BY <1>6, CutTypes DEF Aligned
<1>8. body \in Seq(Byte)
  <2>1. after \in Seq(Byte) BY <1>7, JoinBytes
  <2> HIDE DEF after
  <2>. QED BY <1>7, <2>1, JoinBytes
<1>9. rest[k] = Join(Header(k + 1), body)
  BY <1>6 DEF Aligned, Cut
<1> HIDE DEF body
<1>10. rd'.dst = Header(k + 1) /\ Unread' = body
  <2>1. Join(rd'.dst, Unread') = Join(Header(k + 1), body)
    BY <1>3, <1>4, <1>9, Zenon
  <2>2. Len(rd'.dst) = Len(Header(k + 1)) BY <1>4, <1>7, Zenon
  <2>. QED BY <1>4, <1>7, <1>8, <2>1, <2>2, JoinCancel, Zenon
<1>11. SentInv' BY <1>1, SentStays DEF SentInv
<1>12. Cut(rest)' BY <1>1, CutStays DEF Aligned
<1>13. LoginCut(rest)' BY <1>1 DEF LoginCut
<1>14. Header(k + 1)' = Header(k + 1) /\ Length(k + 1)' = Length(k + 1)
  BY <1>1 DEF Header, Length
<1>15. GameCut(rest)'
  BY <1>1, <1>3, <1>5, <1>10, <1>14 DEF GameCut, body
<1>. QED BY <1>11, <1>12, <1>13, <1>15 DEF Aligned

LEMMA ReadSizeCut ==
  ASSUME Inv, SentInv, NEW rest, Aligned(rest), ReadSize
  PROVE  SentInv' /\ Aligned(rest)'
<1> DEFINE k == Len(dispatched)
           t == sent[k + 1].type
           l == Len(sent[k + 1].payload)
           n == -packet_size
           after == Join(sent[k + 1].payload, rest[k + 1])
<1>1. /\ pc = "size" /\ packet_size < 0
      /\ UNCHANGED <<conn, login, framing, history>>
  BY DEF ReadSize
<1>2. InGame /\ packet_type # -1 /\ Len(buf) <= Awaited /\ n \in Nat /\ Awaited = n
  <2>1. packet_size \in Int BY Base * Base - 1 \in Int DEF Inv, TypeOK
  <2>. QED BY <1>1, <2>1 DEF InGame, InClientRead, Inv, GameInv, Awaited
<1>3. CASE ~Available(n)
  <2>1. Poll(n) /\ pc' = "idle" BY <1>3 DEF ReadSize
  <2>. QED BY <1>1, <1>2, <2>1, PollCut
<1>4. CASE Available(n)
  <2>1. /\ PollAndRead(n) /\ pc' = "decodeSize"
        /\ UNCHANGED <<login, packet_type, packet_size, sent, dispatched>>
    BY <1>1, <1>4 DEF ReadSize, framing, history
  <2>2. /\ login = "in" /\ k < Len(sent) /\ packet_type = t
        /\ packet_size = SERVERPROT_SIZES[packet_type]
        /\ Unread = Join(Length(k + 1), after)
    BY <1>1, <1>2 DEF Aligned, GameCut
  <2>3. k + 1 \in 1..Len(sent) BY <2>2 DEF Inv, HistoryOK
  <2>4. /\ t \in Byte /\ l \in PayloadLengths(t) /\ Length(k + 1) \in Seq(Byte)
        /\ sent[k + 1].payload \in Seq(Byte) /\ rest[k + 1] \in Seq(Byte)
    BY <2>3, CutTypes DEF Aligned
  <2>5. Len(Length(k + 1)) = n
    <3>1. SERVERPROT_SIZES[t] < 0 BY <1>1, <2>2
    <3>2. Len(LengthBytes(t, l)) = -SERVERPROT_SIZES[t] BY <2>4, <3>1, FieldLengths
    <3>. QED BY <2>2, <3>2 DEF Length
  <2>6. after \in Seq(Byte) BY <2>4, JoinBytes
  <2>7. /\ rd'.dst \in Seq(Byte) /\ Len(rd'.dst) = n
        /\ Unread' \in Seq(Byte) /\ Join(rd'.dst, Unread') = Unread
    BY <1>2, <1>4, <2>1, ReadTakes
  <2> HIDE DEF after, n
  <2>8. rd'.dst = Length(k + 1) /\ Unread' = after
    <3>1. Len(rd'.dst) = Len(Length(k + 1)) BY <2>5, <2>7, Zenon
    <3>2. Join(rd'.dst, Unread') = Join(Length(k + 1), after) BY <2>2, <2>7, Zenon
    <3>. QED BY <2>4, <2>6, <2>7, <3>1, <3>2, JoinCancel, Zenon
  <2>9. SentInv' BY <2>1, SentStays DEF SentInv
  <2>10. Cut(rest)' BY <2>1, CutStays DEF Aligned
  <2>11. LoginCut(rest)' BY <2>1 DEF LoginCut
  <2>12. Length(k + 1)' = Length(k + 1) BY <2>1 DEF Length
  <2>13. GameCut(rest)' BY <2>1, <2>2, <2>8, <2>12 DEF GameCut, after
  <2>. QED BY <2>9, <2>10, <2>11, <2>13 DEF Aligned
<1>. QED BY <1>3, <1>4

LEMMA ReadPayloadCut ==
  ASSUME Inv, SentInv, NEW rest, Aligned(rest), ReadPayload
  PROVE  SentInv' /\ Aligned(rest)'
<1> DEFINE k == Len(dispatched)
           n == packet_size
<1>1. pc = "payload" /\ UNCHANGED <<conn, login, framing, history>>
  BY DEF ReadPayload
<1>2. InGame /\ packet_type # -1 /\ n >= 0 /\ n \in Nat /\ Len(buf) <= n
  <2>1. packet_size \in Int BY Base * Base - 1 \in Int DEF Inv, TypeOK
  <2>. QED BY <1>1, <2>1 DEF InGame, InClientRead, Inv, GameInv
<1>3. CASE ~Available(n)
  <2>1. Poll(n) /\ pc' = "idle" BY <1>3 DEF ReadPayload
  <2>. QED BY <1>1, <1>2, <2>1, PollCut
<1>4. CASE Available(n)
  <2>1. /\ PollAndRead(n) /\ pc' = "dispatch"
        /\ UNCHANGED <<login, packet_type, packet_size, sent, dispatched>>
    BY <1>1, <1>4 DEF ReadPayload, framing, history
  <2>2. /\ login = "in" /\ k < Len(sent) /\ packet_type = sent[k + 1].type
        /\ n = Len(sent[k + 1].payload)
        /\ Unread = Join(sent[k + 1].payload, rest[k + 1])
    BY <1>1, <1>2 DEF Aligned, GameCut
  <2>3. k + 1 \in 1..Len(sent) BY <2>2 DEF Inv, HistoryOK
  <2>4. sent[k + 1].payload \in Seq(Byte) /\ rest[k + 1] \in Seq(Byte)
    BY <2>3, CutTypes DEF Aligned
  <2>5. /\ rd'.dst \in Seq(Byte) /\ Len(rd'.dst) = n
        /\ Unread' \in Seq(Byte) /\ Join(rd'.dst, Unread') = Unread
    BY <1>2, <1>4, <2>1, ReadTakes
  <2>6. rd'.dst = sent[k + 1].payload /\ Unread' = rest[k + 1]
    <3> DEFINE p == sent[k + 1].payload
               q == rest[k + 1]
    <3>1. Len(rd'.dst) = Len(p) BY <2>2, <2>5, Zenon
    <3>2. Join(rd'.dst, Unread') = Join(p, q) BY <2>2, <2>5, Zenon
    <3>3. rd'.dst \in Seq(Byte) /\ Unread' \in Seq(Byte) BY <2>5
    <3>4. p \in Seq(Byte) /\ q \in Seq(Byte) BY <2>4
    <3> HIDE DEF p, q
    <3>5. rd'.dst = p /\ Unread' = q BY <3>1, <3>2, <3>3, <3>4, JoinCancel, Zenon
    <3>. QED BY <3>5 DEF p, q
  <2>7. SentInv' BY <2>1, SentStays DEF SentInv
  <2>8. Cut(rest)' BY <2>1, CutStays DEF Aligned
  <2>9. LoginCut(rest)' BY <2>1 DEF LoginCut
  <2>10. GameCut(rest)' BY <2>1, <2>2, <2>6 DEF GameCut
  <2>. QED BY <2>7, <2>8, <2>9, <2>10 DEF Aligned
<1>. QED BY <1>3, <1>4

\* At the title screen nothing is asked of the bytes.
LEMMA TitleCut ==
  ASSUME Inv, SentInv, NEW rest, Aligned(rest),
         LoginRefused \/ Logout \/ DispatchLogout \/ DispatchUnknown
  PROVE  SentInv' /\ Aligned(rest)'
<1>1. pc' = "title" /\ UNCHANGED <<login, sent>>
  BY DEF LoginRefused, Logout, DispatchLogout, DispatchUnknown, Handle, history
<1>1a. SentInv'
  <2>1. CASE UNCHANGED dispatched BY <1>1, <2>1, SentStays DEF SentInv
  <2>2. CASE Handle
    <3>1. Len(dispatched) < Len(sent) /\ Len(dispatched') = Len(dispatched) + 1
      BY <2>2, HandleCut
    <3>2. Len(dispatched) \in Nat /\ Len(sent) \in Nat BY DEF Inv, HistoryOK
    <3>. QED BY <1>1, <3>1, <3>2, SentStays
  <2>. QED
    BY <2>1, <2>2 DEF LoginRefused, Logout, DispatchLogout, DispatchUnknown, history
<1>2. SentInv' BY <1>1a
<1>3. Cut(rest)' BY <1>1, CutStays DEF Aligned
<1>4. LoginCut(rest)' /\ GameCut(rest)'
  BY <1>1 DEF LoginCut, GameCut, InGame, InClientRead
<1>. QED BY <1>2, <1>3, <1>4 DEF Aligned

\* Every step of client_read.
LEMMA ClientReadCut ==
  ASSUME Inv, SentInv, NEW rest, Aligned(rest), ClientRead
  PROVE  SentInv' /\ Aligned(rest)'
<1>1. CASE NothingToRead
  BY <1>1, PollCut, 1 \in Nat DEF NothingToRead, InGame
<1>2. CASE GoOn
  BY <1>2, PollCut, 1 \in Nat DEF GoOn, InGame
<1>. QED
  BY <1>1, <1>2, ReadTypeCut, DecodeTypeCut, DecodeSizeCut, ReadSizeCut, ReadPayloadCut,
     DispatchCut, TitleCut DEF ClientRead

\* The login's two blocking reads: the server says nothing between the greeting
\* and the login block, so the read of the reply starts at the reply.
LEMMA SendLoginCut ==
  ASSUME Inv, SentInv, NEW rest, Aligned(rest), SendLogin
  PROVE  SentInv' /\ Aligned(rest)'
<1>1. /\ pc = "seed" /\ rd.need = 0 /\ pc' = "reply" /\ Read(1)
      /\ login' = (IF closed \/ peerClosed THEN login ELSE "sent")
      /\ UNCHANGED <<sent, dispatched>>
  BY DEF SendLogin, history
<1>2. buf = <<>> /\ login = "none" /\ (~closed => Len(Unread) = 0)
  BY <1>1 DEF Aligned, LoginCut, Inv, LoginInv
<1>3. /\ rd' = [need |-> IF closed THEN 0 ELSE 1, off |-> 0, dst |-> <<>>, failed |-> closed]
      /\ buf' = <<>> /\ UNCHANGED <<inFlight, kernel, closed>>
  <2>1. Least(1, Len(buf)) = 0 BY <1>2 DEF Least
  <2>2. SubSeq(buf, 1, 0) = <<>> /\ SubSeq(buf, 1, Len(buf)) = <<>> BY <1>2
  <2>. QED BY <1>1, <1>2, <2>1, <2>2 DEF Read, BeginRead
<1>4. Unread' = Unread BY <1>2, <1>3 DEF Unread
<1>5. ~closed => Join(rd'.dst, Unread') = <<>>
  <2>1. Unread \in Seq(Byte)
    <3>1. buf \in Seq(Byte) /\ kernel \in Seq(Byte) /\ inFlight \in Seq(Byte)
      BY DEF Inv, TypeOK
    <3>2. Join(kernel, inFlight) \in Seq(Byte) BY <3>1, JoinLen
    <3>. QED BY <3>1, <3>2, JoinLen DEF Unread
  <2>2. ~closed => Unread = <<>> BY <1>2, <2>1
  <2>3. rd'.dst = <<>> BY <1>3
  <2>4. Join(<<>>, Unread) = Unread BY <2>1, JoinBytes
  <2>. QED BY <1>4, <2>2, <2>3, <2>4
<1>6. SentInv' BY <1>1, <1>2, SentStays DEF SentInv
<1>7. Cut(rest)' BY <1>1, CutStays DEF Aligned
<1>8. LoginCut(rest)'
  <2>1. login' \in {"none", "sent"} BY <1>1, <1>2
  <2>2. ~closed => rd'.need = 1 /\ rd'.off = 0 /\ rd'.dst = <<>> BY <1>3
  <2>. QED BY <1>1, <1>3, <1>5, <2>1, <2>2 DEF LoginCut
<1>9. GameCut(rest)' BY <1>1 DEF GameCut, InGame, InClientRead
<1>. QED BY <1>6, <1>7, <1>8, <1>9 DEF Aligned

\* Only a reply that starts a session lets the client into the game, and the
\* packets begin right after it.
LEMMA LoginAcceptedCut ==
  ASSUME Inv, SentInv, NEW rest, Aligned(rest), LoginAccepted
  PROVE  SentInv' /\ Aligned(rest)'
<1>1. /\ pc = "reply" /\ rd.dst = <<2>> /\ ~rd.failed /\ pc' = "idle" /\ packet_type' = -1
      /\ UNCHANGED <<streamVars, login, sent, dispatched>>
  BY DEF LoginAccepted, history
<1>2. ~closed /\ dispatched = <<>> BY <1>1 DEF Inv, LoginInv
<1>3. Unread \in Seq(Byte) /\ <<2>> \in Seq(Byte) /\ <<1>> \in Seq(Byte)
      /\ <<3>> \in Seq(Byte) /\ <<>> \in Seq(Byte)
  <2>1. buf \in Seq(Byte) /\ kernel \in Seq(Byte) /\ inFlight \in Seq(Byte)
    BY DEF Inv, TypeOK
  <2>2. Join(kernel, inFlight) \in Seq(Byte) BY <2>1, JoinLen
  <2>3. Unread \in Seq(Byte) BY <2>1, <2>2, JoinLen DEF Unread
  <2>4. 1 \in Byte /\ 2 \in Byte /\ 3 \in Byte BY DEF Byte
  <2>. QED BY <2>3, <2>4
<1>4. login = "in"
  <2>1. Join(<<2>>, Unread) # <<>>
    <3>1. Len(Join(<<2>>, Unread)) = Len(<<2>>) + Len(Unread) BY <1>3, JoinLen
    <3>2. Len(<<2>>) = 1 /\ Len(Unread) \in Nat /\ Len(<<>>) = 0 BY <1>3
    <3>. QED BY <3>1, <3>2
  <2>2. ASSUME NEW r \in {1, 3}, Join(<< 2 >>, Unread) = <<r>> PROVE FALSE
    <3>0. <<r>> \in Seq(Byte) BY <1>3
    <3>1. Join(<<r>>, <<>>) = <<r>> /\ <<r>> \in Seq(Byte) BY <3>0, JoinBytes, Zenon
    <3>2. Join(<<2>>, Unread) = Join(<<r>>, <<>>) BY <2>2, <3>1
    <3>3. Len(<<2>>) = Len(<<r>>) OBVIOUS
    <3>4. <<2>> = <<r>> BY <1>3, <3>1, <3>2, <3>3, JoinCancel
    <3>. QED BY <3>4
  <2>3. login \in {"none", "sent", "in", "refused"} BY DEF Inv, TypeOK
  <2>4. /\ login \in {"none", "sent"} => Join(<<2>>, Unread) = <<>>
        /\ login = "refused" => Join(<<2>>, Unread) \in {<<1>>, <<3>>}
    BY <1>1, <1>2 DEF Aligned, LoginCut
  <2>. QED BY <2>1, <2>2, <2>3, <2>4
<1>5. Unread = rest[0]
  <2>1. Join(<<2>>, Unread) = Join(<<2>>, rest[0])
    BY <1>1, <1>2, <1>4 DEF Aligned, LoginCut
  <2>2. rest[0] \in Seq(Byte) BY DEF Aligned, Cut
  <2>. QED BY <1>3, <2>1, <2>2, JoinCancel
<1>6. Unread' = Unread BY <1>1 DEF Unread, streamVars
<1>7. SentInv' BY <1>1, SentStays DEF SentInv
<1>8. Cut(rest)' BY <1>1, CutStays DEF Aligned
<1>9. LoginCut(rest)' BY <1>1 DEF LoginCut
<1>10. GameCut(rest)'
  <2>1. Len(dispatched') = 0 BY <1>1, <1>2
  <2>. QED BY <1>1, <1>4, <1>5, <1>6, <2>1 DEF GameCut
<1>. QED BY <1>7, <1>8, <1>9, <1>10 DEF Aligned

\* A blocking read of the login puts the bytes in dst in their order.
LEMMA OverwriteEnd ==
  ASSUME NEW dst \in Seq(Byte), NEW got \in Seq(Byte)
  PROVE  Overwrite(dst, Len(dst), got) = Join(dst, got)
<1> DEFINE n == Len(dst) + Len(got)
           o == [i \in 1..n |-> IF i > Len(dst) /\ i <= n THEN got[i - Len(dst)] ELSE dst[i]]
<1>1. /\ Len(dst) \in Nat /\ Len(got) \in Nat /\ n \in Nat
      /\ ~(n > Len(dst)) => n = Len(dst)
  OBVIOUS
<1>2. Overwrite(dst, Len(dst), got) = o
  <2>1. Overwrite(dst, Len(dst), got) =
          [i \in 1..(IF n > Len(dst) THEN n ELSE Len(dst)) |->
             IF i > Len(dst) /\ i <= n THEN got[i - Len(dst)] ELSE dst[i]]
    BY DEF Overwrite
  <2>2. (IF n > Len(dst) THEN n ELSE Len(dst)) = n BY <1>1
  <2> HIDE DEF n
  <2>. QED BY <2>1, <2>2
<1>3. /\ dst \o got \in Seq(Byte) /\ Len(dst \o got) = n
      /\ \A i \in 1..n : (dst \o got)[i] = IF i <= Len(dst) THEN dst[i] ELSE got[i - Len(dst)]
  BY ConcatProperties
<1>4. ASSUME NEW i \in 1..n
      PROVE  o[i] = (dst \o got)[i]
  BY <1>1, <1>3
<1>5. o \in Seq(Byte) /\ Len(o) = n
  <2>1. ASSUME NEW i \in 1..n PROVE o[i] \in Byte
    <3>1. (dst \o got)[i] \in Byte BY <1>3
    <3>. QED BY <1>4, <3>1
  <2> DEFINE e(i) == IF i > Len(dst) /\ i <= n THEN got[i - Len(dst)] ELSE dst[i]
  <2>2. o = [i \in 1..n |-> e(i)] OBVIOUS
  <2>3. \A i \in 1..n : e(i) \in Byte BY <2>1
  <2> HIDE DEF e, o, n
  <2>. QED BY <1>1, <2>2, <2>3
<1> HIDE DEF o, n
<1>6. o = dst \o got BY <1>3, <1>4, <1>5, SeqEqual
<1>. QED BY <1>2, <1>6 DEF Join

LEMMA RecvKeeps ==
  ASSUME Inv, RecvMore, buf = <<>>
  PROVE  /\ Unread' \in Seq(Byte) /\ Len(Unread') - rd'.need = Len(Unread) - rd.need
         /\ rd.off = Len(rd.dst) =>
              /\ Join(rd'.dst, Unread') = Join(rd.dst, Unread)
              /\ rd'.off = Len(rd'.dst)
              /\ Len(rd'.dst) + rd'.need = Len(rd.dst) + rd.need
<1> DEFINE got == Taken(rd.need)
<1>0. /\ kernel \in Seq(Byte) /\ inFlight \in Seq(Byte) /\ rd.dst \in Seq(Byte)
      /\ rd.need \in Nat /\ rd.off \in Nat /\ socketOpen
      /\ rd \in [need : Nat, off : Nat, dst : Seq(Byte), failed : BOOLEAN]
  BY DEF Inv, TypeOK, RecvMore
<1>1. got \in Seq(Byte) /\ Len(got) <= rd.need /\ Len(got) <= Len(kernel)
  BY <1>0, TakenLength DEF Inv
<1>2. got = SubSeq(kernel, 1, Len(got)) BY <1>0 DEF Taken, Least
<1>3. /\ rd' = [rd EXCEPT !.need = @ - Len(got), !.off = @ + Len(got),
                          !.dst = Overwrite(@, rd.off, got)]
      /\ kernel' = SubSeq(kernel, Len(got) + 1, Len(kernel))
      /\ UNCHANGED <<inFlight, buf>>
  BY DEF RecvMore
<1> HIDE DEF got
<1>4. /\ rd'.need = rd.need - Len(got) /\ rd'.off = rd.off + Len(got)
      /\ rd'.dst = Overwrite(rd.dst, rd.off, got)
  BY <1>0, <1>3
<1>5. kernel' \in Seq(Byte) /\ Join(got, kernel') = kernel
  <2>1. Len(got) \in 0..Len(kernel) BY <1>0, <1>1
  <2>. QED BY <1>0, <1>2, <1>3, <2>1, Halves DEF Join
<1>6. /\ Unread = Join(kernel, inFlight) /\ Unread' = Join(kernel', inFlight)
      /\ Unread \in Seq(Byte) /\ Unread' \in Seq(Byte)
  <2>1. Join(kernel, inFlight) \in Seq(Byte) /\ Join(kernel', inFlight) \in Seq(Byte)
    BY <1>0, <1>5, JoinLen, Zenon
  <2>2. Unread = Join(<<>>, Join(kernel, inFlight)) BY Zenon DEF Unread
  <2>3. Unread' = Join(<<>>, Join(kernel', inFlight)) BY <1>3 DEF Unread
  <2>. QED BY <2>1, <2>2, <2>3, JoinBytes, Zenon
<1>7. Join(got, Unread') = Unread
  <2>1. Join(Join(got, kernel'), inFlight) = Join(got, Join(kernel', inFlight))
    <3>1. got \in Seq(Byte) /\ kernel' \in Seq(Byte) /\ inFlight \in Seq(Byte)
      BY <1>0, <1>1, <1>5
    <3>. QED BY <3>1, JoinAssoc
  <2>. QED BY <1>5, <1>6, <2>1, Zenon
<1>8. Len(Unread') - rd'.need = Len(Unread) - rd.need
  <2>1. Len(Join(got, Unread')) = Len(got) + Len(Unread') BY <1>1, <1>6, JoinLen, Zenon
  <2>2. Len(Unread') \in Nat /\ Len(got) \in Nat BY <1>1, <1>6
  <2>. QED BY <1>0, <1>4, <1>7, <2>1, <2>2
<1>9. ASSUME rd.off = Len(rd.dst)
      PROVE  /\ Join(rd'.dst, Unread') = Join(rd.dst, Unread)
             /\ rd'.off = Len(rd'.dst)
             /\ Len(rd'.dst) + rd'.need = Len(rd.dst) + rd.need
  <2>1. rd'.dst = Join(rd.dst, got) BY <1>0, <1>1, <1>4, <1>9, OverwriteEnd
  <2>2. Join(Join(rd.dst, got), Unread') = Join(rd.dst, Join(got, Unread'))
    <3>1. rd.dst \in Seq(Byte) /\ got \in Seq(Byte) /\ Unread' \in Seq(Byte)
      BY <1>0, <1>1, <1>6
    <3>. QED BY <3>1, JoinAssoc
  <2>3. Len(rd'.dst) = Len(rd.dst) + Len(got) BY <1>0, <1>1, <2>1, JoinLen, Zenon
  <2>4. Len(got) \in Nat /\ Len(rd.dst) \in Nat BY <1>0, <1>1
  <2>5. Join(rd'.dst, Unread') = Join(rd.dst, Unread) BY <1>7, <2>1, <2>2, Zenon
  <2>6. rd'.off = Len(rd'.dst) BY <1>4, <1>9, <2>3, Zenon
  <2>7. Len(rd'.dst) + rd'.need = Len(rd.dst) + rd.need
    <3>1. rd'.need = rd.need - Len(got) BY <1>4
    <3> HIDE <1>4, <1>9
    <3>. QED BY <1>0, <2>3, <2>4, <3>1
  <2>. QED BY <2>5, <2>6, <2>7
<1>. QED BY <1>6, <1>8, <1>9

LEMMA BlockedCut ==
  ASSUME Inv, SentInv, NEW rest, Aligned(rest), Blocked
  PROVE  SentInv' /\ Aligned(rest)'
<1>1. /\ rd.need > 0 /\ ~InGame /\ UNCHANGED <<pc, login, sent, dispatched>>
  <2>1. rd.need > 0 BY DEF Blocked, RecvMore, RecvEnd, RecvTimeout
  <2>2. ~InGame BY <2>1 DEF Inv, GameInv
  <2>. QED BY <2>1, <2>2 DEF Blocked, history
<1>2. SentInv' BY <1>1, SentStays DEF SentInv
<1>3. Cut(rest)' BY <1>1, CutStays DEF Aligned
<1>4. GameCut(rest)' BY <1>1 DEF GameCut, InGame
<1>5. LoginCut(rest)'
  <2>1. CASE RecvMore
    <3>1. closed' = closed BY <2>1 DEF RecvMore
    <3>2. CASE pc \in {"seed", "reply"}
      <4>1. buf = <<>> BY <3>2 DEF Inv, LoginInv
      <4>2. /\ Unread' \in Seq(Byte)
            /\ Len(Unread') - rd'.need = Len(Unread) - rd.need
            /\ rd.off = Len(rd.dst) =>
                 /\ Join(rd'.dst, Unread') = Join(rd.dst, Unread)
                 /\ rd'.off = Len(rd'.dst)
                 /\ Len(rd'.dst) + rd'.need = Len(rd.dst) + rd.need
        BY <2>1, <4>1, RecvKeeps
      <4>3. LoginCut(rest) BY DEF Aligned
      <4>4. pc = "seed" /\ ~closed => Len(Unread') = rd'.need
        <5>1. rd' \in [need : Nat, off : Nat, dst : Seq(Byte), failed : BOOLEAN]
          BY BlockedInv DEF Inv, TypeOK
        <5>2. Len(Unread') \in Nat /\ rd'.need \in Nat BY <4>2, <5>1
        <5>3. pc = "seed" /\ ~closed => Len(Unread) = rd.need BY <4>3 DEF LoginCut
        <5>. QED BY <4>2, <5>2, <5>3 DEF Inv, TypeOK
      <4>. QED BY <1>1, <3>1, <4>2, <4>3, <4>4 DEF LoginCut
    <3>3. CASE ~(pc \in {"seed", "reply"}) BY <1>1, <3>3 DEF LoginCut
    <3>. QED BY <3>2, <3>3
  <2>2. CASE RecvEnd \/ RecvTimeout
    <3>1. closed' = TRUE BY <2>2 DEF RecvEnd, RecvTimeout
    <3>. QED BY <1>1, <3>1 DEF Aligned, LoginCut
  <2>. QED BY <2>1, <2>2 DEF Blocked
<1>. QED BY <1>2, <1>3, <1>4, <1>5 DEF Aligned

\* What the server sends comes after everything unread.
LEMMA SendAppends ==
  ASSUME Inv, NEW bytes \in Seq(Byte), ServerSends(bytes)
  PROVE  /\ Unread \in Seq(Byte) /\ rd.dst \in Seq(Byte)
         /\ Unread' = Join(Unread, bytes)
         /\ UNCHANGED <<rd, closed>>
<1> DEFINE ahead == Join(kernel, inFlight)
<1>1. /\ buf \in Seq(Byte) /\ kernel \in Seq(Byte) /\ inFlight \in Seq(Byte)
      /\ rd.dst \in Seq(Byte)
  BY DEF Inv, TypeOK
<1>2. /\ inFlight' = Join(inFlight, bytes)
      /\ UNCHANGED <<kernel, buf, rd, closed>>
  BY DEF ServerSends, Join
<1>3. ahead \in Seq(Byte) BY <1>1, JoinLen
<1>4. Unread = Join(buf, ahead) /\ Unread' = Join(buf, Join(kernel, Join(inFlight, bytes)))
  BY <1>2, Zenon DEF Unread
<1>5. Join(ahead, bytes) = Join(kernel, Join(inFlight, bytes)) BY <1>1, JoinAssoc
<1> HIDE DEF ahead
<1>6. Join(Join(buf, ahead), bytes) = Join(buf, Join(ahead, bytes)) BY <1>1, <1>3, JoinAssoc
<1>7. Unread \in Seq(Byte) BY <1>1, <1>3, <1>4, JoinLen
<1>. QED BY <1>1, <1>2, <1>4, <1>5, <1>6, <1>7, Zenon

LEMMA RepliesCut ==
  ASSUME Inv, SentInv, NEW rest, Aligned(rest), NEW r \in {1, 2, 3}, ServerReplies(r)
  PROVE  SentInv' /\ Aligned(rest)'
<1>1. /\ login = "sent" /\ login' = (IF r = 2 THEN "in" ELSE "refused")
      /\ ServerSends(<<r>>) /\ UNCHANGED <<pc, sent, dispatched>>
  BY DEF ServerReplies, history
<1>2. sent = <<>> /\ Len(sent) = 0 BY <1>1 DEF SentInv
<1>3. <<r>> \in Seq(Byte) /\ <<>> \in Seq(Byte) BY DEF Byte
<1>4. /\ Unread \in Seq(Byte) /\ rd.dst \in Seq(Byte)
      /\ Unread' = Join(Unread, <<r>>) /\ UNCHANGED <<rd, closed>>
  BY <1>1, <1>3, SendAppends
<1>5. ~InGame BY <1>1 DEF Aligned, GameCut
<1>6. pc # "seed" BY <1>1 DEF Aligned, LoginCut
<1>7. SentInv' BY <1>1, <1>2 DEF SentInv
<1>8. Cut(rest)' BY <1>1, CutStays DEF Aligned
<1>9. GameCut(rest)' BY <1>1, <1>5 DEF GameCut, InGame
<1>10. LoginCut(rest)'
  <2>1. CASE pc = "reply" /\ ~closed
    <3>1. Join(rd.dst, Unread) = <<>> BY <1>1, <2>1 DEF Aligned, LoginCut
    <3>2. Join(rd'.dst, Unread') = Join(Join(rd.dst, Unread), <<r>>)
      <4>1. Join(Join(rd.dst, Unread), <<r>>) = Join(rd.dst, Join(Unread, <<r>>))
        <5>1. rd.dst \in Seq(Byte) /\ Unread \in Seq(Byte) /\ <<r>> \in Seq(Byte)
          BY <1>3, <1>4
        <5>. QED BY <5>1, BytesAssoc, Zenon
      <4>. QED BY <1>4, <4>1, Zenon
    <3>3. Join(<<>>, <<r>>) = <<r>> /\ Join(<<r>>, <<>>) = <<r>> BY <1>3, JoinBytes, Zenon
    <3>4. Join(rd'.dst, Unread') = <<r>> BY <3>1, <3>2, <3>3, Zenon
    <3>5. rest[0] = <<>> BY <1>2 DEF Aligned, Cut
    <3>6. r = 2 => Join(rd'.dst, Unread') = Join(<<2>>, rest[0]) BY <3>3, <3>4, <3>5
    <3>7. r # 2 => Join(rd'.dst, Unread') \in {<<1>>, <<3>>} BY <3>4
    <3>8. Len(rd.dst) + rd.need = 1 /\ rd.off = Len(rd.dst)
      BY <2>1 DEF Aligned, LoginCut
    <3>. QED BY <1>1, <1>4, <2>1, <3>6, <3>7, <3>8 DEF LoginCut
  <2>2. CASE ~(pc = "reply" /\ ~closed) BY <1>1, <1>4, <1>6, <2>2 DEF LoginCut
  <2>. QED BY <2>1, <2>2
<1>. QED BY <1>7, <1>8, <1>9, <1>10 DEF Aligned

\* The end of the connection, and bytes arriving, change nothing.
LEMMA QuietCut ==
  ASSUME Inv, SentInv, NEW rest, Aligned(rest), ServerEnds \/ Network \/ UNCHANGED vars
  PROVE  SentInv' /\ Aligned(rest)'
<1>1. /\ Unread' = Unread
      /\ UNCHANGED <<pc, login, sent, dispatched, packet_type, packet_size, rd, closed>>
  <2>1. CASE ServerEnds
    BY <2>1 DEF ServerEnds, ServerCloses, Unread, framing, history
  <2>2. CASE Network
    BY <2>2, ArriveKeeps DEF Network, Arrive, framing, history
  <2>3. CASE UNCHANGED vars
    BY <2>3 DEF vars, streamVars, Unread, framing, history
  <2>. QED BY <2>1, <2>2, <2>3
<1>2. SentInv' BY <1>1, SentStays DEF SentInv
<1>3. Cut(rest)' BY <1>1, CutStays DEF Aligned
<1>4. LoginCut(rest)' BY <1>1 DEF Aligned, LoginCut
<1>5. GameCut(rest)'
  <2>1. Header(Len(dispatched) + 1)' = Header(Len(dispatched) + 1)
        /\ Length(Len(dispatched) + 1)' = Length(Len(dispatched) + 1)
    BY <1>1 DEF Header, Length
  <2>. QED BY <1>1, <2>1 DEF Aligned, GameCut, InGame
<1>. QED BY <1>2, <1>3, <1>4, <1>5 DEF Aligned

\* A packet that is sent becomes the last piece of the cut.
LEMMA SendPacketCut ==
  ASSUME Inv, SentInv, NEW rest, Aligned(rest),
         NEW t \in Byte, NEW n \in 0..MaxPayload, ServerSendsPacket(t, n)
  PROVE  CutInv'
<1>1. /\ login = "in" /\ n \in PayloadLengths(t)
      /\ ServerSends(<<(t + Key(Len(sent))) % Base>> \o LengthBytes(t, n) \o Payload(n))
      /\ sent' = Append(sent, [type |-> t, payload |-> Payload(n)])
      /\ UNCHANGED <<pc, login, packet_type, packet_size, dispatched>>
  BY DEF ServerSendsPacket, framing
<1>2. PICK m \in Nat : m = Len(sent)
  BY DEF Inv, HistoryOK
<1>3. PICK bytes : bytes = Join(Join(<<(t + Key(m)) % Base>>, LengthBytes(t, n)), Payload(n))
  OBVIOUS
<1>4. bytes \in Seq(Byte) /\ ServerSends(bytes)
  <2>1. ServerSends(bytes) BY <1>1, <1>2, <1>3 DEF Join
  <2>2. /\ <<(t + Key(m)) % Base>> \in Seq(Byte)
        /\ LengthBytes(t, n) \in Seq(Byte) /\ Payload(n) \in Seq(Byte)
    BY <1>1, <1>2, PacketBytes DEF Inv
  <2>. QED BY <1>3, <2>1, <2>2, JoinLen
<1>5. PICK new : new = [i \in Nat |-> IF i <= m THEN Join(rest[i], bytes) ELSE <<>>]
  OBVIOUS
<1>6. /\ Cut(new)'
      /\ \A i \in 1..m :
           sent'[i] = sent[i] /\ Header(i)' = Header(i) /\ Length(i)' = Length(i)
      /\ sent'[m + 1].type = t /\ Len(sent'[m + 1].payload) = n
      /\ Len(sent') = m + 1
  <2>0. Cut(rest) BY DEF Aligned
  <2>. USE <1>1, <1>2, <1>3, <1>4, <1>5, <2>0
  <2>1. m + 1 \in Nat /\ sent \in Seq(Packet) BY DEF Inv, HistoryOK
  <2>2. n \in 0..MaxPayload /\ n \in Nat BY FieldLengths
  <2>3. /\ <<(t + Key(m)) % Base>> \in Seq(Byte)
        /\ LengthBytes(t, n) \in Seq(Byte) /\ Payload(n) \in Seq(Byte)
        /\ Len(Payload(n)) = n
    <3>1. Len(Payload(n)) = n BY <2>2 DEF Payload
    <3>. QED BY <2>2, <3>1, PacketBytes DEF Inv
  <2>4. /\ Len(sent') = m + 1
        /\ \A i \in 1..m : sent'[i] = sent[i]
        /\ sent'[m + 1] = [type |-> t, payload |-> Payload(n)]
    BY <2>1
  <2>5. ASSUME NEW i \in 1..m
        PROVE  sent'[i] = sent[i] /\ Header(i)' = Header(i) /\ Length(i)' = Length(i)
    BY <2>4 DEF Header, Length
  <2>6. ASSUME NEW i \in 1..m
        PROVE  new[i - 1] = Join(Header(i)', Join(Length(i)', Join(sent'[i].payload, new[i])))
    <3>1. /\ Header(i) \in Seq(Byte) /\ Length(i) \in Seq(Byte)
          /\ sent[i].payload \in Seq(Byte) /\ rest[i] \in Seq(Byte)
      BY CutTypes
    <3>2. /\ i \in Nat /\ i - 1 \in Nat /\ i <= m /\ i - 1 <= m BY <2>1
    <3>3. new[i] = Join(rest[i], bytes) /\ new[i - 1] = Join(rest[i - 1], bytes) BY <3>2
    <3> DEFINE h == Header(i)
               l == Length(i)
               p == sent[i].payload
               r == rest[i]
    <3>4. rest[i - 1] = Join(h, Join(l, Join(p, r))) BY DEF Cut
    <3>5. h \in Seq(Byte) /\ l \in Seq(Byte) /\ p \in Seq(Byte) /\ r \in Seq(Byte) BY <3>1
    <3> HIDE DEF h, l, p, r
    <3>6. Join(p, r) \in Seq(Byte) /\ Join(l, Join(p, r)) \in Seq(Byte) BY <3>5, JoinBytes, Zenon
    <3>7. Join(Join(h, Join(l, Join(p, r))), bytes) = Join(h, Join(Join(l, Join(p, r)), bytes))
      BY <3>5, <3>6, JoinAssoc
    <3>8. Join(Join(l, Join(p, r)), bytes) = Join(l, Join(Join(p, r), bytes))
      BY <3>5, <3>6, JoinAssoc
    <3>9. Join(Join(p, r), bytes) = Join(p, Join(r, bytes)) BY <3>5, JoinAssoc
    <3>10. new[i - 1] = Join(h, Join(l, Join(p, new[i])))
      BY <3>3, <3>4, <3>7, <3>8, <3>9, Zenon DEF r
    <3>. QED BY <2>5, <3>10, Zenon DEF h, l, p
  <2>7. new[m] = Join(Header(m + 1)', Join(Length(m + 1)', Join(sent'[m + 1].payload, new[m + 1])))
    <3>1. new[m + 1] = <<>> /\ new[m] = Join(<<>>, bytes) BY <2>1 DEF Cut
    <3>2. new[m] = bytes BY <3>1, JoinBytes, Zenon
    <3>3. /\ sent'[m + 1].payload = Payload(n) /\ sent'[m + 1].type = t BY <2>4
    <3>4. Header(m + 1)' = <<(t + Key(m)) % Base>>
      <4>1. (m + 1) - 1 = m BY <2>1
      <4>. QED BY <3>3, <4>1 DEF Header
    <3>5. Length(m + 1)' = LengthBytes(t, n)
      BY <2>3, <3>3 DEF Length
    <3>6. Join(Payload(n), <<>>) = Payload(n) BY <2>3, JoinBytes, Zenon
    <3>7. bytes = Join(<<(t + Key(m)) % Base>>, Join(LengthBytes(t, n), Payload(n)))
      <4> DEFINE h == <<(t + Key(m)) % Base>>
                 l == LengthBytes(t, n)
                 p == Payload(n)
      <4>1. h \in Seq(Byte) /\ l \in Seq(Byte) /\ p \in Seq(Byte) BY <2>3
      <4>2. bytes = Join(Join(h, l), p) OBVIOUS
      <4> HIDE DEF h, l, p
      <4>3. Join(Join(h, l), p) = Join(h, Join(l, p)) BY <4>1, JoinAssoc
      <4>. QED BY <4>2, <4>3, Zenon DEF h, l, p
    <3>. QED BY <3>1, <3>2, <3>3, <3>4, <3>5, <3>6, <3>7, Zenon
  <2>8. new \in [Nat -> Seq(Byte)]
    <3>1. ASSUME NEW i \in Nat PROVE Join(rest[i], bytes) \in Seq(Byte)
      <4>1. rest[i] \in Seq(Byte) BY DEF Cut
      <4>. QED BY <4>1, JoinLen
    <3>2. <<>> \in Seq(Byte) OBVIOUS
    <3>. QED BY <3>1, <3>2
  <2>9. new[m + 1] = <<>> BY <2>1
  <2>10. Cut(new)'
    <3>1. ASSUME NEW i \in 1..(m + 1)
          PROVE  new[i - 1] = Join(Header(i)', Join(Length(i)', Join(sent'[i].payload, new[i])))
      <4>0. m \in Nat /\ (m + 1) - 1 = m BY <2>1
      <4>1. CASE i = m + 1 BY <2>7, <4>0, <4>1, Zenon
      <4>2. CASE i # m + 1
        <5>1. i \in 1..m BY <4>0, <4>2
        <5>. QED BY <2>6, <5>1
      <4>. QED BY <4>1, <4>2
    <3>2. Len(sent') = m + 1 BY <2>4
    <3>. QED BY <2>8, <2>9, <3>1, <3>2 DEF Cut
  <2>11. sent'[m + 1].type = t /\ Len(sent'[m + 1].payload) = n BY <2>3, <2>4
  <2>. QED BY <2>4, <2>5, <2>10, <2>11
<1>7. /\ Unread \in Seq(Byte) /\ rd.dst \in Seq(Byte)
      /\ Unread' = Join(Unread, bytes) /\ UNCHANGED <<rd, closed>>
  BY <1>4, SendAppends
<1>8. SentInv'
  <2>1. ASSUME NEW i \in 1..(m + 1)
        PROVE  /\ sent'[i].type \in Byte
               /\ Len(sent'[i].payload) \in PayloadLengths(sent'[i].type)
    <3>1. CASE i = m + 1 BY <1>1, <1>6, <3>1
    <3>2. CASE i # m + 1
      <4>1. i \in 1..m BY <3>2
      <4>. QED BY <1>2, <1>6, <4>1 DEF SentInv
    <3>. QED BY <3>1, <3>2
  <2>2. Len(dispatched') <= Len(sent')
    BY <1>1, <1>2, <1>6 DEF SentInv, Inv, HistoryOK
  <2>. QED BY <1>1, <1>6, <2>1, <2>2 DEF SentInv, PayloadLengths
<1>9. LoginCut(new)'
  <2>1. pc # "seed" BY <1>1 DEF Aligned, LoginCut
  <2>2. CASE pc = "reply" /\ ~closed
    <3>1. /\ Join(rd.dst, Unread) = Join(<<2>>, rest[0])
          /\ Len(rd.dst) + rd.need = 1 /\ rd.off = Len(rd.dst)
      BY <1>1, <2>2 DEF Aligned, LoginCut
    <3>2. new[0] = Join(rest[0], bytes) BY <1>5
    <3>3. rest[0] \in Seq(Byte) BY DEF Aligned, Cut
    <3> DEFINE d == rd.dst
               u == Unread
               r == rest[0]
               two == <<2>>
    <3>4. d \in Seq(Byte) /\ u \in Seq(Byte) /\ r \in Seq(Byte) /\ two \in Seq(Byte)
      BY <1>7, <3>3 DEF Byte
    <3>5. Join(d, u) = Join(two, r) BY <3>1
    <3> HIDE DEF d, u, r, two
    <3>6. Join(d, Join(u, bytes)) = Join(two, Join(r, bytes))
      <4>1. Join(Join(d, u), bytes) = Join(d, Join(u, bytes)) BY <1>4, <3>4, JoinAssoc
      <4>2. Join(Join(two, r), bytes) = Join(two, Join(r, bytes)) BY <1>4, <3>4, JoinAssoc
      <4>. QED BY <3>5, <4>1, <4>2, Zenon
    <3>7. Join(rd'.dst, Unread') = Join(<<2>>, new[0])
      BY <1>7, <3>2, <3>6, Zenon DEF d, u, r, two
    <3>. QED BY <1>1, <1>7, <2>2, <3>1, <3>7 DEF LoginCut
  <2>3. CASE ~(pc = "reply" /\ ~closed) BY <1>1, <1>7, <2>1, <2>3 DEF LoginCut
  <2>. QED BY <2>2, <2>3
<1>10. GameCut(new)'
  <2> SUFFICES ASSUME InGame PROVE GameCut(new)'
    BY <1>1 DEF GameCut, InGame
  <2>1. PICK k \in Nat : k = Len(dispatched)
    BY DEF Inv, HistoryOK
  <2>2. GameCut(rest) /\ Cut(rest) /\ k <= m
    BY <1>2, <2>1 DEF Aligned, SentInv
  <2>3. new[k] = Join(rest[k], bytes) BY <1>5, <2>2
  <2>4. ASSUME k < m
        PROVE  /\ sent'[k + 1] = sent[k + 1]
               /\ Header(k + 1)' = Header(k + 1) /\ Length(k + 1)' = Length(k + 1)
               /\ new[k + 1] = Join(rest[k + 1], bytes)
               /\ Join(Join(sent[k + 1].payload, rest[k + 1]), bytes)
                    = Join(sent[k + 1].payload, new[k + 1])
               /\ Join(Join(Length(k + 1), Join(sent[k + 1].payload, rest[k + 1])), bytes)
                    = Join(Length(k + 1), Join(sent[k + 1].payload, new[k + 1]))
    <3>1. k + 1 \in 1..m /\ k + 1 \in Nat /\ k + 1 <= m BY <2>4
    <3>2. /\ sent'[k + 1] = sent[k + 1]
          /\ Header(k + 1)' = Header(k + 1) /\ Length(k + 1)' = Length(k + 1)
      BY <1>6, <3>1
    <3>3. new[k + 1] = Join(rest[k + 1], bytes) BY <1>5, <3>1
    <3> DEFINE l == Length(k + 1)
               p == sent[k + 1].payload
               r == rest[k + 1]
    <3>4. l \in Seq(Byte) /\ p \in Seq(Byte) /\ r \in Seq(Byte)
      BY <1>2, <2>2, <3>1, CutTypes
    <3> HIDE DEF l, p, r
    <3>5. Join(Join(p, r), bytes) = Join(p, Join(r, bytes))
      BY <1>4, <3>4, BytesAssoc, Zenon
    <3>6. Join(p, r) \in Seq(Byte) BY <3>4, JoinBytes, Zenon
    <3>7. Join(Join(l, Join(p, r)), bytes) = Join(l, Join(Join(p, r), bytes))
      BY <1>4, <3>4, <3>6, JoinAssoc
    <3>8. Join(Join(l, Join(p, r)), bytes) = Join(l, Join(p, Join(r, bytes)))
      BY <3>5, <3>7, Zenon
    <3>. QED BY <3>2, <3>3, <3>5, <3>8, Zenon DEF l, p, r
  <2>5. /\ login = "in"
        /\ packet_type # -1 => k < m /\ packet_type = sent[k + 1].type
        /\ pc = "idle" /\ packet_type = -1 => Unread = rest[k]
        /\ pc = "decodeType" =>
             /\ k < m /\ rd.dst = Header(k + 1)
             /\ Unread = Join(Length(k + 1), Join(sent[k + 1].payload, rest[k + 1]))
        /\ pc \in {"idle", "size"} /\ packet_type # -1 /\ packet_size < 0 =>
             /\ packet_size = SERVERPROT_SIZES[packet_type]
             /\ Unread = Join(Length(k + 1), Join(sent[k + 1].payload, rest[k + 1]))
        /\ pc = "decodeSize" =>
             rd.dst = Length(k + 1) /\ Unread = Join(sent[k + 1].payload, rest[k + 1])
        /\ pc \in {"idle", "size", "payload"} /\ packet_type # -1 /\ packet_size >= 0 =>
             /\ packet_size = Len(sent[k + 1].payload)
             /\ Unread = Join(sent[k + 1].payload, rest[k + 1])
        /\ pc = "dispatch" => rd.dst = sent[k + 1].payload /\ Unread = rest[k + 1]
    BY <1>2, <2>1, <2>2 DEF GameCut
  <2>6. pc \in {"decodeSize", "dispatch"} => packet_type # -1
    BY DEF Inv, GameInv
  <2>7. ASSUME packet_type # -1
        PROVE  /\ k < m /\ k < Len(sent') /\ packet_type = sent'[k + 1].type
               /\ sent'[k + 1] = sent[k + 1]
    BY <1>6, <2>4, <2>5, <2>7
  <2>8. pc = "idle" /\ packet_type = -1 => Unread' = new[k] BY <1>7, <2>3, <2>5
  <2>9. pc = "decodeType" =>
          /\ k < Len(sent') /\ rd'.dst = Header(k + 1)'
          /\ Unread' = Join(Length(k + 1)', Join(sent'[k + 1].payload, new[k + 1]))
    BY <1>6, <1>7, <2>4, <2>5
  <2>10. pc \in {"idle", "size"} /\ packet_type # -1 /\ packet_size < 0 =>
           Unread' = Join(Length(k + 1)', Join(sent'[k + 1].payload, new[k + 1]))
    BY <1>7, <2>4, <2>5, <2>7
  <2>11. pc = "decodeSize" =>
           rd'.dst = Length(k + 1)' /\ Unread' = Join(sent'[k + 1].payload, new[k + 1])
    BY <1>7, <2>4, <2>5, <2>6, <2>7
  <2>12. pc \in {"idle", "size", "payload"} /\ packet_type # -1 /\ packet_size >= 0 =>
           /\ packet_size = Len(sent'[k + 1].payload)
           /\ Unread' = Join(sent'[k + 1].payload, new[k + 1])
    BY <1>7, <2>4, <2>5, <2>7
  <2>13. pc = "dispatch" => rd'.dst = sent'[k + 1].payload /\ Unread' = new[k + 1]
    BY <1>7, <2>4, <2>5, <2>6, <2>7
  <2>14. k = Len(dispatched') BY <1>1, <2>1
  <2>. QED
    BY <1>1, <2>5, <2>7, <2>8, <2>9, <2>10, <2>11, <2>12, <2>13, <2>14 DEF GameCut
<1>. QED BY <1>6, <1>8, <1>9, <1>10 DEF CutInv, Aligned

\* The cut goes through every step; a new connection, and the start, have one.
THEOREM CutInvariance == Spec => []CutInv
<1>1. Inv /\ CutInv /\ [Next]_vars => CutInv'
  <2> SUFFICES ASSUME Inv, CutInv, [Next]_vars PROVE CutInv'
    OBVIOUS
  <2>1. SentInv BY DEF CutInv
  <2>2. PICK rest : Aligned(rest) BY DEF CutInv
  <2>3. SentInv' /\ Aligned(rest)' => CutInv' BY DEF CutInv
  <2>4. CASE ClientRead BY <2>1, <2>2, <2>3, <2>4, ClientReadCut
  <2>5. CASE Blocked BY <2>1, <2>2, <2>3, <2>5, BlockedCut
  <2>6. CASE Login \/ Reconnect \/ LoginAgain
    BY <2>6, ConnectCut DEF Login, Reconnect, LoginAgain
  <2>7. CASE SendLogin BY <2>1, <2>2, <2>3, <2>7, SendLoginCut
  <2>8. CASE LoginAccepted BY <2>1, <2>2, <2>3, <2>8, LoginAcceptedCut
  <2>9. CASE LoginRefused \/ Logout BY <2>1, <2>2, <2>3, <2>9, TitleCut
  <2>10. ASSUME NEW r \in {1, 2, 3}, ServerReplies(r) PROVE CutInv'
    BY <2>1, <2>2, <2>3, <2>10, RepliesCut
  <2>11. ASSUME NEW t \in Byte, NEW n \in 0..MaxPayload, ServerSendsPacket(t, n)
         PROVE  CutInv'
    BY <2>1, <2>2, <2>11, SendPacketCut
  <2>12. CASE ServerEnds \/ Network \/ TitleWaits \/ UNCHANGED vars
    BY <2>1, <2>2, <2>3, <2>12, QuietCut DEF TitleWaits
  <2>. QED
    BY <2>4, <2>5, <2>6, <2>7, <2>8, <2>9, <2>10, <2>11, <2>12 DEF Next
<1>. QED BY InitCut, Invariance, <1>1, PTL DEF Spec

(***************************************************************************)
(* Every step of the reader is a step of the channel, or none: opening a   *)
(* connection restarts it, sending a packet sends, and a dispatch handles   *)
(* the next packet sent -- which is where the cut is needed.               *)
(***************************************************************************)
LEMMA StepSimulation ==
  Inv /\ CutInv /\ [Next]_vars => [Channel!Next]_(Channel!vars)
<1> SUFFICES ASSUME Inv, CutInv, [Next]_vars PROVE [Channel!Next]_(Channel!vars)
  OBVIOUS
<1>1. CASE Connect
  BY <1>1 DEF Connect, Channel!Next, Channel!Restart
<1>2. CASE Dispatch \/ DispatchLogout
  <2>0. Handle BY <1>2 DEF Dispatch, DispatchLogout
  <2>1. /\ Len(dispatched) < Len(sent)
        /\ dispatched' = Append(dispatched, sent[Len(dispatched) + 1])
    BY <2>0, HandleCut DEF CutInv
  <2>. QED BY <2>0, <2>1 DEF Handle, Channel!Next, Channel!Handle
<1>3. ASSUME NEW t \in Byte, NEW n \in 0..MaxPayload, ServerSendsPacket(t, n)
      PROVE  Channel!Next
  <2> DEFINE p == [type |-> t, payload |-> Payload(n)]
  <2>1. /\ sent' = Append(sent, p)
        /\ UNCHANGED <<conn, dispatched>>
    BY <1>3 DEF ServerSendsPacket
  <2>2. sent \in Seq(Packet) BY DEF Inv, HistoryOK
  <2> HIDE DEF p
  <2>3. Len(Append(sent, p)) = Len(sent) + 1 BY <2>2
  <2>4. SubSeq(Append(sent, p), 1, Len(sent)) = sent BY <2>2
  <2>. QED BY <2>1, <2>3, <2>4 DEF Channel!Next, Channel!Send
<1>4. CASE \/ NothingToRead \/ ReadType \/ GoOn \/ DecodeType
           \/ SizeKnown \/ ReadSize \/ DecodeSize \/ ReadPayload
  BY <1>4 DEF NothingToRead, ReadType, GoOn, DecodeType, SizeKnown, ReadSize, DecodeSize,
              ReadPayload, history, Channel!vars
<1>5. CASE \/ Blocked \/ Network \/ SendLogin \/ LoginAccepted \/ LoginRefused
           \/ Logout \/ DispatchUnknown \/ TitleWaits \/ ServerEnds \/ UNCHANGED vars
           \/ \E r \in {1, 2, 3} : ServerReplies(r)
  BY <1>5 DEF Blocked, Network, SendLogin, LoginAccepted, LoginRefused, Logout,
              DispatchUnknown, TitleWaits, ServerEnds, ServerReplies, vars, history, Channel!vars
<1>. QED
  BY <1>1, <1>2, <1>3, <1>4, <1>5 DEF Next, ClientRead, Login, Reconnect, LoginAgain

\* What the handlers see is what the server sent on this connection, in order,
\* once and unaltered, whatever the sizes, the keystream and the chunking.
THEOREM Implements == Spec => ImplementsChannel
<1>1. Init => Channel!Init BY DEF Init, Channel!Init
<1>. QED
  BY <1>1, StepSimulation, Invariance, CutInvariance, PTL
  DEF Spec, ImplementsChannel, Channel!Spec

=============================================================================
