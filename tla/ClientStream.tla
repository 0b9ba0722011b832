---------------------------- MODULE ClientStream ----------------------------
(***************************************************************************)
(* The client's end of its TCP connection (src/src/clientstream.c).        *)
(*                                                                         *)
(* A stream is read in two ways.  clientstream_available(len) is a poll:   *)
(* it makes one non-blocking recv into the stream's own buffer and says    *)
(* whether len bytes are there.  clientstream_read_bytes(len) is a         *)
(* blocking read: it takes what the buffer holds and then loops on recv.   *)
(* The two share one buffer, and read_bytes is only right when the buffer  *)
(* is empty or holds the whole request: it copies the buffered bytes to    *)
(* dst without advancing off, so bytes received afterwards land on top.    *)
(*                                                                         *)
(* The module has the state of the stream and of the connection under it,  *)
(* and the operations; the program that calls them is PacketReader.        *)
(***************************************************************************)
EXTENDS Integers, Sequences

VARIABLES
  inFlight,     \* bytes the server has sent that have not reached this host
  kernel,       \* bytes received by the host's TCP stack, not yet by recv
  peerClosed,   \* the server has closed its end
  socketOpen,   \* stream->socket > -1
  closed,       \* stream->closed
  buf,          \* the unread bytes, stream->buf[bufPos .. bufPos + bufLen - 1]
  bufPos,       \* stream->bufPos
  rd            \* the read_bytes call in progress: bytes still needed, dst, off

streamVars == <<inFlight, kernel, peerClosed, socketOpen, closed, buf, bufPos, rd>>

NoRead == [need |-> 0, off |-> 0, dst |-> <<>>, failed |-> FALSE]

Least(a, b) == IF a < b THEN a ELSE b

\* clientstream_opensocket has connected; the server speaks first, and the
\* caller at once reads `need` bytes of its greeting with read_bytes.
OpenAndRead(greeting, need) ==
  /\ inFlight' = greeting /\ kernel' = <<>> /\ peerClosed' = FALSE
  /\ socketOpen' = TRUE /\ closed' = FALSE
  /\ buf' = <<>> /\ bufPos' = 0
  /\ rd' = [NoRead EXCEPT !.need = need]

(***************************************************************************)
(* The connection under the stream.                                        *)
(***************************************************************************)

ServerSends(bytes) ==
  /\ ~peerClosed
  /\ inFlight' = inFlight \o bytes
  /\ UNCHANGED <<kernel, peerClosed, socketOpen, closed, buf, bufPos, rd>>

\* The server closes its end; what it has sent is still delivered.
ServerCloses ==
  /\ ~peerClosed
  /\ peerClosed' = TRUE
  /\ UNCHANGED <<inFlight, kernel, socketOpen, closed, buf, bufPos, rd>>

\* TCP delivers bytes in order, in whatever pieces the network makes of them.
Arrive ==
  /\ inFlight # <<>>
  /\ kernel' = Append(kernel, Head(inFlight))
  /\ inFlight' = Tail(inFlight)
  /\ UNCHANGED <<peerClosed, socketOpen, closed, buf, bufPos, rd>>

(***************************************************************************)
(* clientstream_available.                                                 *)
(***************************************************************************)

\* What one recv of at most n bytes takes; nothing from a closed socket.  The
\* end of the stream (recv = 0) and an error (recv < 0) also leave nothing.
Taken(n) == IF socketOpen THEN SubSeq(kernel, 1, Least(n, Len(kernel))) ELSE <<>>

\* The buffer after available(len), and the answer.
Filled(len) == IF Len(buf) >= len THEN buf ELSE buf \o Taken(len - Len(buf))
Available(len) == Len(Filled(len)) >= len

Polled(len) ==
  kernel' = SubSeq(kernel, 1 + Len(Filled(len)) - Len(buf), Len(kernel))

\* A call of available(len) on its own.
Poll(len) ==
  /\ buf' = Filled(len) /\ Polled(len)
  /\ UNCHANGED <<inFlight, peerClosed, socketOpen, closed, bufPos, rd>>

(***************************************************************************)
(* clientstream_read_bytes, from its call to its return.                   *)
(***************************************************************************)

\* The copy out of the buffer `held`, which is what available left there; the
\* bytes still missing are then received to the start of dst (off is 0).
BeginRead(held, len) ==
  LET copied == IF closed THEN 0 ELSE Least(len, Len(held))
  IN  /\ rd' = [need |-> IF closed THEN 0 ELSE len - copied, off |-> 0,
                dst |-> SubSeq(held, 1, copied), failed |-> closed]
      /\ buf' = SubSeq(held, copied + 1, Len(held))
      /\ bufPos' = IF copied = Len(held) THEN 0 ELSE bufPos + copied

\* available(len) and, with its bytes, read_bytes(len).
PollAndRead(len) ==
  /\ Polled(len) /\ BeginRead(Filled(len), len)
  /\ UNCHANGED <<inFlight, peerClosed, socketOpen, closed>>

\* read_bytes(len) without asking first.
Read(len) ==
  /\ BeginRead(buf, len)
  /\ UNCHANGED <<inFlight, kernel, peerClosed, socketOpen, closed>>

Overwrite(dst, off, bytes) ==
  [i \in 1..(IF off + Len(bytes) > Len(dst) THEN off + Len(bytes) ELSE Len(dst)) |->
     IF i > off /\ i <= off + Len(bytes) THEN bytes[i - off] ELSE dst[i]]

\* recv > 0 in the loop: the bytes go to dst + off.
RecvMore ==
  /\ rd.need > 0 /\ socketOpen /\ kernel # <<>>
  /\ LET got == Taken(rd.need)
     IN  /\ rd' = [rd EXCEPT !.need = @ - Len(got), !.off = @ + Len(got),
                             !.dst = Overwrite(@, rd.off, got)]
         /\ kernel' = SubSeq(kernel, Len(got) + 1, Len(kernel))
  /\ UNCHANGED <<inFlight, peerClosed, socketOpen, closed, buf, bufPos>>

\* recv = 0: the peer closed.  The flag is set, the socket is left open.
RecvEnd ==
  /\ rd.need > 0 /\ peerClosed /\ inFlight = <<>> /\ kernel = <<>>
  /\ closed' = TRUE
  /\ rd' = [rd EXCEPT !.need = 0, !.failed = TRUE]
  /\ UNCHANGED <<inFlight, kernel, peerClosed, socketOpen, buf, bufPos>>

\* recv < 0 for the 5000th time, one millisecond apart: the stream is closed.
RecvTimeout ==
  /\ rd.need > 0 /\ kernel = <<>>
  /\ socketOpen' = FALSE /\ closed' = TRUE
  /\ rd' = [rd EXCEPT !.need = 0, !.failed = TRUE]
  /\ UNCHANGED <<inFlight, kernel, peerClosed, buf, bufPos>>

\* clientstream_close: idempotent.
Close ==
  /\ socketOpen' = FALSE /\ closed' = TRUE
  /\ UNCHANGED <<inFlight, kernel, peerClosed, buf, bufPos, rd>>
=============================================================================
