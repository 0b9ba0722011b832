--------------------------------- MODULE Relay --------------------------------
(***************************************************************************)
(* One session of Connect: the two pumps that carry a game connection      *)
(* between two sockets.  Gateway.Forward and Gateway.Pump                  *)
(* (connect/src/Connect.Core/Gateway.cs) and DirectTunnel.Bridge and Pump  *)
(* (connect/src/Connect.Core/DirectTunnel.cs) are the same program with    *)
(* another time limit.                                                     *)
(*                                                                         *)
(* "up" carries from the local side to the remote side, "down" the other   *)
(* way.  A byte stream is counted, not spelled out: a byte is known by its *)
(* position in the stream it belongs to.                                   *)
(***************************************************************************)
EXTENDS Integers, FiniteSets

CONSTANTS
  MaxSent,    \* bound: chunks a side sends
  MayFail,    \* a socket may fail
  Secure      \* directions whose destination is the TLS stream of a tunnel

ASSUME RelayBounds ==
  MaxSent \in Nat /\ MayFail \in BOOLEAN /\ Secure \subseteq {"up", "down"}

VARIABLES
  sent,     \* chunks the source of a direction has sent
  source,   \* the source's half: "open", "closed" after its last chunk, "reset"
  carried,  \* chunks the pump has read
  got,      \* chunks the destination's socket has been given
  ending,   \* what the destination has been told: nothing, "eof" or "reset"
  pump,     \* where the pump of a direction is
  pair,     \* the token of the pair: "live", "timed" (CancelAfter), "expired", "cancelled"
  stopped,  \* the service's token is cancelled
  session   \* "open" while Forward waits, "over" when it has disposed of both

relayVars == <<sent, source, carried, got, ending, pump, pair, stopped, session>>

Directions == {"up", "down"}
Back(d) == IF d = "up" THEN "down" ELSE "up"
Finished == {"done", "faulted", "cancelled"}
Cancelled == stopped \/ pair \in {"expired", "cancelled"}

RelayInit ==
  /\ sent = [d \in Directions |-> 0] /\ carried = [d \in Directions |-> 0]
  /\ got = [d \in Directions |-> 0]
  /\ source = [d \in Directions |-> "open"] /\ ending = [d \in Directions |-> "none"]
  /\ pump = [d \in Directions |-> "read"]
  /\ pair = "live" /\ stopped = FALSE /\ session = "open"

(***************************************************************************)
(* The programs on both ends.                                              *)
(***************************************************************************)

Send(d) ==
  /\ source[d] = "open" /\ sent[d] < MaxSent /\ session = "open"
  /\ sent' = [sent EXCEPT ![d] = @ + 1]
  /\ UNCHANGED <<source, carried, got, ending, pump, pair, stopped, session>>

Close(d) ==
  /\ source[d] = "open"
  /\ source' = [source EXCEPT ![d] = "closed"]
  /\ UNCHANGED <<sent, carried, got, ending, pump, pair, stopped, session>>

\* A socket fails for both directions: its own stream ends and nothing more
\* can be written to it.
Fail(d) ==
  /\ MayFail /\ source[d] # "reset" /\ session = "open"
  /\ source' = [source EXCEPT ![d] = "reset"]
  /\ ending' = [ending EXCEPT ![Back(d)] = "reset"]
  /\ UNCHANGED <<sent, carried, got, pump, pair, stopped, session>>

Stop ==
  /\ ~stopped
  /\ stopped' = TRUE
  /\ UNCHANGED <<sent, source, carried, got, ending, pump, pair, session>>

(***************************************************************************)
(* Pump: CopyToAsync, then Shutdown(Send) of the destination.              *)
(***************************************************************************)

\* Seeded fault: the end of the source is seen before the data in front of it.
ReadEndFirst(d) ==
  /\ pump[d] = "read"
  /\ \/ /\ source[d] = "open" /\ carried[d] < sent[d]
        /\ carried' = [carried EXCEPT ![d] = sent[d]]
        /\ pump' = [pump EXCEPT ![d] = "write"]
     \/ /\ source[d] = "closed"
        /\ pump' = [pump EXCEPT ![d] = "shutdown"] /\ UNCHANGED carried
     \/ /\ source[d] = "reset"
        /\ pump' = [pump EXCEPT ![d] = "faulted"] /\ UNCHANGED carried
  /\ UNCHANGED <<sent, source, got, ending, pair, stopped, session>>

\* The next read of the copy: data, the end, or the failure of the source,
\* which overtakes data that was not read.
Read(d) ==
  /\ pump[d] = "read"
  /\ \/ /\ source[d] # "reset" /\ carried[d] < sent[d]
        /\ carried' = [carried EXCEPT ![d] = sent[d]]
        /\ pump' = [pump EXCEPT ![d] = "write"]
     \/ /\ source[d] = "closed" /\ carried[d] = sent[d]
        /\ pump' = [pump EXCEPT ![d] = "shutdown"] /\ UNCHANGED carried
     \/ /\ source[d] = "reset"
        /\ pump' = [pump EXCEPT ![d] = "faulted"] /\ UNCHANGED carried
  /\ UNCHANGED <<sent, source, got, ending, pair, stopped, session>>

\* Seeded fault: a short write is taken for a whole one.
WriteSome(d) ==
  /\ pump[d] = "write"
  /\ \/ /\ ending[d] = "none"
        /\ \E n \in got[d] + 1..carried[d] : got' = [got EXCEPT ![d] = n]
        /\ pump' = [pump EXCEPT ![d] = "read"]
     \/ /\ ending[d] = "reset"
        /\ pump' = [pump EXCEPT ![d] = "faulted"] /\ UNCHANGED got
  /\ UNCHANGED <<sent, source, carried, ending, pair, stopped, session>>

Write(d) ==
  /\ pump[d] = "write"
  /\ \/ /\ ending[d] = "none"
        /\ got' = [got EXCEPT ![d] = carried[d]]
        /\ pump' = [pump EXCEPT ![d] = "read"]
     \/ /\ ending[d] = "reset"
        /\ pump' = [pump EXCEPT ![d] = "faulted"] /\ UNCHANGED got
  /\ UNCHANGED <<sent, source, carried, ending, pair, stopped, session>>

\* The half-close; a socket that has failed meanwhile is no failure, but a TLS
\* stream has its last message to send.
Shutdown(d) ==
  /\ pump[d] = "shutdown"
  /\ pump' = [pump EXCEPT ![d] = IF d \in Secure /\ ending[d] = "reset" THEN "faulted" ELSE "done"]
  /\ ending' = [ending EXCEPT ![d] = IF @ = "none" THEN "eof" ELSE @]
  /\ UNCHANGED <<sent, source, carried, got, pair, stopped, session>>

\* A cancelled read or write is given up, and so is the wait for the end of a
\* TLS stream; of a write a part may have left.
Cancel(d) ==
  /\ Cancelled
  /\ pump[d] \in {"read", "write"} \/ (pump[d] = "shutdown" /\ d \in Secure)
  /\ pump' = [pump EXCEPT ![d] = "cancelled"]
  /\ IF pump[d] = "write" /\ ending[d] = "none"
     THEN \E n \in got[d]..carried[d] : got' = [got EXCEPT ![d] = n]
     ELSE UNCHANGED got
  /\ \/ UNCHANGED ending
     \/ pump[d] = "shutdown" /\ ending[d] = "none" /\ ending' = [ending EXCEPT ![d] = "eof"]
  /\ UNCHANGED <<sent, source, carried, pair, stopped, session>>

(***************************************************************************)
(* Forward: WhenAny, then WhenAll, then both sockets are disposed of.      *)
(***************************************************************************)

\* Seeded fault: the first direction that ends takes the other one with it.
FirstEndsAll ==
  /\ session = "open" /\ pair = "live"
  /\ \E d \in Directions : pump[d] \in Finished
  /\ pair' = "cancelled"
  /\ UNCHANGED <<sent, source, carried, got, ending, pump, stopped, session>>

\* A failed direction cancels the other; after an end in order the other has
\* its time limit (30 s; 5 s in Bridge).
FirstEnds ==
  /\ session = "open" /\ pair = "live"
  /\ \E d \in Directions :
       /\ pump[d] \in Finished
       /\ pair' = IF pump[d] = "done" THEN "timed" ELSE "cancelled"
  /\ UNCHANGED <<sent, source, carried, got, ending, pump, stopped, session>>

TimeLimit ==
  /\ pair = "timed"
  /\ pair' = "expired"
  /\ UNCHANGED <<sent, source, carried, got, ending, pump, stopped, session>>

\* The sockets are closed; a destination that was told nothing reads an end,
\* or a failure when the socket held data that nobody read.
EndSession ==
  /\ session = "open" /\ pair # "live" /\ \A d \in Directions : pump[d] \in Finished
  /\ session' = "over"
  /\ ending' \in [Directions -> {"eof", "reset"}]
  /\ \A d \in Directions : ending[d] # "none" => ending'[d] = ending[d]
  /\ UNCHANGED <<sent, source, carried, got, pump, pair, stopped>>

RelayRest == session = "over" /\ UNCHANGED relayVars

RelayNext ==
  \/ (\E d \in Directions : Send(d) \/ Close(d) \/ Fail(d))
  \/ Stop
  \/ (\E d \in Directions : Read(d) \/ Write(d) \/ Shutdown(d) \/ Cancel(d))
  \/ FirstEnds \/ TimeLimit \/ EndSession
  \/ RelayRest

RelaySpec == RelayInit /\ [][RelayNext]_relayVars

\* The pool runs what is ready, the timer fires; the programs on both ends may
\* be silent for ever.
RelayFairSpec ==
  /\ RelaySpec
  /\ \A d \in Directions :
       /\ WF_relayVars(Read(d)) /\ WF_relayVars(Write(d))
       /\ WF_relayVars(Shutdown(d)) /\ WF_relayVars(Cancel(d))
  /\ WF_relayVars(FirstEnds) /\ WF_relayVars(TimeLimit) /\ WF_relayVars(EndSession)

(***************************************************************************)
(* Properties.                                                             *)
(***************************************************************************)

\* The variables have their types, and nothing arrives that was not sent.
RelayTypeOK ==
  /\ sent \in [Directions -> 0..MaxSent]
  /\ \A d \in Directions : 0 <= got[d] /\ got[d] <= carried[d] /\ carried[d] <= sent[d]
  /\ source \in [Directions -> {"open", "closed", "reset"}]
  /\ ending \in [Directions -> {"none", "eof", "reset"}]
  /\ pump \in [Directions -> {"read", "write", "shutdown"} \cup Finished]
  /\ pair \in {"live", "timed", "expired", "cancelled"} /\ stopped \in BOOLEAN
  /\ session \in {"open", "over"}

\* While the session is open, a side that reads the end of the stream has read
\* everything the other side sent before it.
EndIsTheEnd ==
  session = "open" => \A d \in Directions : ending[d] = "eof" => got[d] = sent[d]

\* "Preserve TCP half-close while allowing a failed direction to cancel the
\* other" (Gateway.cs:53): next to a direction that has ended in order, the other
\* is cut off by the time limit or a stop and by nothing else.
HalfCloseIsPreserved ==
  \A d \in Directions :
    pump[Back(d)] = "done" /\ pump[d] = "cancelled" => stopped \/ pair = "expired"

\* What a side sent before it closed arrives, while the other side is still
\* there to read it: its own end in order starts no time limit for it.
AllIsCarried ==
  \A d \in Directions :
    source[d] = "closed" ~> got[d] = sent[d] \/ stopped \/ source[Back(d)] # "open" \/ source[d] = "reset"

=============================================================================
