--------------------------- MODULE PacketChannel ----------------------------
(***************************************************************************)
(* What the client's packet layer promises: within one connection, packets *)
(* are handled in the order the server sent them, each one once, none      *)
(* altered.  A new connection starts from nothing, on both sides at once.  *)
(***************************************************************************)
EXTENDS Integers, Sequences

VARIABLES
  session,    \* number of the connection
  sent,       \* packets the server has sent on it
  handled     \* packets the client has handled from it

vars == <<session, sent, handled>>

Init == session = 0 /\ sent = <<>> /\ handled = <<>>

Send ==
  /\ Len(sent') = Len(sent) + 1
  /\ SubSeq(sent', 1, Len(sent)) = sent
  /\ UNCHANGED <<session, handled>>

Handle ==
  /\ Len(handled) < Len(sent)
  /\ handled' = Append(handled, sent[Len(handled) + 1])
  /\ UNCHANGED <<session, sent>>

Restart ==
  /\ session' = session + 1
  /\ sent' = <<>> /\ handled' = <<>>

Next == Send \/ Handle \/ Restart

Spec == Init /\ [][Next]_vars
=============================================================================
