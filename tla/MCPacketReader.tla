--------------------------- MODULE MCPacketReader ---------------------------
(***************************************************************************)
(* A small instance of PacketReader: five byte values; LOGOUT and a type   *)
(* nobody knows without payload, a type of a fixed size, one with a        *)
(* one-byte and one with a two-byte length.                                *)
(***************************************************************************)
EXTENDS PacketReader

MCSizes == [t \in 0..4 |-> CASE t = 1 -> 2 [] t = 2 -> -1 [] t = 3 -> -2 [] OTHER -> 0]
MCUnknown == {4}
MCKeystream == <<3, 1, 2>>
=============================================================================
