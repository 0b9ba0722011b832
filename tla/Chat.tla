--------------------------------- MODULE Chat ---------------------------------
(* A private message from the client that writes it to the one that reads it: *)
(* wordpack.c, jstring_to_sentence_case, and the handling of MESSAGE_PRIVATE  *)
(* in client.c.  A character is its place in wordpack.c's TABLE, where the    *)
(* first thirteen take half a byte and the others a whole one.                *)
(*                                                                            *)
(* The server is external: it numbers each message, and may send it on more   *)
(* than once.  Both clients filter what they show alike; the filter is left   *)
(* out.                                                                       *)
EXTENDS Integers, Sequences

CONSTANTS
    Chars,       \* characters of the table that are typed
    MaxLength,   \* 80 in the code
    Texts,       \* texts explored, a set of sequences of Chars
    Remembered,  \* 100 numbers of messages in the code
    MaxMessages, MaxShown

ChatAssumption ==
    /\ Chars \subseteq 0..60 /\ MaxLength \in Nat /\ Remembered \in Nat \ {0}
    /\ MaxMessages \in Nat
    /\ \A t \in Texts : t \in Seq(Chars) /\ Len(t) \in 1..MaxLength

VARIABLES
    written,              \* what the writer shows of each message
    sent,                 \* its bytes
    messageIds,           \* the numbers the reader remembers
    privateMessageCount,  \* where it puts the next one
    shown                 \* what the reader showed: the number and the text

vars == <<written, sent, messageIds, privateMessageCount, shown>>

TypeOK ==
    /\ written \in Seq(Seq((0..60) \X BOOLEAN)) /\ sent \in Seq(Seq(0..255))
    /\ Len(written) = Len(sent) /\ Len(sent) <= MaxMessages
    /\ messageIds \in [0..(Remembered - 1) -> Nat]
    /\ privateMessageCount \in 0..(Remembered - 1)
    /\ shown \in Seq([id : DOMAIN sent, text : Seq((0..60) \X BOOLEAN)])

Init ==
    /\ written = <<>> /\ sent = <<>> /\ shown = <<>>
    /\ messageIds = [i \in 0..(Remembered - 1) |-> 0] /\ privateMessageCount = 0

-----------------------------------------------------------------------------
None == -1
Letter(c) == c \in 1..26
EndsSentence(c) == c \in {38, 40}     \* ! .

\* jstring_to_sentence_case, and the end of wordpack_unpack: the first letter
\* of a sentence is a capital.  A character is shown with whether it is one.
Cased(s, c) ==
    [chars   |-> Append(s.chars, <<c, s.capital /\ Letter(c)>>),
     capital |-> EndsSentence(c) \/ (s.capital /\ ~Letter(c))]

SentenceCase(text) ==
    LET cased[n \in 0..Len(text)] ==
            IF n = 0 THEN [chars |-> <<>>, capital |-> TRUE]
            ELSE Cased(cased[n - 1], text[n])
    IN  cased[Len(text)].chars

\* Seeded fault: a half byte that is left over is not sent.
LastHalfLost(s) == s.bytes

\* wordpack_pack: half bytes, the first of a pair carried over.
AllHalves(s) == IF s.carry = None THEN s.bytes ELSE Append(s.bytes, s.carry * 16)

Index(c) == IF c > 12 THEN c + 195 ELSE c

Packed(s, c) ==
    IF s.carry = None
    THEN IF Index(c) < 13 THEN [bytes |-> s.bytes, carry |-> Index(c)]
         ELSE [bytes |-> Append(s.bytes, Index(c)), carry |-> None]
    ELSE IF Index(c) < 13
    THEN [bytes |-> Append(s.bytes, s.carry * 16 + Index(c)), carry |-> None]
    ELSE [bytes |-> Append(s.bytes, s.carry * 16 + Index(c) \div 16),
          carry |-> Index(c) % 16]

Pack(text) ==
    LET packed[n \in 0..Len(text)] ==
            IF n = 0 THEN [bytes |-> <<>>, carry |-> None]
            ELSE Packed(packed[n - 1], text[n])
    IN  AllHalves(packed[Len(text)])

\* wordpack_unpack: of each byte the upper half, then the lower.
Half(s, nibble) ==
    IF s.carry # None
    THEN [chars |-> Append(s.chars, s.carry * 16 + nibble - 195), carry |-> None]
    ELSE IF nibble < 13 THEN [chars |-> Append(s.chars, nibble), carry |-> None]
    ELSE [chars |-> s.chars, carry |-> nibble]

Unpacked(bytes) ==
    LET halves[n \in 0..Len(bytes)] ==
            IF n = 0 THEN [chars |-> <<>>, carry |-> None]
            ELSE Half(Half(halves[n - 1], bytes[n] \div 16), bytes[n] % 16)
    IN  halves[Len(bytes)]

Unpack(bytes) == SentenceCase(Unpacked(bytes).chars)

-----------------------------------------------------------------------------
\* handleInputKey: the message is sent, and shown to its writer.
Write(text) ==
    /\ Len(sent) < MaxMessages
    /\ sent' = Append(sent, Pack(text))
    /\ written' = Append(written, SentenceCase(text))
    /\ UNCHANGED <<messageIds, privateMessageCount, shown>>

\* MESSAGE_PRIVATE: a number that is remembered is not shown again.
Read(id) ==
    /\ id \in DOMAIN sent
    /\ \/ /\ \E i \in DOMAIN messageIds : messageIds[i] = id
          /\ UNCHANGED <<messageIds, privateMessageCount, shown>>
       \/ /\ \A i \in DOMAIN messageIds : messageIds[i] # id
          /\ Len(shown) < MaxShown
          /\ messageIds' = [messageIds EXCEPT ![privateMessageCount] = id]
          /\ privateMessageCount' = (privateMessageCount + 1) % Remembered
          /\ shown' = Append(shown, [id |-> id, text |-> Unpack(sent[id])])
    /\ UNCHANGED <<written, sent>>

Next == (\E text \in Texts : Write(text)) \/ \E id \in 1..MaxMessages : Read(id)

Spec == Init /\ [][Next]_vars

-----------------------------------------------------------------------------
\* The reader sees what the writer sees, but for a blank that half a byte left
\* over may add, and sees it once, however often it comes, as long as its
\* number is remembered.
Blank == <<0, FALSE>>

ReadsAsWritten ==
    \A i \in DOMAIN shown :
        /\ shown[i].text \in {written[shown[i].id], Append(written[shown[i].id], Blank)}
        /\ \A j \in 1..(i - 1) : i - j <= Remembered => shown[i].id # shown[j].id
=============================================================================
