------------------------------ MODULE MCDevices ------------------------------
(***************************************************************************)
(* One small instance of each part of Devices.  They share no state, so a  *)
(* behaviour steps one of them, chosen in its first state; the others      *)
(* stand in their initial state.                                           *)
(***************************************************************************)
EXTENDS Devices, TLC

VARIABLE part

\* A computer's list has room for one Xbox, and there are two; one of them
\* logs in twice and is started twice.
PerXbox == "x1" :> 2 @@ "x2" :> 1

\* Every text of two characters, of half a byte or a whole one, letters, the
\* end of a sentence and the end of the table; and some of three.
TextsOf(n, chars) == [1..n -> chars]

ShortTexts == TextsOf(1, Chars) \cup TextsOf(2, Chars) \cup TextsOf(3, {1, 26, 40})

\* Three things, the third a certificate of the first.
Certificates == 3 :> 1

Symmetry == Permutations(Pads)

Parts == {"tracking", "controller", "discovery", "music", "chat", "cache"}

DevicesInit ==
    /\ part \in Parts
    /\ Init /\ C!Init /\ D!Init /\ H!Init /\ K!Init
    /\ M!Init /\ (part = "music" \/ font)

Others(p) ==
    /\ UNCHANGED part
    /\ p # "tracking" => UNCHANGED vars
    /\ p # "controller" => UNCHANGED controller
    /\ p # "discovery" => UNCHANGED discovery
    /\ p # "music" => UNCHANGED music
    /\ p # "chat" => UNCHANGED chat
    /\ p # "cache" => UNCHANGED cache

DevicesNext ==
    \/ part = "tracking" /\ Next /\ Others(part)
    \/ part = "controller" /\ C!Next /\ Others(part)
    \/ part = "discovery" /\ D!Next /\ Others(part)
    \/ part = "music" /\ M!Next /\ Others(part)
    \/ part = "chat" /\ H!Next /\ Others(part)
    \/ part = "cache" /\ K!Next /\ Others(part)

allVars == <<part, vars, controller, discovery, music, chat, cache>>

DevicesSpec == DevicesInit /\ [][DevicesNext]_allVars
=============================================================================
